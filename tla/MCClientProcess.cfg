SPECIFICATION MCSpec
CONSTANTS
    Clients = {p1, p2}
    Users = {u1}
    Script = Script
    NoPid = NoPid
    Torn = Torn
INVARIANTS
    FileNamesTheClient
    BinaryLostOnlyInTheCopy
PROPERTIES
    ForeignProcessesUntouched
    SignalledClientEnds
    RestartComesBack
