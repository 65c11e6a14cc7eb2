SPECIFICATION MCSpec
CONSTANTS
    Conns = {c1, c2, c3}
    NoConn = NoConn
    NoId = NoId
    NoToken = NoToken
    app = app
    admin = admin
    good = good
    bad = bad
    ClientIds <- MCClientIds
    Reserved <- MCReserved
    Presented <- MCPresented
    Tokens <- MCTokens
INVARIANTS
    RegistryMatchesSessions
    OnlyAdmittedAreRouted
PROPERTIES
    EntryLeavesWithItsDriver
    ImplementsLease
    RoutedOrCutOff
    LostClientsFreeTheirIdUnlessStalled
