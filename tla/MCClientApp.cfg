SPECIFICATION Spec
CONSTANTS
    Calls = {c1, c2}
    Boot = Boot
    Names = {a, b}
    NoManager = NoManager
    NoCreds = NoCreds
    NoEdit = NoEdit
    Torn = Torn
SYMMETRY Symmetry
INVARIANTS
    TypeOK
    NoStrayManager
    RestartResumes
    NoTunnelForgotten
