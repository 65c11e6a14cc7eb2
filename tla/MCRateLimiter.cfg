SPECIFICATION Spec
CONSTANTS
    Calls = {c1, c2, c3}
    Limits = {0, 1, 2, 3}
    Lags = {0, 2}
    Second = 3
    Absent = Absent
SYMMETRY Alike
INVARIANTS
    TypeOK
    BurstBound
    RejectedOnlyWhenUsedUp
