SPECIFICATION MCSpec
CONSTANTS
    Tunnels = {t1, t2}
    Ghost = Ghost
    Nobody = Nobody
    MaxBackoff = 4
    MaxTroubles = 3
PROPERTIES
    ConnectedComesTrue
    NameGetsServedUnlessStalled
    RefusedBacksOff
