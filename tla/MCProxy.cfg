SPECIFICATION MCSpec
CONSTANTS
    Conns = {c1, c2}
    Requests = {r1, r2}
    NoConn = NoConn
    NoId = NoId
    NoToken = NoToken
    app = app
    blog = blog
    good = good
    ClientIds <- MCClientIds
    Reserved <- MCReserved
    Presented <- MCTokens
    Tokens <- MCTokens
INVARIANTS
    ProxyTypeOK
    GaugesExact
    RightTunnel
PROPERTIES
    LostTunnelSettlesRequestsUnlessStalled
