SPECIFICATION Spec
CONSTANTS
    k1 = k1
    g3 = g3
    k2 = k2
    g1 = g1
    g2 = g2
    r1 = r1
    r2 = r2
    p1 = p1
    p2 = p2
    w1 = w1
    w2 = w2
    NoArg = NoArg
    None = None
    CvnMax = 65535
    MaxRepeat = 3
    CounterMax = 127
    Module = {"DATA", "GEOLOC"}
    InitRunning = {"DATA"}
    Period = {p1, p2}
    InitPeriod = p1
    Power = {w1, w2}
    InitPower = w1
    Sink = {k1}
    Session = {g1, g2}
    Gateway <- MCOneGateway
    Request = {r1, r2}
    Orders <- MCOrders
INVARIANTS HasVersion
CHECK_DEADLOCK FALSE
