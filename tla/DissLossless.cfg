SPECIFICATION LosslessSpec
CONSTANTS
    k1 = k1
    k2 = k2
    s1 = s1
    s2 = s2
    s3 = s3
    p1 = p1
    p2 = p2
    w1 = w1
    w2 = w2
    NoArg = NoArg
    CvnMax = 4
    MaxRepeat = 3
    CounterMax = 127
    Module = {"DATA", "GEOLOC"}
    InitRunning = {"DATA"}
    Period = {p1, p2}
    InitPeriod = p1
    Power = {w1, w2}
    InitPower = w1
    Sink = {k1}
    Sender = {s1, s2, s3}
    Link <- MCDiamond
    Orders <- MCPowerOrders
    OutCap = 8
    MaxLines = 6
    MaxReboots = 0
INVARIANTS AllInformed Agreement InStep 
PROPERTIES NoSkip
CHECK_DEADLOCK FALSE
