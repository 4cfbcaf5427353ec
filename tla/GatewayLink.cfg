SPECIFICATION FairSpec
CONSTANTS
    NoArg = NoArg
    p1 = p1
    w1 = w1
    s1 = s1
    s2 = s2
    CvnMax = 3
    MaxRepeat = 3
    CounterMax = 127
    Module = {"DATA"}
    InitRunning = {"DATA"}
    Period = {p1}
    InitPeriod = p1
    Power = {w1}
    InitPower = w1
    Session = {s1, s2}
    Orders <- MCOrders
    WireMax = 4
    MaxRefused = 1
    MaxCrashes = 2
INVARIANTS TypeOK Links KeepsStream InStep
PROPERTIES Reachable
