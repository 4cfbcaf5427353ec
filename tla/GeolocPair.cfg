SPECIFICATION FairSpec
CONSTANTS
    s1 = s1
    s2 = s2
    s3 = s3
    Sender = {s1, s2}
    Link <- MCPair
    DataLength = 3
    OutCap = 2
    MaxPresses = 2
PROPERTIES OnlyBeacons AnswersLeave
INVARIANTS TypeOK AnswersKept Conserved
