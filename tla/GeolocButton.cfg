SPECIFICATION FairSpec
CONSTANTS
    s1 = s1
    s2 = s2
    s3 = s3
    Sender = {s1, s2}
    Link <- MCPair
    DataLength = 2
    OutCap = 2
    MaxPresses = 1
PROPERTIES RequestEnds
