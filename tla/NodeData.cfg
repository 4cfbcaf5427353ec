SPECIFICATION FairSpec
CONSTANTS
    Period <- MCPeriod
    InitPeriod = 5
INVARIANTS TypeOK Punctual AtMostThree
PROPERTIES KeepsSending
