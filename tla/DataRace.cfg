SPECIFICATION SafeSpec
CONSTANTS
    s1 = s1
    s2 = s2
    Sender = {s1}
    SeqMax = 255
    MaxReadings = 2
    MaxReboots = 0
INVARIANTS Kept
CHECK_DEADLOCK FALSE
