SPECIFICATION Spec
CONSTANTS
    s1 = s1
    s2 = s2
    Sender = {s1}
    SeqMax = 5
    MaxReadings = 6
    MaxReboots = 1
INVARIANTS TypeOK RatioInRange Exact
CHECK_DEADLOCK FALSE
