CONSTANTS
    Keys = {"x"}
    Values = {"a", "ok"}
    Timeouts = {0, 21, 201, 749, 1000, 2250}
    Defaults <- MCDefaults
    MaxEdits = 2
    MaxUses = 2
    TooLong = 50
    Second = 5
    Minute = 15
    Hour = 45
    MaxConnect = 200
SPECIFICATION Spec
INVARIANTS RequestArrives DeadlineArrives ResponseArrives
