SPECIFICATION Spec
CONSTANTS
    Signums = {1, 2}
    Alarms = {0, 1}
    UintMod = 4
    MaxSent = 3
    MaxStack = 18
INVARIANT ContextRestored
CHECK_DEADLOCK FALSE
