SPECIFICATION MCSpec
CONSTANTS
    Signums = {1, 2}
    Alarms = {0, 1}
    UintMod = 4
    MaxSent = 2
    MaxStack = 18
    Sessions <- Typed
    MAXARGS = 3
    NPROC = 6
    NOFILE = 6
INVARIANTS
    ResumesInterrupted ParseFollowsGrammar ProgramsWired PromptAfterForeground
PROPERTIES SignalsDelivered PromptReturns
CHECK_DEADLOCK FALSE
