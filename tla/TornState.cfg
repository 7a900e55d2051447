CONSTANTS
    DB = {d1}
    NoDB = none
    Id = {1}
    BatchLimit = 1
    Unmappable = {}
    MaxTime = 0
    CommitLag = 0
    Modes = {FALSE}
    SinceDurations = {0}
    Untils <- NoBound
    SaveFaults = {"torn"}
SPECIFICATION Spec
INVARIANTS CanRestart
CHECK_DEADLOCK FALSE
