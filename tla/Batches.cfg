CONSTANTS
    DB = {d1}
    NoDB = none
    Id = {1, 2, 3}
    BatchLimit = 2
    Unmappable = {}
    MaxTime = 2
    CommitLag = 1
    Modes = {FALSE, TRUE}
    SinceDurations = {0}
    Untils <- NoBound
    SaveFaults = {"unwritten", "emptied"}
SPECIFICATION Spec
INVARIANTS NoSilentGap
PROPERTIES ReplayOwesNothing RewindExposesWindow BatchAdvances
