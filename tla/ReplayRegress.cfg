CONSTANTS
    DB = {d1}
    NoDB = none
    Id = {1, 2}
    BatchLimit = 1
    Unmappable = {}
    MaxTime = 2
    CommitLag = 0
    Modes = {FALSE, TRUE}
    SinceDurations = {0}
    Untils <- OneBound
    SaveFaults = {"unwritten"}
SPECIFICATION Spec
INVARIANTS NeverBelowPreReplay
