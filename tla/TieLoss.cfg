CONSTANTS
    DB = {d1}
    NoDB = none
    Id = {1, 2}
    BatchLimit = 1
    Unmappable = {}
    MaxTime = 0
    CommitLag = 0
    Modes = {FALSE}
    SinceDurations = {0}
    Untils <- NoBound
    SaveFaults = {"unwritten"}
SPECIFICATION Spec
INVARIANTS NothingSkipped
