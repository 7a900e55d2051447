CONSTANTS
    DB = {d1}
    NoDB = none
    Id = {1, 2}
    BatchLimit = 1
    Unmappable = {}
    MaxTime = 2
    CommitLag = 1
    Modes = {FALSE, TRUE}
    SinceDurations = {0, 1}
    Untils <- AnyBound
    SaveFaults = {"unresolved", "unwritten", "emptied", "torn"}
SPECIFICATION Spec
INVARIANTS TypeOK NoSilentGap HeartbeatFollowsSuccess RewindBounded
PROPERTIES ReplayOwesNothing CompletionClamped RegressesOnlyOnRewind RewindExposesWindow
CHECK_DEADLOCK FALSE
