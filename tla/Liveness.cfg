CONSTANTS
    DB = {d1, d2}
    NoDB = none
    Id = {1}
    BatchLimit = 1
    Unmappable <- OneUnmappable
    MaxTime = 1
    CommitLag = 0
    Modes = {FALSE, TRUE}
    SinceDurations = {0, 1}
    Untils <- NoBound
    SaveFaults = {"unwritten", "emptied"}
SPECIFICATION LiveSpec
INVARIANTS HeartbeatFollowsSuccess
PROPERTIES ImplementsDelivery EventuallyDelivered ReplayTerminates KeepsBeingHeard
