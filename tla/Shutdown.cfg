CONSTANTS
    DB = {d1, d2}
    NoDB = none
    MaxBatches = 2
    Grace = 2
SPECIFICATION Spec
INVARIANTS TypeOK SavedIsInTopic NeverUsedAfterClose
PROPERTIES SignalStops 
