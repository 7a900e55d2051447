CONSTANTS
    Session = {s1}
    Project = {p1}
    NoProject = none
    ProjectOf <- OneProject
    Key = {k1, k2}
    Candidates <- SomeRows
    Stages <- SomeStages
    MaxVersion = 1
    MaxBacklog = 2
    BatchLimit = 1
SPECIFICATION Spec
INVARIANTS TypeOK ContextNotOlder
PROPERTIES UsageNotDelayed SnapshotsConverge
