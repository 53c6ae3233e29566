SPECIFICATION FairSpec
CONSTANTS
    Workers = {"loop", "manual"}
    Grades = {g1}
    Poor = {g1}
    MaxRuns = 2
    MaxClusters = 1
    MaxCrashes = 1
    MaxDocs = 6
    Threshold = 1
    Frequent = 1
\* Hold too on this instance: IInv, TypeOK.
INVARIANTS
    OneRunning
    UpdatedIsWritten
    DoneIsProcessed
PROPERTIES
    TriggeredRunEnds
CHECK_DEADLOCK FALSE
