SPECIFICATION FairSpec
CONSTANTS
    Jobs = {j1, j2, j3}
    QueueSize = 1
    MaxConcurrent = 2
\* Hold too on this instance: FairRefinement, FinishedExpires.
INVARIANTS
    IInv
PROPERTIES
    CancelledNeverBegins
    NoOvertaking
    Refinement
    AcceptedSettles
CHECK_DEADLOCK FALSE
