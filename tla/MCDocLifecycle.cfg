SPECIFICATION FairSpec
CONSTANTS
    Docs = {d1, d2}
    Contents = {c1}
    MaxBatches = 1
    MaxConcurrent = 2
    MaxCrashes = 1
\* Hold too on this instance: IInv, CopiesInv, CopiesBounded.
INVARIANTS
    DoneIsIndexed
    OutcomeIsPersisted
    RowBacked
    CleanDelete
PROPERTIES
    ProcessingEnds
CHECK_DEADLOCK FALSE
