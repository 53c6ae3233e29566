SPECIFICATION StreamFairSpec
CONSTANTS
    Streams = {s1, s2, s3}
    MaxCrashes = 1
\* Hold too on this instance: StreamTypeOK, StreamIInv, NeverBack.
INVARIANTS
    OutcomeTold
PROPERTIES
    EndTold
CHECK_DEADLOCK FALSE
