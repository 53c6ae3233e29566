CONSTANTS
    Calls = {c1, c2}
    Models = {m1, m2}
    Default = m1
    Texts = {t1, t2}
    MaxTexts = 3
    Batch = 2
    MaxRows = 2
    Interval = 2
    MaxCrashes = 1
SPECIFICATION CallsFairSpec
\* Hold too on this instance: CallsTypeOK, CallsIInv, OneRowPerText, PoolSettles, CallEnds.
INVARIANTS
    EveryTextItsVector
PROPERTIES
    NewestStay
CHECK_DEADLOCK FALSE
