SPECIFICATION CacheSpec
CONSTANTS
    q1 = q1
    q2 = q2
    q3 = q3
    p1 = p1
    p2 = p2
    d1 = d1
    Tasks = {t1, t2}
    CleanQueries = {q1, q2}
    Scopes = {p1, p2}
    Docs = {d1}
    MaxSize = 1
    InScope <- MCInScope
    Dim <- TwoDims
    Similar <- MCSimilar
\* Hold too on this instance: CacheIInv.
INVARIANTS
    CacheBounded
    StaleOnlyByOverlap
SYMMETRY Searches
CHECK_DEADLOCK FALSE
