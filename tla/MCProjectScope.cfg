SPECIFICATION Spec
CONSTANTS
    Projects = {p1}
    Docs = {d1}
    Queries = {q1, q2}
    Models = {3, 4}
    Default = 3
    Shared = shared
SYMMETRY Symmetry
\* Holds too on this instance: IInv.
INVARIANTS
    NeverForeign
    NoGhost
    CollectionFits
    PointsKept
CHECK_DEADLOCK FALSE
