SPECIFICATION FairSpec
CONSTANTS
    Docs = {d1}
    Sections = 2
    Edits = {e1}
    Chats = {c1}
    MaxTokens = 1
    MaxSaves = 2
    MaxCrashes = 1
\* Hold too on this instance: IInv, TypeOK, VersionsNumbered, StreamEnds, AskEnds.
INVARIANTS
    ReadyMeansWhole
    StreamTold
    NoOrphans
PROPERTIES
    Implements
CHECK_DEADLOCK FALSE
