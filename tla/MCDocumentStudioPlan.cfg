SPECIFICATION Spec
CONSTANTS
    Docs = {d1}
    Sections = 2
    Edits = {e1}
    Chats = {c1}
    MaxTokens = 1
    MaxSaves = 2
    MaxCrashes = 1
INVARIANT ApprovedPlanRuns
CHECK_DEADLOCK FALSE
