CONSTANTS
    Docs = {d1, d2}
    Llms = {"ollama", "openai", "olama"}
    KnownLlms = {"ollama", "openai"}
    Embeddings <- MCLocal
    Dimensions <- MCSizes
    First <- MCFirst
    Factory <- MCFirst
    Bodies <- MCBodies
    Batches = {0, 2}
    MaxPuts = 2
    MaxStops = 1
SPECIFICATION Spec
SYMMETRY Symmetry
\* Hold too on this instance: IInv, OneSize.
INVARIANTS
    
    
    LlmFollowsSettings
CHECK_DEADLOCK FALSE
