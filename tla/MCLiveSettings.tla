--------------------------- MODULE MCLiveSettings ---------------------------
(* Three embedding settings, of which two have one size; one LLM provider  *)
(* the server knows besides the first, and one it does not.                *)
EXTENDS LiveSettings, TLC

Bge == [name |-> "bge-m3", model |-> "bge-m3"]
Base == [name |-> "local", model |-> "bge-base"]
Mpnet == [name |-> "local", model |-> "mpnet-base"]
MCEmbeddings == {Bge, Base, Mpnet}
MCLocal == {Base, Mpnet}
MCSizes == [e \in MCLocal |-> 768]
MCDimensions == [e \in MCEmbeddings |-> IF e = Bge THEN 1024 ELSE 768]
MCBodies == {{}, {"llm"}, {"emb"}, {"backend"}}
MCFirst == [llm |-> "ollama", emb |-> Base, backend |-> "qdrant"]
MCDefault == [llm |-> "ollama", emb |-> Bge, backend |-> "qdrant"]
Symmetry == Permutations(Docs)
=============================================================================
