-------------------------- MODULE MCEmbeddingCalls --------------------------
(* Two calls of up to three texts in batches of two, a table of two rows,  *)
(* pruned at every second row stored.                                      *)
EXTENDS EmbeddingCalls
=============================================================================
