----------------------------- MODULE MCRetrieval -----------------------------
(* Three chunks, two of them children of one parent, two related entities, *)
(* a query and its rewritten form that order the chunks differently.       *)
EXTENDS Retrieval

CONSTANTS c1, c2, c3, p1, e1, e2, asked, rewritten

MCRows == <<c1, c2, c3>>
MCGroup == [c \in {c1, c2, c3} |-> IF c = c3 THEN c3 ELSE p1]
MCMentions == [e \in {e1, e2} |-> IF e = e1 THEN {c1} ELSE {c2, c3}]
MCRelated == {{e1, e2}}
MCRel == [q \in {asked, rewritten} |->
            [c \in {c1, c2, c3} |-> IF c = c2 THEN 7 ELSE IF (c = c1) = (q = asked) THEN 8 ELSE 3]]
MCSim == [c \in {c1, c2, c3} |-> [d \in {c1, c2, c3} |-> IF c = d THEN 10 ELSE IF c3 \in {c, d} THEN 1 ELSE 9]]
=============================================================================
