---------------------------- MODULE JobLifecycle ----------------------------
(***************************************************************************)
(* What the ingestion queue promises about a job, without its queue, tasks *)
(* and registry: an accepted job waits, is then run at most once among at  *)
(* most MaxConcurrent, and ends done or in error; a job is dropped only    *)
(* before it ran.  IngestQueue implements it.                              *)
(***************************************************************************)
EXTENDS Naturals, FiniteSets

CONSTANTS Jobs, MaxConcurrent

VARIABLE phase

Phase == {"new", "waiting", "active", "done", "error", "dropped"}

Init == phase = [j \in Jobs |-> "new"]

Active == {j \in Jobs : phase[j] = "active"}

Move(j, from, to) ==
    /\ phase[j] = from
    /\ phase' = [phase EXCEPT ![j] = to]

Accept(j) == Move(j, "new", "waiting")
Refuse(j) == Move(j, "new", "dropped")
Drop(j)   == Move(j, "waiting", "dropped")
Begin(j)  == Cardinality(Active) < MaxConcurrent /\ Move(j, "waiting", "active")
End(j)    == \E outcome \in {"done", "error"} : Move(j, "active", outcome)

Next == \E j \in Jobs : Accept(j) \/ Refuse(j) \/ Drop(j) \/ Begin(j) \/ End(j)

Spec == Init /\ [][Next]_phase

(* A run that began ends.                                                  *)
FairSpec == Spec /\ \A j \in Jobs : WF_phase(End(j))
=============================================================================
