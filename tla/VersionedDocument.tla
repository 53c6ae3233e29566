------------------------- MODULE VersionedDocument -------------------------
(***************************************************************************)
(* What the store of generated documents promises, whatever generations,   *)
(* saves, failures and crashes it goes through: a document appears once,   *)
(* its saved versions are numbered from 1 without a gap and none is ever   *)
(* changed or dropped, and with the document everything of it goes for     *)
(* good.                                                                   *)
(***************************************************************************)
EXTENDS Naturals, Sequences

CONSTANTS Docs, Contents, Generated

VARIABLES
    phase,   \* "unborn", "live" or "deleted"
    history  \* the versions of each document, oldest first

vars == <<phase, history>>

Init ==
    /\ phase = [d \in Docs |-> "unborn"]
    /\ history = [d \in Docs |-> <<>>]

(* A document appears with its first version, or, cut short, with none.    *)
Appear(d) ==
    /\ phase[d] = "unborn"
    /\ phase' = [phase EXCEPT ![d] = "live"]
    /\ history' \in {history, [history EXCEPT ![d] = <<Generated>>]}

Version(d, content) ==
    /\ phase[d] = "live"
    /\ history' = [history EXCEPT ![d] = Append(@, content)]
    /\ UNCHANGED phase

Vanish(d) ==
    /\ phase[d] = "live"
    /\ phase' = [phase EXCEPT ![d] = "deleted"]
    /\ history' = [history EXCEPT ![d] = <<>>]

Next == \E d \in Docs : Appear(d) \/ (\E c \in Contents : Version(d, c)) \/ Vanish(d)

Spec == Init /\ [][Next]_vars
=============================================================================
