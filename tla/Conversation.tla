---------------------------- MODULE Conversation ----------------------------
(***************************************************************************)
(* What a stored conversation promises, whatever files it is kept in: a    *)
(* turn is heard, question and answer together, only after its request     *)
(* came to store it, never when the request failed, and never in a         *)
(* session that was deleted.  A rewrite may forget turns or bring them     *)
(* back, but makes none up.                                                *)
(***************************************************************************)
EXTENDS Naturals

CONSTANT Turns

VARIABLES state,  \* of the session
          phase,  \* of the request of each turn
          heard   \* the turns the session answers for

vars == <<state, phase, heard>>

Init ==
    /\ state = "unborn"
    /\ phase = [t \in Turns |-> "idle"]
    /\ heard = {}

Written == {t \in Turns : phase[t] = "written"}

Create ==
    /\ state = "unborn"
    /\ state' = "live"
    /\ UNCHANGED <<phase, heard>>

(* A question is accepted; without a session it creates one.               *)
Open(t) ==
    /\ state # "deleted"
    /\ state' = "live"
    /\ phase[t] = "idle"
    /\ phase' = [phase EXCEPT ![t] = "open"]
    /\ UNCHANGED heard

Commit(t) ==
    /\ state = "live"
    /\ phase[t] = "open"
    /\ phase' = [phase EXCEPT ![t] = "written"]
    /\ UNCHANGED <<state, heard>>

(* Requests end without storing anything.                                  *)
Ended ==
    /\ phase' \in [Turns -> {"idle", "open", "written", "over"}]
    /\ \A t \in Turns : phase'[t] # phase[t] => phase[t] \in {"idle", "open"} /\ phase'[t] = "over"

Close == Ended /\ UNCHANGED <<state, heard>>

(* A crash ends them all and may fall into the writing of turns.           *)
Crash ==
    /\ state = "live"
    /\ Ended
    /\ heard' \in SUBSET Written
    /\ UNCHANGED state

Rewrite ==
    /\ state = "live"
    /\ heard' \in SUBSET Written
    /\ UNCHANGED <<state, phase>>

Delete ==
    /\ state = "live"
    /\ state' = "deleted"
    /\ heard = {}
    /\ UNCHANGED <<phase, heard>>

Next == Create \/ (\E t \in Turns : Open(t) \/ Commit(t)) \/ Close \/ Crash \/ Rewrite \/ Delete

Spec == Init /\ [][Next]_vars
=============================================================================
