---------------------------- MODULE SessionStore ----------------------------
(***************************************************************************)
(* One chat session: SessionManager (backend/sessions/manager.py), the     *)
(* routes of sessions (api/routes/sessions.py), the two query routes that  *)
(* store their turns in it (api/routes/query.py) and its compaction        *)
(* (sessions/compaction.py).  Sessions share nothing, so one is enough.    *)
(*                                                                         *)
(* A session is kept three times: a JSONL file, a meta file and a row.     *)
(* The manager never awaits, so no handler sees its work half done, but a  *)
(* crash may: a handler leaves the writes it makes in `todo`, and nothing  *)
(* but the next write or a crash happens until they are made.  A file that *)
(* is rewritten is empty, or no JSON, in between, and a crash may cut the  *)
(* lines that are being written anywhere: the next append then goes on in  *)
(* the last line, and a line that is no JSON is passed over by the reads.  *)
(*                                                                         *)
(* A message is its role and the parts of turns it stands for: its own, or *)
(* for a summary all those it replaced.  Texts, tokens and titles are left *)
(* out, with the cut inside a character, after which no read succeeds; the *)
(* write of a title is kept for the crash that may meet it.                *)
(* `torn`, `excused` and `glued` are history variables.                    *)
(***************************************************************************)
EXTENDS Integers, Sequences, SequencesExt

CONSTANTS Turns,        \* query requests
          Streamed,     \* those to /query/stream
          Rewriters,    \* clients that compact, or fetch and put the messages back
          MaxMessages,  \* MAX_MESSAGES_PER_SESSION
          ShortChat,    \* the 4 messages that are not compacted
          MaxCrashes    \* bound: crashes of the process

ASSUME SessionAssumption ==
    Streamed \subseteq Turns /\ MaxMessages \in Nat /\ ShortChat \in Nat /\ MaxCrashes \in Nat

VARIABLES
    disk,     \* [file, cut, meta, row]
    todo,     \* the disks the running handler goes through
    life,     \* of the session id
    pc,       \* where each request is
    doing,    \* what each rewriter does
    held,     \* the messages it loaded
    torn,     \* a crash fell into a handler, and no save came after
    excused,  \* turns stored under a rewrite, or hit by a crash inside one
    glued,    \* turns whose question went on in a line that a crash had cut
    crashes

rewriteVars == <<doing, held>>
vars == <<disk, todo, life, pc, rewriteVars, torn, excused, glued, crashes>>

NoRow == -1
Part == Turns \X {"user", "assistant"}
Message == [role : {"user", "assistant", "system"}, of : SUBSET Part]
Meta == [state : {"absent", "broken", "whole"}, count : Nat, compacted : BOOLEAN]

(* The file is its messages and how it ends: after a line, in the part of  *)
(* one, or in a whole one, the last of the messages, but for its newline.  *)
Disk == [file : Seq(Message), cut : {"no", "part", "line"}, meta : Meta, row : Nat \cup {NoRow}]
Open == {"answering", "citing"}

TypeOK ==
    /\ disk \in Disk
    /\ todo \in Seq(Disk)
    /\ life \in {"unborn", "live", "deleted"}
    /\ pc \in [Turns -> Open \cup {"idle", "storing", "done", "failed", "dropped", "lost", "torn"}]
    /\ doing \in [Rewriters -> {"idle", "compacting", "editing"}]
    /\ held \in [Rewriters -> Seq(Message)]
    /\ torn \in BOOLEAN
    /\ excused \in SUBSET Turns
    /\ glued \in SUBSET Turns
    /\ crashes \in 0..MaxCrashes

NoMeta == [state |-> "absent", count |-> 0, compacted |-> FALSE]

NoDisk == [file |-> <<>>, cut |-> "no", meta |-> NoMeta, row |-> NoRow]

Init ==
    /\ disk = NoDisk
    /\ todo = <<>>
    /\ life = "unborn"
    /\ pc = [t \in Turns |-> "idle"]
    /\ doing = [r \in Rewriters |-> "idle"]
    /\ held = [r \in Rewriters |-> <<>>]
    /\ torn = FALSE
    /\ excused = {}
    /\ glued = {}
    /\ crashes = 0

-----------------------------------------------------------------------------
(* The manager: each operation as the disks it goes through.               *)
OpenMeta(d) == [d EXCEPT !.meta.state = "broken"]

PutMeta(d, n, c) == [d EXCEPT !.meta = [state |-> "whole", count |-> n, compacted |-> c]]

(* UPDATE: a missing row stays missing.                                    *)
PutRow(d, n) == IF d.row = NoRow THEN d ELSE [d EXCEPT !.row = n]

(* create_session: an empty JSONL file reads as a missing one.             *)
CreateSteps(d) ==
    LET meta == PutMeta(d, 0, FALSE)
        row == [meta EXCEPT !.row = 0]
    IN  <<OpenMeta(d), meta, row>>

(* The file with these messages, each on its line.                         *)
Lines(d, ms) == [d EXCEPT !.file = ms, !.cut = "no"]

(* The messages that the next append leaves.                               *)
Lasting(d) == IF d.cut = "line" THEN SubSeq(d.file, 1, Len(d.file) - 1) ELSE d.file

(* The writes of a line: one that goes on in a cut line is no message.     *)
LineSteps(d, m) ==
    IF d.cut = "no"
    THEN <<Lines(d, Append(d.file, m))>>
    ELSE <<[d EXCEPT !.file = Lasting(d), !.cut = "part"], Lines(d, Lasting(d))>>

(* append_message: no cap, and the counts are those of the meta file.      *)
AppendSteps(d, m) ==
    LET line == Last(LineSteps(d, m))
        meta == PutMeta(line, d.meta.count + 1, d.meta.compacted)
    IN  LineSteps(d, m) \o <<OpenMeta(line), meta, PutRow(meta, meta.meta.count)>>

(* Faulty: the counts are left to the next append.                         *)
SaveStepsBare(d, ms) ==
    LET whole == Lines(d, ms)
    IN  <<Lines(d, <<>>), whole, OpenMeta(whole), whole, whole>>

(* save_session, once its two checks passed.                               *)
SaveSteps(d, ms) ==
    LET whole == Lines(d, ms)
        meta == PutMeta(whole, Len(ms), d.meta.compacted)
    IN  <<Lines(d, <<>>), whole, OpenMeta(whole), meta, PutRow(meta, Len(ms))>>

(* delete_session.                                                         *)
DeleteSteps(d) ==
    LET line == Lines(d, <<>>)
        meta == [line EXCEPT !.meta = NoMeta]
    IN  <<line, meta, [meta EXCEPT !.row = NoRow]>>

(* _read_meta: a file that is no JSON reads as a missing one.              *)
Readable == disk.meta.state = "whole"

(* A list comprehension.                                                   *)
OfRoles(ms, roles) ==
    LET kept[n \in 0..Len(ms)] ==
            IF n = 0 THEN <<>>
            ELSE IF ms[n].role \in roles THEN Append(kept[n - 1], ms[n]) ELSE kept[n - 1]
    IN  kept[Len(ms)]

Parts(ms) == UNION {m.of : m \in ToSet(ms)}

Said(t, role) == [role |-> role, of |-> {<<t, role>>}]

(* The history a query sends to the model.                                 *)
Prompt(ms) == OfRoles(ms, {"user", "assistant"})

(* compact_session_if_needed with force: the older 60% of the chat become  *)
(* one summary behind the system messages.                                 *)
Chat(ms) == OfRoles(ms, {"user", "assistant"})

Compactable(ms) == Len(Chat(ms)) > ShortChat

(* Faulty: the recent part starts one message early.                       *)
CompactedTwice(ms) ==
    LET chat == Chat(ms)
        split == (Len(chat) * 6) \div 10
        summary == [role |-> "system", of |-> Parts(SubSeq(chat, 1, split))]
    IN  OfRoles(ms, {"system"}) \o <<summary>> \o SubSeq(chat, split, Len(chat))

(* Faulty: the summaries of earlier compactions are not kept.              *)
CompactedFresh(ms) ==
    LET chat == Chat(ms)
        split == (Len(chat) * 6) \div 10
    IN  <<[role |-> "system", of |-> Parts(SubSeq(chat, 2, split))]>> \o SubSeq(chat, split + 1, Len(chat))

Compacted(ms) ==
    LET chat == Chat(ms)
        split == (Len(chat) * 6) \div 10
        summary == [role |-> "system", of |-> Parts(SubSeq(chat, 1, split))]
    IN  OfRoles(ms, {"system"}) \o <<summary>> \o SubSeq(chat, split + 1, Len(chat))

-----------------------------------------------------------------------------
Free == todo = <<>>

Create ==
    /\ Free
    /\ life = "unborn"
    /\ life' = "live"
    /\ todo' = CreateSteps(disk)
    /\ UNCHANGED <<disk, pc, rewriteVars, torn, excused, glued, crashes>>

(* The write of the running handler.                                       *)
Write ==
    /\ todo # <<>>
    /\ disk' = Head(todo)
    /\ todo' = Tail(todo)
    /\ UNCHANGED <<life, pc, rewriteVars, torn, excused, glued, crashes>>

(* _get_or_create_session and the history: a request without a session     *)
(* creates one, one for a session that cannot be read is refused.  The     *)
(* search and the model are awaited in one stage: nothing lies in between. *)
Ask(t) ==
    /\ Free
    /\ pc[t] = "idle"
    /\ IF life = "unborn"
       THEN life' = "live" /\ todo' = CreateSteps(disk)
       ELSE UNCHANGED <<life, todo>>
    /\ pc' = [pc EXCEPT ![t] = IF life = "unborn" \/ Readable THEN "answering" ELSE "failed"]
    /\ UNCHANGED <<disk, rewriteVars, torn, excused, glued, crashes>>

(* A rewrite is under way, or the question goes on in a cut line.          *)
Noted(t) ==
    /\ excused' = IF \E r \in Rewriters : doing[r] # "idle" THEN excused \cup {t} ELSE excused
    /\ glued' = IF disk.cut = "no" THEN glued ELSE glued \cup {t}

(* Faulty: append_message goes on without a meta file.                     *)
PersistUnchecked(t) ==
    LET question == AppendSteps(disk, Said(t, "user"))
    IN  /\ todo' = question \o AppendSteps(Last(question), Said(t, "assistant"))
        /\ pc' = [pc EXCEPT ![t] = "storing"]
        /\ Noted(t)

(* Faulty: the answer is appended in front of its question.                *)
PersistSwapped(t) ==
    LET answer == AppendSteps(disk, Said(t, "assistant"))
    IN  IF Readable
        THEN /\ todo' = answer \o AppendSteps(Last(answer), Said(t, "user"))
             /\ pc' = [pc EXCEPT ![t] = "storing"]
             /\ Noted(t)
        ELSE /\ pc' = [pc EXCEPT ![t] = "failed"]
             /\ UNCHANGED <<todo, excused, glued>>

(* The two appends, question and answer, with no await between them.  They *)
(* raise when the session is gone.                                         *)
Persist(t) ==
    LET question == AppendSteps(disk, Said(t, "user"))
    IN  IF Readable
        THEN /\ todo' = question \o AppendSteps(Last(question), Said(t, "assistant"))
             /\ pc' = [pc EXCEPT ![t] = "storing"]
             /\ Noted(t)
        ELSE /\ pc' = [pc EXCEPT ![t] = "failed"]
             /\ UNCHANGED <<todo, excused, glued>>

(* /query: the model answered.                                             *)
Answered(t) ==
    /\ Free
    /\ pc[t] = "answering"
    /\ t \notin Streamed
    /\ Persist(t)
    /\ UNCHANGED <<disk, life, rewriteVars, torn, crashes>>

(* /query/stream: the stream of tokens ends, or the loop breaks because    *)
(* the client is gone; the citations are sent before anything is stored.   *)
Streams(t) ==
    /\ Free
    /\ pc[t] = "answering"
    /\ t \in Streamed
    /\ pc' = [pc EXCEPT ![t] = "citing"]
    /\ UNCHANGED <<disk, todo, life, rewriteVars, torn, excused, glued, crashes>>

Cited(t) ==
    /\ Free
    /\ pc[t] = "citing"
    /\ Persist(t)
    /\ UNCHANGED <<disk, life, rewriteVars, torn, crashes>>

(* The answer of /query, or the done event.                                *)
Reply(t) ==
    /\ Free
    /\ pc[t] = "storing"
    /\ pc' = [pc EXCEPT ![t] = "done"]
    /\ UNCHANGED <<disk, todo, life, rewriteVars, torn, excused, glued, crashes>>

(* The search or the model raises: HTTP 500, or the error event.           *)
Raise(t) ==
    /\ Free
    /\ pc[t] = "answering"
    /\ pc' = [pc EXCEPT ![t] = "failed"]
    /\ UNCHANGED <<disk, todo, life, rewriteVars, torn, excused, glued, crashes>>

(* The client of a stream disconnects, and the server closes the generator *)
(* at the await or the yield it is in.                                     *)
Close(t) ==
    /\ Free
    /\ t \in Streamed
    /\ pc[t] \in Open
    /\ pc' = [pc EXCEPT ![t] = "dropped"]
    /\ UNCHANGED <<disk, todo, life, rewriteVars, torn, excused, glued, crashes>>

(* Compaction loads the messages and asks for a summary; a short chat is   *)
(* left alone.                                                             *)
Compact(r) ==
    /\ Free
    /\ doing[r] = "idle"
    /\ Readable
    /\ Compactable(disk.file)
    /\ doing' = [doing EXCEPT ![r] = "compacting"]
    /\ held' = [held EXCEPT ![r] = disk.file]
    /\ UNCHANGED <<disk, todo, life, pc, torn, excused, glued, crashes>>

(* save_session; it raises when the session is gone or the list too long.  *)
Save(ms, after) ==
    IF Readable /\ Len(ms) <= MaxMessages
    THEN /\ todo' = SaveSteps(disk, ms) \o after
         /\ torn' = FALSE
    ELSE UNCHANGED <<todo, torn>>

Forget(r) ==
    /\ doing' = [doing EXCEPT ![r] = "idle"]
    /\ held' = [held EXCEPT ![r] = <<>>]

(* The summary came: save it, then note the time in the meta file.         *)
Summarised(r) ==
    /\ Free
    /\ doing[r] = "compacting"
    /\ LET new == Compacted(held[r])
       IN  Save(new, <<PutRow(PutMeta(Lines(disk, new), Len(new), TRUE), Len(new))>>)
    /\ Forget(r)
    /\ UNCHANGED <<disk, life, pc, excused, glued, crashes>>

SummaryFails(r) ==
    /\ Free
    /\ doing[r] = "compacting"
    /\ Forget(r)
    /\ UNCHANGED <<disk, todo, life, pc, torn, excused, glued, crashes>>

(* GET of a session, and PUT of what was got.                              *)
Fetch(r) ==
    /\ Free
    /\ doing[r] = "idle"
    /\ Readable
    /\ doing' = [doing EXCEPT ![r] = "editing"]
    /\ held' = [held EXCEPT ![r] = disk.file]
    /\ UNCHANGED <<disk, todo, life, pc, torn, excused, glued, crashes>>

PutBack(r) ==
    /\ Free
    /\ doing[r] = "editing"
    /\ Save(held[r], <<>>)
    /\ Forget(r)
    /\ UNCHANGED <<disk, life, pc, excused, glued, crashes>>

(* update_title.                                                           *)
Retitle ==
    /\ Free
    /\ Readable
    /\ todo' = <<OpenMeta(disk), disk>>
    /\ UNCHANGED <<disk, life, pc, rewriteVars, torn, excused, glued, crashes>>

Delete ==
    /\ Free
    /\ life = "live"
    /\ life' = "deleted"
    /\ todo' = DeleteSteps(disk)
    /\ UNCHANGED <<disk, pc, rewriteVars, torn, excused, glued, crashes>>

(* Of the lines under way, the first were written, the last of them whole, *)
(* but for its newline, or with a part of the next one.                    *)
CutShort ==
    /\ todo # <<>>
    /\ IsPrefix(disk.file, Head(todo).file)
    /\ \E k \in Len(disk.file)..Len(Head(todo).file), c \in {"no", "line", "part"} :
        /\ IF c = "part" THEN k < Len(Head(todo).file) ELSE k > Len(disk.file)
        /\ disk' = [disk EXCEPT !.file = SubSeq(Head(todo).file, 1, k), !.cut = c]

(* The process dies.  A crash between the truncation and the rewrite of    *)
(* the file, or inside a delete, takes turns with it; a delete that was    *)
(* cut short was not answered.                                             *)
Crash ==
    /\ crashes < MaxCrashes
    /\ crashes' = crashes + 1
    /\ todo' = <<>>
    /\ life' = IF todo # <<>> /\ life = "deleted" THEN "live" ELSE life
    /\ pc' = [t \in Turns |-> IF pc[t] \in Open THEN "lost" ELSE IF pc[t] = "storing" THEN "torn" ELSE pc[t]]
    /\ doing' = [r \in Rewriters |-> "idle"]
    /\ held' = [r \in Rewriters |-> <<>>]
    /\ torn' = (torn \/ todo # <<>>)
    /\ excused' = excused \cup {t \in Turns : todo # <<>> /\ disk.file = <<>> /\ pc[t] = "done"}
    /\ CutShort \/ UNCHANGED disk
    /\ UNCHANGED glued

Request(t) == Ask(t) \/ Answered(t) \/ Streams(t) \/ Cited(t) \/ Reply(t) \/ Raise(t) \/ Close(t)

Rewrite(r) == Summarised(r) \/ SummaryFails(r) \/ PutBack(r)

Next ==
    \/ Create \/ Write \/ Retitle \/ Delete \/ Crash
    \/ \E t \in Turns : Request(t)
    \/ \E r \in Rewriters : Compact(r) \/ Fetch(r) \/ Rewrite(r)

Spec == Init /\ [][Next]_vars

(* The event loop goes on with a handler it began, and the search and the  *)
(* model answer or raise.                                                  *)
Progress(t) == Answered(t) \/ Streams(t) \/ Cited(t) \/ Reply(t) \/ Raise(t)

Fairness == WF_vars(Write) /\ \A t \in Turns : SF_vars(Progress(t))

FairSpec == Spec /\ Fairness

-----------------------------------------------------------------------------
(* Unless a crash fell into a handler and no save came after it, the meta  *)
(* file counts the lines of the JSONL file and the row agrees with it,     *)
(* whatever appends, saves and compactions came (manager.py:82-152).       *)
CountsAgree ==
    Free /\ life = "live" /\ ~torn =>
        /\ disk.meta.count = Len(disk.file)
        /\ disk.row \in {NoRow, disk.meta.count}

(* An answer never stands without its question in front of it, unless a    *)
(* compaction cut between the two, or the question went on in a line that  *)
(* a crash had cut: the turns of concurrent requests do not mix, since no  *)
(* await lies between the two appends (query.py:171-181).                  *)
Paired(ms, turns) ==
    \A i \in 1..Len(ms), t \in turns :
        ms[i] = Said(t, "assistant") =>
            i > 1 /\ (ms[i - 1] = Said(t, "user") \/ ms[i - 1].role = "system")

AnswerFollowsQuestion == Paired(disk.file, Turns \ glued)

(* Nothing is said twice: no part of a turn is in two messages, not in a   *)
(* summary and in the messages kept beside it either (compaction.py:58-88).*)
Apart(ms) == \A i, j \in 1..Len(ms) : i # j => ms[i].of \cap ms[j].of = {}

SaidOnce == Apart(disk.file)

(* The two parts of a turn.                                                *)
Both(t, ms) == {<<t, "user">>, <<t, "assistant">>} \subseteq Parts(ms)

Stored(t) == Both(t, disk.file)

(* An acknowledged turn stays in the session, or in a summary of it, until *)
(* the session is deleted; it may be lost only to a rewrite that was under *)
(* way when it was stored, to a crash inside one (sessions.py:84-103), or, *)
(* as its question, to the line that a crash left cut.                     *)
LostOnlyByRewrite ==
    Free /\ life = "live" =>
        \A t \in Turns : pc[t] = "done" => Stored(t) \/ t \in excused \cup glued

(* A session whose delete was answered stays deleted: requests, summaries  *)
(* and edits that were under way write nothing (manager.py:98, 132).       *)
DeletedStaysDeleted ==
    Free /\ life = "deleted" =>
        disk.file = <<>> /\ disk.meta.state = "absent" /\ disk.row = NoRow

(* The inductive invariant.  Settled is the disk once the running handler  *)
(* is through.  In every file, on the disk, under way or held by a client, *)
(* the summaries come first and only what was committed is said; and what  *)
(* an acknowledged turn said is in every file that is not empty, and not   *)
(* in the line that the next append would go on in.                        *)
Settled == IF Free THEN disk ELSE Last(todo)

Disks == {disk} \cup {todo[i] : i \in 1..Len(todo)}

Committed == {t \in Turns : pc[t] \in {"storing", "done", "torn"}}

SystemFirst(ms) == \A i, j \in 1..Len(ms) : i < j /\ ms[j].role = "system" => ms[i].role = "system"

Listed(ms, turns, paired) ==
    /\ SystemFirst(ms) /\ Apart(ms) /\ Paired(ms, paired)
    /\ \A p \in Parts(ms) : p[1] \in turns

FilesInv ==
    /\ \A d \in Disks : Listed(d.file, Committed, Turns \ glued)
    /\ \A r \in Rewriters : Listed(held[r], Committed, Turns \ glued)

KeptInv ==
    \A t \in Turns \ (excused \cup glued) :
        /\ pc[t] = "done" => \A d \in Disks : d.file = <<>> \/ Both(t, Lasting(d))
        /\ pc[t] \in {"storing", "done"} =>
               /\ life = "live" => Both(t, Lasting(Settled))
               /\ \A r \in Rewriters : doing[r] # "idle" => Both(t, held[r])

Counted(d) == d.meta.count = Len(d.file) /\ d.row \in {NoRow, d.meta.count}

LifeInv ==
    /\ life = "unborn" => /\ disk = NoDisk
                          /\ Free /\ \A t \in Turns : pc[t] = "idle"
    /\ life = "live" /\ ~torn => Counted(Settled) /\ Settled.cut = "no"
    /\ life = "deleted" => /\ Settled.meta = NoMeta /\ Settled.row = NoRow
                           /\ \A i \in 1..Len(todo) : todo[i].file = <<>>
                           /\ Len(todo) <= 3 /\ (Len(todo) < 3 => disk.file = <<>>)

IInv == TypeOK /\ FilesInv /\ KeptInv /\ LifeInv

(* The files and the row keep a conversation.                              *)
Phase(t) ==
    CASE pc[t] = "idle" -> "idle"
      [] pc[t] \in Open -> "open"
      [] pc[t] \in {"storing", "done", "torn"} -> "written"
      [] OTHER -> "over"

Abstract == INSTANCE Conversation WITH
    state <- IF Free \/ life # "deleted" THEN life ELSE "live",
    phase <- [t \in Turns |-> Phase(t)],
    heard <- {t \in Turns : Stored(t)}

(* Every behaviour of the session is one of the abstract conversation.     *)
Implements == Abstract!Spec

(* Every question that was accepted comes to an end (query.py:107, 204).   *)
QuestionEnds == \A t \in Turns : pc[t] = "answering" ~> pc[t] \notin Open

-----------------------------------------------------------------------------
(* compaction.py:50 says "keep last 2 turns intact".  Does not hold: of    *)
(* six messages the last three are kept, which cuts a turn.                *)
TwoTurnsIntact ==
    [][\A r \in Rewriters :
        doing[r] = "compacting" /\ doing'[r] = "idle" /\ todo' # <<>> =>
            IsSuffix(SubSeq(Chat(held[r]), Len(Chat(held[r])) - 3, Len(Chat(held[r]))), Last(todo').file)]_vars

(* compaction.py:35 says "Preserve: the summary block".  Does not hold:    *)
(* the queries send the model only messages of the roles user and          *)
(* assistant, and a summary has the role system (query.py:146-150).        *)
SummaryReachesModel ==
    [][\A t \in Turns :
        pc[t] = "idle" /\ pc'[t] = "answering" => Parts(disk.file) \subseteq Parts(Prompt(disk.file))]_vars

(* sessions.py:79 says the history is compacted.  Does not hold that every *)
(* acknowledged turn survives it: one stored while the summary is awaited  *)
(* is overwritten.                                                         *)
CompactionKeepsTurns ==
    Free /\ life = "live" /\ crashes = 0 => \A t \in Turns : pc[t] = "done" => Stored(t)

(* manager.py:131 says a message is appended "without rewriting the whole  *)
(* file".  Does not hold that it is then read back: behind a line that a   *)
(* crash left cut, a question is lost and only its answer is read.         *)
AppendedIsRead ==
    Free /\ life = "live" /\ excused = {} =>
        \A t \in Turns : pc[t] = "done" => Stored(t)

(* manager.py:19 calls the maximum a "hard cap".  Does not hold: appends   *)
(* ignore it.                                                              *)
CapHolds == Len(disk.file) <= MaxMessages
=============================================================================
