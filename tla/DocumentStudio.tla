--------------------------- MODULE DocumentStudio ---------------------------
(***************************************************************************)
(* Generated documents: DocumentGenerator (backend/documents/generator.py) *)
(* and its event stream, the saves and versions of the documents, the edit *)
(* plans (documents/editor.py) and the chat about a document, as the routes *)
(* of api/routes/generated_documents.py run them.                          *)
(*                                                                         *)
(* Handlers are coroutines of one event loop: a step ends at an await of a *)
(* search or of the model.  Database work is synchronous, so only a crash  *)
(* or a failed write leaves some of its transactions undone.  Texts are    *)
(* left out: a content is the number of the save that brought it, 0 the    *)
(* generated one.  A search or a title that fails is replaced by a default *)
(* (generator.py:476, 218), so both outcomes are the same step.            *)
(* `deleted` is a history variable.                                        *)
(***************************************************************************)
EXTENDS Integers, Sequences, SequencesExt, FiniteSets

CONSTANTS Docs,        \* generation requests, and the documents they make
          Sections,    \* sections of the template
          Edits,       \* requests for an edit plan
          Chats,       \* messages to the chat about a document
          MaxTokens,   \* bound: tokens per section
          MaxSaves,    \* bound: saves
          MaxCrashes   \* bound: crashes of the process

ASSUME StudioAssumption ==
    /\ Sections \in Nat \ {0}
    /\ MaxTokens \in Nat /\ MaxSaves \in Nat /\ MaxCrashes \in Nat
    /\ Edits \cap Chats = {}

VARIABLES
    gen,         \* each generation task: [step, section, tokens]
    events,      \* the events it emitted and the route did not send
    seen,        \* the events the client got
    conn,        \* the connection of the stream
    content,     \* generated_documents: the content of each row
    versions,    \* document_versions: rows [num, content]
    signatures,  \* the documents with rows in document_section_signatures
    plans,       \* edit_plans: the requests whose plan was stored
    ask,         \* where each request about a document is
    executed,    \* what executing each plan came to
    saves,
    deleted,
    crashes

streamVars == <<gen, events, seen, conn>>
storeVars == <<content, versions, signatures, deleted>>
askVars == <<plans, ask, executed>>
vars == <<streamVars, storeVars, askVars, saves, crashes>>

None == -1
Asks == Edits \cup Chats
Event == [kind : {"progress", "token", "section_done", "ready", "error"}, section : 0..Sections]
Running == {"context", "wider", "title", "writing"}
Waiting == {"searching", "planning", "replying"}

TypeOK ==
    /\ gen \in [Docs -> [step : Running \cup {"idle", "done", "failed", "cancelled", "lost"},
                         section : 0..Sections, tokens : 0..MaxTokens]]
    /\ events \in [Docs -> Seq(Event)]
    /\ seen \in [Docs -> Seq(Event)]
    /\ conn \in [Docs -> {"none", "open", "ended", "closed"}]
    /\ content \in [Docs -> {None} \cup 0..MaxSaves]
    /\ versions \in [Docs -> SUBSET [num : 1..(MaxSaves + 1), content : 0..MaxSaves]]
    /\ signatures \in SUBSET Docs
    /\ plans \in SUBSET Asks
    /\ ask \in [Asks -> Waiting \cup {"idle", "planned", "replied", "failed", "lost"}]
    /\ executed \in [Asks -> {"never", "error"}]
    /\ saves \in 0..MaxSaves
    /\ deleted \in SUBSET Docs
    /\ crashes \in 0..MaxCrashes

Init ==
    /\ gen = [d \in Docs |-> [step |-> "idle", section |-> 0, tokens |-> 0]]
    /\ events = [d \in Docs |-> <<>>]
    /\ seen = [d \in Docs |-> <<>>]
    /\ conn = [d \in Docs |-> "none"]
    /\ content = [d \in Docs |-> None]
    /\ versions = [d \in Docs |-> {}]
    /\ signatures = {}
    /\ plans = {}
    /\ ask = [a \in Asks |-> "idle"]
    /\ executed = [a \in Asks |-> "never"]
    /\ saves = 0
    /\ deleted = {}
    /\ crashes = 0

-----------------------------------------------------------------------------
(* The generation task.                                                    *)
Of(kind, section) == [kind |-> kind, section |-> section]

Progress == Of("progress", 0)

Emit(d, es) == events' = [events EXCEPT ![d] = @ \o es]

Goto(d, step, section) ==
    gen' = [gen EXCEPT ![d] = [step |-> step, section |-> section, tokens |-> 0]]

(* POST /generate: the task starts and awaits its first search.            *)
Start(d) ==
    /\ gen[d].step = "idle"
    /\ conn' = [conn EXCEPT ![d] = "open"]
    /\ Goto(d, "context", 0)
    /\ Emit(d, <<Progress>>)
    /\ UNCHANGED <<seen, storeVars, askVars, saves, crashes>>

(* The first search came, and the wider one is awaited; or it raised.      *)
Retrieved(d) ==
    /\ gen[d].step = "context"
    /\ \/ Goto(d, "wider", 0) /\ UNCHANGED events
       \/ Goto(d, "title", 0) /\ Emit(d, <<Progress>>)
    /\ UNCHANGED <<seen, conn, storeVars, askVars, saves, crashes>>

Widened(d) ==
    /\ gen[d].step = "wider"
    /\ Goto(d, "title", 0)
    /\ Emit(d, <<Progress>>)
    /\ UNCHANGED <<seen, conn, storeVars, askVars, saves, crashes>>

Titled(d) ==
    /\ gen[d].step = "title"
    /\ Goto(d, "writing", 1)
    /\ Emit(d, <<Progress, Progress>>)
    /\ UNCHANGED <<seen, conn, storeVars, askVars, saves, crashes>>

Token(d) ==
    /\ gen[d].step = "writing"
    /\ gen[d].tokens < MaxTokens
    /\ gen' = [gen EXCEPT ![d].tokens = @ + 1]
    /\ Emit(d, <<Of("token", gen[d].section)>>)
    /\ UNCHANGED <<seen, conn, storeVars, askVars, saves, crashes>>

(* The stream of a section ended, or raised: then its text says so.        *)
Written(d) ==
    /\ gen[d].step = "writing"
    /\ gen[d].section < Sections
    /\ Goto(d, "writing", gen[d].section + 1)
    /\ Emit(d, <<Of("section_done", gen[d].section), Progress>>)
    /\ UNCHANGED <<seen, conn, storeVars, askVars, saves, crashes>>

(* Faulty: the signatures are left out.                                    *)
StoredBare(d, k) ==
    /\ content' = IF k >= 1 THEN [content EXCEPT ![d] = 0] ELSE content
    /\ versions' = IF k >= 2 THEN [versions EXCEPT ![d] = {[num |-> 1, content |-> 0]}] ELSE versions
    /\ UNCHANGED <<signatures, deleted>>

(* The first k of the three transactions that store a document: its row,   *)
(* version 1, its signatures.                                              *)
Stored(d, k) ==
    /\ content' = IF k >= 1 THEN [content EXCEPT ![d] = 0] ELSE content
    /\ versions' = IF k >= 2 THEN [versions EXCEPT ![d] = {[num |-> 1, content |-> 0]}] ELSE versions
    /\ signatures' = IF k >= 3 THEN signatures \cup {d} ELSE signatures
    /\ UNCHANGED deleted

LastSection(d) == gen[d].step = "writing" /\ gen[d].section = Sections

LastEvents == <<Of("section_done", Sections), Progress, Progress>>

(* The last section is written: store the document and announce it, with   *)
(* no await in between.                                                    *)
Completed(d) ==
    /\ LastSection(d)
    /\ Stored(d, 3)
    /\ Goto(d, "done", 0)
    /\ Emit(d, LastEvents \o <<Of("ready", 0)>>)
    /\ UNCHANGED <<seen, conn, askVars, saves, crashes>>

(* A write raises: the task fails with the transactions before it made.    *)
CompletionFails(d) ==
    /\ LastSection(d)
    /\ \E k \in 0..2 : Stored(d, k)
    /\ Goto(d, "failed", 0)
    /\ Emit(d, LastEvents)
    /\ UNCHANGED <<seen, conn, askVars, saves, crashes>>

-----------------------------------------------------------------------------
(* The route of the stream: send what the task emitted, and after its end  *)
(* what is left.                                                           *)

Deliver(d) ==
    /\ conn[d] = "open"
    /\ events[d] # <<>>
    /\ seen' = [seen EXCEPT ![d] = Append(@, Head(events[d]))]
    /\ events' = [events EXCEPT ![d] = Tail(@)]
    /\ UNCHANGED <<gen, conn, storeVars, askVars, saves, crashes>>

(* Faulty: nothing is sent once the task is done.                          *)
EndUndrained(d) ==
    /\ conn[d] = "open"
    /\ gen[d].step \in {"done", "failed"}
    /\ conn' = [conn EXCEPT ![d] = "ended"]
    /\ seen' = IF gen[d].step = "failed" THEN [seen EXCEPT ![d] = Append(@, Of("error", 0))] ELSE seen
    /\ UNCHANGED <<gen, events, storeVars, askVars, saves, crashes>>

End(d) ==
    /\ conn[d] = "open"
    /\ gen[d].step \in {"done", "failed"}
    /\ events[d] = <<>>
    /\ conn' = [conn EXCEPT ![d] = "ended"]
    /\ seen' = IF gen[d].step = "failed" THEN [seen EXCEPT ![d] = Append(@, Of("error", 0))] ELSE seen
    /\ UNCHANGED <<gen, events, storeVars, askVars, saves, crashes>>

(* The client is gone.  The loop of the route notices and cancels the task *)
(* at its await; or the server closes the generator of events first, and   *)
(* the task goes on alone.                                                 *)
Leave(d) ==
    /\ conn[d] = "open"
    /\ conn' = [conn EXCEPT ![d] = "closed"]
    /\ \/ gen[d].step \in Running /\ gen' = [gen EXCEPT ![d].step = "cancelled"]
       \/ UNCHANGED gen
    /\ UNCHANGED <<events, seen, storeVars, askVars, saves, crashes>>

-----------------------------------------------------------------------------
(* Saves and versions.                                                     *)
Exists(d) == content[d] # None

NextNumber(d) == Cardinality(versions[d]) + 1

(* Faulty: the older versions get the new content too.                     *)
WithVersionOver(d, c) ==
    [versions EXCEPT ![d] = {[v EXCEPT !.content = c] : v \in @} \cup {[num |-> NextNumber(d), content |-> c]}]

WithVersion(d, c) == [versions EXCEPT ![d] = @ \cup {[num |-> NextNumber(d), content |-> c]}]

(* The first transaction of PUT: the content alone, which is all that an   *)
(* autosave makes, or a save whose second transaction fails.               *)
PutContent(d) ==
    /\ Exists(d)
    /\ saves < MaxSaves
    /\ saves' = saves + 1
    /\ content' = [content EXCEPT ![d] = saves + 1]
    /\ UNCHANGED <<signatures, deleted>>

Autosave(d) ==
    /\ PutContent(d)
    /\ UNCHANGED <<streamVars, versions, askVars, crashes>>

(* PUT with a label.                                                       *)
SaveVersion(d) ==
    /\ PutContent(d)
    /\ versions' = WithVersion(d, saves + 1)
    /\ UNCHANGED <<streamVars, askVars, crashes>>

(* Faulty: no cascade.                                                     *)
DeleteRow(d) ==
    /\ Exists(d)
    /\ content' = [content EXCEPT ![d] = None]
    /\ deleted' = deleted \cup {d}
    /\ UNCHANGED <<streamVars, versions, signatures, askVars, saves, crashes>>

(* DELETE cascades to the versions and the signatures, not to the plans.   *)
Delete(d) ==
    /\ Exists(d)
    /\ content' = [content EXCEPT ![d] = None]
    /\ versions' = [versions EXCEPT ![d] = {}]
    /\ signatures' = signatures \ {d}
    /\ deleted' = deleted \cup {d}
    /\ UNCHANGED <<streamVars, askVars, saves, crashes>>

-----------------------------------------------------------------------------
(* Plans and chat.  The row of a plan names its document, but nothing      *)
(* reads that name again: it is left out.                                  *)
To(a, pc) == ask' = [ask EXCEPT ![a] = pc]

(* A request about a document that exists.  A message with an edit word    *)
(* asks for a plan if the document has a section with a signature.         *)
Request(a) ==
    /\ ask[a] = "idle"
    /\ \E d \in Docs :
          /\ Exists(d)
          /\ \/ (a \in Edits \/ d \in signatures) /\ To(a, "searching")
             \/ a \in Chats /\ To(a, "replying")
    /\ UNCHANGED <<streamVars, storeVars, plans, executed, saves, crashes>>

(* The search came, or raised: then there is no context.                   *)
Searched(a) ==
    /\ ask[a] = "searching"
    /\ To(a, "planning")
    /\ UNCHANGED <<streamVars, storeVars, plans, executed, saves, crashes>>

(* The plan is stored, whether its document still exists or not.           *)
Planned(a) ==
    /\ ask[a] = "planning"
    /\ To(a, "planned")
    /\ plans' = plans \cup {a}
    /\ UNCHANGED <<streamVars, storeVars, executed, saves, crashes>>

(* The model or the write raised: HTTP 500, but a chat goes on to a reply. *)
PlanFails(a) ==
    /\ ask[a] = "planning"
    /\ To(a, IF a \in Chats THEN "replying" ELSE "failed")
    /\ UNCHANGED <<streamVars, storeVars, plans, executed, saves, crashes>>

Replied(a) ==
    /\ ask[a] = "replying"
    /\ To(a, "replied") \/ To(a, "failed")
    /\ UNCHANGED <<streamVars, storeVars, plans, executed, saves, crashes>>

(* load_edit_plan.  cache_edit_plan writes the expiry with %f where the    *)
(* seconds belong; fromisoformat refuses that, and its ValueError is       *)
(* raised again: no row can be loaded.                                     *)
Loadable(a) == FALSE

(* POST /edit/execute with the id of a plan that was answered, for any     *)
(* document that exists.                                                   *)
Execute(a) ==
    /\ ask[a] = "planned"
    /\ executed[a] = "never"
    /\ \E d \in Docs : Exists(d)
    /\ ~Loadable(a)
    /\ executed' = [executed EXCEPT ![a] = "error"]
    /\ UNCHANGED <<streamVars, storeVars, plans, ask, saves, crashes>>

-----------------------------------------------------------------------------
(* The process dies, with its tasks, its requests and its connections.     *)
Down ==
    /\ crashes < MaxCrashes
    /\ crashes' = crashes + 1
    /\ gen' = [d \in Docs |-> IF gen[d].step \in Running THEN [gen[d] EXCEPT !.step = "lost"] ELSE gen[d]]
    /\ ask' = [a \in Asks |-> IF ask[a] \in Waiting THEN "lost" ELSE ask[a]]
    /\ conn' = [d \in Docs |-> IF conn[d] = "open" THEN "closed" ELSE conn[d]]
    /\ UNCHANGED <<events, seen, plans, executed>>

Crash ==
    /\ Down
    /\ UNCHANGED <<storeVars, saves>>

(* ... between the transactions that store a document.                     *)
CrashCompleting(d) ==
    /\ LastSection(d)
    /\ Down
    /\ \E k \in 1..2 : Stored(d, k)
    /\ UNCHANGED saves

(* ... between the two transactions of a save.                             *)
CrashSaving(d) ==
    /\ Down
    /\ PutContent(d)
    /\ UNCHANGED versions

Generate(d) ==
    \/ Retrieved(d) \/ Widened(d) \/ Titled(d) \/ Token(d)
    \/ Written(d) \/ Completed(d) \/ CompletionFails(d)

Answer(a) == Searched(a) \/ Planned(a) \/ PlanFails(a) \/ Replied(a)

Next ==
    \/ \E d \in Docs :
          \/ Start(d) \/ Generate(d) \/ Deliver(d) \/ End(d) \/ Leave(d)
          \/ Autosave(d) \/ SaveVersion(d) \/ Delete(d)
          \/ CrashCompleting(d) \/ CrashSaving(d)
    \/ \E a \in Asks : Request(a) \/ Answer(a) \/ Execute(a)
    \/ Crash

Spec == Init /\ [][Next]_vars

(* The event loop runs what is ready, and searches and the model answer or *)
(* raise: their clients have timeouts.                                     *)
Fairness ==
    /\ \A d \in Docs : WF_vars(Generate(d)) /\ WF_vars(Deliver(d)) /\ WF_vars(End(d))
    /\ \A a \in Asks : WF_vars(Answer(a))

FairSpec == Spec /\ Fairness

-----------------------------------------------------------------------------
Kinds(d) == {seen[d][i].kind : i \in 1..Len(seen[d])}

Whole(d) == Exists(d) /\ (\E v \in versions[d] : v.num = 1 /\ v.content = 0) /\ d \in signatures

(* A client that was told a document is ready finds it whole, row, first   *)
(* version and signatures, until somebody deletes it, whatever failure or  *)
(* crash came in between (generator.py:568-582).                           *)
ReadyMeansWhole ==
    \A d \in Docs : "ready" \in Kinds(d) /\ d \notin deleted => Whole(d)

(* Nothing comes after the document, and no token of a section after the   *)
(* end of it or of a later one.                                            *)
Before(e, f) ==
    /\ e.kind # "ready"
    /\ e.kind = "section_done" /\ f.kind \in {"token", "section_done"} => e.section < f.section

Ordered(s) == \A i, j \in 1..Len(s) : i < j => Before(s[i], s[j])

(* A client that stays is told everything in order, and the stream ends    *)
(* with the document or with an error, even when the task ends while       *)
(* events wait to be sent (generated_documents.py:112-137).                *)
StreamTold ==
    \A d \in Docs :
        /\ conn[d] = "ended" =>
               seen[d] # <<>> /\ Last(seen[d]).kind = (IF gen[d].step = "done" THEN "ready" ELSE "error")
        /\ Ordered(seen[d])

(* The versions of a document are numbered 1 to n, also when its first one *)
(* was lost in a crash: the number is a count (generated_documents.py:216).*)
VersionsNumbered ==
    \A d \in Docs : {v.num : v \in versions[d]} = 1..Cardinality(versions[d])

(* A generation cancelled because its client left stores no document, and  *)
(* where there is no document there is no version and no signature: none   *)
(* outlives its document or comes back after it, whatever handlers were    *)
(* under way (generated_documents.py:124, 248; ON DELETE CASCADE).         *)
NoOrphans ==
    \A d \in Docs :
        /\ gen[d].step = "cancelled" => ~Exists(d)
        /\ ~Exists(d) => versions[d] = {} /\ d \notin signatures

(* The inductive invariant.  A document is stored at the end of its task;  *)
(* what the client was told and what waits to be sent is in order, and     *)
(* every end of a section in it is of an earlier section.                  *)
Over == {"done", "failed", "lost"}

StoreInv(d) ==
    /\ gen[d].step \notin Over => ~Exists(d) /\ d \notin deleted
    /\ d \in deleted => ~Exists(d)
    /\ ~Exists(d) => versions[d] = {} /\ d \notin signatures
    /\ gen[d].step = "done" /\ d \notin deleted => Whole(d)

NumberInv(d) ==
    /\ IsFiniteSet(versions[d])
    /\ {v.num : v \in versions[d]} = 1..Cardinality(versions[d])
    /\ \A u, v \in versions[d] : u.num = v.num => u = v
    /\ Cardinality(versions[d]) <= saves + 1

Told(d, e) == (\E i \in 1..Len(seen[d]) : e = seen[d][i]) \/ (\E i \in 1..Len(events[d]) : e = events[d][i])

Newest(d) == IF events[d] # <<>> THEN Last(events[d]) ELSE Last(seen[d])

StreamInv(d) ==
    /\ Ordered(seen[d]) /\ Ordered(events[d])
    /\ \A i \in 1..Len(seen[d]), j \in 1..Len(events[d]) : Before(seen[d][i], events[d][j])
    /\ \A e \in Event : Told(d, e) =>
           /\ e.kind = "ready" => gen[d].step = "done"
           /\ gen[d].step \in Running =>
                  e.kind # "section_done" \/ (gen[d].step = "writing" /\ e.section < gen[d].section)
    /\ gen[d].step = "idle" => seen[d] = <<>> /\ events[d] = <<>>
    /\ gen[d].step = "writing" => gen[d].section > 0
    /\ gen[d].step = "done" => (seen[d] # <<>> \/ events[d] # <<>>) /\ Newest(d).kind = "ready"
    /\ conn[d] = "ended" => /\ gen[d].step \in {"done", "failed"} /\ events[d] = <<>> /\ seen[d] # <<>>
                            /\ gen[d].step = "failed" => Last(seen[d]).kind = "error"

IInv == TypeOK /\ \A d \in Docs : StoreInv(d) /\ NumberInv(d) /\ StreamInv(d)

HistoryOf(vs) == [i \in 1..Cardinality(vs) |-> (CHOOSE v \in vs : v.num = i).content]

History(d) == HistoryOf(versions[d])

Abstract == INSTANCE VersionedDocument WITH
    phase <- [d \in Docs |-> IF Exists(d) THEN "live" ELSE IF d \in deleted THEN "deleted" ELSE "unborn"],
    history <- [d \in Docs |-> History(d)],
    Contents <- 0..MaxSaves,
    Generated <- 0

(* The store implements the abstract versioned document.                   *)
Implements == Abstract!Spec

(* Every generation stream ends, and so does every request about a         *)
(* document.                                                               *)
StreamEnds == \A d \in Docs : conn[d] = "open" ~> conn[d] # "open"

AskEnds == \A a \in Asks : ask[a] \in Waiting ~> ask[a] \notin Waiting

-----------------------------------------------------------------------------
(* generated_documents.py:286 says the endpoint "executes an approved edit *)
(* plan".  Does not hold: every stored plan is refused, because its expiry *)
(* cannot be parsed.                                                       *)
ApprovedPlanRuns == \A a \in plans : executed[a] # "error"
=============================================================================
