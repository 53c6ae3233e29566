------------------------------ MODULE WatcherRun ------------------------------
(***************************************************************************)
(* The watcher of one project (backend/watcher/engine.py): a run takes the *)
(* unprocessed query grades through clustering, diagnosis, entity          *)
(* extraction and synthesis, appends the notes to project_memory.md and    *)
(* indexes them (watcher/updater.py), then marks the grades processed.     *)
(* The row in watcher_runs is its checkpoint: after a crash the next call  *)
(* of run_for_project resumes it.  The background loop and the trigger     *)
(* endpoint (api/routes/projects.py:167) both call run_for_project.        *)
(*                                                                         *)
(* An action is the code between two awaits, or between two transactions   *)
(* where a crash may fall; while a worker is in such a synchronous stretch *)
(* no other worker moves.  A note is the entry synthesised for one cluster.*)
(***************************************************************************)
EXTENDS Naturals, FiniteSets

CONSTANTS Workers,      \* callers of run_for_project: the loop, the endpoint
          Grades,       \* query grades that may be recorded
          Poor,         \* those with a retrieval_grade below 0.5
          MaxRuns,      \* bound on the rows of watcher_runs
          MaxClusters,  \* bound on the clusters of a run
          MaxCrashes,   \* bound on the crashes of the server
          MaxDocs,      \* bound on the memory documents, those of failed attempts too
          Threshold,    \* poor_grade_threshold: poor grades that trigger the loop
          Frequent      \* 4 * frequency_threshold: recent queries that do

ASSUME WatcherAssumption ==
    /\ MaxRuns \in Nat \ {0}
    /\ MaxClusters \in Nat
    /\ MaxCrashes \in Nat
    /\ MaxDocs \in Nat
    /\ Threshold \in Nat \ {0} /\ Frequent \in Nat \ {0}

VARIABLES
    grade,    \* query_grades: absent, pending (watcher_processed = 0), processed
    run,      \* watcher_runs
    file,     \* project_memory.md: how often it holds each note
    lost,     \* history: the notes that a cut write of the file left out
    points,   \* memory points of the vector store
    memory,   \* projects.memory_doc_id
    pc,       \* where each worker is
    ckpt,     \* its copy of the row: ckpt._run
    notes,    \* its completed / new_entries
    doc,      \* its memory_doc_id
    made,     \* history: the notes the LLM synthesised for each run
    crashes

dbVars == <<grade, run, memory>>
fileVars == <<file, lost>>
storeVars == <<dbVars, fileVars, points>>
vars == <<storeVars, pc, ckpt, notes, doc, made, crashes>>

Runs == 1..MaxRuns
Clusters == 1..MaxClusters
Notes == Runs \X Clusters
NoDoc == 0
DocIds == 1..MaxDocs
Row == [status : {"none", "running", "done", "failed"}, ids : SUBSET Grades, old : BOOLEAN,
        step : 0..7, idx : 0..MaxClusters, clusters : 0..MaxClusters, entries : SUBSET Clusters]
NoRow == [status |-> "none", ids |-> {}, old |-> FALSE, step |-> 0, idx |-> 0, clusters |-> 0,
          entries |-> {}]

(* Stages in which a worker awaits, and those it passes without an await.  *)
Awaiting == {"provider", "cluster", "diagnose", "extract", "synthesize", "embed", "upsert",
             "register"}
Synchronous == {"insert", "entries", "memory", "updated", "mark", "finish"}

TypeOK ==
    /\ grade \in [Grades -> {"absent", "pending", "processed"}]
    /\ run \in [Runs -> Row]
    /\ file \in [Notes -> Nat] /\ lost \subseteq Notes
    /\ points \subseteq [doc : DocIds, pos : Nat, note : Notes]
    /\ memory \in DocIds \cup {NoDoc}
    /\ pc \in [Workers -> {"idle"} \cup Awaiting \cup Synchronous]
    /\ ckpt \in [Workers -> [id : Runs, step : 0..7, idx : 0..MaxClusters,
                             clusters : 0..MaxClusters, ids : SUBSET Grades]]
    /\ notes \in [Workers -> SUBSET Clusters]
    /\ doc \in [Workers -> DocIds \cup {NoDoc}]
    /\ made \in [Runs -> SUBSET Clusters]
    /\ crashes \in 0..MaxCrashes

Idle == [id |-> 1, step |-> 0, idx |-> 0, clusters |-> 0, ids |-> {}]

Init ==
    /\ grade = [g \in Grades |-> "absent"]
    /\ run = [r \in Runs |-> NoRow]
    /\ file = [n \in Notes |-> 0] /\ lost = {}
    /\ points = {}
    /\ memory = NoDoc
    /\ pc = [w \in Workers |-> "idle"]
    /\ ckpt = [w \in Workers |-> Idle]
    /\ notes = [w \in Workers |-> {}]
    /\ doc = [w \in Workers |-> NoDoc]
    /\ made = [r \in Runs |-> {}]
    /\ crashes = 0

-----------------------------------------------------------------------------
Pending == {g \in Grades : grade[g] = "pending"}
Running == {r \in Runs : run[r].status = "running"}
Free(w) == \A v \in Workers \ {w} : pc[v] \notin Synchronous
At(w, stage) == Free(w) /\ pc[w] = stage
Goto(w, stage) == pc' = [pc EXCEPT ![w] = stage]
Id(w) == ckpt[w].id

(* A query was answered and graded.                                        *)
Record(g) ==
    /\ \A w \in Workers : pc[w] \notin Synchronous
    /\ grade[g] = "absent"
    /\ grade' = [grade EXCEPT ![g] = "pending"]
    /\ UNCHANGED <<run, memory, fileVars, points, pc, ckpt, notes, doc, made, crashes>>

(* Four hours pass.                                                        *)
Age(r) ==
    /\ \A w \in Workers : pc[w] \notin Synchronous
    /\ run[r].status = "running"
    /\ r # MaxRuns     \* bound: a row remains for the run that replaces it
    /\ run' = [run EXCEPT ![r].old = TRUE]
    /\ UNCHANGED <<grade, memory, fileVars, points, pc, ckpt, notes, doc, made, crashes>>

(* _should_trigger: enough poor grades, or enough of the last 48 hours.    *)
Triggered(recent) ==
    \/ Cardinality(Pending \cap Poor) >= Threshold
    \/ Cardinality(recent) >= Frequent

(* run_for_project is called: by the loop when it is triggered (which of   *)
(* the pending grades have aged out of the 48 hours is left open), by the  *)
(* endpoint at any time.                                                   *)
Called(w) ==
    /\ At(w, "idle")
    /\ w = "loop" => \E recent \in SUBSET Pending : Triggered(recent)

Load(w, r, row) ==
    /\ ckpt' = [ckpt EXCEPT ![w] = [id |-> r, step |-> row.step, idx |-> row.idx,
                                    clusters |-> row.clusters, ids |-> row.ids]]
    /\ notes' = [notes EXCEPT ![w] = row.entries]
    /\ Goto(w, "provider")
    /\ UNCHANGED <<grade, memory, fileVars, points, doc, made, crashes>>

(* find_or_create: resume the running row ...                              *)
Resume(w, r) ==
    /\ Called(w)
    /\ r \in Running
    /\ ~run[r].old
    /\ Load(w, r, run[r])
    /\ UNCHANGED run

(* ... or insert one.                                                      *)
Insert(w, ids) ==
    \E r \in Runs :
        /\ run[r].status = "none"
        /\ \A q \in Runs : q < r => run[q].status # "none"
        /\ run' = [run EXCEPT ![r] = [NoRow EXCEPT !.status = "running", !.ids = ids]]
        /\ Load(w, r, run'[r])

(* Faulty: the stale row stays.                                            *)
DiscardNothing(w, r) ==
    /\ Called(w)
    /\ r \in Running
    /\ run[r].old
    /\ ckpt' = [ckpt EXCEPT ![w].ids = run[r].ids]
    /\ Goto(w, "insert")
    /\ UNCHANGED <<storeVars, notes, doc, made, crashes>>

(* A stale row is discarded first, in a transaction of its own; the new    *)
(* row is for its grades.                                                  *)
Discard(w, r) ==
    /\ Called(w)
    /\ r \in Running
    /\ run[r].old
    /\ run' = [run EXCEPT ![r].status = "failed"]
    /\ ckpt' = [ckpt EXCEPT ![w].ids = run[r].ids]
    /\ Goto(w, "insert")
    /\ UNCHANGED <<grade, memory, fileVars, points, notes, doc, made, crashes>>

Replace(w) ==
    /\ pc[w] = "insert"
    /\ Insert(w, ckpt[w].ids)

(* Without a running row: the pending grades (at most 100, newest first).  *)
Create(w) ==
    /\ Called(w)
    /\ Running = {}
    /\ Pending # {}
    /\ Insert(w, Pending)

-----------------------------------------------------------------------------
(* save_step writes the row and the copy.                                  *)
SaveStep(w, k) ==
    /\ run' = [run EXCEPT ![Id(w)].step = k]
    /\ ckpt' = [ckpt EXCEPT ![w].step = k]

(* The loop of step 5, from the first cluster without a checkpoint.        *)
NextCluster(w) == IF ckpt'[w].idx < ckpt[w].clusters THEN "synthesize" ELSE "entries"

(* The provider of the project is there: go on after the last step.        *)
Resolved(w) ==
    /\ At(w, "provider")
    /\ UNCHANGED <<storeVars, ckpt, doc, made, crashes>>
    /\ Goto(w, IF ckpt[w].step < 2 THEN "cluster"
               ELSE IF ckpt[w].step = 2 THEN "diagnose"
               ELSE IF ckpt[w].step = 3 THEN "extract"
               ELSE IF ckpt[w].step = 4 THEN NextCluster(w)
               ELSE IF ckpt[w].step = 5 THEN "memory" ELSE "mark")
    /\ notes' = [notes EXCEPT ![w] = IF ckpt[w].step < 5 THEN {} ELSE @]

(* The same queries give the same clusters, whoever computes them.         *)
Clustered(w) ==
    /\ At(w, "cluster")
    /\ Goto(w, "diagnose")
    /\ \E n \in 1..MaxClusters :
        /\ n <= Cardinality(ckpt[w].ids)
        /\ run[Id(w)].clusters \in {0, n}
        /\ run' = [run EXCEPT ![Id(w)].step = 2, ![Id(w)].clusters = n]
        /\ ckpt' = [ckpt EXCEPT ![w].step = 2, ![w].clusters = n]
    /\ UNCHANGED <<grade, memory, fileVars, points, notes, doc, made, crashes>>

Diagnosed(w) ==
    /\ At(w, "diagnose")
    /\ Goto(w, "extract")
    /\ SaveStep(w, 3)
    /\ UNCHANGED <<grade, memory, fileVars, points, notes, doc, made, crashes>>

Extracted(w) ==
    /\ At(w, "extract")
    /\ SaveStep(w, 4)
    /\ Goto(w, NextCluster(w))
    /\ UNCHANGED <<grade, memory, fileVars, points, notes, doc, made, crashes>>

(* _synthesize_with_checkpoint: one cluster, which may give no note; only  *)
(* its index is saved.                                                     *)
Synthesized(w) ==
    LET c == ckpt[w].idx + 1
    IN  /\ At(w, "synthesize")
        /\ \E new \in {{}, {c}} :
            /\ notes' = [notes EXCEPT ![w] = @ \cup new]
            /\ made' = [made EXCEPT ![Id(w)] = @ \cup new]
        /\ run' = [run EXCEPT ![Id(w)].idx = c]
        /\ ckpt' = [ckpt EXCEPT ![w].idx = c]
        /\ Goto(w, NextCluster(w))
        /\ UNCHANGED <<grade, memory, fileVars, points, doc, crashes>>

SaveEntries(w) ==
    /\ pc[w] = "entries"
    /\ Goto(w, "memory")
    /\ run' = [run EXCEPT ![Id(w)].step = 5, ![Id(w)].entries = notes[w]]
    /\ ckpt' = [ckpt EXCEPT ![w].step = 5]
    /\ UNCHANGED <<grade, memory, fileVars, points, notes, doc, made, crashes>>

(* Faulty: the update is skipped although there are entries.               *)
NothingWritten(w) ==
    /\ pc[w] = "memory"
    /\ Goto(w, "updated")
    /\ UNCHANGED <<storeVars, ckpt, notes, doc, made, crashes>>

(* update_project_memory, unless there is nothing to add: the file first.  *)
NothingNew(w) ==
    /\ pc[w] = "memory"
    /\ notes[w] = {}
    /\ Goto(w, "updated")
    /\ UNCHANGED <<storeVars, ckpt, notes, doc, made, crashes>>

Appended(w) == [n \in Notes |-> IF n[1] = Id(w) /\ n[2] \in notes[w] THEN file[n] + 1 ELSE file[n]]

(* What the file holds after the write, and what it should hold besides.   *)
Refile(w, new) ==
    /\ file' = new
    /\ lost' = {n \in Notes : (n \in lost \/ Appended(w)[n] > 0) /\ new[n] = 0}

WriteFile(w) ==
    /\ pc[w] = "memory"
    /\ notes[w] # {}
    /\ Refile(w, Appended(w))
    /\ Goto(w, "embed")
    /\ UNCHANGED <<dbVars, points, ckpt, notes, doc, made, crashes>>

(* The file is truncated before it is written: when the disk is full, or   *)
(* the process dies, a part of it is left.                                 *)
CutFile(w) ==
    /\ pc[w] = "memory"
    /\ notes[w] # {}
    /\ \E part \in [Notes -> UNION {0..Appended(w)[n] : n \in Notes}] :
          /\ \A n \in Notes : part[n] <= Appended(w)[n]
          /\ Refile(w, part)

(* A uuid4 that nothing has.                                               *)
InUse == {memory} \cup {p.doc : p \in points} \cup {doc[w] : w \in Workers}
Fresh(d) == d \notin InUse /\ \A e \in DocIds : e < d => e \in InUse

Embedded(w) ==
    /\ At(w, "embed")
    /\ \E d \in DocIds :
          /\ IF memory # NoDoc THEN d = memory ELSE Fresh(d)
          /\ doc' = [doc EXCEPT ![w] = d]
    /\ Goto(w, "upsert")
    /\ UNCHANGED <<storeVars, ckpt, notes, made, crashes>>

(* The points of a run are numbered from 0: an upsert replaces what an     *)
(* earlier one stored under the same document and number.                  *)
Position(c, set) == Cardinality({x \in set : x < c})
Upserted(w) ==
    LET new == {[doc |-> doc[w], pos |-> Position(c, notes[w]), note |-> <<Id(w), c>>] :
                    c \in notes[w]}
    IN  /\ At(w, "upsert")
        /\ points' = {p \in points : \A q \in new : p.doc # q.doc \/ p.pos # q.pos} \cup new
        /\ Goto(w, "register")
        /\ UNCHANGED <<dbVars, fileVars, ckpt, notes, doc, made, crashes>>

Register(w) ==
    /\ At(w, "register")
    /\ memory' = doc[w]
    /\ Goto(w, "updated")
    /\ UNCHANGED <<grade, run, fileVars, points, ckpt, notes, doc, made, crashes>>

SaveUpdated(w) ==
    /\ pc[w] = "updated"
    /\ Goto(w, "mark")
    /\ SaveStep(w, 6)
    /\ UNCHANGED <<grade, memory, fileVars, points, notes, doc, made, crashes>>

(* Faulty: the run is done before its grades are marked.                   *)
MarkGradesLater(w) ==
    /\ pc[w] = "mark"
    /\ run' = [run EXCEPT ![Id(w)].status = "done"]
    /\ Goto(w, "finish")
    /\ UNCHANGED <<grade, memory, fileVars, points, ckpt, notes, doc, made, crashes>>

(* Step 7: the grades, then mark_done.                                     *)
MarkGrades(w) ==
    /\ pc[w] = "mark"
    /\ grade' = [g \in Grades |-> IF g \in ckpt[w].ids THEN "processed" ELSE grade[g]]
    /\ Goto(w, "finish")
    /\ UNCHANGED <<run, memory, fileVars, points, ckpt, notes, doc, made, crashes>>

(* The call is over, and its locals are gone.                              *)
Return(w) ==
    /\ Goto(w, "idle")
    /\ ckpt' = [ckpt EXCEPT ![w] = Idle]
    /\ notes' = [notes EXCEPT ![w] = {}]
    /\ doc' = [doc EXCEPT ![w] = NoDoc]

MarkDone(w) ==
    /\ pc[w] = "finish"
    /\ run' = [run EXCEPT ![Id(w)].step = 7, ![Id(w)].status = "done"]
    /\ Return(w)
    /\ UNCHANGED <<grade, memory, fileVars, points, made, crashes>>

(* Faulty: the exception is only logged.                                   *)
FailedUnmarked(w) ==
    /\ Free(w)
    /\ (pc[w] \in Awaiting /\ UNCHANGED fileVars) \/ CutFile(w)
    /\ Return(w)
    /\ UNCHANGED <<dbVars, points, made, crashes>>

(* An exception, at an await or writing the file: mark_failed.             *)
MarkFailed(w) ==
    /\ Free(w)
    /\ (pc[w] \in Awaiting /\ UNCHANGED fileVars) \/ CutFile(w)
    /\ run' = [run EXCEPT ![Id(w)].status = "failed"]
    /\ Return(w)
    /\ UNCHANGED <<grade, memory, points, made, crashes>>

(* The process dies, or stop() cancels the loop: nothing is marked.        *)
Crash ==
    /\ crashes < MaxCrashes
    /\ crashes' = crashes + 1
    /\ UNCHANGED fileVars \/ \E w \in Workers : CutFile(w)
    /\ pc' = [w \in Workers |-> "idle"]
    /\ ckpt' = [w \in Workers |-> Idle]
    /\ notes' = [w \in Workers |-> {}]
    /\ doc' = [w \in Workers |-> NoDoc]
    /\ UNCHANGED <<dbVars, points, made>>

Step(w) ==
    \/ Replace(w) \/ Resolved(w) \/ Clustered(w) \/ Diagnosed(w) \/ Extracted(w) \/ Synthesized(w)
    \/ SaveEntries(w) \/ NothingNew(w) \/ WriteFile(w) \/ Embedded(w) \/ Upserted(w)
    \/ Register(w) \/ SaveUpdated(w) \/ MarkGrades(w) \/ MarkDone(w) \/ MarkFailed(w)

Next ==
    \/ \E g \in Grades : Record(g)
    \/ \E r \in Runs : Age(r)
    \/ \E w \in Workers : Step(w) \/ Create(w) \/ \E r \in Runs : Resume(w, r) \/ Discard(w, r)
    \/ Crash

Spec == Init /\ [][Next]_vars

(* A call that is running goes on (its awaits return or raise), and the    *)
(* hourly loop calls run_for_project whenever it is triggered, which only  *)
(* the poor grades ensure, for they do not age.  Nobody need call the      *)
(* endpoint.                                                               *)
Call(w) == Create(w) \/ \E r \in Runs : Resume(w, r) \/ Discard(w, r)

Fairness ==
    /\ \A w \in Workers : WF_vars(Step(w))
    /\ \A w \in Workers \cap {"loop"} : WF_vars(Triggered({}) /\ Call(w))

FairSpec == Spec /\ Fairness

-----------------------------------------------------------------------------
(* Two callers never leave two resumable rows behind: whoever comes second *)
(* joins the running row or replaces it (engine.py:83-131).                *)
OneRunning == Cardinality(Running) <= 1

(* project_memory.md comes first, whatever crash or other worker comes     *)
(* between: it holds every entry of a run that counts as updated and every *)
(* note that is searchable, unless a write that was cut left it out, and   *)
(* the document the project points at is one that an upsert stored         *)
(* (engine.py:365-377, updater.py:90-144).                                 *)
Kept(n) == file[n] > 0 \/ n \in lost

UpdatedIsWritten ==
    /\ \A r \in Runs : run[r].step >= 6 => \A c \in run[r].entries : Kept(<<r, c>>)
    /\ \A p \in points : Kept(p.note)
    /\ memory # NoDoc => \E p \in points : p.doc = memory

(* A done run has consumed its grades, so that no later run counts them    *)
(* again: the grades are marked first, whatever crash or second worker     *)
(* comes between (engine.py:380-388).                                      *)
DoneIsProcessed ==
    \A r \in Runs, g \in Grades : run[r].status = "done" /\ g \in run[r].ids => grade[g] = "processed"

(* The inductive invariant.  No two workers are in a stretch without an    *)
(* await, and the one that replaces a stale row finds none running.        *)
OneAtATime ==
    \A v, w \in Workers : pc[v] \in Synchronous /\ pc[w] \in Synchronous => v = w

AtMostOne ==
    /\ \A q, r \in Running : q = r
    /\ \A w \in Workers : pc[w] = "insert" => Running = {}

(* The entries of a row are in the file, or the worker that has just saved *)
(* them is about to write them.                                            *)
Written(r) == \A c \in run[r].entries : Kept(<<r, c>>)
Covered(r) == Written(r) \/ \E u \in Workers : pc[u] = "memory" /\ Id(u) = r /\ notes[u] = run[r].entries

(* What a worker carries, by its stage.                                    *)
Filed == {"embed", "upsert", "register"}
Past == Filed \cup {"updated", "mark", "finish"}

WorkerInv(w) ==
    /\ pc[w] \notin {"idle", "insert"} => run[Id(w)].status # "none" /\ ckpt[w].ids = run[Id(w)].ids
    /\ pc[w] = "synthesize" => ckpt[w].idx < ckpt[w].clusters
    /\ pc[w] \in Past \/ (pc[w] = "provider" /\ ckpt[w].step >= 6) => Covered(Id(w))
    /\ pc[w] = "memory" \/ (pc[w] = "provider" /\ ckpt[w].step = 5) =>
           notes[w] = run[Id(w)].entries \/ Covered(Id(w))
    /\ pc[w] \in Filed => notes[w] # {} /\ \A c \in notes[w] : Kept(<<Id(w), c>>)
    /\ pc[w] \in {"upsert", "register"} => doc[w] \in DocIds
    /\ pc[w] = "register" => \E p \in points : p.doc = doc[w]
    /\ pc[w] = "finish" => \A g \in ckpt[w].ids : grade[g] = "processed"

IInv ==
    /\ TypeOK
    /\ OneAtATime /\ AtMostOne
    /\ \A w \in Workers : WorkerInv(w)
    /\ UpdatedIsWritten /\ DoneIsProcessed

(* A run over enough poor grades to trigger the loop ends, or at least     *)
(* consumes them: interrupted, it is taken up again (engine.py:276).  A    *)
(* run for frequent queries need not be: they age out of the trigger.      *)
TriggeredRunEnds ==
    \A r \in Runs :
        run[r].status = "running" /\ Cardinality(run[r].ids \cap Pending \cap Poor) >= Threshold
            ~> run[r].status # "running" \/ run[r].ids \cap Pending \cap Poor = {}

-----------------------------------------------------------------------------
(* schema.py:159 calls the checkpoint an "idempotent crash recovery": a    *)
(* note is appended to the file at most once.  Does not hold: the file is  *)
(* written before step 6 is saved.                                         *)
NoteOnce == \A n \in Notes : file[n] <= 1

(* engine.py:404-405: synthesis checkpoints "after each" cluster and       *)
(* "resumes from last_cluster_idx": then the notes of the clusters before  *)
(* it are among the entries.  Does not hold: only the index is saved.      *)
SynthesisKept == \A r \in Runs : run[r].step >= 5 => made[r] \subseteq run[r].entries

(* updater.py:35-41 appends the new entries and upserts "new vectors": the *)
(* notes of every done run stay searchable.  Does not hold: the points are *)
(* numbered from 0 in every run and replace those of the run before.       *)
NotesSearchable ==
    \A r \in Runs : run[r].status = "done" =>
        \A c \in run[r].entries : \E p \in points : p.note = <<r, c>>

(* schema.py:169: last_step is the "last fully committed step", so it      *)
(* never goes back.  Does not hold: the loop and the endpoint may work on  *)
(* one row, and the slower one overwrites the step of the faster.          *)
StepsCommitted == [][\A r \in Runs : run'[r].step >= run[r].step]_run

(* engine.py:276: run_for_project "resumes automatically if a previous run *)
(* was interrupted".  Does not hold for a run interrupted after its grades *)
(* were marked, or when its queries have aged: nothing triggers the loop.  *)
InterruptedResumes == \A r \in Runs : run[r].status = "running" ~> run[r].status # "running"

(* updater.py:39 says of the file "Append new entries".  Does not hold: it *)
(* is truncated and written anew, and a cut write loses earlier entries.   *)
OnlyAppended == [][\A n \in Notes : file[n] > 0 => file'[n] > 0]_file
=============================================================================
