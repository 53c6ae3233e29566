--------------------------- MODULE WatcherRunProofs ---------------------------
(***************************************************************************)
(* What holds of the watcher for any number of callers, grades, rows and   *)
(* clusters: IInv is inductive, and it implies the invariants of           *)
(* WatcherRun.  Each action has a lemma; what the actions share - that the *)
(* worker in a synchronous stretch is alone, and that a worker that does   *)
(* not move keeps what it carries - comes first.                           *)
(***************************************************************************)
EXTENDS WatcherRun, FiniteSetTheorems, TLAPS

(* A step that loses nothing: no row is forgotten, no note leaves the file *)
(* but by a cut write, and no document loses its last point; a processed   *)
(* grade stays so.                                                         *)
USE DEF fileVars, Kept

RowsKept == \A r \in Runs : run[r].status # "none" => run'[r].status # "none" /\ run'[r].ids = run[r].ids
FileKept == \A n \in Notes : Kept(n) => Kept(n)'
DocsKept == \A p \in points : \E q \in points' : q.doc = p.doc
GradesKept == \A g \in Grades : grade[g] = "processed" => grade'[g] = "processed"

(* The notes of a worker are accounted for after the step.                 *)
NotesKept(w) == \A r \in Runs : r = Id(w) => \A c \in notes[w] : Kept(<<r, c>>)'

(* What is covered stays covered, and entries change only when they are.   *)
CoverKept ==
    \A r \in Runs : run[r].status # "none" =>
        /\ Covered(r) => Covered(r)'
        /\ run'[r].entries = run[r].entries \/ Covered(r)'

Stays(v) == pc'[v] = pc[v] /\ ckpt'[v] = ckpt[v] /\ notes'[v] = notes[v] /\ doc'[v] = doc[v]

(* The worker that moves is alone in its synchronous stretch.              *)
LEMMA Alone ==
    ASSUME OneAtATime, NEW w \in Workers, Free(w) \/ pc[w] \in Synchronous,
           NEW u \in Workers, pc[u] \in Synchronous
    PROVE  u = w
BY DEF OneAtATime, Free

(* Rows and copies of rows after an assignment to their fields.            *)
LEMMA RunTyped ==
    ASSUME TypeOK, NEW r \in Runs, NEW row \in Row, run' = [run EXCEPT ![r] = row]
    PROVE  /\ run' \in [Runs -> Row]
           /\ run'[r] = row
           /\ \A q \in Runs \ {r} : run'[q] = run[q]
BY DEF TypeOK

(* Entries stay covered when the worker that is about to write them stays. *)
LEMMA CoveredKept ==
    ASSUME TypeOK, NEW r \in Runs, Covered(r), run'[r].entries = run[r].entries, FileKept,
           \A u \in Workers : pc[u] = "memory" => Stays(u)
    PROVE  Covered(r)'
<1>1. run[r].entries \subseteq Clusters
  BY DEF TypeOK, Row
<1>2. CASE Written(r)
  <2>1. \A c \in run[r].entries : <<r, c>> \in Notes
    BY <1>1 DEF Notes
  <2> QED BY <1>2, <2>1 DEF Covered, Written, FileKept
<1>3. CASE \E u \in Workers : pc[u] = "memory" /\ Id(u) = r /\ notes[u] = run[r].entries
  BY <1>3 DEF Covered, Stays, Id
<1> QED BY <1>2, <1>3 DEF Covered

(* A worker that does not move keeps what it carries.                      *)
LEMMA CarriedKept ==
    ASSUME TypeOK, RowsKept, FileKept, DocsKept, GradesKept, CoverKept,
           NEW v \in Workers, Stays(v), WorkerInv(v)
    PROVE  WorkerInv(v)'
<1>1. Id(v) \in Runs /\ Id(v)' = Id(v) /\ ckpt[v].ids \subseteq Grades /\ notes[v] \subseteq Clusters
  BY DEF TypeOK, Stays, Id
<1>2. CASE pc[v] \in {"idle", "insert"}
  BY <1>2 DEF WorkerInv, Stays, Past, Filed
<1>3. CASE pc[v] \notin {"idle", "insert"}
  <2>1. run[Id(v)].status # "none" /\ ckpt[v].ids = run[Id(v)].ids
    BY <1>3 DEF WorkerInv
  <2>2. run'[Id(v)].status # "none" /\ ckpt'[v].ids = run'[Id(v)].ids
    BY <2>1, <1>1 DEF RowsKept, Stays
  <2>3. /\ Covered(Id(v)) => Covered(Id(v))'
        /\ run'[Id(v)].entries = run[Id(v)].entries \/ Covered(Id(v))'
    BY <2>1, <1>1 DEF CoverKept
  <2>4. \A c \in notes[v] : Kept(<<Id(v), c>>) => Kept(<<Id(v), c>>)'
    BY <1>1 DEF FileKept, Notes
  <2>5. pc'[v] = "register" => \E p \in points' : p.doc = doc'[v]
    BY DEF WorkerInv, DocsKept, Stays
  <2>6. pc'[v] = "finish" => \A g \in ckpt'[v].ids : grade'[g] = "processed"
    BY <1>1 DEF WorkerInv, GradesKept, Stays
  <2>7. pc'[v] \in Filed => notes'[v] # {} /\ \A c \in notes'[v] : Kept(<<Id(v), c>>)'
    BY <2>4, <1>1 DEF WorkerInv, Stays
  <2> QED BY <1>1, <2>2, <2>3, <2>5, <2>6, <2>7 DEF WorkerInv, Stays, Past, Filed
<1> QED BY <1>2, <1>3

(* What is left to show of a step in which only w moves.                   *)
LEMMA StepKeepsIInv ==
    ASSUME IInv, NEW w \in Workers, Free(w) \/ pc[w] \in Synchronous,
           \A v \in Workers \ {w} : Stays(v),
           RowsKept, FileKept, DocsKept, GradesKept, CoverKept,
           TypeOK', AtMostOne', WorkerInv(w)', UpdatedIsWritten', DoneIsProcessed'
    PROVE  IInv'
<1>1. OneAtATime'
  BY DEF IInv, OneAtATime, Free, Stays
<1>2. ASSUME NEW v \in Workers PROVE WorkerInv(v)'
  <2>1. CASE v = w
    BY <2>1
  <2>2. CASE v # w
    BY <2>2, CarriedKept DEF IInv
  <2> QED BY <2>1, <2>2
<1> QED BY <1>1, <1>2 DEF IInv

(* A field of a row, or of a copy of one, is assigned.                     *)
LEMMA RowTyped ==
    ASSUME NEW row \in Row
    PROVE  /\ [row EXCEPT !.old = TRUE] \in Row
           /\ \A s \in {"done", "failed"} : [row EXCEPT !.status = s] \in Row
           /\ \A k \in 0..7 : [row EXCEPT !.step = k] \in Row
BY DEF Row

Copies == [id : Runs, step : 0..7, idx : 0..MaxClusters, clusters : 0..MaxClusters,
           ids : SUBSET Grades]

(* A worker replaces its copy of the row.                                  *)
LEMMA CopyTyped ==
    ASSUME TypeOK, NEW w \in Workers, NEW copy \in Copies, ckpt' = [ckpt EXCEPT ![w] = copy]
    PROVE  /\ ckpt' \in [Workers -> Copies]
           /\ ckpt'[w] = copy
           /\ \A v \in Workers \ {w} : ckpt'[v] = ckpt[v]
BY DEF TypeOK, Copies

(* A grade is recorded: no worker is concerned.                            *)
LEMMA RecordIInv ==
    ASSUME IInv, NEW g \in Grades, Record(g)
    PROVE  IInv'
<1>1. /\ grade' = [grade EXCEPT ![g] = "pending"] /\ grade[g] = "absent"
      /\ UNCHANGED <<run, memory, file, lost, points, pc, ckpt, notes, doc, made, crashes>>
  BY DEF Record
<1>2. TypeOK /\ TypeOK'
  BY <1>1 DEF IInv, TypeOK
<1>3. GradesKept /\ \A r \in Runs : run[r].ids \subseteq Grades
  BY <1>1, <1>2 DEF GradesKept, TypeOK, Row
<1>4. ASSUME NEW v \in Workers PROVE WorkerInv(v)'
  <2>1. RowsKept /\ FileKept /\ DocsKept /\ CoverKept /\ Stays(v)
    BY <1>1 DEF RowsKept, FileKept, DocsKept, CoverKept, Covered, Written, Id, Stays
  <2> QED BY <1>2, <1>3, <2>1, CarriedKept DEF IInv
<1>5. OneAtATime' /\ AtMostOne' /\ UpdatedIsWritten'
  BY <1>1 DEF IInv, OneAtATime, AtMostOne, Running, UpdatedIsWritten
<1>6. DoneIsProcessed'
  BY <1>1, <1>3 DEF IInv, DoneIsProcessed, GradesKept
<1> QED BY <1>2, <1>4, <1>5, <1>6 DEF IInv

(* A running row ages.                                                     *)
LEMMA AgeIInv ==
    ASSUME IInv, NEW r \in Runs, Age(r)
    PROVE  IInv'
<1> DEFINE row == [run[r] EXCEPT !.old = TRUE]
<1>1. /\ run' = [run EXCEPT ![r] = row]
      /\ \A u \in Workers : pc[u] \notin Synchronous
      /\ UNCHANGED <<grade, memory, file, lost, points, pc, ckpt, notes, doc, made, crashes>>
  BY DEF Age
<1>2. run[r] \in Row /\ row \in Row /\ TypeOK
  <2>1. run[r] \in Row
    BY DEF IInv, TypeOK
  <2> QED BY <2>1, RowTyped DEF IInv
<1>3. TypeOK'
  BY <1>1, <1>2, RunTyped DEF TypeOK
<1>4. \A q \in Runs : run'[q].status = run[q].status /\ run'[q].ids = run[q].ids
                      /\ run'[q].step = run[q].step /\ run'[q].entries = run[q].entries
  <2>1. /\ row.status = run[r].status /\ row.ids = run[r].ids
        /\ row.step = run[r].step /\ row.entries = run[r].entries
    BY <1>2 DEF Row
  <2> HIDE DEF row
  <2> QED BY <1>1, <1>2, <2>1, RunTyped
<1> HIDE DEF row
<1>5. ASSUME NEW v \in Workers PROVE WorkerInv(v)'
  <2>1. RowsKept /\ FileKept /\ DocsKept /\ GradesKept /\ Stays(v)
    BY <1>1, <1>4 DEF RowsKept, FileKept, DocsKept, GradesKept, Stays
  <2>2. CoverKept
    BY <1>1, <1>4 DEF CoverKept, Covered, Written, Id
  <2> QED BY <1>2, <2>1, <2>2, CarriedKept DEF IInv
<1>6. OneAtATime' /\ AtMostOne' /\ UpdatedIsWritten' /\ DoneIsProcessed'
  BY <1>1, <1>4 DEF IInv, OneAtATime, AtMostOne, Running, UpdatedIsWritten, DoneIsProcessed
<1> QED BY <1>3, <1>5, <1>6 DEF IInv

(* A worker resumes the running row: it carries the entries of the row.    *)
LEMMA ResumeIInv ==
    ASSUME IInv, NEW w \in Workers, NEW r \in Runs, Resume(w, r)
    PROVE  IInv'
<1> DEFINE copy == [id |-> r, step |-> run[r].step, idx |-> run[r].idx,
                    clusters |-> run[r].clusters, ids |-> run[r].ids]
<1>1. /\ Free(w) /\ pc[w] = "idle" /\ run[r].status = "running"
      /\ ckpt' = [ckpt EXCEPT ![w] = copy]
      /\ notes' = [notes EXCEPT ![w] = run[r].entries]
      /\ pc' = [pc EXCEPT ![w] = "provider"]
      /\ UNCHANGED <<run, grade, memory, file, lost, points, doc, made, crashes>>
  BY DEF Resume, Called, At, Load, Goto, Running
<1>2. run[r] \in Row /\ TypeOK
  BY DEF IInv, TypeOK
<1>3. copy \in [id : Runs, step : 0..7, idx : 0..MaxClusters, clusters : 0..MaxClusters,
                ids : SUBSET Grades]
  BY <1>2 DEF Row
<1>4. run[r].entries \in SUBSET Clusters
  BY <1>2 DEF Row
<1>5. copy.id = r /\ copy.ids = run[r].ids /\ copy.step = run[r].step
  OBVIOUS
<1> HIDE DEF copy
<1>6. /\ pc'[w] = "provider" /\ ckpt'[w] = copy /\ notes'[w] = run[r].entries /\ Id(w)' = r
      /\ \A v \in Workers \ {w} : Stays(v)
  BY <1>1, <1>2, <1>5 DEF TypeOK, Stays, Id
<1>7. TypeOK'
  BY <1>1, <1>2, <1>3, <1>4 DEF TypeOK, Awaiting
<1>8. RowsKept /\ FileKept /\ DocsKept /\ GradesKept
  BY <1>1 DEF RowsKept, FileKept, DocsKept, GradesKept
<1>9. \A u \in Workers : pc[u] = "memory" => Stays(u)
  BY <1>1, <1>6
<1>10. CoverKept
  BY <1>1, <1>2, <1>8, <1>9, CoveredKept DEF CoverKept
<1>11. WorkerInv(w)'
  <2>1. run[r].step >= 6 => Written(r)
    BY DEF IInv, UpdatedIsWritten, Written
  <2>2. run[r].step >= 6 => Covered(r)'
    BY <2>1, <1>1 DEF Covered, Written
  <2> QED BY <1>1, <1>5, <1>6, <2>2 DEF WorkerInv, Past, Filed
<1>12. AtMostOne' /\ UpdatedIsWritten' /\ DoneIsProcessed'
  BY <1>1, <1>6 DEF IInv, AtMostOne, Running, UpdatedIsWritten, DoneIsProcessed, Stays
<1> QED BY <1>1, <1>6, <1>7, <1>8, <1>10, <1>11, <1>12, StepKeepsIInv

(* The running row is discarded: none is running when it is replaced.      *)
LEMMA DiscardIInv ==
    ASSUME IInv, NEW w \in Workers, NEW r \in Runs, Discard(w, r)
    PROVE  IInv'
<1> DEFINE row == [run[r] EXCEPT !.status = "failed"]
           copy == [ckpt[w] EXCEPT !.ids = run[r].ids]
<1>1. /\ Free(w) /\ pc[w] = "idle" /\ r \in Running
      /\ run' = [run EXCEPT ![r] = row]
      /\ ckpt' = [ckpt EXCEPT ![w] = copy]
      /\ pc' = [pc EXCEPT ![w] = "insert"]
      /\ UNCHANGED <<grade, memory, file, lost, points, notes, doc, made, crashes>>
  BY DEF Discard, Called, At, Goto
<1>2. run[r] \in Row /\ row \in Row /\ TypeOK
  <2>1. run[r] \in Row
    BY DEF IInv, TypeOK
  <2> QED BY <2>1, RowTyped DEF IInv
<1>3. copy \in [id : Runs, step : 0..7, idx : 0..MaxClusters, clusters : 0..MaxClusters,
                ids : SUBSET Grades]
  <2>1. run[r].ids \in SUBSET Grades
    BY <1>2 DEF Row
  <2>2. ckpt[w] \in [id : Runs, step : 0..7, idx : 0..MaxClusters, clusters : 0..MaxClusters,
                     ids : SUBSET Grades]
    BY <1>2 DEF TypeOK
  <2> QED BY <2>1, <2>2
<1>4. \A q \in Runs :
        /\ run'[q].ids = run[q].ids /\ run'[q].entries = run[q].entries /\ run'[q].step = run[q].step
        /\ run'[q].status = IF q = r THEN "failed" ELSE run[q].status
  <2>1. /\ row.status = "failed" /\ row.ids = run[r].ids
        /\ row.step = run[r].step /\ row.entries = run[r].entries
    BY <1>2 DEF Row
  <2> HIDE DEF row
  <2> QED BY <1>1, <1>2, <2>1, RunTyped
<1> HIDE DEF row, copy
<1>5. pc'[w] = "insert" /\ \A v \in Workers \ {w} : Stays(v) /\ pc[v] \notin Synchronous
  BY <1>1, <1>2 DEF TypeOK, Stays, Free
<1>6. TypeOK'
  BY <1>1, <1>2, <1>3, RunTyped DEF TypeOK, Synchronous
<1>7. RowsKept /\ FileKept /\ DocsKept /\ GradesKept
  BY <1>1, <1>4 DEF RowsKept, FileKept, DocsKept, GradesKept
<1>8. CoverKept
  BY <1>1, <1>2, <1>4, <1>5, <1>7, CoveredKept DEF CoverKept, Synchronous
<1>9. WorkerInv(w)'
  BY <1>5 DEF WorkerInv, Past, Filed
<1>10. AtMostOne'
  BY <1>1, <1>4 DEF IInv, AtMostOne, Running
<1>11. UpdatedIsWritten' /\ DoneIsProcessed'
  BY <1>1, <1>4 DEF IInv, UpdatedIsWritten, DoneIsProcessed
<1> QED BY <1>1, <1>5, <1>6, <1>7, <1>8, <1>9, <1>10, <1>11, StepKeepsIInv

(* A worker inserts a row when none is running.                            *)
LEMMA InsertIInv ==
    ASSUME IInv, NEW w \in Workers, Free(w) \/ pc[w] \in Synchronous,
           pc[w] \in {"idle", "insert"}, Running = {}, NEW ids \in SUBSET Grades, Insert(w, ids)
    PROVE  IInv'
<1> DEFINE row == [NoRow EXCEPT !.status = "running", !.ids = ids]
<1>1. PICK r \in Runs : /\ run[r].status = "none"
                        /\ run' = [run EXCEPT ![r] = row]
                        /\ Load(w, r, run'[r])
  BY DEF Insert
<1>2. TypeOK /\ MaxClusters \in Nat
  BY WatcherAssumption DEF IInv
<1>3. /\ row \in Row /\ row.status = "running" /\ row.ids = ids /\ row.step = 0
      /\ row.entries = {} /\ row.idx = 0 /\ row.clusters = 0
  <2>1. row = [[NoRow EXCEPT !.status = "running"] EXCEPT !.ids = ids]
    OBVIOUS
  <2>2. 0 \in 0..7 /\ 0 \in 0..MaxClusters /\ {} \in SUBSET Clusters
    BY <1>2
  <2>3. NoRow \in Row /\ NoRow.step = 0 /\ NoRow.entries = {} /\ NoRow.idx = 0 /\ NoRow.clusters = 0
    BY <2>2 DEF Row, NoRow
  <2> HIDE DEF NoRow, row
  <2> DEFINE started == [NoRow EXCEPT !.status = "running"]
  <2>4. /\ started \in Row /\ started.status = "running" /\ started.step = 0
        /\ started.entries = {} /\ started.idx = 0 /\ started.clusters = 0
    BY <2>3 DEF Row
  <2>5. row = [started EXCEPT !.ids = ids]
    BY <2>1
  <2> HIDE DEF started
  <2> QED BY <2>4, <2>5 DEF Row
<1> DEFINE copy == [id |-> r, step |-> 0, idx |-> 0, clusters |-> 0, ids |-> ids]
<1>4. copy \in Copies /\ copy.id = r /\ copy.step = 0 /\ copy.ids = ids
  BY <1>2 DEF Copies
<1> HIDE DEF row
<1>5. run' \in [Runs -> Row] /\ run'[r] = row /\ \A q \in Runs \ {r} : run'[q] = run[q]
  BY <1>1, <1>2, <1>3, RunTyped
<1>6. /\ ckpt' = [ckpt EXCEPT ![w] = copy]
      /\ notes' = [notes EXCEPT ![w] = {}]
      /\ pc' = [pc EXCEPT ![w] = "provider"]
      /\ UNCHANGED <<grade, memory, file, lost, points, doc, made, crashes>>
  BY <1>1, <1>3, <1>5 DEF Load, Goto
<1> HIDE DEF copy
<1>7. /\ ckpt' \in [Workers -> Copies] /\ ckpt'[w] = copy /\ notes'[w] = {}
      /\ pc'[w] = "provider" /\ Id(w)' = r
      /\ \A v \in Workers \ {w} : Stays(v) /\ pc[v] \notin Synchronous
  BY <1>2, <1>4, <1>6, CopyTyped, Alone DEF IInv, TypeOK, Stays, Id
<1>8. TypeOK'
  BY <1>2, <1>5, <1>6, <1>7 DEF TypeOK, Awaiting, Copies
<1>9. RowsKept /\ FileKept /\ DocsKept /\ GradesKept
  BY <1>1, <1>5, <1>6 DEF RowsKept, FileKept, DocsKept, GradesKept
<1>10. CoverKept
  <2> SUFFICES ASSUME NEW q \in Runs, run[q].status # "none"
               PROVE  (Covered(q) => Covered(q)') /\ run'[q].entries = run[q].entries
    BY DEF CoverKept
  <2>1. run'[q].entries = run[q].entries
    BY <1>1, <1>5
  <2>2. \A u \in Workers : pc[u] = "memory" => Stays(u)
    BY <1>7 DEF Synchronous
  <2> QED BY <1>2, <1>9, <2>1, <2>2, CoveredKept
<1>11. WorkerInv(w)'
  BY <1>3, <1>4, <1>5, <1>7 DEF WorkerInv, Past, Filed
<1>12. AtMostOne'
  <2>1. Running' = {r}
    BY <1>1, <1>3, <1>5 DEF Running
  <2>2. \A v \in Workers : pc'[v] # "insert"
    BY <1>7 DEF Stays, Synchronous
  <2> QED BY <2>1, <2>2 DEF AtMostOne
<1>13. UpdatedIsWritten'
  BY <1>3, <1>5, <1>6 DEF IInv, UpdatedIsWritten
<1>14. DoneIsProcessed'
  BY <1>3, <1>5, <1>6 DEF IInv, DoneIsProcessed
<1> QED BY <1>7, <1>8, <1>9, <1>10, <1>11, <1>12, <1>13, <1>14, StepKeepsIInv

(* A run for grades nobody took: a row with a new id.                      *)
LEMMA CreateIInv ==
    ASSUME IInv, NEW w \in Workers, Create(w)
    PROVE  IInv'
<1>1. Pending \subseteq Grades
  BY DEF Pending
<1> QED BY <1>1, InsertIInv DEF Create, Called, At

(* A run that takes over the grades of the row it found too old.           *)
LEMMA ReplaceIInv ==
    ASSUME IInv, NEW w \in Workers, Replace(w)
    PROVE  IInv'
<1>1. ckpt[w].ids \subseteq Grades
  BY DEF IInv, TypeOK
<1>2. Running = {} /\ pc[w] \in Synchronous
  BY DEF IInv, AtMostOne, Replace, Synchronous
<1> QED BY <1>1, <1>2, InsertIInv DEF Replace

(* A step that touches only the worker: nothing of the stores changes, and *)
(* the worker was not about to write.                                      *)
LEMMA LocalKeepsIInv ==
    ASSUME IInv, NEW w \in Workers, Free(w) \/ pc[w] \in Synchronous, pc[w] # "memory",
           \A v \in Workers \ {w} : Stays(v), UNCHANGED <<run, file, lost, grade>>,
           pc'[w] # "insert", TypeOK', WorkerInv(w)', UpdatedIsWritten', DocsKept
    PROVE  IInv'
<1>1. RowsKept /\ FileKept /\ GradesKept
  BY DEF RowsKept, FileKept, GradesKept
<1>2. \A u \in Workers : pc[u] = "memory" => Stays(u)
  OBVIOUS
<1>3. CoverKept
  BY <1>1, <1>2, CoveredKept DEF CoverKept, IInv
<1>4. AtMostOne' /\ DoneIsProcessed'
  BY DEF IInv, AtMostOne, Running, DoneIsProcessed, Stays
<1> QED BY <1>1, <1>3, <1>4, StepKeepsIInv

(* The worker goes on after the last step of its copy.                     *)
LEMMA ResolvedIInv ==
    ASSUME IInv, NEW w \in Workers, Resolved(w)
    PROVE  IInv'
<1>1. /\ Free(w) /\ pc[w] = "provider"
      /\ UNCHANGED <<run, memory, grade, file, lost, points, ckpt, doc, made, crashes>>
      /\ pc' = [pc EXCEPT ![w] = pc'[w]]
      /\ notes' = [notes EXCEPT ![w] = IF ckpt[w].step < 5 THEN {} ELSE @]
  BY DEF Resolved, At, Goto, storeVars, dbVars, IInv, TypeOK
<1>2. /\ pc'[w] \in {"cluster", "diagnose", "extract", "synthesize", "entries", "memory", "mark"}
      /\ pc'[w] = "synthesize" => ckpt[w].idx < ckpt[w].clusters
      /\ pc'[w] = "memory" => ckpt[w].step = 5
      /\ pc'[w] = "mark" => ckpt[w].step >= 6
  <2>1. ckpt[w].step \in 0..7
    BY DEF IInv, TypeOK
  <2>2. pc'[w] = IF ckpt[w].step < 2 THEN "cluster"
                 ELSE IF ckpt[w].step = 2 THEN "diagnose"
                 ELSE IF ckpt[w].step = 3 THEN "extract"
                 ELSE IF ckpt[w].step = 4 THEN NextCluster(w)
                 ELSE IF ckpt[w].step = 5 THEN "memory" ELSE "mark"
    BY DEF Resolved, Goto, IInv, TypeOK
  <2>3. NextCluster(w) = IF ckpt[w].idx < ckpt[w].clusters THEN "synthesize" ELSE "entries"
    BY <1>1 DEF NextCluster
  <2> QED BY <2>1, <2>2, <2>3
<1>3. \A v \in Workers \ {w} : Stays(v)
  BY <1>1 DEF IInv, TypeOK, Stays
<1>4. TypeOK'
  BY <1>1, <1>2 DEF IInv, TypeOK, Awaiting, Synchronous
<1>5. UpdatedIsWritten' /\ DocsKept
  BY <1>1 DEF IInv, UpdatedIsWritten, DocsKept
<1>6. \A r \in Runs : Covered(r) => Covered(r)'
  <2>1. FileKept /\ \A u \in Workers : pc[u] = "memory" => Stays(u)
    BY <1>1, <1>3 DEF FileKept
  <2> QED BY <1>1, <2>1, CoveredKept DEF IInv
<1>7. WorkerInv(w)'
  <2>1. Id(w) \in Runs /\ Id(w)' = Id(w) /\ run[Id(w)].status # "none"
        /\ ckpt[w].ids = run[Id(w)].ids
    BY <1>1 DEF IInv, TypeOK, Id, WorkerInv
  <2>2. pc'[w] = "mark" => Covered(Id(w))'
    BY <1>1, <1>2, <1>6, <2>1 DEF IInv, WorkerInv
  <2>3. pc'[w] = "memory" => notes'[w] = run[Id(w)].entries \/ Covered(Id(w))'
    BY <1>1, <1>2, <1>6, <2>1 DEF IInv, WorkerInv, TypeOK
  <2> QED BY <1>1, <1>2, <2>1, <2>2, <2>3 DEF WorkerInv, Past, Filed
<1> QED BY <1>1, <1>2, <1>3, <1>4, <1>5, <1>7, LocalKeepsIInv

(* A step that rewrites the row and the copy of the worker but neither     *)
(* their grades nor the entries nor the status: the analysis and step 6.   *)
LEMMA RowKeepsIInv ==
    ASSUME IInv, NEW w \in Workers, Free(w) \/ pc[w] \in Synchronous,
           pc[w] \notin {"idle", "insert", "memory"}, NEW row \in Row, NEW copy \in Copies,
           run' = [run EXCEPT ![Id(w)] = row], ckpt' = [ckpt EXCEPT ![w] = copy],
           copy.id = Id(w), copy.ids = ckpt[w].ids,
           row.ids = run[Id(w)].ids, row.entries = run[Id(w)].entries,
           row.status = run[Id(w)].status, row.step >= 6 => Covered(Id(w)),
           NEW stage \in {"extract", "diagnose", "synthesize", "entries", "mark"},
           pc' = [pc EXCEPT ![w] = stage],
           stage = "synthesize" => copy.idx < copy.clusters,
           stage = "mark" => Covered(Id(w)),
           NEW new \in SUBSET Clusters, notes' = [notes EXCEPT ![w] = new],
           made' \in [Runs -> SUBSET Clusters],
           UNCHANGED <<grade, memory, file, lost, points, doc, crashes>>
    PROVE  IInv'
<1>1. TypeOK /\ Id(w) \in Runs
  BY DEF IInv, TypeOK, Id
<1>2. /\ run' \in [Runs -> Row] /\ run'[Id(w)] = row
      /\ \A q \in Runs \ {Id(w)} : run'[q] = run[q]
  BY <1>1, RunTyped
<1>3. /\ ckpt' \in [Workers -> Copies] /\ ckpt'[w] = copy /\ pc'[w] = stage /\ Id(w)' = Id(w)
      /\ \A v \in Workers \ {w} : Stays(v)
  BY <1>1, CopyTyped DEF TypeOK, Stays, Id
<1>4. \A q \in Runs : /\ run'[q].ids = run[q].ids /\ run'[q].entries = run[q].entries
                      /\ run'[q].status = run[q].status
  BY <1>2
<1>5. TypeOK'
  BY <1>1, <1>2, <1>3 DEF TypeOK, Awaiting, Synchronous, Copies
<1>6. RowsKept /\ FileKept /\ DocsKept /\ GradesKept
  BY <1>4 DEF RowsKept, FileKept, DocsKept, GradesKept
<1>7. \A q \in Runs : Covered(q) => Covered(q)'
  BY <1>1, <1>3, <1>4, <1>6, CoveredKept
<1>8. CoverKept
  BY <1>4, <1>7 DEF CoverKept
<1>9. AtMostOne'
  <2>1. Running' = Running /\ \A v \in Workers : pc'[v] = "insert" => pc[v] = "insert"
    BY <1>3, <1>4 DEF Running, Stays
  <2> QED BY <2>1 DEF IInv, AtMostOne
<1>10. WorkerInv(w)'
  <2>1. run[Id(w)].status # "none" /\ ckpt[w].ids = run[Id(w)].ids
    BY DEF IInv, WorkerInv
  <2> QED BY <1>1, <1>2, <1>3, <1>7, <2>1 DEF WorkerInv, Past, Filed
<1>11. Covered(Id(w)) => Written(Id(w))
  <2>1. ASSUME NEW u \in Workers, pc[u] = "memory" PROVE FALSE
    BY <2>1, Alone DEF IInv, Synchronous
  <2> QED BY <2>1 DEF Covered
<1>12. UpdatedIsWritten'
  <2>1. ASSUME NEW r \in Runs, run'[r].step >= 6, NEW c \in run'[r].entries
        PROVE  Kept(<<r, c>>)'
    BY <1>2, <1>4, <1>11, <2>1 DEF IInv, UpdatedIsWritten, Written
  <2> QED BY <2>1 DEF IInv, UpdatedIsWritten
<1>13. DoneIsProcessed'
  BY <1>4 DEF IInv, DoneIsProcessed
<1> QED BY <1>3, <1>5, <1>6, <1>8, <1>9, <1>10, <1>12, <1>13, StepKeepsIInv

(* Steps 2 to 4: the row and the copy advance together.                    *)
LEMMA ClusteredIInv ==
    ASSUME IInv, NEW w \in Workers, Clustered(w)
    PROVE  IInv'
<1>1. Id(w) \in Runs /\ run[Id(w)] \in Row /\ ckpt[w] \in Copies /\ notes[w] \in SUBSET Clusters
  BY DEF IInv, TypeOK, Id, Copies
<1>2. PICK n \in 1..MaxClusters :
        /\ run' = [run EXCEPT ![Id(w)].step = 2, ![Id(w)].clusters = n]
        /\ ckpt' = [ckpt EXCEPT ![w].step = 2, ![w].clusters = n]
  BY DEF Clustered
<1> DEFINE row == [run[Id(w)] EXCEPT !.step = 2, !.clusters = n]
           copy == [ckpt[w] EXCEPT !.step = 2, !.clusters = n]
<1>3. n \in 0..MaxClusters
  BY <1>2, WatcherAssumption
<1>4. /\ row \in Row /\ row.ids = run[Id(w)].ids /\ row.entries = run[Id(w)].entries
      /\ row.status = run[Id(w)].status /\ row.step = 2
  <2> DEFINE stepped == [run[Id(w)] EXCEPT !.step = 2]
  <2>1. /\ stepped \in Row /\ stepped.ids = run[Id(w)].ids /\ stepped.step = 2
        /\ stepped.entries = run[Id(w)].entries /\ stepped.status = run[Id(w)].status
    BY <1>1 DEF Row
  <2>2. row = [stepped EXCEPT !.clusters = n]
    OBVIOUS
  <2> HIDE DEF stepped, row
  <2> QED BY <1>3, <2>1, <2>2 DEF Row
<1>5. copy \in Copies /\ copy.id = Id(w) /\ copy.ids = ckpt[w].ids
  <2> DEFINE stepped == [ckpt[w] EXCEPT !.step = 2]
  <2>1. stepped \in Copies /\ stepped.id = Id(w) /\ stepped.ids = ckpt[w].ids
    BY <1>1 DEF Copies, Id
  <2>2. copy = [stepped EXCEPT !.clusters = n]
    OBVIOUS
  <2> HIDE DEF stepped, copy
  <2> QED BY <1>3, <2>1, <2>2 DEF Copies
<1>6. run' = [run EXCEPT ![Id(w)] = row] /\ ckpt' = [ckpt EXCEPT ![w] = copy]
  BY <1>1, <1>2 DEF IInv, TypeOK
<1> HIDE DEF row, copy
<1>7. /\ Free(w) /\ pc[w] = "cluster" /\ pc' = [pc EXCEPT ![w] = "diagnose"]
      /\ UNCHANGED <<grade, memory, file, lost, points, notes, doc, made, crashes>>
  BY DEF Clustered, At, Goto
<1>8. notes' = [notes EXCEPT ![w] = notes[w]] /\ made' \in [Runs -> SUBSET Clusters]
  BY <1>7 DEF IInv, TypeOK
<1>9. pc[w] \notin {"idle", "insert", "memory"} /\ ~(row.step >= 6)
  BY <1>4, <1>7
<1> QED BY <1>1, <1>4, <1>5, <1>6, <1>7, <1>8, <1>9, RowKeepsIInv

(* save_step, on the way to the next stage.                                *)
LEMMA SaveStepIInv ==
    ASSUME IInv, NEW w \in Workers, Free(w) \/ pc[w] \in Synchronous,
           pc[w] \notin {"idle", "insert", "memory"},
           NEW k \in 0..7, SaveStep(w, k), k >= 6 => Covered(Id(w)),
           NEW stage \in {"extract", "diagnose", "synthesize", "entries", "mark"},
           pc' = [pc EXCEPT ![w] = stage],
           stage = "synthesize" => ckpt[w].idx < ckpt[w].clusters,
           stage = "mark" => Covered(Id(w)),
           UNCHANGED <<grade, memory, file, lost, points, notes, doc, made, crashes>>
    PROVE  IInv'
<1> DEFINE row == [run[Id(w)] EXCEPT !.step = k]
           copy == [ckpt[w] EXCEPT !.step = k]
<1>1. Id(w) \in Runs /\ run[Id(w)] \in Row /\ ckpt[w] \in Copies
  BY DEF IInv, TypeOK, Id, Copies
<1>2. run' = [run EXCEPT ![Id(w)] = row] /\ ckpt' = [ckpt EXCEPT ![w] = copy]
  BY DEF SaveStep
<1>3. /\ row \in Row /\ row.ids = run[Id(w)].ids /\ row.entries = run[Id(w)].entries
      /\ row.status = run[Id(w)].status /\ row.step = k
  BY <1>1 DEF Row
<1>4. /\ copy \in Copies /\ copy.id = Id(w) /\ copy.ids = ckpt[w].ids
      /\ copy.idx = ckpt[w].idx /\ copy.clusters = ckpt[w].clusters
  BY <1>1 DEF Copies, Id
<1>5. /\ notes[w] \in SUBSET Clusters /\ made' \in [Runs -> SUBSET Clusters]
      /\ notes' = [notes EXCEPT ![w] = notes[w]]
  BY DEF IInv, TypeOK
<1> HIDE DEF row, copy
<1> QED BY <1>2, <1>3, <1>4, <1>5, RowKeepsIInv

(* Step 3 is saved.                                                        *)
LEMMA DiagnosedIInv ==
    ASSUME IInv, NEW w \in Workers, Diagnosed(w)
    PROVE  IInv'
<1>1. /\ Free(w) /\ pc[w] = "diagnose" /\ SaveStep(w, 3) /\ pc' = [pc EXCEPT ![w] = "extract"]
      /\ UNCHANGED <<grade, memory, file, lost, points, notes, doc, made, crashes>>
  BY DEF Diagnosed, At, Goto
<1>2. 3 \in 0..7 /\ ~(3 >= 6)
  OBVIOUS
<1> QED BY <1>1, <1>2, SaveStepIInv

(* The clusters are known, and the first of them is next.                  *)
LEMMA ExtractedIInv ==
    ASSUME IInv, NEW w \in Workers, Extracted(w)
    PROVE  IInv'
<1>1. /\ NextCluster(w) \in {"synthesize", "entries"}
      /\ NextCluster(w) = "synthesize" => ckpt[w].idx < ckpt[w].clusters
  <2>1. ckpt[w] \in Copies /\ ckpt'[w] = [ckpt[w] EXCEPT !.step = 4]
    BY DEF IInv, TypeOK, Copies, Extracted, SaveStep
  <2>2. ckpt'[w].idx = ckpt[w].idx
    BY <2>1 DEF Copies
  <2> QED BY <2>2 DEF NextCluster
<1>2. /\ Free(w) /\ pc[w] = "extract" /\ SaveStep(w, 4) /\ pc' = [pc EXCEPT ![w] = NextCluster(w)]
      /\ UNCHANGED <<grade, memory, file, lost, points, notes, doc, made, crashes>>
  BY DEF Extracted, At, Goto
<1>3. 4 \in 0..7 /\ ~(4 >= 6)
  OBVIOUS
<1> QED BY <1>1, <1>2, <1>3, SaveStepIInv

(* Step 6 is saved by a worker whose entries are in the file.              *)
LEMMA SaveUpdatedIInv ==
    ASSUME IInv, NEW w \in Workers, SaveUpdated(w)
    PROVE  IInv'
<1>1. pc[w] \in Synchronous /\ Covered(Id(w))
  BY DEF SaveUpdated, IInv, WorkerInv, Past, Synchronous
<1>2. /\ pc[w] = "updated" /\ SaveStep(w, 6) /\ pc' = [pc EXCEPT ![w] = "mark"]
      /\ UNCHANGED <<grade, memory, file, lost, points, notes, doc, made, crashes>>
  BY DEF SaveUpdated, Goto
<1>3. 6 \in 0..7
  OBVIOUS
<1> QED BY <1>1, <1>2, <1>3, SaveStepIInv

(* A cluster is synthesised: its note is with the worker only.             *)
LEMMA SynthesizedIInv ==
    ASSUME IInv, NEW w \in Workers, Synthesized(w)
    PROVE  IInv'
<1> DEFINE c == ckpt[w].idx + 1
           row == [run[Id(w)] EXCEPT !.idx = c]
           copy == [ckpt[w] EXCEPT !.idx = c]
<1>1. Id(w) \in Runs /\ run[Id(w)] \in Row /\ ckpt[w] \in Copies /\ notes[w] \subseteq Clusters
  BY DEF IInv, TypeOK, Id, Copies
<1>2. /\ Free(w) /\ pc[w] = "synthesize" /\ pc' = [pc EXCEPT ![w] = NextCluster(w)]
      /\ run' = [run EXCEPT ![Id(w)] = row] /\ ckpt' = [ckpt EXCEPT ![w] = copy]
      /\ UNCHANGED <<grade, memory, file, lost, points, doc, crashes>>
  BY DEF Synthesized, At, Goto
<1>3. PICK new \in {{}, {c}} : /\ notes' = [notes EXCEPT ![w] = @ \cup new]
                              /\ made' = [made EXCEPT ![Id(w)] = @ \cup new]
  BY DEF Synthesized
<1>4. c \in Clusters /\ c \in 0..MaxClusters
  <2>1. ckpt[w].idx < ckpt[w].clusters
    BY <1>2 DEF IInv, WorkerInv
  <2>2. ckpt[w].idx \in 0..MaxClusters /\ ckpt[w].clusters \in 0..MaxClusters
    BY <1>1 DEF Copies
  <2> QED BY <2>1, <2>2, WatcherAssumption DEF Clusters
<1>5. /\ notes[w] \cup new \in SUBSET Clusters /\ made' \in [Runs -> SUBSET Clusters]
      /\ notes' = [notes EXCEPT ![w] = notes[w] \cup new]
  <2>1. new \subseteq Clusters
    BY <1>3, <1>4
  <2>2. made \in [Runs -> SUBSET Clusters]
    BY DEF IInv, TypeOK
  <2> HIDE DEF c
  <2> QED BY <1>1, <1>3, <2>1, <2>2
<1> HIDE DEF c
<1>6. /\ row \in Row /\ row.ids = run[Id(w)].ids /\ row.entries = run[Id(w)].entries
      /\ row.status = run[Id(w)].status /\ row.step = run[Id(w)].step
  BY <1>1, <1>4 DEF Row
<1>7. /\ copy \in Copies /\ copy.id = Id(w) /\ copy.ids = ckpt[w].ids
      /\ copy.idx = c /\ copy.clusters = ckpt[w].clusters
  BY <1>1, <1>4 DEF Copies, Id
<1> HIDE DEF row, copy
<1>8. /\ NextCluster(w) \in {"synthesize", "entries"}
      /\ NextCluster(w) = "synthesize" => copy.idx < copy.clusters
  <2>1. ckpt'[w].idx = copy.idx
    BY <1>2, <1>7, CopyTyped DEF IInv
  <2> QED BY <1>7, <2>1 DEF NextCluster
<1>9. row.step >= 6 => Covered(Id(w))
  BY <1>1, <1>6 DEF IInv, UpdatedIsWritten, Covered, Written
<1> QED BY <1>2, <1>5, <1>6, <1>7, <1>8, <1>9, RowKeepsIInv

(* The notes become the entries of the row; nothing else moves until they  *)
(* are written.                                                            *)
LEMMA SaveEntriesIInv ==
    ASSUME IInv, NEW w \in Workers, SaveEntries(w)
    PROVE  IInv'
<1> DEFINE row == [run[Id(w)] EXCEPT !.step = 5, !.entries = notes[w]]
           copy == [ckpt[w] EXCEPT !.step = 5]
<1>1. TypeOK /\ Id(w) \in Runs /\ run[Id(w)] \in Row /\ ckpt[w] \in Copies /\ notes[w] \in SUBSET Clusters
  BY DEF IInv, TypeOK, Id, Copies
<1>2. /\ pc[w] = "entries" /\ pc[w] \in Synchronous /\ pc' = [pc EXCEPT ![w] = "memory"]
      /\ run' = [run EXCEPT ![Id(w)] = row] /\ ckpt' = [ckpt EXCEPT ![w] = copy]
      /\ UNCHANGED <<grade, memory, file, lost, points, notes, doc, made, crashes>>
  BY DEF SaveEntries, Goto, Synchronous
<1>3. /\ row \in Row /\ row.ids = run[Id(w)].ids /\ row.entries = notes[w]
      /\ row.status = run[Id(w)].status /\ row.step = 5
  <2> DEFINE stepped == [run[Id(w)] EXCEPT !.step = 5]
  <2>1. stepped \in Row /\ stepped.ids = run[Id(w)].ids /\ stepped.step = 5
        /\ stepped.status = run[Id(w)].status
    BY <1>1 DEF Row
  <2>2. row = [stepped EXCEPT !.entries = notes[w]]
    OBVIOUS
  <2> HIDE DEF stepped, row
  <2> QED BY <1>1, <2>1, <2>2 DEF Row
<1>4. copy \in Copies /\ copy.id = Id(w) /\ copy.ids = ckpt[w].ids
  BY <1>1 DEF Copies, Id
<1> HIDE DEF row, copy
<1>5. /\ run' \in [Runs -> Row] /\ run'[Id(w)] = row
      /\ \A q \in Runs \ {Id(w)} : run'[q] = run[q]
  BY <1>1, <1>2, <1>3, RunTyped
<1>6. /\ ckpt' \in [Workers -> Copies] /\ ckpt'[w] = copy /\ pc'[w] = "memory" /\ Id(w)' = Id(w)
      /\ \A v \in Workers \ {w} : Stays(v)
  BY <1>1, <1>2, <1>4, CopyTyped DEF TypeOK, Stays, Id
<1>7. TypeOK'
  BY <1>1, <1>2, <1>5, <1>6 DEF TypeOK, Synchronous, Copies
<1>8. RowsKept /\ FileKept /\ DocsKept /\ GradesKept
  BY <1>2, <1>3, <1>5 DEF RowsKept, FileKept, DocsKept, GradesKept
<1>9. Covered(Id(w))'
  <2>1. pc'[w] = "memory" /\ Id(w)' = Id(w) /\ notes'[w] = run'[Id(w)].entries
    BY <1>2, <1>3, <1>5, <1>6
  <2>2. \A r : (pc'[w] = "memory" /\ Id(w)' = r /\ notes'[w] = run'[r].entries) => Covered(r)'
    BY DEF Covered
  <2> QED BY <2>1, <2>2
<1>10. CoverKept
  <2>1. ASSUME NEW q \in Runs \ {Id(w)}
        PROVE  (Covered(q) => Covered(q)') /\ run'[q].entries = run[q].entries
    BY <1>1, <1>2, <1>5, <1>6, <1>8, CoveredKept
  <2> QED BY <1>6, <1>9, <2>1 DEF CoverKept
<1>11. AtMostOne'
  <2>1. Running' = Running /\ \A v \in Workers : pc'[v] = "insert" => pc[v] = "insert"
    BY <1>3, <1>5, <1>6 DEF Running, Stays
  <2> QED BY <2>1 DEF IInv, AtMostOne
<1>12. WorkerInv(w)'
  <2>1. run[Id(w)].status # "none" /\ ckpt[w].ids = run[Id(w)].ids
    BY <1>2 DEF IInv, WorkerInv
  <2>2. notes'[w] = run'[Id(w)].entries
    BY <1>2, <1>3, <1>5
  <2> QED BY <1>3, <1>4, <1>5, <1>6, <2>1, <2>2 DEF WorkerInv, Past, Filed
<1>13. UpdatedIsWritten'
  <2>1. ASSUME NEW r \in Runs, run'[r].step >= 6 PROVE r # Id(w)
    BY <1>3, <1>5, <2>1
  <2>2. \A r \in Runs : run'[r].step >= 6 => \A c \in run'[r].entries : Kept(<<r, c>>)
    BY <1>5, <2>1 DEF IInv, UpdatedIsWritten
  <2> QED BY <1>2, <2>2 DEF IInv, UpdatedIsWritten
<1>14. DoneIsProcessed'
  <2>1. \A r \in Runs : run'[r].status = run[r].status /\ run'[r].ids = run[r].ids
    BY <1>3, <1>5
  <2> QED BY <1>2, <2>1 DEF IInv, DoneIsProcessed
<1> QED BY <1>2, <1>6, <1>7, <1>8, <1>10, <1>11, <1>12, <1>13, <1>14, StepKeepsIInv

(* What a worker about to write leaves behind: its row is covered.         *)
LEMMA WriterKeepsIInv ==
    ASSUME IInv, NEW w \in Workers, pc[w] = "memory", NEW stage \in {"embed", "updated"},
           pc' = [pc EXCEPT ![w] = stage], FileKept, file' \in [Notes -> Nat], lost' \subseteq Notes,
           NotesKept(w),
           stage = "embed" => notes[w] # {},
           UNCHANGED <<dbVars, points, ckpt, notes, doc, made, crashes>>
    PROVE  IInv'
<1>1. /\ TypeOK /\ Id(w) \in Runs /\ pc[w] \in Synchronous
      /\ notes[w] \subseteq Clusters /\ run[Id(w)].entries \subseteq Clusters
  BY DEF IInv, TypeOK, Id, Synchronous, Row
<1>2. UNCHANGED <<grade, run, memory, points, ckpt, notes, doc, made, crashes>>
  BY DEF dbVars
<1>3. pc'[w] = stage /\ Id(w)' = Id(w) /\ \A v \in Workers \ {w} : Stays(v)
  BY <1>1, <1>2 DEF TypeOK, Stays, Id
<1>4. TypeOK'
  BY <1>1, <1>2 DEF TypeOK, Awaiting, Synchronous
<1>5. RowsKept /\ DocsKept /\ GradesKept
  BY <1>2 DEF RowsKept, DocsKept, GradesKept
<1>6. \A r \in Runs : Written(r) => Written(r)'
  <2>1. \A r \in Runs : run[r].entries \subseteq Clusters
    BY <1>1 DEF TypeOK, Row
  <2>2. \A r \in Runs : \A c \in run[r].entries : <<r, c>> \in Notes
    BY <2>1 DEF Notes
  <2> QED BY <1>2, <2>2 DEF Written, FileKept
<1>7. \A r \in Runs : Covered(r) => Covered(r)'
  <2> SUFFICES ASSUME NEW r \in Runs, Covered(r) PROVE Written(r)'
    BY DEF Covered
  <2>1. CASE Written(r)
    BY <1>6, <2>1
  <2>2. CASE \E u \in Workers : pc[u] = "memory" /\ Id(u) = r /\ notes[u] = run[r].entries
    <3>1. r = Id(w) /\ notes[w] = run[r].entries
      BY <1>1, <2>2, Alone DEF IInv, Synchronous
    <3> QED BY <1>2, <3>1 DEF Written, NotesKept
  <2> QED BY <2>1, <2>2 DEF Covered
<1>8. CoverKept
  BY <1>2, <1>7 DEF CoverKept
<1>9. Covered(Id(w))'
  <2>1. notes[w] = run[Id(w)].entries => Written(Id(w))'
    BY <1>1, <1>2, <1>3 DEF Written, NotesKept
  <2>2. Written(Id(w))' => Covered(Id(w))'
    BY DEF Covered
  <2>3. Covered(Id(w)) => Covered(Id(w))'
    BY <1>1, <1>3, <1>7
  <2>4. notes[w] = run[Id(w)].entries \/ Covered(Id(w))
    BY DEF IInv, WorkerInv
  <2> QED BY <2>1, <2>2, <2>3, <2>4
<1>10. WorkerInv(w)'
  BY <1>1, <1>2, <1>3, <1>9 DEF IInv, WorkerInv, Past, Filed, NotesKept
<1>11. AtMostOne' /\ DoneIsProcessed'
  BY <1>2, <1>3 DEF IInv, AtMostOne, Running, DoneIsProcessed, Stays
<1>12. UpdatedIsWritten'
  <2>1. \A r \in Runs : run[r].step >= 6 => Written(r)'
    BY <1>6 DEF IInv, UpdatedIsWritten, Written
  <2>2. \A p \in points : p.note \in Notes
    BY <1>1 DEF TypeOK
  <2> QED BY <1>2, <2>1, <2>2 DEF IInv, UpdatedIsWritten, Written, FileKept
<1> QED BY <1>1, <1>3, <1>4, <1>5, <1>8, <1>10, <1>11, <1>12, StepKeepsIInv

(* No notes to write: only the step of the worker changes.                 *)
LEMMA NothingNewIInv ==
    ASSUME IInv, NEW w \in Workers, NothingNew(w)
    PROVE  IInv'
<1>1. file' \in [Notes -> Nat] /\ lost' \subseteq Notes /\ FileKept
  BY DEF NothingNew, storeVars, IInv, TypeOK, FileKept, Kept
<1> QED BY <1>1, WriterKeepsIInv DEF NothingNew, storeVars, Goto, NotesKept

(* The notes that a whole write leaves.                                    *)
LEMMA AppendedType ==
    ASSUME TypeOK, NEW w \in Workers
    PROVE  /\ Appended(w) \in [Notes -> Nat]
           /\ \A n \in Notes : file[n] > 0 => Appended(w)[n] > 0
           /\ \A c \in notes[w] : <<Id(w), c>> \in Notes /\ Appended(w)[<<Id(w), c>>] > 0
<1>1. Id(w) \in Runs /\ notes[w] \subseteq Clusters
  BY DEF TypeOK, Id
<1>2. \A c \in notes[w] : <<Id(w), c>> \in Notes
  BY <1>1 DEF Notes
<1> QED BY <1>2 DEF Appended, TypeOK

(* A write keeps what was kept and adds the notes of the worker: each is   *)
(* in the new file, or is lost.                                            *)
LEMMA RefileKeeps ==
    ASSUME TypeOK, NEW w \in Workers, NEW new \in [Notes -> Nat], Refile(w, new)
    PROVE  /\ FileKept /\ file' \in [Notes -> Nat] /\ lost' \subseteq Notes
           /\ NotesKept(w)
<1>1. file' = new /\ lost' = {n \in Notes : (n \in lost \/ Appended(w)[n] > 0) /\ new[n] = 0}
  BY DEF Refile
<1>2. \A n \in Notes : n \in lost \/ Appended(w)[n] > 0 => Kept(n)'
  BY <1>1 DEF Kept
<1>3. FileKept
  BY <1>2, AppendedType DEF FileKept, Kept
<1>4. NotesKept(w)
  BY <1>2, AppendedType DEF NotesKept
<1> QED BY <1>1, <1>3, <1>4

LEMMA CutFileKeeps ==
    ASSUME TypeOK, NEW w \in Workers, CutFile(w)
    PROVE  /\ FileKept /\ file' \in [Notes -> Nat] /\ lost' \subseteq Notes
           /\ NotesKept(w)
<1>1. PICK part \in [Notes -> UNION {0..Appended(w)[n] : n \in Notes}] : Refile(w, part)
  BY DEF CutFile
<1>2. part \in [Notes -> Nat]
  <2>1. ASSUME NEW x \in UNION {0..Appended(w)[n] : n \in Notes} PROVE x \in Nat
    BY <2>1, AppendedType
  <2> QED BY <2>1
<1> QED BY <1>1, <1>2, RefileKeeps

(* The notes are written to the memory file.                               *)
LEMMA WriteFileIInv ==
    ASSUME IInv, NEW w \in Workers, WriteFile(w)
    PROVE  IInv'
<1>1. TypeOK /\ Refile(w, Appended(w))
  BY DEF IInv, WriteFile
<1>2. /\ FileKept /\ file' \in [Notes -> Nat] /\ lost' \subseteq Notes
      /\ NotesKept(w)
  BY <1>1, RefileKeeps, AppendedType
<1> QED BY <1>2, WriterKeepsIInv DEF WriteFile, Goto

(* The document is chosen after the file is written.                       *)
LEMMA EmbeddedIInv ==
    ASSUME IInv, NEW w \in Workers, Embedded(w)
    PROVE  IInv'
<1>1. /\ Free(w) /\ pc[w] = "embed"
      /\ \E d \in DocIds : doc' = [doc EXCEPT ![w] = d]
      /\ pc' = [pc EXCEPT ![w] = "upsert"]
      /\ UNCHANGED <<grade, run, memory, file, lost, points, ckpt, notes, made, crashes>>
  BY DEF Embedded, At, Goto, storeVars, dbVars
<1>2. TypeOK /\ Id(w) \in Runs
  BY DEF IInv, TypeOK, Id
<1>3. doc' \in [Workers -> DocIds \cup {NoDoc}] /\ doc'[w] \in DocIds
  BY <1>1, <1>2 DEF TypeOK
<1>4. TypeOK'
  BY <1>1, <1>2, <1>3 DEF TypeOK, Awaiting
<1>5. pc'[w] = "upsert" /\ Id(w)' = Id(w) /\ \A v \in Workers \ {w} : Stays(v)
  BY <1>1, <1>2 DEF TypeOK, Stays, Id
<1>6. UpdatedIsWritten' /\ DocsKept /\ FileKept
  BY <1>1 DEF IInv, UpdatedIsWritten, DocsKept, FileKept
<1>7. Covered(Id(w))'
  BY <1>1, <1>2, <1>5, <1>6, CoveredKept DEF IInv, WorkerInv, Past, Filed
<1>8. WorkerInv(w)'
  <2>1. doc'[w] \in DocIds
    BY <1>1, <1>2, <1>3 DEF TypeOK
  <2> QED BY <1>1, <1>5, <1>7, <2>1 DEF IInv, WorkerInv, Past, Filed
<1> QED BY <1>1, <1>4, <1>5, <1>6, <1>8, LocalKeepsIInv

(* The number of a note among those of the worker.                         *)
LEMMA PositionType ==
    ASSUME NEW set \in SUBSET Clusters, NEW c
    PROVE  Position(c, set) \in Nat
<1>1. IsFiniteSet(Clusters)
  BY WatcherAssumption, FS_Interval DEF Clusters
<1>2. IsFiniteSet({x \in set : x < c})
  BY <1>1, FS_Subset
<1> QED BY <1>2, FS_CardinalityType DEF Position

(* An upsert replaces points only by points of the same document, and      *)
(* there is at least one.                                                  *)
LEMMA UpsertedIInv ==
    ASSUME IInv, NEW w \in Workers, Upserted(w)
    PROVE  IInv'
<1> DEFINE new == {[doc |-> doc[w], pos |-> Position(c, notes[w]), note |-> <<Id(w), c>>] :
                      c \in notes[w]}
           kept == {p \in points : \A q \in new : p.doc # q.doc \/ p.pos # q.pos}
<1>1. /\ Free(w) /\ pc[w] = "upsert" /\ points' = kept \cup new
      /\ pc' = [pc EXCEPT ![w] = "register"]
      /\ UNCHANGED <<grade, run, memory, file, lost, ckpt, notes, doc, made, crashes>>
  BY DEF Upserted, At, Goto, dbVars
<1>2. TypeOK /\ Id(w) \in Runs /\ notes[w] \in SUBSET Clusters
  BY DEF IInv, TypeOK, Id
<1>3. notes[w] # {} /\ (\A c \in notes[w] : Kept(<<Id(w), c>>)) /\ Covered(Id(w))
  BY <1>1 DEF IInv, WorkerInv, Past, Filed
<1>4. \A q \in new : q.doc = doc[w] /\ q.pos \in Nat /\ Kept(q.note) /\ q.note \in Notes
  BY <1>2, <1>3, PositionType DEF Notes
<1>5. \E q \in new : q.doc = doc[w]
  <2>1. PICK c \in notes[w] : TRUE
    BY <1>3
  <2>2. [doc |-> doc[w], pos |-> Position(c, notes[w]), note |-> <<Id(w), c>>] \in new
    BY <2>1
  <2> QED BY <2>2
<1>6. doc[w] \in DocIds
  BY <1>1 DEF IInv, WorkerInv
<1>7. new \subseteq [doc : DocIds, pos : Nat, note : Notes]
  BY <1>2, <1>6, PositionType DEF Notes
<1> HIDE DEF new
<1>8. TypeOK'
  BY <1>1, <1>2, <1>7 DEF TypeOK, Awaiting
<1>9. DocsKept
  BY <1>1, <1>4, <1>5 DEF DocsKept
<1>10. pc'[w] = "register" /\ Id(w)' = Id(w) /\ \A v \in Workers \ {w} : Stays(v)
  BY <1>1, <1>2 DEF TypeOK, Stays, Id
<1>11. UpdatedIsWritten'
  <2>1. \A p \in points' : Kept(p.note)
    BY <1>1, <1>4 DEF IInv, UpdatedIsWritten
  <2>2. memory # NoDoc => \E p \in points' : p.doc = memory
    BY <1>9 DEF IInv, UpdatedIsWritten, DocsKept
  <2> QED BY <1>1, <2>1, <2>2 DEF IInv, UpdatedIsWritten
<1>12. Covered(Id(w))'
  <2>1. FileKept
    BY <1>1 DEF FileKept
  <2> QED BY <1>1, <1>2, <1>3, <1>10, <2>1, CoveredKept
<1>13. WorkerInv(w)'
  <2>1. \E p \in points' : p.doc = doc'[w]
    BY <1>1, <1>5
  <2> QED BY <1>1, <1>3, <1>10, <1>12, <2>1 DEF IInv, WorkerInv, Past, Filed
<1> QED BY <1>1, <1>8, <1>9, <1>10, <1>11, <1>13, LocalKeepsIInv

(* The project points at the document of a point.                          *)
LEMMA RegisterIInv ==
    ASSUME IInv, NEW w \in Workers, Register(w)
    PROVE  IInv'
<1>1. /\ Free(w) /\ pc[w] = "register" /\ memory' = doc[w]
      /\ pc' = [pc EXCEPT ![w] = "updated"]
      /\ UNCHANGED <<grade, run, file, lost, points, ckpt, notes, doc, made, crashes>>
  BY DEF Register, At, Goto
<1>2. TypeOK /\ Id(w) \in Runs
  BY DEF IInv, TypeOK, Id
<1>3. TypeOK'
  BY <1>1, <1>2 DEF TypeOK, Synchronous
<1>4. pc'[w] = "updated" /\ Id(w)' = Id(w) /\ \A v \in Workers \ {w} : Stays(v)
  BY <1>1, <1>2 DEF TypeOK, Stays, Id
<1>5. \E p \in points : p.doc = doc[w]
  BY <1>1 DEF IInv, WorkerInv
<1>6. UpdatedIsWritten' /\ DocsKept /\ FileKept
  BY <1>1, <1>5 DEF IInv, UpdatedIsWritten, DocsKept, FileKept
<1>7. Covered(Id(w))'
  BY <1>1, <1>2, <1>4, <1>6, CoveredKept DEF IInv, WorkerInv, Past, Filed
<1>8. WorkerInv(w)'
  BY <1>1, <1>4, <1>7 DEF IInv, WorkerInv, Past, Filed
<1> QED BY <1>1, <1>3, <1>4, <1>6, <1>8, LocalKeepsIInv

(* The grades of the run are marked before the run is done.                *)
LEMMA MarkGradesIInv ==
    ASSUME IInv, NEW w \in Workers, MarkGrades(w)
    PROVE  IInv'
<1>1. /\ pc[w] = "mark" /\ pc[w] \in Synchronous
      /\ grade' = [g \in Grades |-> IF g \in ckpt[w].ids THEN "processed" ELSE grade[g]]
      /\ pc' = [pc EXCEPT ![w] = "finish"]
      /\ UNCHANGED <<run, memory, file, lost, points, ckpt, notes, doc, made, crashes>>
  BY DEF MarkGrades, Goto, Synchronous
<1>2. TypeOK /\ Id(w) \in Runs /\ ckpt[w].ids \subseteq Grades
  BY DEF IInv, TypeOK, Id
<1>3. TypeOK'
  BY <1>1, <1>2 DEF TypeOK, Synchronous
<1>4. pc'[w] = "finish" /\ Id(w)' = Id(w) /\ \A v \in Workers \ {w} : Stays(v)
  BY <1>1, <1>2 DEF TypeOK, Stays, Id
<1>5. RowsKept /\ DocsKept /\ FileKept /\ GradesKept
  BY <1>1 DEF RowsKept, DocsKept, FileKept, GradesKept
<1>6. \A r \in Runs : Covered(r) => Covered(r)'
  BY <1>1, <1>2, <1>4, <1>5, CoveredKept
<1>7. CoverKept
  BY <1>1, <1>6 DEF CoverKept
<1>8. Covered(Id(w))'
  BY <1>1, <1>2, <1>4, <1>6 DEF IInv, WorkerInv, Past, Filed
<1>9. WorkerInv(w)'
  <2>1. \A g \in ckpt'[w].ids : grade'[g] = "processed"
    BY <1>1, <1>2
  <2> QED BY <1>1, <1>4, <1>8, <2>1 DEF IInv, WorkerInv, Past, Filed
<1>10. AtMostOne' /\ UpdatedIsWritten'
  BY <1>1, <1>4 DEF IInv, AtMostOne, Running, UpdatedIsWritten, Stays
<1>11. DoneIsProcessed'
  <2>1. \A r \in Runs : run[r].ids \subseteq Grades
    BY <1>2 DEF TypeOK, Row
  <2> QED BY <1>1, <1>5, <2>1 DEF IInv, DoneIsProcessed, GradesKept
<1> QED BY <1>1, <1>3, <1>4, <1>5, <1>7, <1>9, <1>10, <1>11, StepKeepsIInv

(* A run is marked done after its grades, or failed; the call returns.     *)
LEMMA MarkedIInv ==
    ASSUME IInv, NEW w \in Workers, MarkDone(w) \/ MarkFailed(w)
    PROVE  IInv'
<1>1. TypeOK /\ Id(w) \in Runs /\ run[Id(w)] \in Row
  BY DEF IInv, TypeOK, Id
<1>2. /\ Free(w) \/ pc[w] \in Synchronous
      /\ pc[w] \notin {"idle", "insert"}
      /\ UNCHANGED <<grade, memory, points, made, crashes>>
  BY DEF MarkDone, MarkFailed, CutFile, Awaiting, Synchronous
<1>0. /\ FileKept /\ file' \in [Notes -> Nat] /\ lost' \subseteq Notes
      /\ pc[w] = "memory" => NotesKept(w)
  <2>1. CASE CutFile(w)
    BY <1>1, <2>1, CutFileKeeps
  <2>2. CASE UNCHANGED <<file, lost>> /\ pc[w] # "memory"
    BY <1>1, <2>2 DEF TypeOK, FileKept, Kept
  <2> QED BY <2>1, <2>2 DEF MarkDone, MarkFailed, Awaiting
<1>3. PICK row \in Row :
        /\ run' = [run EXCEPT ![Id(w)] = row]
        /\ row.ids = run[Id(w)].ids /\ row.entries = run[Id(w)].entries
        /\ row.status \in {"done", "failed"}
        /\ row.status = "done" => pc[w] = "finish"
        /\ row.step >= 6 => run[Id(w)].step >= 6 \/ pc[w] = "finish"
  <2>1. CASE MarkDone(w)
    <3> DEFINE last == [run[Id(w)] EXCEPT !.step = 7]
               row == [last EXCEPT !.status = "done"]
    <3>1. last \in Row /\ last.ids = run[Id(w)].ids /\ last.entries = run[Id(w)].entries
      BY <1>1 DEF Row
    <3>2. run' = [run EXCEPT ![Id(w)] = row] /\ pc[w] = "finish"
      BY <1>1, <2>1 DEF MarkDone, TypeOK
    <3> HIDE DEF last
    <3>3. /\ row \in Row /\ row.status = "done" /\ row.ids = run[Id(w)].ids
          /\ row.entries = run[Id(w)].entries
      BY <3>1 DEF Row
    <3> HIDE DEF row
    <3> QED BY <3>2, <3>3
  <2>2. CASE MarkFailed(w)
    <3> DEFINE row == [run[Id(w)] EXCEPT !.status = "failed"]
    <3>1. /\ row \in Row /\ row.status = "failed" /\ row.ids = run[Id(w)].ids
          /\ row.entries = run[Id(w)].entries /\ row.step = run[Id(w)].step
      BY <1>1 DEF Row
    <3>2. run' = [run EXCEPT ![Id(w)] = row]
      BY <2>2 DEF MarkFailed
    <3> HIDE DEF row
    <3> QED BY <3>1, <3>2
  <2> QED BY <2>1, <2>2
<1>4. /\ run' \in [Runs -> Row] /\ run'[Id(w)] = row
      /\ \A q \in Runs \ {Id(w)} : run'[q] = run[q]
  BY <1>1, <1>3, RunTyped
<1>5. /\ pc' = [pc EXCEPT ![w] = "idle"] /\ ckpt' = [ckpt EXCEPT ![w] = Idle]
      /\ notes' = [notes EXCEPT ![w] = {}] /\ doc' = [doc EXCEPT ![w] = NoDoc]
  BY DEF MarkDone, MarkFailed, Return, Goto
<1>6. Idle \in Copies
  BY <1>1, WatcherAssumption DEF Idle, Copies, Runs
<1>7. /\ ckpt' \in [Workers -> Copies] /\ pc'[w] = "idle"
      /\ \A v \in Workers \ {w} : Stays(v)
  BY <1>1, <1>5, <1>6, CopyTyped DEF TypeOK, Stays
<1>8. TypeOK'
  BY <1>0, <1>1, <1>2, <1>4, <1>5, <1>7 DEF TypeOK, Copies
<1>9. RowsKept /\ DocsKept /\ GradesKept
  BY <1>2, <1>3, <1>4 DEF RowsKept, DocsKept, GradesKept
<1>10. \A q \in Runs : run'[q].ids = run[q].ids /\ run'[q].entries = run[q].entries
  BY <1>3, <1>4
<1>11. CoverKept
  <2> SUFFICES ASSUME NEW q \in Runs, Covered(q) PROVE Covered(q)'
    BY <1>10 DEF CoverKept
  <2>1. CASE pc[w] # "memory"
    <3>1. \A u \in Workers : pc[u] = "memory" => Stays(u)
      BY <1>7, <2>1
    <3> QED BY <1>0, <1>1, <1>10, <3>1, CoveredKept
  <2>2. CASE pc[w] = "memory"
    <3>1. (q = Id(w) /\ notes[w] = run[q].entries) \/ Written(q)
      BY <1>2, <2>2, Alone DEF IInv, Synchronous, Covered
    <3>2. Written(q)'
      <4>1. CASE Written(q)
        <5>1. \A c \in run[q].entries : <<q, c>> \in Notes
          BY <1>1 DEF TypeOK, Row, Notes
        <5> QED BY <1>0, <1>10, <4>1, <5>1 DEF Written, FileKept
      <4>2. CASE q = Id(w) /\ notes[w] = run[q].entries
        BY <1>0, <1>10, <2>2, <4>2 DEF Written, NotesKept
      <4> QED BY <3>1, <4>1, <4>2
    <3> QED BY <3>2 DEF Covered
  <2> QED BY <2>1, <2>2
<1>12. WorkerInv(w)'
  BY <1>7 DEF WorkerInv, Past, Filed
<1>13. AtMostOne'
  <2>1. Running' \subseteq Running /\ \A v \in Workers : pc'[v] = "insert" => pc[v] = "insert"
    BY <1>3, <1>4, <1>7 DEF Running, Stays
  <2> QED BY <2>1 DEF IInv, AtMostOne
<1>14. UpdatedIsWritten'
  <2>0. /\ \A r \in Runs : \A c \in run[r].entries : <<r, c>> \in Notes
        /\ \A p \in points : p.note \in Notes
    BY <1>1 DEF TypeOK, Row, Notes
  <2>1. pc[w] = "finish" => Written(Id(w))
    <3>1. ASSUME pc[w] = "finish", NEW u \in Workers, pc[u] = "memory" PROVE FALSE
      BY <3>1, Alone DEF IInv, Synchronous
    <3> QED BY <3>1 DEF IInv, WorkerInv, Past, Covered
  <2>2. ASSUME NEW r \in Runs, run'[r].step >= 6, NEW c \in run'[r].entries
        PROVE  Kept(<<r, c>>)'
    <3>1. Kept(<<r, c>>) /\ <<r, c>> \in Notes
      BY <2>0, <1>3, <1>4, <1>10, <2>1, <2>2 DEF IInv, UpdatedIsWritten, Written
    <3> QED BY <1>0, <3>1 DEF FileKept
  <2> QED BY <1>0, <1>2, <2>0, <2>2 DEF IInv, UpdatedIsWritten, FileKept
<1>15. DoneIsProcessed'
  <2>1. pc[w] = "finish" => \A g \in run[Id(w)].ids : grade[g] = "processed"
    BY DEF IInv, WorkerInv
  <2> QED BY <1>2, <1>3, <1>4, <2>1 DEF IInv, DoneIsProcessed
<1> QED BY <1>0, <1>2, <1>7, <1>8, <1>9, <1>11, <1>12, <1>13, <1>14, <1>15, StepKeepsIInv

(* A crash leaves the stores as they are, and every worker idle.           *)
LEMMA CrashIInv ==
    ASSUME IInv, Crash
    PROVE  IInv'
<1>1. /\ pc' = [w \in Workers |-> "idle"] /\ ckpt' = [w \in Workers |-> Idle]
      /\ notes' = [w \in Workers |-> {}] /\ doc' = [w \in Workers |-> NoDoc]
      /\ crashes < MaxCrashes /\ crashes' = crashes + 1
      /\ UNCHANGED <<grade, run, memory, points, made>>
  BY DEF Crash, dbVars
<1>0. FileKept /\ file' \in [Notes -> Nat] /\ lost' \subseteq Notes
  <2>1. CASE UNCHANGED <<file, lost>>
    BY <2>1 DEF IInv, TypeOK, FileKept, Kept
  <2> QED BY <2>1, CutFileKeeps DEF Crash, IInv
<1>2. TypeOK'
  <2>1. ASSUME NEW w \in Workers PROVE Idle \in Copies
    <3>1. ckpt[w].id \in Runs
      BY DEF IInv, TypeOK
    <3> QED BY <3>1, WatcherAssumption DEF Idle, Copies, Runs
  <2>2. ckpt' \in [Workers -> Copies]
    BY <1>1, <2>1
  <2> QED BY <1>0, <1>1, <2>2, WatcherAssumption DEF IInv, TypeOK, Copies
<1>3. OneAtATime' /\ AtMostOne' /\ \A w \in Workers : WorkerInv(w)'
  BY <1>1 DEF IInv, OneAtATime, AtMostOne, Running, WorkerInv, Synchronous, Past, Filed
<1>4. UpdatedIsWritten' /\ DoneIsProcessed'
  <2>1. \A r \in Runs : \A c \in run[r].entries : <<r, c>> \in Notes
    BY DEF IInv, TypeOK, Row, Notes
  <2>2. \A p \in points : p.note \in Notes
    BY DEF IInv, TypeOK
  <2> QED BY <1>0, <1>1, <2>1, <2>2 DEF IInv, UpdatedIsWritten, DoneIsProcessed, FileKept
<1> QED BY <1>2, <1>3, <1>4 DEF IInv

-----------------------------------------------------------------------------
(* Nothing has run: no worker carries anything.                            *)
LEMMA InitIInv ==
    ASSUME Init
    PROVE  IInv
<1>1. NoRow \in Row /\ NoRow.status = "none" /\ NoRow.step = 0
  <2>1. 0 \in 0..7 /\ 0 \in 0..MaxClusters /\ {} \in SUBSET Clusters
    BY WatcherAssumption
  <2> QED BY <2>1 DEF NoRow, Row
<1>2. Idle \in Copies
  BY WatcherAssumption DEF Idle, Copies, Runs
<1> HIDE DEF NoRow, Idle
<1>3. TypeOK
  BY <1>1, <1>2, WatcherAssumption DEF Init, TypeOK, Copies
<1>4. OneAtATime /\ AtMostOne /\ \A w \in Workers : WorkerInv(w)
  BY <1>1 DEF Init, OneAtATime, AtMostOne, Running, WorkerInv, Synchronous, Past, Filed
<1>5. UpdatedIsWritten /\ DoneIsProcessed
  BY <1>1 DEF Init, UpdatedIsWritten, DoneIsProcessed
<1> QED BY <1>3, <1>4, <1>5 DEF IInv

(* Nothing moves.                                                          *)
LEMMA IdleIInv ==
    ASSUME IInv, UNCHANGED vars
    PROVE  IInv'
<1>1. UNCHANGED <<grade, run, memory, file, lost, points, pc, ckpt, notes, doc, made, crashes>>
  BY DEF vars, storeVars, dbVars
<1>2. TypeOK' /\ OneAtATime' /\ AtMostOne'
  BY <1>1 DEF IInv, TypeOK, OneAtATime, AtMostOne, Running
<1>3. UpdatedIsWritten' /\ DoneIsProcessed'
  BY <1>1 DEF IInv, UpdatedIsWritten, DoneIsProcessed
<1>4. ASSUME NEW v \in Workers PROVE WorkerInv(v)'
  <2>1. RowsKept /\ FileKept /\ DocsKept /\ GradesKept /\ Stays(v)
    BY <1>1 DEF RowsKept, FileKept, DocsKept, GradesKept, Stays
  <2>2. CoverKept
    BY <1>1 DEF CoverKept, Covered, Written, Id
  <2> QED BY <2>1, <2>2, CarriedKept DEF IInv
<1> QED BY <1>2, <1>3, <1>4 DEF IInv

(* So every step preserves IInv.                                           *)
LEMMA NextIInv ==
    ASSUME IInv, Next
    PROVE  IInv'
<1>1. ASSUME NEW g \in Grades, Record(g) PROVE IInv'
  BY <1>1, RecordIInv
<1>2. ASSUME NEW r \in Runs, Age(r) PROVE IInv'
  BY <1>2, AgeIInv
<1>3. ASSUME NEW w \in Workers, Step(w) PROVE IInv'
  BY <1>3, ReplaceIInv, ResolvedIInv, ClusteredIInv, DiagnosedIInv, ExtractedIInv,
     SynthesizedIInv, SaveEntriesIInv, NothingNewIInv, WriteFileIInv, EmbeddedIInv,
     UpsertedIInv, RegisterIInv, SaveUpdatedIInv, MarkGradesIInv, MarkedIInv DEF Step
<1>4. ASSUME NEW w \in Workers, Create(w) PROVE IInv'
  BY <1>4, CreateIInv
<1>5. ASSUME NEW w \in Workers, NEW r \in Runs, Resume(w, r) \/ Discard(w, r) PROVE IInv'
  BY <1>5, ResumeIInv, DiscardIInv
<1>6. ASSUME Crash PROVE IInv'
  BY <1>6, CrashIInv
<1> QED BY <1>1, <1>2, <1>3, <1>4, <1>5, <1>6 DEF Next

(* However the loop, the endpoint and the crashes interleave, IInv holds:  *)
(* no two workers are in a synchronous stretch, at most one row is         *)
(* running, and a worker carries the grades of its row and, once past the  *)
(* update, a row whose entries are written.                                *)
THEOREM WatcherInvariant == Spec => []IInv
<1>1. Init => IInv
  BY InitIInv
<1>2. IInv /\ [Next]_vars => IInv'
  BY NextIInv, IdleIInv
<1> QED BY <1>1, <1>2, PTL DEF Spec

(* Two callers of run_for_project never leave two resumable rows behind    *)
(* (engine.py:83-131).                                                     *)
THEOREM WatcherOneRunning == Spec => []OneRunning
<1>1. IInv => OneRunning
  <2> SUFFICES ASSUME IInv PROVE Cardinality(Running) <= 1
    BY DEF OneRunning
  <2>1. CASE Running = {}
    BY <2>1, FS_EmptySet
  <2>2. CASE Running # {}
    <3>1. PICK r \in Running : TRUE
      BY <2>2
    <3>2. Running = {r}
      BY <3>1 DEF IInv, AtMostOne
    <3>3. Cardinality(Running) = 1
      BY <3>2, FS_Singleton
    <3> QED BY <3>3
  <2> QED BY <2>1, <2>2
<1> QED BY <1>1, WatcherInvariant, PTL

(* The file holds every entry of an updated run and every searchable note, *)
(* and the document the project points at has points (engine.py:365-377,   *)
(* updater.py:90-144).                                                     *)
THEOREM WatcherUpdatedIsWritten == Spec => []UpdatedIsWritten
<1>1. IInv => UpdatedIsWritten
  BY DEF IInv
<1> QED BY <1>1, WatcherInvariant, PTL

(* A done run has consumed its grades (engine.py:380-388).                 *)
THEOREM WatcherDoneIsProcessed == Spec => []DoneIsProcessed
<1>1. IInv => DoneIsProcessed
  BY DEF IInv
<1> QED BY <1>1, WatcherInvariant, PTL
=============================================================================
