-------------------------- MODULE DocLifecycleProofs --------------------------
(***************************************************************************)
(* Proofs about DocLifecycle: the inductive invariant IInv and the safety  *)
(* properties it implies, for every number of documents, batches and       *)
(* concurrent pipelines; and what the hash dedup bounds.                   *)
(***************************************************************************)
EXTENDS DocLifecycle, FiniteSetTheorems, TLAPS

(* The initial states satisfy the invariant.                               *)
LEMMA InitIInv == Init => IInv
<1> SUFFICES ASSUME Init PROVE IInv
  OBVIOUS
<1>0. 1 \in 1..(MaxBatches + 1) /\ 0 \in 0..MaxBatches /\ 0 \in 0..MaxCrashes
  BY DocAssumption
<1>1. TypeOK
  BY <1>0 DEF Init, TypeOK
<1>2. ASSUME NEW d \in Docs PROVE DocInv(d)
  BY DEF Init, DocInv, RowOfStage, BatchesOfStage, DeleteOfStage, Stored
<1> QED BY <1>1, <1>2 DEF IInv

(* A job that only moves on (upload, begin, dedup verdicts, end of the     *)
(* entity extraction) preserves the invariant.                             *)
LEMMA MoveIInv ==
    ASSUME IInv, NEW d \in Docs,
           Upload(d) \/ Begin(d) \/ FoundDuplicate(d) \/ NotDuplicate(d) \/ Extracted(d)
    PROVE  IInv'
<1>1. TypeOK'
  BY DEF IInv, TypeOK, Upload, Begin, FoundDuplicate, NotDuplicate, Extracted, Goto, storeVars,
     Running, Ended
<1>2. ASSUME NEW e \in Docs PROVE DocInv(e)'
  BY DEF IInv, TypeOK, DocInv, RowOfStage, BatchesOfStage, DeleteOfStage, Stored, Upload, Begin,
     FoundDuplicate, NotDuplicate, Extracted, Goto, storeVars, Running, Ended
<1> QED BY <1>1, <1>2 DEF IInv

(* Inserting the documents and files rows preserves the invariant.         *)
LEMMA ParsedIInv ==
    ASSUME IInv, NEW d \in Docs, Parsed(d)
    PROVE  IInv'
<1>1. TypeOK'
  BY DEF IInv, TypeOK, Parsed, Goto, Running, Ended
<1>2. ASSUME NEW e \in Docs PROVE DocInv(e)'
  BY DEF IInv, TypeOK, DocInv, RowOfStage, BatchesOfStage, DeleteOfStage, Stored, Parsed, Goto,
     Running, Ended
<1> QED BY <1>1, <1>2 DEF IInv

(* Chunking preserves the invariant.                                       *)
LEMMA ChunkedIInv ==
    ASSUME IInv, NEW d \in Docs, Chunked(d)
    PROVE  IInv'
<1>1. TypeOK'
  BY DocAssumption DEF IInv, TypeOK, Chunked, Goto, storeVars, Running, Ended
<1>2. ASSUME NEW e \in Docs PROVE DocInv(e)'
  BY DEF IInv, TypeOK, DocInv, RowOfStage, BatchesOfStage, DeleteOfStage, Stored, Chunked, Goto,
     storeVars, Running, Ended
<1> QED BY <1>1, <1>2 DEF IInv

(* Both halves of ensure_collection preserve the invariant: a document     *)
(* without chunks is complete before its first batch.                      *)
LEMMA EnsureIInv ==
    ASSUME IInv, NEW d \in Docs, CollectionListed(d) \/ CollectionCreated(d)
    PROVE  IInv'
<1>1. TypeOK'
  BY DEF IInv, TypeOK, CollectionListed, CollectionCreated, Goto, AfterBatch, storeVars,
     Running, Ended
<1>2. ASSUME NEW e \in Docs, e # d PROVE DocInv(e)'
  BY <1>2 DEF IInv, TypeOK, DocInv, RowOfStage, BatchesOfStage, DeleteOfStage, Stored,
     CollectionListed, CollectionCreated, Goto, storeVars, Running, Ended
<1>3. DocInv(d)'
  <2>1. /\ pc[d] \in {"ensure", "create"}
        /\ pc'[d] \in {"create", "embed", "finish"}
        /\ pc'[d] = "embed" => 1 <= batches[d]
        /\ pc'[d] = "finish" => batches[d] = 0
        /\ row' = row /\ chunks' = chunks /\ vectors' = vectors /\ folder' = folder
        /\ batches' = batches /\ batch' = batch /\ deleter' = deleter /\ asked' = asked
    BY DEF IInv, TypeOK, CollectionListed, CollectionCreated, Goto, AfterBatch, storeVars
  <2>2. batch[d] = 1 /\ chunks[d] = {} /\ vectors[d] = {} /\ 1..0 = {} /\ 1 - 1 = 0
    BY <2>1 DEF IInv, DocInv, BatchesOfStage
  <2>3. row[d] # "done"
    BY <2>1 DEF IInv, DocInv, RowOfStage
  <2>4. RowOfStage(d)' /\ DeleteOfStage(d)'
    BY <2>1, <2>2 DEF IInv, DocInv, RowOfStage, DeleteOfStage, Ended
  <2>5. BatchesOfStage(d)'
    BY <2>1, <2>2, <2>3 DEF BatchesOfStage, Stored
  <2> QED BY <2>4, <2>5 DEF DocInv
<1> QED BY <1>1, <1>2, <1>3 DEF IInv

(* Inserting the chunks of a batch preserves the invariant.                *)
LEMMA EmbeddedIInv ==
    ASSUME IInv, NEW d \in Docs, Embedded(d)
    PROVE  IInv'
<1>0. /\ batch[d] \in 1..MaxBatches
      /\ 1..(batch[d] - 1) \cup {batch[d]} = 1..batch[d]
  BY DocAssumption DEF IInv, TypeOK, DocInv, BatchesOfStage, Embedded, Goto
<1>1. TypeOK'
  BY <1>0 DEF IInv, TypeOK, Embedded, Goto, Running, Ended
<1>2. ASSUME NEW e \in Docs PROVE DocInv(e)'
  BY <1>0 DEF IInv, TypeOK, DocInv, RowOfStage, BatchesOfStage, DeleteOfStage, Stored, Embedded,
     Goto, Running, Ended
<1> QED BY <1>1, <1>2 DEF IInv

(* Storing the vectors of a batch preserves the invariant.                 *)
LEMMA UpsertedIInv ==
    ASSUME IInv, NEW d \in Docs, Upserted(d)
    PROVE  IInv'
<1>0. /\ batch[d] \in 1..MaxBatches
      /\ batches[d] \in 0..MaxBatches
      /\ batch[d] <= batches[d]
      /\ 1..(batch[d] - 1) \cup {batch[d]} = 1..batch[d]
      /\ batch[d] + 1 - 1 = batch[d]
      /\ batch[d] + 1 > batches[d] => batch[d] = batches[d]
  BY DocAssumption DEF IInv, TypeOK, DocInv, BatchesOfStage, Upserted, Goto
<1>1. TypeOK'
  BY <1>0, DocAssumption DEF IInv, TypeOK, Upserted, Goto, AfterBatch, Running, Ended
<1>2. ASSUME NEW e \in Docs, e # d PROVE DocInv(e)'
  BY <1>2 DEF IInv, TypeOK, DocInv, RowOfStage, BatchesOfStage, DeleteOfStage, Stored, Upserted,
     Goto, Running, Ended
<1>3. DocInv(d)'
  <2>1. /\ pc[d] = "upsert"
        /\ pc'[d] \in {"finish", "embed"}
        /\ pc'[d] = "finish" => batch[d] = batches[d]
        /\ pc'[d] = "embed" => batch[d] + 1 <= batches[d]
        /\ batch'[d] = batch[d] + 1
        /\ vectors'[d] = vectors[d] \cup {batch[d]}
    BY <1>0 DEF IInv, TypeOK, Upserted, Goto, AfterBatch
  <2>2. row'[d] # "done"
    BY <2>1 DEF IInv, DocInv, RowOfStage, Upserted
  <2>3. RowOfStage(d)' /\ DeleteOfStage(d)'
    BY <2>1 DEF IInv, DocInv, RowOfStage, DeleteOfStage, Upserted, Running, Ended
  <2>4. /\ row'[d] # "absent" => chunks'[d] = 1..batch[d]
        /\ asked'[d] = "no" => vectors'[d] = 1..batch[d]
    BY <1>0, <2>1 DEF IInv, DocInv, BatchesOfStage, Stored, Upserted
  <2>5. BatchesOfStage(d)'
    BY <1>0, <2>1, <2>2, <2>4 DEF BatchesOfStage, Stored, Upserted
  <2> QED BY <2>3, <2>5 DEF DocInv
<1> QED BY <1>1, <1>2, <1>3 DEF IInv

(* Marking the document done, or in error, preserves the invariant.        *)
LEMMA SetStatusIInv ==
    ASSUME IInv, NEW d \in Docs, Finished(d) \/ Failed(d)
    PROVE  IInv'
<1>1. TypeOK'
  <2>1. CASE Finished(d)
    BY <2>1 DEF IInv, TypeOK, Finished, SetStatus, Goto, Running, Ended
  <2>2. CASE Failed(d)
    <3>1. Pending(d) \subseteq 1..MaxBatches
      BY DocAssumption DEF IInv, TypeOK, DocInv, BatchesOfStage, Pending
    <3>2. vectors' \in [Docs -> SUBSET (1..MaxBatches)] /\ folder' \in SUBSET Docs
      BY <2>2, <3>1 DEF IInv, TypeOK, Failed, LeftBehind
    <3> QED BY <2>2, <3>2 DEF IInv, TypeOK, Failed, SetStatus, Ended
  <2> QED BY <2>1, <2>2
<1>2. ASSUME NEW e \in Docs, e # d PROVE DocInv(e)'
  BY <1>2 DEF IInv, TypeOK, DocInv, RowOfStage, BatchesOfStage, DeleteOfStage, Stored, Finished,
     Failed, LeftBehind, SetStatus, Goto, Running, Ended
<1>3. CASE Finished(d)
  <2>1. /\ pc[d] = "finish"
        /\ pc'[d] \in {"extract", "done"}
        /\ row'[d] = IF row[d] = "absent" THEN "absent" ELSE "done"
    BY <1>3 DEF IInv, TypeOK, Finished, SetStatus, Goto
  <2> QED
    BY <1>1, <1>2, <1>3, <2>1 DEF IInv, DocInv, RowOfStage, BatchesOfStage, DeleteOfStage, Stored,
       Finished, Running, Ended
<1>4. CASE Failed(d)
  <2>1. /\ pc[d] \in {"hash", "parse", "chunk", "ensure", "create", "embed", "upsert", "finish"}
        /\ pc' = [pc EXCEPT ![d] = "failed"]
        /\ row'[d] = row[d] \/ (row[d] # "absent" /\ row'[d] = "error")
        /\ row'[d] = "processing" => d \in unsaved'
        /\ folder \subseteq folder'
        /\ chunks' = chunks /\ deleter' = deleter /\ asked' = asked
    BY <1>4 DEF IInv, TypeOK, Failed, Fails, LeftBehind, SetStatus
  <2>2. row[d] # "done"
    BY <2>1 DEF IInv, DocInv, RowOfStage
  <2>3. asked[d] # "after"
    BY <2>1 DEF IInv, DocInv, DeleteOfStage, Ended
  <2>4. RowOfStage(d)'
    BY <2>1, <2>2 DEF IInv, TypeOK, DocInv, RowOfStage
  <2>5. BatchesOfStage(d)'
    BY <2>1, <2>2 DEF IInv, TypeOK, BatchesOfStage
  <2>6. DeleteOfStage(d)'
    BY <2>1, <2>3 DEF IInv, TypeOK, DocInv, DeleteOfStage
  <2>7. DocInv(d)'
    BY <2>4, <2>5, <2>6 DEF DocInv
  <2> QED BY <1>1, <1>2, <2>7 DEF IInv
<1> QED BY <1>1, <1>2, <1>3, <1>4 DEF IInv

(* The steps of the delete route preserve the invariant.                   *)
LEMMA DeleteIInv ==
    ASSUME IInv, NEW d \in Docs, DeleteStart(d) \/ DeleteStep(d)
    PROVE  IInv'
<1>1. TypeOK'
  BY DEF IInv, TypeOK, DeleteStart, DeleteStep, DeleteVectors, DeleteRows, RowsGone, DeleteFails,
     jobVars, sqlVars, storeVars
<1>2. ASSUME NEW e \in Docs, DeleteStart(d) \/ DeleteVectors(d) PROVE DocInv(e)'
  BY <1>2 DEF IInv, TypeOK, DocInv, RowOfStage, BatchesOfStage, DeleteOfStage, Stored, DeleteStart,
     DeleteVectors, jobVars, sqlVars, storeVars, Running, Ended
<1>3. ASSUME NEW e \in Docs, DeleteFails(d) PROVE DocInv(e)'
  <2>1. /\ UNCHANGED <<jobVars, sqlVars, folder, asked, unsaved>>
        /\ asked[e] = "no" => vectors'[e] = vectors[e]
        /\ vectors[e] = {} => vectors'[e] = {}
        /\ deleter'[e] \in {"idle", deleter[e]}
    BY <1>3 DEF IInv, TypeOK, DocInv, DeleteOfStage, DeleteFails
  <2> QED
    BY <2>1 DEF IInv, DocInv, RowOfStage, BatchesOfStage, DeleteOfStage, Stored, jobVars, sqlVars
<1>4. ASSUME NEW e \in Docs, DeleteRows(d) PROVE DocInv(e)'
  BY <1>4 DEF IInv, TypeOK, DocInv, RowOfStage, BatchesOfStage, DeleteOfStage, Stored, DeleteRows,
     RowsGone, jobVars, Running, Ended
<1> QED BY <1>1, <1>2, <1>3, <1>4 DEF IInv, DeleteStep

(* A search that creates the collection preserves the invariant.           *)
LEMMA SearchIInv ==
    ASSUME IInv, SearchEnsures
    PROVE  IInv'
  BY DEF IInv, TypeOK, DocInv, RowOfStage, BatchesOfStage, DeleteOfStage, Stored, SearchEnsures,
     jobVars

(* A crash preserves the invariant.  What it cuts concerns documents whose *)
(* job is lost or whose delete is forgotten.                               *)
LEMMA CrashIInv ==
    ASSUME IInv, Crash
    PROVE  IInv'
<1>1. /\ UNCHANGED <<content, batches, batch, exists, asked, unsaved>>
      /\ \A e \in Docs : deleter'[e] = "idle"
      /\ \A e \in Docs : pc'[e] = IF pc[e] \in {"waiting"} \cup Running THEN "lost" ELSE pc[e]
      /\ \A e \in Docs : vectors'[e] \in Landed(e)
  BY DEF Crash
<1>2. /\ row' \in [Docs -> {"absent", "processing", "done", "error"}]
      /\ chunks' \in [Docs -> SUBSET (1..MaxBatches)]
      /\ folder' \in SUBSET Docs
      /\ folder \subseteq folder'
      /\ \A e \in Docs :
            \/ row'[e] = row[e] /\ chunks'[e] = chunks[e]
            \/ row'[e] = "absent" /\ chunks'[e] = {} /\ deleter[e] = "sql"
  <2>1. CASE UNCHANGED <<sqlVars, folder>>
    BY <2>1 DEF IInv, TypeOK, sqlVars
  <2>2. ASSUME NEW d \in Docs, CutInsert(d) PROVE <1>2!:
    BY <2>2 DEF IInv, TypeOK, CutInsert, sqlVars
  <2>3. ASSUME NEW d \in Docs, CutDelete(d) PROVE <1>2!:
    BY <2>3 DEF IInv, TypeOK, CutDelete, RowsGone
  <2> QED BY <2>1, <2>2, <2>3 DEF Crash
<1>3. TypeOK'
  <2>1. crashes' \in 0..MaxCrashes
    BY DocAssumption DEF IInv, TypeOK, Crash
  <2>2. /\ pc' \in [Docs -> {"none", "waiting"} \cup Running \cup Ended]
        /\ deleter' \in [Docs -> {"idle", "vectors", "sql"}]
        /\ vectors' \in [Docs -> SUBSET (1..MaxBatches)]
    BY DEF IInv, TypeOK, Crash, Ended
  <2> QED BY <1>1, <1>2, <2>1, <2>2 DEF IInv, TypeOK
<1>4. ASSUME NEW e \in Docs PROVE DocInv(e)'
  <2>1. /\ asked[e] = "no" => deleter[e] = "idle"
        /\ pc[e] \notin {"waiting"} \cup Running => Pending(e) = {}
        /\ asked[e] = "after" => pc[e] \in Ended /\ pc'[e] = pc[e] /\ Pending(e) = {}
    BY <1>1 DEF IInv, DocInv, DeleteOfStage, Pending, Running, Ended
  <2>2. RowOfStage(e)'
    BY <1>1, <1>2, <2>1 DEF IInv, TypeOK, DocInv, RowOfStage, DeleteOfStage, Running, Ended
  <2>3. BatchesOfStage(e)'
    <3>1. CASE pc'[e] = pc[e]
      <4>1. Pending(e) = {}
        BY <1>1, <2>1, <3>1 DEF Running
      <4>2. vectors[e] = {} => vectors'[e] = {}
        BY <1>1, <4>1 DEF Landed
      <4>3. asked[e] = "no" => vectors'[e] = vectors[e]
        BY <1>1, <2>1, <4>1 DEF Landed
      <4>4. /\ chunks[e] = {} => chunks'[e] = {}
            /\ row'[e] # "absent" => row'[e] = row[e] /\ chunks'[e] = chunks[e]
        BY <1>2
      <4> QED BY <1>1, <3>1, <4>2, <4>3, <4>4 DEF IInv, TypeOK, DocInv, BatchesOfStage, Stored, Running
    <3>2. CASE pc'[e] = "lost" /\ pc[e] # "lost"
      <4>1. pc[e] \in {"waiting"} \cup Running
        BY <1>1, <3>2
      <4>2. row'[e] = "done" => row[e] = "done" /\ pc[e] = "extract" /\ chunks'[e] = chunks[e]
        BY <1>2, <4>1 DEF IInv, DocInv, RowOfStage, Running
      <4>3. pc[e] = "extract" /\ asked[e] = "no" => vectors'[e] = vectors[e]
        BY <1>1, <2>1 DEF Landed, Pending
      <4> QED BY <1>1, <3>2, <4>2, <4>3 DEF IInv, DocInv, BatchesOfStage, Stored
    <3> QED BY <1>1, <3>1, <3>2
  <2>4. DeleteOfStage(e)'
    <3>1. asked[e] = "after" /\ row'[e] = "absent" => deleter[e] = "sql" \/ row[e] = "absent"
      BY <1>2
    <3>2. asked[e] = "after" /\ vectors[e] = {} => vectors'[e] = {}
      BY <1>1, <2>1 DEF Landed
    <3> QED BY <1>1, <2>1, <3>1, <3>2 DEF IInv, DocInv, DeleteOfStage
  <2> QED BY <2>2, <2>3, <2>4 DEF DocInv
<1> QED BY <1>3, <1>4 DEF IInv

(* Stuttering preserves the invariant.                                     *)
LEMMA IdleIInv ==
    ASSUME IInv, UNCHANGED vars
    PROVE  IInv'
  BY DEF IInv, TypeOK, DocInv, RowOfStage, BatchesOfStage, DeleteOfStage, Stored, vars, jobVars,
     storeVars

(* Every step preserves the invariant.                                     *)
LEMMA NextIInv == IInv /\ [Next]_vars => IInv'
<1> SUFFICES ASSUME IInv, [Next]_vars PROVE IInv'
  OBVIOUS
<1>1. ASSUME NEW d \in Docs, Upload(d) \/ Begin(d) \/ JobStep(d) PROVE IInv'
  BY <1>1, MoveIInv, ParsedIInv, ChunkedIInv, EnsureIInv, EmbeddedIInv, UpsertedIInv, SetStatusIInv
     DEF JobStep
<1>2. ASSUME NEW d \in Docs, DeleteStart(d) \/ DeleteStep(d) PROVE IInv'
  BY <1>2, DeleteIInv
<1>3. CASE Crash
  BY <1>3, CrashIInv
<1>4. CASE SearchEnsures
  BY <1>4, SearchIInv
<1>5. CASE UNCHANGED vars
  BY <1>5, IdleIInv
<1> QED BY <1>1, <1>2, <1>3, <1>4, <1>5 DEF Next

(* IInv is an invariant of every ingestion and deletion history.           *)
THEOREM DocInvariant == Spec => []IInv
  BY InitIInv, NextIInv, PTL DEF Spec

(* A row that says done has all its chunks, and all its vectors unless a   *)
(* delete was asked for: whatever crashes, fails or runs beside it.        *)
THEOREM DocDoneIsIndexed == Spec => []DoneIsIndexed
<1>1. IInv => DoneIsIndexed
  BY DEF IInv, TypeOK, DocInv, BatchesOfStage, Stored, DoneIsIndexed, AllBatches
<1> QED BY <1>1, DocInvariant, PTL

(* What the job reported last agrees with the row it leaves behind.        *)
THEOREM DocOutcomeIsPersisted == Spec => []OutcomeIsPersisted
<1>1. IInv => OutcomeIsPersisted
  BY DEF IInv, TypeOK, DocInv, RowOfStage, OutcomeIsPersisted
<1> QED BY <1>1, DocInvariant, PTL

(* No chunk without its row and no row without its file.                  *)
THEOREM DocRowBacked == Spec => []RowBacked
<1>1. IInv => RowBacked
  BY DEF IInv, DocInv, RowOfStage, RowBacked
<1> QED BY <1>1, DocInvariant, PTL

(* A delete that came after the job had ended leaves no vector behind.     *)
THEOREM DocCleanDelete == Spec => []CleanDelete
<1>1. IInv => CleanDelete
  BY DEF IInv, DocInv, DeleteOfStage, CleanDelete
<1> QED BY <1>1, DocInvariant, PTL

-------------------------------------------------------------------------------
(* The initial states satisfy the invariant of the dedup.                  *)
LEMMA InitCopies == Init => CopiesInv
<1> SUFFICES ASSUME Init PROVE CopiesInv
  OBVIOUS
<1>1. ActiveJobs = {} /\ \A c \in Contents : Holders(c) = {}
  BY DEF Init, ActiveJobs, Holders, Running
<1>2. IsFiniteSet({}) /\ Cardinality({}) = 0
  BY FS_EmptySet
<1>3. 0 <= MaxConcurrent
  BY DocAssumption
<1> QED BY <1>1, <1>2, <1>3 DEF CopiesInv

(* A set that does not grow keeps the bound on its elements.               *)
LEMMA Shrinks ==
    ASSUME NEW S, NEW T, T \subseteq S, IsFiniteSet(S), Cardinality(S) <= MaxConcurrent
    PROVE  IsFiniteSet(T) /\ Cardinality(T) <= MaxConcurrent
<1>1. IsFiniteSet(T) /\ Cardinality(T) <= Cardinality(S)
  BY FS_Subset
<1>2. Cardinality(S) \in Nat /\ Cardinality(T) \in Nat /\ MaxConcurrent \in Nat
  BY <1>1, FS_CardinalityType, DocAssumption
<1> QED BY <1>1, <1>2

(* A pipeline begins only when a permit is free, and holds nothing yet.    *)
LEMMA BeginCopies ==
    ASSUME IInv, CopiesInv, NEW d \in Docs, Begin(d)
    PROVE  CopiesInv'
<1>1. ActiveJobs' = ActiveJobs \cup {d}
  BY DEF IInv, TypeOK, Begin, Goto, ActiveJobs, Running
<1>2. IsFiniteSet(ActiveJobs')
  BY <1>1, FS_AddElement DEF CopiesInv
<1>3. Cardinality(ActiveJobs') <= MaxConcurrent
  <2>1. Cardinality(ActiveJobs') \in {Cardinality(ActiveJobs), Cardinality(ActiveJobs) + 1}
    BY <1>1, FS_AddElement DEF CopiesInv
  <2>2. Cardinality(ActiveJobs) \in Nat /\ Cardinality(ActiveJobs) < MaxConcurrent
    BY FS_CardinalityType DEF CopiesInv, Begin
  <2> QED BY <2>1, <2>2, DocAssumption
<1>4. ASSUME NEW c \in Contents PROVE Holders(c)' = Holders(c)
  BY DEF IInv, TypeOK, Begin, Goto, Holders, storeVars
<1> QED BY <1>2, <1>3, <1>4 DEF CopiesInv

(* A hash is found new only when no row holds it: then the holders are all *)
(* at work, and those are bounded by the permits.                          *)
LEMMA NewCopies ==
    ASSUME IInv, CopiesInv, NEW d \in Docs, NotDuplicate(d)
    PROVE  CopiesInv'
<1>1. ActiveJobs' = ActiveJobs
  BY DEF IInv, TypeOK, NotDuplicate, Goto, ActiveJobs, Running
<1>2. ASSUME NEW c \in Contents
      PROVE  IsFiniteSet(Holders(c)') /\ Cardinality(Holders(c)') <= MaxConcurrent
  <2>1. CASE c = content[d]
    <3>1. Holders(c)' \subseteq ActiveJobs
      BY <2>1 DEF IInv, TypeOK, NotDuplicate, Goto, Holders, Twins, ActiveJobs, Running, storeVars
    <3> QED BY <3>1, Shrinks DEF CopiesInv
  <2>2. CASE c # content[d]
    <3>1. Holders(c)' = Holders(c)
      BY <2>2 DEF IInv, TypeOK, NotDuplicate, Goto, Holders, storeVars
    <3> QED BY <3>1 DEF CopiesInv
  <2> QED BY <2>1, <2>2
<1> QED BY <1>1, <1>2 DEF CopiesInv

(* What any other step may do: no pipeline begins, no hash is found new,   *)
(* and a new row comes from a pipeline that had found its hash new.        *)
OtherStep ==
    /\ content' = content
    /\ \A e \in Docs : pc'[e] \in Running => pc[e] \in Running
    /\ \A e \in Docs : pc'[e] = "parse" => pc[e] = "parse"
    /\ \A e \in Docs : row'[e] # "absent" => row[e] # "absent" \/ pc[e] = "parse"

(* Every step but those two is such a step.                                *)
LEMMA OtherSteps ==
    ASSUME IInv, [Next]_vars, \A d \in Docs : ~Begin(d) /\ ~NotDuplicate(d)
    PROVE  OtherStep
<1>1. ASSUME NEW d \in Docs, Upload(d) \/ FoundDuplicate(d) \/ Extracted(d)
      PROVE  OtherStep
  BY <1>1 DEF IInv, TypeOK, OtherStep, Upload, FoundDuplicate, Extracted, Goto, storeVars, Running
<1>2. ASSUME NEW d \in Docs, Parsed(d) \/ Chunked(d) \/ CollectionListed(d)
      PROVE  OtherStep
  BY <1>2 DEF IInv, TypeOK, OtherStep, Parsed, Chunked, CollectionListed, Goto, AfterBatch,
     storeVars, Running
<1>3. ASSUME NEW d \in Docs, CollectionCreated(d) \/ Embedded(d) \/ Upserted(d)
      PROVE  OtherStep
  BY <1>3 DEF IInv, TypeOK, OtherStep, CollectionCreated, Embedded, Upserted, Goto, AfterBatch,
     Running
<1>4. ASSUME NEW d \in Docs, Finished(d) \/ Failed(d)
      PROVE  OtherStep
  BY <1>4 DEF IInv, TypeOK, OtherStep, Finished, Failed, SetStatus, Goto, Running
<1>5. ASSUME NEW d \in Docs, DeleteStart(d) \/ DeleteStep(d)
      PROVE  OtherStep
  BY <1>5 DEF IInv, TypeOK, OtherStep, DeleteStart, DeleteStep, DeleteVectors, DeleteRows, RowsGone,
     DeleteFails, jobVars, sqlVars, storeVars
<1>6. CASE Crash
  <2>1. content' = content /\ \A e \in Docs : pc'[e] \notin Running
    BY <1>6 DEF Crash, Running
  <2>2. \A e \in Docs : row'[e] # "absent" => row[e] # "absent"
    BY <1>6 DEF IInv, TypeOK, Crash, CutInsert, CutDelete, RowsGone, sqlVars
  <2> QED BY <2>1, <2>2 DEF OtherStep, Running
<1>7. CASE SearchEnsures
  BY <1>7 DEF OtherStep, SearchEnsures, jobVars
<1>8. CASE UNCHANGED vars
  BY <1>8 DEF OtherStep, vars, jobVars, storeVars
<1> QED BY <1>1, <1>2, <1>3, <1>4, <1>5, <1>6, <1>7, <1>8 DEF Next, JobStep

(* Such a step gives no content a new holder.                              *)
LEMMA OtherCopies ==
    ASSUME CopiesInv, OtherStep
    PROVE  CopiesInv'
<1>1. ActiveJobs' \subseteq ActiveJobs
  BY DEF OtherStep, ActiveJobs
<1>2. ASSUME NEW c \in Contents PROVE Holders(c)' \subseteq Holders(c)
  BY DEF OtherStep, Holders
<1> QED BY <1>1, <1>2, Shrinks DEF CopiesInv

(* The same bytes have at most as many rows as pipelines run at once; so   *)
(* the hash dedup is exact when max_concurrent_ingestions is 1.            *)
THEOREM DocCopiesBounded == Spec => []CopiesBounded
<1>1. IInv /\ CopiesInv /\ [Next]_vars => CopiesInv'
  BY BeginCopies, NewCopies, OtherSteps, OtherCopies
<1>2. CopiesInv => CopiesBounded
  <2> SUFFICES ASSUME CopiesInv, NEW c \in Contents
               PROVE  Cardinality({d \in Docs : row[d] # "absent" /\ content[d] = c}) <= MaxConcurrent
    BY DEF CopiesBounded
  <2>1. {d \in Docs : row[d] # "absent" /\ content[d] = c} \subseteq Holders(c)
    BY DEF Holders
  <2> QED BY <2>1, Shrinks DEF CopiesInv
<1> QED BY <1>1, <1>2, InitCopies, DocInvariant, PTL DEF Spec
===============================================================================
