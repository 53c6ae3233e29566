---------------------------- MODULE DocLifecycle ----------------------------
(***************************************************************************)
(* What an ingestion does to the stores, and what a deletion takes away:   *)
(* ingest_document (backend/ingestion/pipeline.py) run by _run_job         *)
(* (ingest_queue.py) against the delete route (api/routes/documents.py),   *)
(* over SQLite (documents, files, chunks), the vector store and the        *)
(* uploads directory, with crashes of the server in between.               *)
(*                                                                         *)
(* An action is the code between two awaits: the event loop runs it        *)
(* without interruption, and a SQLite transaction is inside one action.    *)
(* The work handed to an executor thread takes effect in the action that   *)
(* follows the await.  A crash may cut an action after any of its writes,  *)
(* and what the threads were doing may or may not have happened.  Every    *)
(* transaction may raise.  A document is one upload (documents.py:47 mints *)
(* its id); a batch is the 32 chunks embedded and stored together.  All    *)
(* documents of the model are in one project, hence in one collection.     *)
(***************************************************************************)
EXTENDS Naturals, FiniteSets

CONSTANTS Docs,           \* the uploads
          Contents,       \* file contents, told apart by their SHA256
          MaxBatches,     \* batches of the largest document
          MaxConcurrent,  \* the semaphore of the ingestion queue
          MaxCrashes      \* bound on the crashes of the server

ASSUME DocAssumption ==
    /\ MaxBatches \in Nat
    /\ MaxConcurrent \in Nat \ {0}
    /\ MaxCrashes \in Nat

VARIABLES
    pc,        \* where the job of a document is; what is ahead of it is lost in a crash
    content,   \* the bytes that were uploaded
    batches,   \* number of batches the chunker made
    batch,     \* the batch the job works on
    row,       \* status of the row in documents (its files row comes and goes with it)
    chunks,    \* batches with rows in chunks
    vectors,   \* batches with points in the vector store
    folder,    \* documents with a directory under uploads_dir
    exists,    \* the collection of the vector store has been created
    deleter,   \* where the delete route of a document is
    asked,     \* the first delete of a document came while its job ran, or after
    unsaved,   \* failed documents whose error SQLite refused (a history variable)
    crashes    \* crashes so far

jobVars == <<pc, content, batches, batch>>
sqlVars == <<row, chunks>>
storeVars == <<row, chunks, vectors, folder, exists>>
vars == <<jobVars, storeVars, deleter, asked, unsaved, crashes>>

Running == {"hash", "parse", "chunk", "ensure", "create", "embed", "upsert", "finish", "extract"}
Ended == {"done", "duplicate", "failed", "lost"}
AllBatches(d) == 1..batches[d]

TypeOK ==
    /\ pc \in [Docs -> {"none", "waiting"} \cup Running \cup Ended]
    /\ content \in [Docs -> Contents]
    /\ batches \in [Docs -> 0..MaxBatches]
    /\ batch \in [Docs -> 1..(MaxBatches + 1)]
    /\ row \in [Docs -> {"absent", "processing", "done", "error"}]
    /\ chunks \in [Docs -> SUBSET (1..MaxBatches)]
    /\ vectors \in [Docs -> SUBSET (1..MaxBatches)]
    /\ folder \in SUBSET Docs
    /\ exists \in BOOLEAN
    /\ deleter \in [Docs -> {"idle", "vectors", "sql"}]
    /\ asked \in [Docs -> {"no", "during", "after"}]
    /\ unsaved \in SUBSET Docs
    /\ crashes \in 0..MaxCrashes

Init ==
    /\ pc = [d \in Docs |-> "none"]
    /\ content \in [Docs -> Contents]
    /\ batches = [d \in Docs |-> 0]
    /\ batch = [d \in Docs |-> 1]
    /\ row = [d \in Docs |-> "absent"]
    /\ chunks = [d \in Docs |-> {}]
    /\ vectors = [d \in Docs |-> {}]
    /\ folder = {}
    /\ exists = FALSE
    /\ deleter = [d \in Docs |-> "idle"]
    /\ asked = [d \in Docs |-> "no"]
    /\ unsaved = {}
    /\ crashes = 0

-----------------------------------------------------------------------------
(* The job of one document.                                                *)
Goto(d, from, to) == pc[d] = from /\ pc' = [pc EXCEPT ![d] = to]

ActiveJobs == {d \in Docs : pc[d] \in Running}

(* upload_document: the bytes are on disk and the job is submitted.        *)
Upload(d) ==
    /\ Goto(d, "none", "waiting")
    /\ UNCHANGED <<content, batches, batch, storeVars, deleter, asked, unsaved, crashes>>

(* _run_job has the semaphore and calls the pipeline.                      *)
Begin(d) ==
    /\ Cardinality(ActiveJobs) < MaxConcurrent
    /\ Goto(d, "waiting", "hash")
    /\ UNCHANGED <<content, batches, batch, storeVars, deleter, asked, unsaved, crashes>>

(* Stage 1: the hash is known; _check_duplicate looks for any files row    *)
(* with it, whatever became of the document that row belongs to.           *)
Twins(d) == {e \in Docs : row[e] # "absent" /\ content[e] = content[d]}

FoundDuplicate(d) ==
    /\ Goto(d, "hash", "duplicate")
    /\ Twins(d) # {}
    /\ UNCHANGED <<content, batches, batch, storeVars, deleter, asked, unsaved, crashes>>

NotDuplicate(d) ==
    /\ Goto(d, "hash", "parse")
    /\ Twins(d) = {}
    /\ UNCHANGED <<content, batches, batch, storeVars, deleter, asked, unsaved, crashes>>

(* The pages are parsed: copy the file, insert the documents and files     *)
(* rows in one transaction.                                                *)
Parsed(d) ==
    /\ Goto(d, "parse", "chunk")
    /\ folder' = folder \cup {d}
    /\ row' = [row EXCEPT ![d] = "processing"]
    /\ UNCHANGED <<content, batches, batch, chunks, vectors, exists, deleter, asked, unsaved, crashes>>

Chunked(d) ==
    /\ Goto(d, "chunk", "ensure")
    /\ \E n \in 0..MaxBatches : batches' = [batches EXCEPT ![d] = n]
    /\ UNCHANGED <<content, batch, storeVars, deleter, asked, unsaved, crashes>>

(* Faulty: off by one, in either direction.                                *)
AfterBatchPast(d, b) == IF b > batches[d] + 1 THEN "finish" ELSE "embed"
AfterBatchShort(d, b) == IF b >= batches[d] THEN "finish" ELSE "embed"

(* ensure_collection runs in an executor thread: it lists the collections, *)
(* then creates the missing one.  Creating one that another thread created *)
(* in between raises.                                                      *)
AfterBatch(d, b) == IF b > batches[d] THEN "finish" ELSE "embed"

CollectionListed(d) ==
    /\ Goto(d, "ensure", IF exists THEN AfterBatch(d, 1) ELSE "create")
    /\ UNCHANGED <<content, batches, batch, storeVars, deleter, asked, unsaved, crashes>>

CollectionCreated(d) ==
    /\ ~exists
    /\ exists' = TRUE
    /\ Goto(d, "create", AfterBatch(d, 1))
    /\ UNCHANGED <<content, batches, batch, row, chunks, vectors, folder, deleter, asked, unsaved, crashes>>

(* Faulty: nothing refuses chunks of a document that was deleted.          *)
EmbeddedOrphan(d) ==
    /\ Goto(d, "embed", "upsert")
    /\ chunks' = [chunks EXCEPT ![d] = @ \cup {batch[d]}]
    /\ UNCHANGED <<content, batches, batch, row, vectors, folder, exists, deleter, asked, unsaved, crashes>>

(* The embeddings of a batch are there: insert its chunks.  The foreign    *)
(* key of chunks.doc_id refuses them when the documents row is gone.       *)
Embedded(d) ==
    /\ Goto(d, "embed", "upsert")
    /\ row[d] # "absent"
    /\ chunks' = [chunks EXCEPT ![d] = @ \cup {batch[d]}]
    /\ UNCHANGED <<content, batches, batch, row, vectors, folder, exists, deleter, asked, unsaved, crashes>>

Upserted(d) ==
    /\ Goto(d, "upsert", AfterBatch(d, batch[d] + 1))
    /\ vectors' = [vectors EXCEPT ![d] = @ \cup {batch[d]}]
    /\ batch' = [batch EXCEPT ![d] = @ + 1]
    /\ UNCHANGED <<content, batches, row, chunks, folder, exists, deleter, asked, unsaved, crashes>>

(* An UPDATE of a row that is gone changes nothing.                        *)
SetStatus(d, s) == row' = [row EXCEPT ![d] = IF @ = "absent" THEN @ ELSE s]

(* The document is marked done; with a project and an LLM the entities of  *)
(* its chunks are extracted before the job ends, and never make it fail.   *)
Finished(d) ==
    /\ \E to \in {"extract", "done"} : Goto(d, "finish", to)
    /\ SetStatus(d, "done")
    /\ UNCHANGED <<content, batches, batch, chunks, vectors, folder, exists, deleter, asked, unsaved, crashes>>

Extracted(d) ==
    /\ Goto(d, "extract", "done")
    /\ UNCHANGED <<content, batches, batch, storeVars, deleter, asked, unsaved, crashes>>

(* An exception of the pipeline: _run_job persists the error.  Parser,     *)
(* chunker, embedder, vector store and every transaction may fail on their *)
(* own account; the two causes in these stores are the foreign key and the *)
(* lost create race.  Before it is inserted the document may have its      *)
(* directory, and an upsert that raises may have stored its batch.         *)
Fails(d) ==
    \/ pc[d] \in {"hash", "parse", "chunk", "ensure", "embed", "upsert", "finish"}
    \/ pc[d] = "create" /\ exists

Pending(d) == IF pc[d] = "upsert" THEN {batch[d]} ELSE {}

LeftBehind(d) ==
    /\ folder' = folder \/ (pc[d] = "parse" /\ folder' = folder \cup {d})
    /\ vectors' = vectors \/ vectors' = [vectors EXCEPT ![d] = @ \cup Pending(d)]

(* Faulty: the error is reported to the stream and not persisted.          *)
FailedSilently(d) ==
    /\ Fails(d)
    /\ LeftBehind(d)
    /\ pc' = [pc EXCEPT ![d] = "failed"]
    /\ UNCHANGED <<content, batches, batch, row, chunks, exists, deleter, asked, unsaved, crashes>>

(* The UPDATE that persists the error may raise too: _run_job logs it and  *)
(* goes on (ingest_queue.py:169-181), the row stays as it was.             *)
Failed(d) ==
    /\ Fails(d)
    /\ LeftBehind(d)
    /\ pc' = [pc EXCEPT ![d] = "failed"]
    /\ \/ SetStatus(d, "error") /\ UNCHANGED unsaved
       \/ unsaved' = unsaved \cup {d} /\ UNCHANGED row
    /\ UNCHANGED <<content, batches, batch, chunks, exists, deleter, asked, crashes>>

-----------------------------------------------------------------------------
(* delete_document: the row is read, the vectors are deleted in a thread,  *)
(* then one transaction deletes the rows, and the directory goes if rmtree *)
(* can remove it (ignore_errors).                                          *)
DeleteStart(d) ==
    /\ row[d] # "absent"
    /\ deleter[d] = "idle"
    /\ deleter' = [deleter EXCEPT ![d] = "vectors"]
    /\ asked' = [asked EXCEPT ![d] =
                    IF pc[d] \in Running THEN "during" ELSE IF @ = "no" THEN "after" ELSE @]
    /\ UNCHANGED <<jobVars, storeVars, unsaved, crashes>>

DeleteVectors(d) ==
    /\ deleter[d] = "vectors"
    /\ exists
    /\ deleter' = [deleter EXCEPT ![d] = "sql"]
    /\ vectors' = [vectors EXCEPT ![d] = {}]
    /\ UNCHANGED <<jobVars, sqlVars, folder, exists, asked, unsaved, crashes>>

RowsGone(d) ==
    /\ row' = [row EXCEPT ![d] = "absent"]
    /\ chunks' = [chunks EXCEPT ![d] = {}]

(* Faulty: the directory goes first, and the transaction raises.           *)
DeleteFilesFirst(d) ==
    /\ deleter[d] = "sql"
    /\ deleter' = [deleter EXCEPT ![d] = "idle"]
    /\ folder' = folder \ {d}
    /\ RowsGone(d) \/ UNCHANGED sqlVars
    /\ UNCHANGED <<jobVars, vectors, exists, asked, unsaved, crashes>>

DeleteRows(d) ==
    /\ deleter[d] = "sql"
    /\ deleter' = [deleter EXCEPT ![d] = "idle"]
    /\ RowsGone(d)
    /\ folder' \in {folder, folder \ {d}}
    /\ UNCHANGED <<jobVars, vectors, exists, asked, unsaved, crashes>>

(* Faulty: the rows are deleted although the vectors were not.             *)
DeleteGoesOn(d) ==
    /\ deleter[d] = "vectors"
    /\ deleter' = [deleter EXCEPT ![d] = "sql"]
    /\ UNCHANGED <<jobVars, storeVars, asked, unsaved, crashes>>

(* The vector store refuses, as it does when the collection is missing, or *)
(* does not answer in time; or the transaction raises.  The route answers  *)
(* 500 and goes no further.                                                *)
DeleteFails(d) ==
    /\ deleter[d] # "idle"
    /\ deleter' = [deleter EXCEPT ![d] = "idle"]
    /\ vectors' = vectors \/ (deleter[d] = "vectors" /\ vectors' = [vectors EXCEPT ![d] = {}])
    /\ UNCHANGED <<jobVars, sqlVars, folder, exists, asked, unsaved, crashes>>

(* A search in the project ensures the collection too (memory/manager.py).  *)
SearchEnsures ==
    /\ ~exists
    /\ exists' = TRUE
    /\ UNCHANGED <<jobVars, row, chunks, vectors, folder, deleter, asked, unsaved, crashes>>

(* What the vector store has of a document when the calls that are under   *)
(* way are cut: an upsert and a delete may each have happened, in either   *)
(* order.                                                                  *)
Landed(d) ==
    {vectors[d], vectors[d] \cup Pending(d)}
        \cup (IF deleter[d] = "vectors" THEN {{}, Pending(d)} ELSE {})

(* The two actions that write SQLite and the disk without an await between:*)
(* a crash may come when the file was copied and its row not inserted, or  *)
(* when the rows were deleted and the directory is still there.            *)
CutInsert(d) ==
    /\ pc[d] = "parse"
    /\ folder' = folder \cup {d}
    /\ UNCHANGED sqlVars

CutDelete(d) ==
    /\ deleter[d] = "sql"
    /\ RowsGone(d)
    /\ UNCHANGED folder

(* The process dies and is started again.  lifespan (main.py:28-168) looks *)
(* at no documents row: jobs and requests are gone, the stores stay.       *)
Crash ==
    /\ crashes < MaxCrashes
    /\ crashes' = crashes + 1
    /\ pc' = [d \in Docs |-> IF pc[d] \in {"waiting"} \cup Running THEN "lost" ELSE pc[d]]
    /\ deleter' = [d \in Docs |-> "idle"]
    /\ vectors' \in [Docs -> SUBSET (1..MaxBatches)]
    /\ \A d \in Docs : vectors'[d] \in Landed(d)
    /\ UNCHANGED <<sqlVars, folder>> \/ \E d \in Docs : CutInsert(d) \/ CutDelete(d)
    /\ UNCHANGED <<content, batches, batch, exists, asked, unsaved>>

JobStep(d) ==
    \/ FoundDuplicate(d) \/ NotDuplicate(d) \/ Parsed(d) \/ Chunked(d)
    \/ CollectionListed(d) \/ CollectionCreated(d)
    \/ Embedded(d) \/ Upserted(d) \/ Finished(d) \/ Extracted(d) \/ Failed(d)

DeleteStep(d) == DeleteVectors(d) \/ DeleteRows(d) \/ DeleteFails(d)

Next ==
    \/ \E d \in Docs : Upload(d) \/ Begin(d) \/ JobStep(d) \/ DeleteStart(d) \/ DeleteStep(d)
    \/ SearchEnsures
    \/ Crash

Spec == Init /\ [][Next]_vars

(* Every await of a job and of a delete returns or raises; the queue gives *)
(* each waiting job its turn (IngestQueue's NoOvertaking, and              *)
(* AcceptedSettles).                                                       *)
Fairness ==
    \A d \in Docs : WF_vars(JobStep(d)) /\ SF_vars(Begin(d)) /\ WF_vars(DeleteStep(d))

FairSpec == Spec /\ Fairness

-----------------------------------------------------------------------------
(* A document the list shows as done is indexed in full, in both stores,   *)
(* unless someone asked for its deletion: neither a crash nor a failing    *)
(* batch of another document leaves a "done" row with a hole behind it.    *)
DoneIsIndexed ==
    \A d \in Docs : row[d] = "done" =>
        /\ chunks[d] = AllBatches(d)
        /\ vectors[d] = AllBatches(d) \/ asked[d] # "no"

(* The outcome the progress stream reports agrees with the documents row   *)
(* that outlives it: done means done, failed means error, whatever         *)
(* crashed or was retried in between; a row may be missing only because    *)
(* of a delete, or because the job ended before it made one, and stays in  *)
(* processing only if SQLite refused the error.                            *)
OutcomeIsPersisted ==
    \A d \in Docs :
        /\ pc[d] = "done" => row[d] \in (IF asked[d] = "no" THEN {"done"} ELSE {"done", "absent"})
        /\ pc[d] = "failed" =>
              row[d] \in {"error", "absent"} \cup (IF d \in unsaved THEN {"processing"} ELSE {})
        /\ pc[d] = "duplicate" => row[d] = "absent"

(* Chunks rest on a row and a row on the file it was made from, which the  *)
(* file route serves (documents.py:150): also when a delete meets an       *)
(* ingestion that puts more chunks in, and when a crash or a failure cuts  *)
(* the insert or the delete between SQLite and the directory.              *)
RowBacked ==
    \A d \in Docs :
        /\ chunks[d] # {} => row[d] # "absent"
        /\ row[d] # "absent" => d \in folder

(* "Delete a document and all its chunks from SQLite and the vector store" *)
(* (documents.py:186) for a document whose job had ended when the delete   *)
(* came.                                                                   *)
CleanDelete == \A d \in Docs : row[d] = "absent" /\ asked[d] = "after" => vectors[d] = {}

(* The same sentence for a document in any state: no vector outlives the   *)
(* row unless a job or a delete is still at work on it.  A delete during   *)
(* the ingestion breaks it: the pending upsert lands after the delete.     *)
NoOrphanVectors ==
    \A d \in Docs :
        row[d] = "absent" /\ pc[d] \notin Running /\ deleter[d] = "idle" => vectors[d] = {}

(* "Clean up uploaded file" (documents.py:211): no directory outlives the  *)
(* row.  A rmtree that fails leaves one, so does a crash in the insert or  *)
(* in the delete.                                                          *)
NoStrayFolder ==
    \A d \in Docs :
        row[d] = "absent" /\ pc[d] \notin Running /\ deleter[d] = "idle" => d \notin folder

(* "Persist error to DB so it survives" (ingest_queue.py:167): no job that *)
(* failed leaves its row in processing.  An UPDATE that raises does.       *)
ErrorSurvives == \A d \in Docs : pc[d] = "failed" => row[d] # "processing"

(* The hash dedup ("Return existing doc_id if this file hash already       *)
(* exists", pipeline.py:43): the same bytes are indexed once.              *)
ContentIndexedOnce ==
    \A d, e \in Docs :
        d # e /\ row[d] # "absent" /\ row[e] # "absent" => content[d] # content[e]

(* An upload is refused as a duplicate only of a document that is "already *)
(* indexed" (pipeline.py:104).                                             *)
DuplicateOfIndexed ==
    [][\A d \in Docs :
        pc[d] = "hash" /\ pc'[d] = "duplicate" => \E e \in Twins(d) : row[e] = "done"]_vars

(* Every row that says processing gets its final status, or goes, unless   *)
(* a crash took the job, nothing at startup (main.py:28-168) puts it right,*)
(* or SQLite refused the error.                                            *)
ProcessingEnds ==
    \A d \in Docs :
        row[d] = "processing" ~> row[d] # "processing" \/ pc[d] = "lost" \/ d \in unsaved

-----------------------------------------------------------------------------
(* The strengthening of the safety properties that is inductive: what the  *)
(* point a job has reached says about each store, one document at a time.  *)
RowOfStage(d) ==
    /\ row[d] = "processing" =>
          \/ pc[d] \in {"chunk", "ensure", "create", "embed", "upsert", "finish", "lost"}
          \/ pc[d] = "failed" /\ d \in unsaved
    /\ row[d] = "done" => pc[d] \in {"extract", "done", "lost"}
    /\ row[d] = "error" => pc[d] = "failed"
    /\ pc[d] = "failed" => row[d] # "done"
    /\ pc[d] \in {"chunk", "ensure", "create", "embed", "upsert", "finish", "extract", "done"}
          => row[d] # "absent" \/ asked[d] # "no"
    /\ row[d] = "absent" => chunks[d] = {}
    /\ row[d] # "absent" => d \in folder

(* n batches are stored, except for what a delete removed meanwhile.       *)
Stored(d, n, m) ==
    /\ row[d] # "absent" => chunks[d] = 1..n
    /\ asked[d] = "no" => vectors[d] = 1..m

BatchesOfStage(d) ==
    /\ pc[d] \in {"none", "waiting", "hash", "parse", "duplicate", "chunk", "ensure", "create"}
          => batch[d] = 1 /\ chunks[d] = {} /\ vectors[d] = {}
    /\ pc[d] = "embed" => batch[d] <= batches[d] /\ Stored(d, batch[d] - 1, batch[d] - 1)
    /\ pc[d] = "upsert" => batch[d] <= batches[d] /\ Stored(d, batch[d], batch[d] - 1)
    /\ pc[d] = "finish" \/ row[d] = "done" => Stored(d, batches[d], batches[d])

DeleteOfStage(d) ==
    /\ deleter[d] # "idle" => asked[d] # "no"
    /\ asked[d] = "after" => pc[d] \in Ended
    /\ asked[d] = "after" /\ (deleter[d] = "sql" \/ row[d] = "absent") => vectors[d] = {}

DocInv(d) == RowOfStage(d) /\ BatchesOfStage(d) /\ DeleteOfStage(d)

IInv == TypeOK /\ \A d \in Docs : DocInv(d)

(* The documents that hold the same bytes: with a row, or found new and    *)
(* about to get one.                                                       *)
Holders(c) == {d \in Docs : content[d] = c /\ (row[d] # "absent" \/ pc[d] = "parse")}

(* Duplicates are bounded: the same bytes are indexed no more often than   *)
(* pipelines run at once, however often they are uploaded; once with a     *)
(* semaphore of one.                                                       *)
CopiesBounded ==
    \A c \in Contents : Cardinality({d \in Docs : row[d] # "absent" /\ content[d] = c}) <= MaxConcurrent

(* What makes it inductive: no more pipelines run than the semaphore has   *)
(* permits, and no job joins the holders of a content that has a row.      *)
CopiesInv ==
    /\ IsFiniteSet(ActiveJobs) /\ Cardinality(ActiveJobs) <= MaxConcurrent
    /\ \A c \in Contents : IsFiniteSet(Holders(c)) /\ Cardinality(Holders(c)) <= MaxConcurrent
=============================================================================
