--------------------------- MODULE ProgressStream ---------------------------
(***************************************************************************)
(* The progress of one upload: the events its job leaves in its progress   *)
(* queue (backend/core/ingest_queue.py, ingestion/pipeline.py), the SSE    *)
(* route that hands them to whoever asks (api/routes/documents.py), and    *)
(* the hook of the client that shows them                                  *)
(* (frontend/src/hooks/useIngestionProgress.ts).                           *)
(*                                                                         *)
(* Several streams may read one queue: each event goes to one of them.     *)
(* Uploads share nothing here, and IngestQueue and DocLifecycle say what   *)
(* else a job does.  A stage is its place in the pipeline; the batches of  *)
(* a document are one, and percentages are left out.  The document is not  *)
(* deleted meanwhile (see DocLifecycle), and nothing calls                 *)
(* cancel.  `outcome` is a history variable.                               *)
(***************************************************************************)
EXTENDS Naturals, Sequences

CONSTANTS Streams,    \* requests for the progress of the upload
          MaxCrashes  \* bound: crashes of the process

ASSUME ProgressAssumption == MaxCrashes \in Nat

VARIABLES
    job,      \* status of the job; "extract" is PROCESSING after the row is done
    known,    \* the job is in the registry
    stage,    \* its stage
    events,   \* its progress_queue
    fresh,    \* how many of them were put by the last step of the job
    row,      \* status of the document row
    outcome,  \* how the ingestion ended
    at,       \* each stream: "told" or "cut" when the client closed it
    shown,    \* the stage its client shows
    crashes

jobVars == <<job, known, stage, events, fresh, row, outcome, crashes>>
streamVars == <<at, shown>>
uploadVars == <<jobVars, streamVars>>

Queued == 0
Parsing == 1
Chunking == 2
Embedding == 3
Indexing == 4
Done == 5
Failed == 6
Ends == {Done, Failed}

StreamTypeOK ==
    /\ job \in {"queued", "processing", "extract", "done", "error", "lost"}
    /\ known \in BOOLEAN
    /\ stage \in Queued..Failed
    /\ events \in Seq(Parsing..Failed)
    /\ fresh \in 0..3
    /\ row \in {"absent", "processing", "done", "error"}
    /\ outcome \in {"none", "done", "error"}
    /\ at \in [Streams -> {"idle", "waiting", "ending", "told", "cut"}]
    /\ shown \in [Streams -> Queued..Failed]
    /\ crashes \in 0..MaxCrashes

StreamInit ==
    /\ job = "queued" /\ known = TRUE /\ stage = Queued
    /\ events = <<>> /\ fresh = 0
    /\ row = "absent" /\ outcome = "none"
    /\ at = [s \in Streams |-> "idle"]
    /\ shown = [s \in Streams |-> Queued]
    /\ crashes = 0

-----------------------------------------------------------------------------
(* The job.                                                                *)

(* progress_callback: the job shows its stage and queues it, with no await *)
(* between the stages of `es`.                                             *)
Emit(es) ==
    /\ stage' = es[Len(es)]
    /\ events' = events \o es
    /\ fresh' = Len(es)
    /\ UNCHANGED <<known, streamVars, crashes>>

BeginJob ==
    /\ job = "queued"
    /\ job' = "processing"
    /\ Emit(<<Parsing>>)
    /\ UNCHANGED <<row, outcome>>

(* _run_job once the pipeline, which said so itself, returned.             *)
Returned(before) ==
    /\ job' = "done"
    /\ outcome' = "done"
    /\ Emit(before \o <<Done, Done>>)

(* The bytes are known: the upload is done without a row.                  *)
Duplicate ==
    /\ job = "processing" /\ stage = Parsing
    /\ Returned(<<>>)
    /\ UNCHANGED row

Parsed ==
    /\ job = "processing" /\ stage = Parsing
    /\ row' = "processing"
    /\ Emit(<<Chunking>>)
    /\ UNCHANGED <<job, outcome>>

Chunked ==
    /\ job = "processing" /\ stage = Chunking
    /\ Emit(<<Embedding>>)
    /\ UNCHANGED <<job, row, outcome>>

(* The row is done before the entities are extracted, ...                  *)
Indexed ==
    /\ job = "processing" /\ stage = Embedding
    /\ row' = "done"
    /\ job' = "extract"
    /\ Emit(<<Indexing>>)
    /\ UNCHANGED outcome

Extracted ==
    /\ job = "extract"
    /\ Returned(<<>>)
    /\ UNCHANGED row

(* ... which only documents of a project are.                              *)
IndexedPlain ==
    /\ job = "processing" /\ stage = Embedding
    /\ row' = "done"
    /\ Returned(<<Indexing>>)

(* Faulty: the event of the end is put in the finally clause.              *)
RaisedFinally ==
    /\ job = "processing"
    /\ job' = "error"
    /\ outcome' = "error"
    /\ row' = IF row = "absent" THEN row ELSE "error"
    /\ Emit(<<Failed, Done>>)

(* The pipeline raises; a row, if there is one, is marked.  Failures of    *)
(* the extraction are caught.                                              *)
Raised ==
    /\ job = "processing"
    /\ job' = "error"
    /\ outcome' = "error"
    /\ row' = IF row = "absent" THEN row ELSE "error"
    /\ Emit(<<Failed>>)

(* _expire_job, five minutes later.                                        *)
ExpireJob ==
    /\ job \in {"done", "error"}
    /\ known
    /\ known' = FALSE
    /\ UNCHANGED <<job, stage, events, fresh, row, outcome, crashes, streamVars>>

(* The process dies and starts again: no job, no connection.               *)
Crash ==
    /\ crashes < MaxCrashes
    /\ crashes' = crashes + 1
    /\ known' = FALSE
    /\ job' = IF outcome = "none" THEN "lost" ELSE job
    /\ events' = <<>> /\ fresh' = 0
    /\ at' = [s \in Streams |-> IF at[s] \in {"waiting", "ending"} THEN "cut" ELSE at[s]]
    /\ shown' = [s \in Streams |-> IF at[s] \in {"waiting", "ending"} THEN Failed ELSE shown[s]]
    /\ UNCHANGED <<stage, row, outcome>>

-----------------------------------------------------------------------------
(* The streams.                                                            *)

(* The client shows a stage; it closes the stream at the last one.         *)
Show(s, e, next) ==
    /\ shown' = [shown EXCEPT ![s] = e]
    /\ at' = [at EXCEPT ![s] = IF e \in Ends THEN "told" ELSE next]

(* A job that waits or runs is followed.                                   *)
Follow(s) ==
    /\ at[s] = "idle"
    /\ known /\ job \in {"queued", "processing", "extract"}
    /\ at' = [at EXCEPT ![s] = "waiting"]
    /\ UNCHANGED <<jobVars, shown>>

(* A job that ended tells its stage.                                       *)
Final(s) ==
    /\ at[s] = "idle"
    /\ known /\ job \in {"done", "error"}
    /\ Show(s, stage, "ending")
    /\ UNCHANGED jobVars

(* Without a job the row tells; if it has no outcome the stream says       *)
(* "queued" and ends.                                                      *)
FromRow(s) ==
    /\ at[s] = "idle"
    /\ ~known
    /\ Show(s, IF row = "done" THEN Done ELSE IF row = "error" THEN Failed ELSE Queued, "ending")
    /\ UNCHANGED jobVars

(* A stream that ends is an error to the client (onerror).                 *)
Ended(s) ==
    /\ at[s] = "ending"
    /\ at' = [at EXCEPT ![s] = "cut"]
    /\ shown' = [shown EXCEPT ![s] = Failed]
    /\ UNCHANGED jobVars

Take ==
    /\ events # <<>>
    /\ events' = Tail(events)
    /\ UNCHANGED <<job, known, stage, fresh, row, outcome, crashes>>

Deliver(s) ==
    /\ at[s] = "waiting"
    /\ Take
    /\ Show(s, Head(events), "waiting")

(* Thirty seconds went by without an event for this stream; one that comes *)
(* at that moment stays in the queue.                                      *)
TimedOut(s) == at[s] = "waiting" /\ Len(events) <= fresh

(* Faulty: a comment keeps the connection open, as the code says.          *)
KeepaliveComment(s) ==
    /\ TimedOut(s)
    /\ UNCHANGED uploadVars

(* The stage of the job is sent again.                                     *)
Keepalive(s) ==
    /\ TimedOut(s)
    /\ Show(s, stage, "waiting")
    /\ UNCHANGED jobVars

(* The client closes, or loses its connection, which it shows as an error; *)
(* the route may take one more event before it notices.                    *)
Leave(s) ==
    /\ at[s] = "waiting"
    /\ at' = [at EXCEPT ![s] = "cut"]
    /\ \E e \in {shown[s], Failed} : shown' = [shown EXCEPT ![s] = e]
    /\ Take \/ UNCHANGED jobVars

Work == BeginJob \/ Duplicate \/ Parsed \/ Chunked \/ Indexed \/ IndexedPlain \/ Extracted \/ Raised

Serve(s) == Ended(s) \/ Deliver(s) \/ Keepalive(s)

StreamNext ==
    \/ Work \/ ExpireJob \/ Crash
    \/ \E s \in Streams : Follow(s) \/ Final(s) \/ FromRow(s) \/ Serve(s) \/ Leave(s)

StreamSpec == StreamInit /\ [][StreamNext]_uploadVars

(* The job gets its permit and goes on, and a stream waits thirty seconds  *)
(* at most; nobody has to ask or to leave.                                 *)
StreamFairSpec == StreamSpec /\ WF_uploadVars(Work) /\ \A s \in Streams : WF_uploadVars(Serve(s))

-----------------------------------------------------------------------------
(* A client that was told an end was told the right one, however many      *)
(* streams shared the events and whenever it came: done exactly if the     *)
(* row is done or the upload was a duplicate.                              *)
OutcomeTold ==
    \A s \in Streams : at[s] = "told" =>
        (shown[s] = Done) = (outcome = "done" \/ row = "done")

(* Every client that follows a job is told an end, unless it left or the   *)
(* server stopped: those that find the last event taken by another stream  *)
(* learn it from a keepalive (documents.py:265-267).                       *)
EndTold == \A s \in Streams : at[s] = "waiting" ~> at[s] # "waiting"

(* What a client shows never goes back to an earlier stage.                *)
NeverBack == [][\A s \in Streams : shown'[s] >= shown[s]]_uploadVars

(* The inductive invariant.  The status of the job says which stage it is  *)
(* in, what its row holds and whether an outcome is known; the events that *)
(* wait are in order, none ahead of the job, none behind a client that     *)
(* waits, and those of the last step are the stage itself, unless it was   *)
(* the last; and only an upload with an outcome has told a client an end.  *)
JobInv ==
    /\ job = "queued" => stage = Queued /\ row = "absent"
    /\ job = "processing" => IF stage = Parsing THEN row = "absent"
                             ELSE stage \in {Chunking, Embedding} /\ row = "processing"
    /\ job = "extract" => stage = Indexing /\ row = "done"
    /\ job = "done" => stage = Done /\ row \in {"absent", "done"} /\ outcome = "done"
    /\ job = "error" => stage = Failed /\ row \in {"absent", "error"} /\ outcome = "error"
    /\ job = "lost" => row \in {"absent", "processing", "done"} /\ ~known
    /\ job \notin {"done", "error"} => outcome = "none"
    /\ ~known => job \in {"done", "error", "lost"}

EventsInv ==
    /\ \A i, j \in 1..Len(events) : i <= j => events[i] <= events[j]
    /\ \A i \in 1..Len(events) :
          /\ events[i] <= stage
          /\ events[i] \in Ends \/ (i > Len(events) - fresh /\ stage \notin Ends) => events[i] = stage

StreamInv(s) ==
    /\ at[s] = "idle" => shown[s] = Queued
    /\ at[s] = "waiting" => /\ job # "lost" /\ shown[s] <= stage
                            /\ \A i \in 1..Len(events) : shown[s] <= events[i]
    /\ at[s] = "told" => shown[s] \in Ends /\ job \in {"done", "error", "lost"}

StreamIInv == StreamTypeOK /\ JobInv /\ EventsInv /\ OutcomeTold /\ \A s \in Streams : StreamInv(s)

-----------------------------------------------------------------------------
(* documents.py:238 says "If no job yet, check DB for already-indexed      *)
(* doc".  Does not hold that the row tells of every upload that is done: a *)
(* duplicate has none, and five minutes later its client shows an error.   *)
DoneStaysDone == \A s \in Streams : at[s] = "ending" => outcome # "done"
=============================================================================
