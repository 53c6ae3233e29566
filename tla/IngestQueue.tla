----------------------------- MODULE IngestQueue -----------------------------
(***************************************************************************)
(* The ingestion queue of the backend, backend/core/ingest_queue.py: a     *)
(* bounded asyncio.Queue drained by one worker task, one task per job that *)
(* waits on a semaphore before it runs the pipeline, a registry of jobs    *)
(* that the progress endpoint polls, and a set of cancelled job ids.       *)
(*                                                                         *)
(* Everything here runs on one event loop: an action is the code between   *)
(* two awaits.  The upload route mints a fresh doc_id for every submission *)
(* (documents.py:47), so "the most recent job of a document" is its only   *)
(* job, and Jobs stands for both identities.                               *)
(***************************************************************************)
EXTENDS Naturals, Sequences, FiniteSets, Functions

CONSTANTS Jobs,           \* the jobs that may ever be submitted
          QueueSize,      \* cfg.ingest_queue_size: maxsize of the queue
          MaxConcurrent   \* cfg.max_concurrent_ingestions: the semaphore

ASSUME QueueAssumption ==
    /\ QueueSize \in Nat \ {0}
    /\ MaxConcurrent \in Nat \ {0}

VARIABLES
    worker,      \* the task that runs _worker_loop
    queue,       \* _queue, oldest first
    waiters,     \* tasks of _run_job blocked on the semaphore, in FIFO order
    running,     \* tasks of _run_job inside the semaphore, awaiting _ingest_fn
    expiring,    \* tasks of _expire_job asleep for _JOB_TTL_SECONDS
    registry,    \* the keys of _jobs
    cancelled,   \* _cancelled
    status,      \* job.status; "none" before the job object exists
    unfinished   \* _queue._unfinished_tasks

taskVars == <<waiters, running, expiring>>
vars == <<worker, queue, taskVars, registry, cancelled, status, unfinished>>

Outcome == {"done", "error"}
Status == {"none", "queued", "processing", "cancelled"} \cup Outcome

TypeOK ==
    /\ worker \in {"running", "stopped"}
    /\ queue \in Seq(Jobs)
    /\ waiters \in Seq(Jobs)
    /\ running \in SUBSET Jobs
    /\ expiring \in SUBSET Jobs
    /\ registry \in SUBSET Jobs
    /\ cancelled \in SUBSET Jobs
    /\ status \in [Jobs -> Status]
    /\ unfinished \in Nat

Init ==
    /\ worker = "running"
    /\ queue = <<>>
    /\ waiters = <<>>
    /\ running = {}
    /\ expiring = {}
    /\ registry = {}
    /\ cancelled = {}
    /\ status = [j \in Jobs |-> "none"]
    /\ unfinished = 0

-----------------------------------------------------------------------------
(* submit: the job is registered before put_nowait, which raises QueueFull *)
(* at capacity and leaves the registration behind.                         *)
Register(j) ==
    /\ status[j] = "none"
    /\ registry' = registry \cup {j}
    /\ status' = [status EXCEPT ![j] = "queued"]

Submit(j) ==
    /\ Register(j)
    /\ Len(queue) < QueueSize
    /\ queue' = Append(queue, j)
    /\ unfinished' = unfinished + 1
    /\ UNCHANGED <<worker, taskVars, cancelled>>

SubmitFull(j) ==
    /\ Register(j)
    /\ Len(queue) >= QueueSize
    /\ UNCHANGED <<worker, queue, taskVars, cancelled, unfinished>>

(* Faulty: a running pipeline is killed.                                   *)
CancelKills(j) ==
    /\ j \in registry
    /\ status[j] \in {"queued", "processing"}
    /\ running' = running \ {j}
    /\ cancelled' = cancelled \cup {j}
    /\ status' = [status EXCEPT ![j] = "cancelled"]
    /\ UNCHANGED <<worker, queue, waiters, expiring, registry, unfinished>>

(* cancel: get_status finds the job in the registry.                       *)
Cancel(j) ==
    /\ j \in registry
    /\ status[j] \in {"queued", "processing"}
    /\ cancelled' = cancelled \cup {j}
    /\ status' = [status EXCEPT ![j] = "cancelled"]
    /\ UNCHANGED <<worker, queue, taskVars, registry, unfinished>>

(* _worker_loop: one iteration, from the get to the next await.            *)
Discard ==
    /\ worker = "running"
    /\ queue # <<>>
    /\ Head(queue) \in cancelled
    /\ queue' = Tail(queue)
    /\ unfinished' = unfinished - 1
    /\ UNCHANGED <<worker, taskVars, registry, cancelled, status>>

(* Faulty: the newest task is the first at the semaphore.                  *)
DispatchFirst ==
    /\ worker = "running"
    /\ queue # <<>>
    /\ Head(queue) \notin cancelled
    /\ queue' = Tail(queue)
    /\ waiters' = <<Head(queue)>> \o waiters
    /\ UNCHANGED <<worker, running, expiring, registry, cancelled, status, unfinished>>

Dispatch ==
    /\ worker = "running"
    /\ queue # <<>>
    /\ Head(queue) \notin cancelled
    /\ queue' = Tail(queue)
    /\ waiters' = Append(waiters, Head(queue))
    /\ UNCHANGED <<worker, running, expiring, registry, cancelled, status, unfinished>>

(* _run_job from the semaphore to the await of _ingest_fn.  Skipping a     *)
(* cancelled job returns without task_done and without an expiry.          *)
Acquire(j) ==
    /\ waiters # <<>>
    /\ j = Head(waiters)
    /\ Cardinality(running) < MaxConcurrent
    /\ waiters' = Tail(waiters)

(* Faulty: the skipped job is no longer remembered as cancelled.           *)
SkipForgets(j) ==
    /\ Acquire(j)
    /\ j \in cancelled
    /\ cancelled' = cancelled \ {j}
    /\ UNCHANGED <<worker, queue, running, expiring, registry, status, unfinished>>

Skip(j) ==
    /\ Acquire(j)
    /\ j \in cancelled
    /\ UNCHANGED <<worker, queue, running, expiring, registry, cancelled, status, unfinished>>

(* Faulty: the cancellation is not looked up again behind the semaphore.   *)
BeginUnchecked(j) ==
    /\ Acquire(j)
    /\ running' = running \cup {j}
    /\ status' = [status EXCEPT ![j] = "processing"]
    /\ UNCHANGED <<worker, queue, expiring, registry, cancelled, unfinished>>

Begin(j) ==
    /\ Acquire(j)
    /\ j \notin cancelled
    /\ running' = running \cup {j}
    /\ status' = [status EXCEPT ![j] = "processing"]
    /\ UNCHANGED <<worker, queue, expiring, registry, cancelled, unfinished>>

(* Faulty: the permit is not given back.                                   *)
FinishHeld(j, outcome) ==
    /\ j \in running
    /\ status[j] \notin Outcome
    /\ status' = [status EXCEPT ![j] = outcome]
    /\ unfinished' = unfinished - 1
    /\ expiring' = expiring \cup {j}
    /\ UNCHANGED <<worker, queue, waiters, running, registry, cancelled>>

(* _run_job after _ingest_fn returned or raised, with its finally clause.  *)
Finish(j, outcome) ==
    /\ j \in running
    /\ running' = running \ {j}
    /\ status' = [status EXCEPT ![j] = outcome]
    /\ unfinished' = unfinished - 1
    /\ expiring' = expiring \cup {j}
    /\ UNCHANGED <<worker, queue, waiters, registry, cancelled>>

(* _expire_job once the sleep is over.                                     *)
Expire(j) ==
    /\ j \in expiring
    /\ expiring' = expiring \ {j}
    /\ registry' = registry \ {j}
    /\ cancelled' = cancelled \ {j}
    /\ UNCHANGED <<worker, queue, waiters, running, status, unfinished>>

(* stop: only the worker task is cancelled.                                *)
Stop ==
    /\ worker = "running"
    /\ worker' = "stopped"
    /\ UNCHANGED <<queue, taskVars, registry, cancelled, status, unfinished>>

Next ==
    \/ \E j \in Jobs :
        \/ Submit(j)
        \/ SubmitFull(j)
        \/ Cancel(j)
        \/ Skip(j)
        \/ Begin(j)
        \/ \E outcome \in Outcome : Finish(j, outcome)
        \/ Expire(j)
    \/ Discard
    \/ Dispatch
    \/ Stop

Spec == Init /\ [][Next]_vars

(* The event loop runs every ready task again; an ingestion ends, because  *)
(* each of its awaits is on an executor call or a provider request that    *)
(* returns or raises; the TTL sleep elapses.  Nobody has to submit, cancel *)
(* or stop.                                                                *)
Fairness ==
    /\ WF_vars(Discard \/ Dispatch)
    /\ WF_vars(\E j \in Jobs : Skip(j) \/ Begin(j))
    /\ \A j \in Jobs : WF_vars(\E outcome \in Outcome : Finish(j, outcome))
    /\ \A j \in Jobs : WF_vars(Expire(j))

FairSpec == Spec /\ Fairness

-----------------------------------------------------------------------------
(* The jobs that still have work to do.                                    *)
Live == Range(queue) \cup Range(waiters) \cup running

(* At most MaxConcurrent pipelines run at once, whatever is submitted,     *)
(* cancelled or stopped meanwhile (class docstring, ingest_queue.py:46).   *)
ConcurrencyBound == Cardinality(running) <= MaxConcurrent

(* A job is in one place of the machinery: its queue slot, its task and    *)
(* its expiry never coexist, so no job is run twice, and none is removed   *)
(* from the registry while it still has something to run.                  *)
OnePlace ==
    /\ IsInjective(queue)
    /\ IsInjective(waiters)
    /\ Range(queue) \cap Range(waiters) = {}
    /\ (Range(queue) \cup Range(waiters)) \cap running = {}
    /\ expiring \cap Live = {}

(* The progress endpoint finds every job that still has work to do, or     *)
(* whose TTL has not elapsed (get_status, ingest_queue.py:100).            *)
LiveJobsRegistered == Live \cup expiring \subseteq registry

(* The queue's task count covers every live job, so task_done is never     *)
(* called once too often: the ValueError handler at ingest_queue.py:185    *)
(* is unreachable.  (It is not an equality: Skip leaves the count behind.) *)
CountCovers == Cardinality(Live) <= unfinished

(* A job cancelled before its pipeline began never begins, whether the     *)
(* cancellation met it in the queue (line 124) or behind the semaphore     *)
(* (line 132), and however many other jobs finish and expire meanwhile.    *)
CancelledNeverBegins ==
    [][\A j \in Jobs :
        status[j] = "cancelled" /\ j \notin running => j \notin running']_vars

(* Jobs begin in the order they were accepted: the one that begins is the  *)
(* first of those waiting, in the queue or at the semaphore, and no step   *)
(* puts a job ahead of one that waits already, from the bounded queue to   *)
(* its task (ingest_queue.py:122-131).                                     *)
Backlog == waiters \o queue
Precedes(j, k) ==
    \E a, b \in DOMAIN Backlog : a < b /\ Backlog[a] = j /\ Backlog[b] = k
NoOvertaking ==
    [][/\ \A j \in running' \ running : Backlog # <<>> /\ Head(Backlog) = j
       /\ \A j \in Jobs, k \in Range(Backlog) : Precedes(j, k)' => Precedes(j, k)]_vars

(* Every accepted job is eventually done, failed or dropped; only a job    *)
(* still in the queue when the worker is stopped may stay there.           *)
AcceptedSettles ==
    \A j \in Jobs :
        j \in Live ~> \/ j \notin Live
                      \/ worker = "stopped" /\ j \in Range(queue)

(* Every job that ran leaves the registry and the cancelled set, so they   *)
(* do not grow with the jobs that finished (ingest_queue.py:187-192).      *)
FinishedExpires ==
    \A j \in Jobs : status[j] \in Outcome ~> j \notin registry \cup cancelled

-----------------------------------------------------------------------------
(* The bounded queue of the class docstring (ingest_queue.py:45) and of    *)
(* submit's "Raises asyncio.QueueFull if the queue is at capacity" (83),   *)
(* read as a bound on the jobs that wait for their turn.  The worker moves *)
(* each job out of the queue into a task of its own at once, so it does    *)
(* not hold.                                                               *)
WaitingBounded == Len(waiters) + Len(queue) <= QueueSize

(* A cancellation that cancel accepted (it returned True for a "queued/    *)
(* processing job", ingest_queue.py:111) is what the job's status goes on  *)
(* to say.  A job that was already processing overwrites it.               *)
CancelledStays ==
    [][\A j \in Jobs : status[j] = "cancelled" => status'[j] = "cancelled"]_vars

-----------------------------------------------------------------------------
(* The abstract life of a job that this queue implements.                  *)
phase == [j \in Jobs |->
    IF status[j] = "none" THEN "new"
    ELSE IF j \in Range(queue) \cup Range(waiters) THEN "waiting"
    ELSE IF j \in running THEN "active"
    ELSE IF status[j] \in Outcome THEN status[j]
    ELSE "dropped"]

Lifecycle == INSTANCE JobLifecycle
Refinement == Lifecycle!Spec
FairRefinement == Lifecycle!FairSpec

-----------------------------------------------------------------------------
(* The strengthening of the safety properties that is inductive: where     *)
(* each kind of job can be, and what its status can say there.             *)
UnsubmittedIsNowhere ==
    \A j \in Jobs :
        status[j] = "none" => j \notin Live \cup expiring \cup registry \cup cancelled

StatusOfLive ==
    /\ \A j \in Range(queue) \cup Range(waiters) : status[j] \in {"queued", "cancelled"}
    /\ \A j \in running : status[j] \in {"processing", "cancelled"}
    /\ \A j \in expiring : status[j] \in Outcome

(* The id of a cancelled job is not discarded while a test relies on it.   *)
CancelRemembered == \A j \in Jobs : status[j] = "cancelled" => j \in cancelled

IInv ==
    /\ TypeOK
    /\ OnePlace
    /\ LiveJobsRegistered
    /\ UnsubmittedIsNowhere
    /\ StatusOfLive
    /\ CancelRemembered
    /\ IsFiniteSet(Live)
    /\ CountCovers
    /\ ConcurrencyBound
=============================================================================
