-------------------------- MODULE IngestQueueProofs --------------------------
(***************************************************************************)
(* The safety of the ingestion queue for every set of jobs, queue size and *)
(* semaphore width, by the inductive invariant IInv of IngestQueue; then   *)
(* that of the progress of one upload, for every set of streams, by its    *)
(* StreamIInv.                                                             *)
(***************************************************************************)
EXTENDS IngestQueue, ProgressStream, FiniteSetTheorems, SequenceTheorems, TLAPS

(* Putting a new element at the end of a queue without repetitions.        *)
LEMMA AppendNew ==
    ASSUME NEW S, NEW s \in Seq(S), NEW e \in S, IsInjective(s), e \notin Range(s)
    PROVE  /\ Append(s, e) \in Seq(S)
           /\ Range(Append(s, e)) = Range(s) \cup {e}
           /\ IsInjective(Append(s, e))
BY DEF Range, IsInjective

(* Taking the head of a queue without repetitions.                         *)
LEMMA TakeHead ==
    ASSUME NEW S, NEW s \in Seq(S), s # <<>>, IsInjective(s)
    PROVE  /\ Tail(s) \in Seq(S)
           /\ Head(s) \in S
           /\ Head(s) \in Range(s)
           /\ Range(Tail(s)) = Range(s) \ {Head(s)}
           /\ IsInjective(Tail(s))
<1>1. /\ Head(s) = s[1] /\ 1 \in DOMAIN s /\ Len(s) \in Nat \ {0}
      /\ DOMAIN s = 1..Len(s)
      /\ Tail(s) \in Seq(S) /\ DOMAIN Tail(s) = 1..(Len(s) - 1)
      /\ \A i \in 1..(Len(s) - 1) : Tail(s)[i] = s[i + 1]
  OBVIOUS
<1>2. Range(Tail(s)) \subseteq Range(s) \ {Head(s)}
  BY <1>1 DEF Range, IsInjective
<1>3. ASSUME NEW x \in Range(s) \ {Head(s)}
      PROVE  x \in Range(Tail(s))
  <2>1. PICK i \in DOMAIN s : x = s[i]
    BY DEF Range
  <2>2. i - 1 \in 1..(Len(s) - 1) /\ Tail(s)[i - 1] = x
    BY <1>1, <1>3, <2>1
  <2> QED BY <1>1, <2>2 DEF Range
<1>4. IsInjective(Tail(s))
  BY <1>1 DEF IsInjective
<1>5. Range(Tail(s)) = Range(s) \ {Head(s)}
  BY <1>2, <1>3
<1>6. Head(s) \in S /\ Head(s) \in Range(s)
  BY <1>1 DEF Range
<1> QED BY <1>1, <1>4, <1>5, <1>6

-----------------------------------------------------------------------------
(* The initial states satisfy the invariant.                               *)
LEMMA InitIInv == Init => IInv
<1> SUFFICES ASSUME Init PROVE IInv
  OBVIOUS
<1>1. Range(queue) = {} /\ Range(waiters) = {} /\ Live = {}
  BY DEF Init, Range, Live
<1>2. IsFiniteSet(Live) /\ Cardinality(Live) = 0 /\ Cardinality(running) = 0
  BY <1>1, FS_EmptySet DEF Init
<1>3. IsInjective(queue) /\ IsInjective(waiters)
  BY DEF Init, IsInjective
<1>4. TypeOK
  BY DEF Init, TypeOK, Status
<1>5. OnePlace /\ LiveJobsRegistered /\ UnsubmittedIsNowhere /\ StatusOfLive
  BY <1>1, <1>3 DEF Init, OnePlace, LiveJobsRegistered, UnsubmittedIsNowhere, StatusOfLive
<1>6. CancelRemembered
  BY DEF Init, CancelRemembered
<1>7. CountCovers /\ ConcurrencyBound
  BY <1>2, QueueAssumption DEF Init, CountCovers, ConcurrencyBound
<1> QED BY <1>2, <1>4, <1>5, <1>6, <1>7 DEF IInv

(* The sets of IInv are finite, and their sizes are numbers.               *)
LEMMA LiveFinite ==
    ASSUME IInv
    PROVE  /\ IsFiniteSet(Live) /\ IsFiniteSet(running)
           /\ Cardinality(Live) \in Nat /\ Cardinality(running) \in Nat
BY FS_Subset, FS_CardinalityType DEF IInv, Live

(* A new job enters: it was nowhere, so it is one more live job.           *)
LEMMA SubmitIInv ==
    ASSUME IInv, NEW j \in Jobs, Submit(j)
    PROVE  IInv'
<1>1. j \notin Live \cup expiring \cup registry \cup cancelled
  BY DEF IInv, UnsubmittedIsNowhere, Submit, Register
<1>2. /\ queue' \in Seq(Jobs)
      /\ Range(queue') = Range(queue) \cup {j}
      /\ IsInjective(queue')
  BY <1>1, AppendNew DEF IInv, TypeOK, OnePlace, Live, Submit
<1>3. Live' = Live \cup {j}
  BY <1>2 DEF Live, Submit, taskVars
<1>4. IsFiniteSet(Live') /\ Cardinality(Live') = Cardinality(Live) + 1
  BY <1>1, <1>3, LiveFinite, FS_AddElement
<1>5. TypeOK'
  BY <1>2 DEF IInv, TypeOK, Submit, Register, Status, taskVars
<1>6. OnePlace'
  BY <1>1, <1>2, <1>3 DEF IInv, OnePlace, Live, Submit, taskVars
<1>7. LiveJobsRegistered' /\ UnsubmittedIsNowhere'
  BY <1>1, <1>3 DEF IInv, TypeOK, LiveJobsRegistered, UnsubmittedIsNowhere,
                    Submit, Register, taskVars
<1>8. StatusOfLive' /\ CancelRemembered'
  BY <1>1, <1>2 DEF IInv, TypeOK, StatusOfLive, CancelRemembered, Live,
                    Submit, Register, taskVars
<1>9. CountCovers'
  BY <1>4, LiveFinite DEF IInv, TypeOK, CountCovers, Submit
<1>10. ConcurrencyBound'
  BY DEF IInv, ConcurrencyBound, Submit, taskVars
<1> QED BY <1>4, <1>5, <1>6, <1>7, <1>8, <1>9, <1>10 DEF IInv

(* A refused job is registered and nowhere else: nothing it could run.     *)
LEMMA SubmitFullIInv ==
    ASSUME IInv, NEW j \in Jobs, SubmitFull(j)
    PROVE  IInv'
<1>1. j \notin Live \cup expiring \cup registry \cup cancelled
  BY DEF IInv, UnsubmittedIsNowhere, SubmitFull, Register
<1>2. Live' = Live
  BY DEF Live, SubmitFull, taskVars
<1>3. TypeOK'
  BY DEF IInv, TypeOK, SubmitFull, Register, Status, taskVars
<1>4. OnePlace' /\ CountCovers' /\ ConcurrencyBound' /\ IsFiniteSet(Live')
  BY <1>2 DEF IInv, OnePlace, CountCovers, ConcurrencyBound, SubmitFull, taskVars
<1>5. LiveJobsRegistered' /\ UnsubmittedIsNowhere'
  BY <1>1, <1>2 DEF IInv, TypeOK, LiveJobsRegistered, UnsubmittedIsNowhere,
                    SubmitFull, Register, taskVars
<1>6. StatusOfLive' /\ CancelRemembered'
  BY <1>1, <1>2 DEF IInv, TypeOK, StatusOfLive, CancelRemembered, Live,
                    SubmitFull, Register, taskVars
<1> QED BY <1>3, <1>4, <1>5, <1>6 DEF IInv

(* A cancelled job stays where it is.                                      *)
LEMMA CancelIInv ==
    ASSUME IInv, NEW j \in Jobs, Cancel(j)
    PROVE  IInv'
<1>1. Live' = Live
  BY DEF Live, Cancel, taskVars
<1>2. TypeOK'
  BY DEF IInv, TypeOK, Cancel, Status, taskVars
<1>3. OnePlace' /\ CountCovers' /\ ConcurrencyBound' /\ IsFiniteSet(Live')
  BY <1>1 DEF IInv, OnePlace, CountCovers, ConcurrencyBound, Cancel, taskVars
<1>4. LiveJobsRegistered' /\ UnsubmittedIsNowhere'
  BY <1>1 DEF IInv, TypeOK, LiveJobsRegistered, UnsubmittedIsNowhere, Cancel, taskVars
<1>5. StatusOfLive' /\ CancelRemembered'
  BY DEF IInv, TypeOK, StatusOfLive, CancelRemembered, Cancel, taskVars, Outcome
<1> QED BY <1>1, <1>2, <1>3, <1>4, <1>5 DEF IInv

(* The worker drops a cancelled job: one live job and one task fewer.      *)
LEMMA DiscardIInv ==
    ASSUME IInv, Discard
    PROVE  IInv'
<1> DEFINE h == Head(queue)
<1>1. /\ queue' \in Seq(Jobs) /\ h \in Jobs /\ h \in Range(queue)
      /\ Range(queue') = Range(queue) \ {h}
      /\ IsInjective(queue')
  BY TakeHead DEF IInv, TypeOK, OnePlace, Discard
<1>2. Live' = Live \ {h} /\ h \in Live
  BY <1>1 DEF IInv, OnePlace, Live, Discard, taskVars
<1> HIDE DEF h
<1>3. IsFiniteSet(Live') /\ Cardinality(Live') = Cardinality(Live) - 1
  BY <1>2, LiveFinite, FS_RemoveElement
<1>4. Cardinality(Live') \in Nat
  BY <1>3, FS_CardinalityType
<1>5. TypeOK' /\ CountCovers'
  BY <1>1, <1>3, <1>4, LiveFinite DEF IInv, TypeOK, CountCovers, Discard, taskVars
<1>6. OnePlace' /\ LiveJobsRegistered' /\ UnsubmittedIsNowhere'
  BY <1>1, <1>2 DEF IInv, OnePlace, LiveJobsRegistered, UnsubmittedIsNowhere,
                    Discard, taskVars
<1>7. StatusOfLive' /\ CancelRemembered' /\ ConcurrencyBound'
  BY <1>1 DEF IInv, StatusOfLive, CancelRemembered, ConcurrencyBound, Discard, taskVars
<1> QED BY <1>3, <1>5, <1>6, <1>7 DEF IInv

(* The worker hands a job to a task: it moves between two queues.          *)
LEMMA DispatchIInv ==
    ASSUME IInv, Dispatch
    PROVE  IInv'
<1> DEFINE h == Head(queue)
<1>1. /\ queue' \in Seq(Jobs) /\ h \in Jobs /\ h \in Range(queue)
      /\ Range(queue') = Range(queue) \ {h}
      /\ IsInjective(queue')
  BY TakeHead DEF IInv, TypeOK, OnePlace, Dispatch
<1>2. h \notin Range(waiters)
  BY <1>1 DEF IInv, OnePlace
<1>3. /\ waiters' \in Seq(Jobs)
      /\ Range(waiters') = Range(waiters) \cup {h}
      /\ IsInjective(waiters')
  BY <1>1, <1>2, AppendNew DEF IInv, TypeOK, OnePlace, Dispatch
<1>4. Live' = Live
  BY <1>1, <1>3 DEF Live, Dispatch
<1> HIDE DEF h
<1>5. TypeOK'
  BY <1>1, <1>3 DEF IInv, TypeOK, Dispatch
<1>6. OnePlace'
  BY <1>1, <1>3, <1>4 DEF IInv, OnePlace, Live, Dispatch
<1>7. /\ LiveJobsRegistered' /\ UnsubmittedIsNowhere' /\ CountCovers'
      /\ ConcurrencyBound' /\ IsFiniteSet(Live')
  BY <1>4 DEF IInv, LiveJobsRegistered, UnsubmittedIsNowhere, CountCovers,
              ConcurrencyBound, Dispatch
<1>8. StatusOfLive' /\ CancelRemembered'
  BY <1>1, <1>3 DEF IInv, StatusOfLive, CancelRemembered, Dispatch
<1> QED BY <1>5, <1>6, <1>7, <1>8 DEF IInv

(* What a task finds at the head of the semaphore's queue.                 *)
LEMMA AcquireHead ==
    ASSUME IInv, NEW j \in Jobs, Acquire(j)
    PROVE  /\ waiters' \in Seq(Jobs) /\ j \in Range(waiters)
           /\ Range(waiters') = Range(waiters) \ {j}
           /\ IsInjective(waiters')
           /\ j \in Live
           /\ j \notin Range(queue) \cup running \cup expiring
<1>1. /\ waiters' \in Seq(Jobs) /\ j \in Range(waiters)
      /\ Range(waiters') = Range(waiters) \ {j}
      /\ IsInjective(waiters')
  BY TakeHead DEF IInv, TypeOK, OnePlace, Acquire
<1> QED BY <1>1 DEF IInv, OnePlace, Live

(* A task that finds its job cancelled returns: one live job fewer, and    *)
(* the task count stays.                                                   *)
LEMMA SkipIInv ==
    ASSUME IInv, NEW j \in Jobs, Skip(j)
    PROVE  IInv'
<1>1. /\ waiters' \in Seq(Jobs) /\ j \in Range(waiters)
      /\ Range(waiters') = Range(waiters) \ {j}
      /\ IsInjective(waiters')
      /\ j \in Live
      /\ j \notin Range(queue) \cup running \cup expiring
  BY AcquireHead DEF Skip
<1>2. Live' = Live \ {j}
  BY <1>1 DEF Live, Skip
<1>3. IsFiniteSet(Live') /\ Cardinality(Live') = Cardinality(Live) - 1
  BY <1>1, <1>2, LiveFinite, FS_RemoveElement
<1>4. TypeOK' /\ CountCovers'
  BY <1>1, <1>3, LiveFinite DEF IInv, TypeOK, CountCovers, Skip
<1>5. OnePlace' /\ LiveJobsRegistered' /\ UnsubmittedIsNowhere'
  BY <1>1, <1>2 DEF IInv, OnePlace, LiveJobsRegistered, UnsubmittedIsNowhere, Skip
<1>6. StatusOfLive' /\ CancelRemembered' /\ ConcurrencyBound'
  BY <1>1 DEF IInv, StatusOfLive, CancelRemembered, ConcurrencyBound, Skip
<1> QED BY <1>3, <1>4, <1>5, <1>6 DEF IInv

(* A task enters the semaphore: it was not running, and a permit was free. *)
LEMMA BeginIInv ==
    ASSUME IInv, NEW j \in Jobs, Begin(j)
    PROVE  IInv'
<1>1. /\ waiters' \in Seq(Jobs) /\ j \in Range(waiters)
      /\ Range(waiters') = Range(waiters) \ {j}
      /\ IsInjective(waiters')
      /\ j \in Live
      /\ j \notin Range(queue) \cup running \cup expiring
  BY AcquireHead DEF Begin
<1>2. Live' = Live
  BY <1>1 DEF Live, Begin
<1>3. ConcurrencyBound'
  <2>1. Cardinality(running') = Cardinality(running) + 1
    BY <1>1, LiveFinite, FS_AddElement DEF Begin
  <2> QED BY <2>1, LiveFinite, QueueAssumption DEF ConcurrencyBound, Begin, Acquire
<1>4. TypeOK'
  BY <1>1 DEF IInv, TypeOK, Begin, Status
<1>5. OnePlace' /\ CountCovers' /\ IsFiniteSet(Live')
  BY <1>1, <1>2 DEF IInv, OnePlace, CountCovers, Begin
<1>6. LiveJobsRegistered' /\ UnsubmittedIsNowhere'
  BY <1>1, <1>2 DEF IInv, TypeOK, LiveJobsRegistered, UnsubmittedIsNowhere, Begin
<1>7. StatusOfLive' /\ CancelRemembered'
  BY <1>1 DEF IInv, TypeOK, StatusOfLive, CancelRemembered, Begin
<1> QED BY <1>3, <1>4, <1>5, <1>6, <1>7 DEF IInv

(* A run ends: its task turns into an expiry.                              *)
LEMMA FinishIInv ==
    ASSUME IInv, NEW j \in Jobs, NEW result \in Outcome, Finish(j, result)
    PROVE  IInv'
<1>1. j \in Live /\ j \notin Range(queue) \cup Range(waiters)
  BY DEF IInv, OnePlace, Live, Finish
<1>2. Live' = Live \ {j}
  BY <1>1 DEF Live, Finish
<1>3. /\ IsFiniteSet(Live') /\ Cardinality(Live') = Cardinality(Live) - 1
      /\ Cardinality(Live') \in Nat
  BY <1>1, <1>2, LiveFinite, FS_RemoveElement, FS_CardinalityType
<1>4. TypeOK' /\ CountCovers'
  BY <1>3, LiveFinite DEF IInv, TypeOK, CountCovers, Finish, Status
<1>5. ConcurrencyBound'
  <2>1. Cardinality(running') = Cardinality(running) - 1
    BY LiveFinite, FS_RemoveElement DEF Finish
  <2> QED BY <2>1, LiveFinite, QueueAssumption DEF IInv, ConcurrencyBound
<1>6. OnePlace'
  BY <1>1, <1>2 DEF IInv, OnePlace, Finish
<1>7. LiveJobsRegistered' /\ UnsubmittedIsNowhere'
  BY <1>1, <1>2 DEF IInv, TypeOK, LiveJobsRegistered, UnsubmittedIsNowhere,
                    Finish, Outcome
<1>8. StatusOfLive' /\ CancelRemembered'
  BY <1>1 DEF IInv, TypeOK, StatusOfLive, CancelRemembered, Finish, Outcome
<1> QED BY <1>3, <1>4, <1>5, <1>6, <1>7, <1>8 DEF IInv

(* An expired job is forgotten: it had run, so no test needs its id.       *)
LEMMA ExpireIInv ==
    ASSUME IInv, NEW j \in Jobs, Expire(j)
    PROVE  IInv'
<1>1. j \notin Live /\ status[j] \in Outcome
  BY DEF IInv, OnePlace, StatusOfLive, Expire
<1>2. Live' = Live
  BY DEF Live, Expire
<1>3. TypeOK' /\ OnePlace' /\ CountCovers' /\ ConcurrencyBound' /\ IsFiniteSet(Live')
  BY <1>2 DEF IInv, TypeOK, OnePlace, CountCovers, ConcurrencyBound, Expire
<1>4. LiveJobsRegistered' /\ UnsubmittedIsNowhere'
  BY <1>1, <1>2 DEF IInv, LiveJobsRegistered, UnsubmittedIsNowhere, Expire
<1>5. StatusOfLive' /\ CancelRemembered'
  BY <1>1 DEF IInv, StatusOfLive, CancelRemembered, Expire, Outcome
<1> QED BY <1>3, <1>4, <1>5 DEF IInv

(* Stopping the worker, and stuttering, preserve the invariant.            *)
LEMMA IdleIInv ==
    ASSUME IInv, Stop \/ UNCHANGED vars
    PROVE  IInv'
<1>1. /\ UNCHANGED <<queue, waiters, running, expiring, registry, cancelled,
                     status, unfinished>>
      /\ Live' = Live
  BY DEF Stop, vars, taskVars, Live
<1>2. TypeOK'
  BY <1>1 DEF IInv, TypeOK, Stop, vars
<1>3. OnePlace' /\ LiveJobsRegistered' /\ UnsubmittedIsNowhere' /\ StatusOfLive'
  BY <1>1 DEF IInv, OnePlace, LiveJobsRegistered, UnsubmittedIsNowhere, StatusOfLive
<1>4. CancelRemembered' /\ CountCovers' /\ ConcurrencyBound' /\ IsFiniteSet(Live')
  BY <1>1 DEF IInv, CancelRemembered, CountCovers, ConcurrencyBound
<1> QED BY <1>2, <1>3, <1>4 DEF IInv

(* IInv is an invariant: one lemma per action of the queue.                *)
THEOREM QueueInvariant == Spec => []IInv
<1>1. IInv /\ [Next]_vars => IInv'
  BY SubmitIInv, SubmitFullIInv, CancelIInv, DiscardIInv, DispatchIInv, SkipIInv,
     BeginIInv, FinishIInv, ExpireIInv, IdleIInv DEF Next
<1> QED BY <1>1, InitIInv, PTL DEF Spec

(* Every variable keeps its type; unfinished never goes below zero.        *)
THEOREM QueueTypeOK == Spec => []TypeOK
BY QueueInvariant, PTL DEF IInv

(* The semaphore bounds the running pipelines for every width and load.    *)
THEOREM QueueConcurrency == Spec => []ConcurrencyBound
BY QueueInvariant, PTL DEF IInv

(* No job is in two places, none has its registration expire early, and    *)
(* task_done is never called once too often.                               *)
THEOREM QueueAccounting == Spec => [](OnePlace /\ LiveJobsRegistered /\ CountCovers)
BY QueueInvariant, PTL DEF IInv

-----------------------------------------------------------------------------
(* A job cancelled before it began stays out of the pipeline for ever: the *)
(* only step that starts a job reads the cancelled set, which still holds  *)
(* it (CancelRemembered).                                                  *)
THEOREM QueueCancelledNeverBegins == Spec => CancelledNeverBegins
<1>1. ASSUME IInv, [Next]_vars, NEW j \in Jobs, status[j] = "cancelled", j \notin running
      PROVE  j \notin running'
  <2>1. j \in cancelled
    BY <1>1 DEF IInv, CancelRemembered
  <2> QED BY <1>1, <2>1 DEF Next, vars, taskVars, Submit, SubmitFull, Register, Cancel,
             Discard, Dispatch, Skip, Acquire, Begin, Finish, Expire, Stop
<1>2. IInv /\ [Next]_vars =>
        [\A j \in Jobs :
            status[j] = "cancelled" /\ j \notin running => j \notin running']_vars
  BY <1>1
<1> QED BY <1>2, QueueInvariant, PTL DEF Spec, CancelledNeverBegins

(* The backlog: the waiting tasks, then the queue.                         *)
LEMMA BacklogIndex ==
    TypeOK =>
        /\ Len(waiters) \in Nat /\ Len(queue) \in Nat
        /\ DOMAIN Backlog = 1..(Len(waiters) + Len(queue))
        /\ \A i \in 1..Len(waiters) : Backlog[i] = waiters[i]
        /\ \A i \in 1..Len(queue) : Backlog[Len(waiters) + i] = queue[i]
BY DEF TypeOK, Backlog

(* No step puts a job ahead of one that waits already.                     *)
LEMMA StepKeepsOrder ==
    ASSUME IInv, [Next]_vars, TypeOK',
           NEW j \in Jobs, NEW k \in Range(Backlog), Precedes(j, k)'
    PROVE  Precedes(j, k)
<1> DEFINE L == Len(waiters)
           Q == Len(queue)
<1>1. /\ L \in Nat /\ Q \in Nat /\ waiters \in Seq(Jobs) /\ queue \in Seq(Jobs)
      /\ DOMAIN Backlog = 1..(L + Q)
      /\ \A i \in 1..L : Backlog[i] = waiters[i]
      /\ \A i \in 1..Q : Backlog[L + i] = queue[i]
  BY BacklogIndex DEF IInv, TypeOK
<1>2. PICK a \in DOMAIN Backlog', b \in DOMAIN Backlog' :
        a < b /\ Backlog'[a] = j /\ Backlog'[b] = k
  BY DEF Precedes
<1>3. CASE UNCHANGED <<waiters, queue>> \/ Dispatch
  <2>1. Backlog' = Backlog
    <3>1. CASE UNCHANGED <<waiters, queue>>
      BY <3>1 DEF Backlog
    <3>2. CASE Dispatch
      BY <1>1, <3>2 DEF Backlog, Dispatch
    <3> QED BY <1>3, <3>1, <3>2
  <2> QED BY <1>2, <2>1 DEF Precedes
<1>4. ASSUME NEW i \in Jobs, Submit(i)
      PROVE  Precedes(j, k)
  <2>1. i \notin Range(Backlog)
    <3>1. i \notin Range(queue) \cup Range(waiters)
      BY <1>4 DEF IInv, UnsubmittedIsNowhere, Submit, Register, Live
    <3> QED BY <1>1, <3>1 DEF Range, Backlog
  <2>2. Backlog' = Append(Backlog, i) /\ Backlog \in Seq(Jobs)
    BY <1>1, <1>4 DEF Backlog, Submit, taskVars
  <2> HIDE DEF L, Q
  <2>3. a \in DOMAIN Backlog /\ b \in DOMAIN Backlog
        /\ Backlog'[a] = Backlog[a] /\ Backlog'[b] = Backlog[b]
    BY <1>1, <1>2, <2>1, <2>2 DEF Range
  <2> QED BY <1>2, <2>3 DEF Precedes
<1>5. CASE Discard
  <2>1. waiters' = waiters /\ queue' = Tail(queue) /\ queue # <<>>
    BY <1>5 DEF Discard, taskVars
  <2>2. Q \in Nat \ {0} /\ Len(queue') = Q - 1
        /\ \A i \in 1..(Q - 1) : queue'[i] = queue[i + 1]
    BY <1>1, <2>1
  <2>3. /\ DOMAIN Backlog' = 1..(L + Q - 1)
        /\ \A i \in 1..L : Backlog'[i] = waiters[i]
        /\ \A i \in 1..(Q - 1) : Backlog'[L + i] = queue[i + 1]
    <3>1. (TypeOK => /\ DOMAIN Backlog = 1..(Len(waiters) + Len(queue))
                     /\ \A i \in 1..Len(waiters) : Backlog[i] = waiters[i]
                     /\ \A i \in 1..Len(queue) : Backlog[Len(waiters) + i] = queue[i])'
      BY BacklogIndex, PTL
    <3> QED BY <1>1, <2>1, <2>2, <3>1
  <2> HIDE DEF L, Q
  <2> DEFINE place(i) == IF i <= L THEN i ELSE i + 1
  <2>4. ASSUME NEW i \in DOMAIN Backlog'
        PROVE  place(i) \in DOMAIN Backlog /\ Backlog'[i] = Backlog[place(i)]
    <3>1. CASE i <= L
      BY <1>1, <2>2, <2>3, <3>1
    <3>2. CASE ~(i <= L)
      <4>1. i - L \in 1..(Q - 1) /\ i = L + (i - L)
        BY <1>1, <2>2, <2>3, <3>2
      <4>2. Backlog'[i] = queue[(i - L) + 1]
        BY <2>3, <4>1
      <4>3. (i - L) + 1 \in 1..Q /\ i + 1 = L + ((i - L) + 1)
        BY <1>1, <2>2, <2>3, <3>2
      <4>4. Backlog[i + 1] = queue[(i - L) + 1]
        BY <1>1, <4>3
      <4> QED BY <1>1, <2>2, <2>3, <3>2, <4>2, <4>4
    <3> QED BY <3>1, <3>2
  <2>5. place(a) < place(b)
    BY <1>1, <1>2, <2>2, <2>3
  <2>6. /\ place(a) \in DOMAIN Backlog /\ place(b) \in DOMAIN Backlog
        /\ Backlog[place(a)] = j /\ Backlog[place(b)] = k
    BY <1>2, <2>4
  <2> HIDE DEF place
  <2> QED BY <2>5, <2>6 DEF Precedes
<1>6. ASSUME NEW i \in Jobs, Skip(i) \/ Begin(i)
      PROVE  Precedes(j, k)
  <2>1. waiters' = Tail(waiters) /\ queue' = queue /\ waiters # <<>>
    BY <1>6 DEF Skip, Begin, Acquire
  <2>2. Backlog' = Tail(Backlog) /\ Backlog \in Seq(Jobs) /\ Backlog # <<>>
    BY <1>1, <2>1 DEF Backlog
  <2> HIDE DEF L, Q
  <2>3. /\ a + 1 \in DOMAIN Backlog /\ b + 1 \in DOMAIN Backlog /\ a + 1 < b + 1
        /\ Backlog[a + 1] = j /\ Backlog[b + 1] = k
    BY <1>2, <2>2
  <2> QED BY <2>3 DEF Precedes
<1> QED
  <2>1. ASSUME NEW i \in Jobs,
               SubmitFull(i) \/ Cancel(i) \/ (\E result \in Outcome : Finish(i, result))
                   \/ Expire(i)
        PROVE  UNCHANGED <<waiters, queue>>
    BY <2>1 DEF SubmitFull, Cancel, Finish, Expire, taskVars
  <2>2. Stop \/ UNCHANGED vars => UNCHANGED <<waiters, queue>>
    BY DEF Stop, vars, taskVars
  <2> QED BY <1>3, <1>4, <1>5, <1>6, <2>1, <2>2 DEF Next

(* Jobs begin first come, first served: the job that begins is the head of *)
(* the semaphore's queue, hence of the whole backlog, and no step lets a   *)
(* job into the backlog ahead of another.                                  *)
THEOREM QueueNoOvertaking == Spec => NoOvertaking
<1>1. ASSUME IInv, [Next]_vars, NEW j \in running' \ running
      PROVE  Backlog # <<>> /\ Head(Backlog) = j
  <2>1. \E k \in Jobs : Begin(k)
    BY <1>1 DEF Next, vars, taskVars, Submit, SubmitFull, Register, Cancel,
             Discard, Dispatch, Skip, Acquire, Begin, Finish, Expire, Stop
  <2>2. waiters # <<>> /\ j = Head(waiters)
    BY <1>1, <2>1 DEF Begin, Acquire
  <2> QED BY <1>1, <2>2 DEF Backlog, IInv, TypeOK
<1>2. IInv /\ TypeOK' /\ [Next]_vars =>
        [/\ \A j \in running' \ running : Backlog # <<>> /\ Head(Backlog) = j
         /\ \A j \in Jobs, k \in Range(Backlog) : Precedes(j, k)' => Precedes(j, k)]_vars
  BY <1>1, StepKeepsOrder
<1> QED BY <1>2, QueueInvariant, QueueTypeOK, PTL DEF Spec, NoOvertaking

-----------------------------------------------------------------------------
(* The queue implements JobLifecycle: the initial states correspond, and   *)
(* each action is the abstract move of its job, or a stutter.              *)
LEMMA PhaseOfJob ==
    ASSUME IInv, NEW j \in Jobs
    PROVE  /\ (j \in Range(queue) \cup Range(waiters)) => phase[j] = "waiting"
           /\ j \in running => phase[j] = "active"
           /\ status[j] = "none" => phase[j] = "new"
BY DEF IInv, phase, UnsubmittedIsNowhere, OnePlace, Live

(* The abstract active jobs are the running pipelines.                     *)
LEMMA ActiveIsRunning ==
    ASSUME IInv
    PROVE  Lifecycle!Active = running
<1>1. ASSUME NEW j \in Jobs, phase[j] = "active"
      PROVE  j \in running
  BY <1>1 DEF phase, Outcome
<1> QED BY <1>1, PhaseOfJob DEF Lifecycle!Active, IInv, TypeOK

(* Waiting jobs are those in the queue or at the semaphore.                *)
Waiting == Range(queue) \cup Range(waiters)

(* A job whose place and status stay keeps its phase.                      *)
LEMMA PhaseStays ==
    ASSUME NEW k \in Jobs, status'[k] = status[k],
           (k \in Waiting)' <=> k \in Waiting, k \in running' <=> k \in running
    PROVE  phase'[k] = phase[k]
BY DEF phase, Waiting

(* A step that changes place or status of one job only moves that job.     *)
LEMMA PhaseMoves ==
    ASSUME NEW j \in Jobs, NEW from, NEW to, phase[j] = from, phase'[j] = to,
           \A k \in Jobs \ {j} : phase'[k] = phase[k]
    PROVE  Lifecycle!Move(j, from, to)
<1>1. phase = [k \in Jobs |-> phase[k]] /\ phase' = [k \in Jobs |-> phase'[k]]
  BY DEF phase
<1>2. phase' = [phase EXCEPT ![j] = to]
  BY <1>1
<1> QED BY <1>2 DEF Lifecycle!Move

(* A step that keeps the phase of every job is an abstract stutter.        *)
LEMMA PhaseSame ==
    ASSUME \A k \in Jobs : phase'[k] = phase[k]
    PROVE  phase' = phase
<1>1. phase = [k \in Jobs |-> phase[k]] /\ phase' = [k \in Jobs |-> phase'[k]]
  BY DEF phase
<1> QED BY <1>1

(* A submission accepts the job.                                           *)
LEMMA SubmitAccepts ==
    ASSUME IInv, NEW j \in Jobs, Submit(j)
    PROVE  Lifecycle!Accept(j)
<1>1. Range(queue') = Range(queue) \cup {j}
  BY AppendNew DEF IInv, TypeOK, OnePlace, UnsubmittedIsNowhere, Live, Submit, Register
<1>2. phase[j] = "new" /\ phase'[j] = "waiting"
  BY <1>1, PhaseOfJob DEF phase, Submit, Register, IInv, TypeOK
<1>3. \A k \in Jobs \ {j} : phase'[k] = phase[k]
  BY <1>1, PhaseStays DEF IInv, TypeOK, Submit, Register, taskVars, Waiting
<1> QED BY <1>2, <1>3, PhaseMoves DEF Lifecycle!Accept

(* A submission to a full queue refuses it: the job never runs.            *)
LEMMA SubmitFullRefuses ==
    ASSUME IInv, NEW j \in Jobs, SubmitFull(j)
    PROVE  Lifecycle!Refuse(j)
<1>1. phase[j] = "new" /\ phase'[j] = "dropped"
  BY PhaseOfJob DEF phase, SubmitFull, Register, taskVars, IInv, TypeOK,
                    UnsubmittedIsNowhere, Live, Outcome
<1>2. \A k \in Jobs \ {j} : phase'[k] = phase[k]
  BY PhaseStays DEF IInv, TypeOK, SubmitFull, Register, taskVars, Waiting
<1> QED BY <1>1, <1>2, PhaseMoves DEF Lifecycle!Refuse

(* A cancellation alone moves no job.                                      *)
LEMMA CancelStutters ==
    ASSUME IInv, NEW j \in Jobs, Cancel(j)
    PROVE  phase' = phase
<1>1. phase'[j] = phase[j]
  BY DEF phase, Cancel, taskVars, IInv, TypeOK, Outcome
<1>2. \A k \in Jobs \ {j} : phase'[k] = phase[k]
  BY PhaseStays DEF IInv, TypeOK, Cancel, taskVars, Waiting
<1> QED BY <1>1, <1>2, PhaseSame

(* The worker that discards a cancelled job drops it.                      *)
LEMMA DiscardDrops ==
    ASSUME IInv, Discard
    PROVE  \E j \in Jobs : Lifecycle!Drop(j)
<1> DEFINE h == Head(queue)
<1>1. h \in Jobs /\ h \in Range(queue) /\ Range(queue') = Range(queue) \ {h}
  BY TakeHead DEF IInv, TypeOK, OnePlace, Discard
<1>2. h \in cancelled /\ UNCHANGED <<waiters, running, status>>
  BY DEF Discard, taskVars
<1> HIDE DEF h
<1>3. phase[h] = "waiting" /\ phase'[h] = "dropped"
  BY <1>1, <1>2, PhaseOfJob DEF phase, IInv, OnePlace, StatusOfLive, Outcome
<1>4. \A k \in Jobs \ {h} : phase'[k] = phase[k]
  BY <1>1, <1>2, PhaseStays DEF Waiting
<1> QED BY <1>1, <1>3, <1>4, PhaseMoves DEF Lifecycle!Drop

(* From the queue to the semaphore a job goes on waiting.                  *)
LEMMA DispatchStutters ==
    ASSUME IInv, Dispatch
    PROVE  phase' = phase
<1> DEFINE h == Head(queue)
<1>1. h \in Jobs /\ h \in Range(queue) /\ Range(queue') = Range(queue) \ {h}
  BY TakeHead DEF IInv, TypeOK, OnePlace, Dispatch
<1>2. Range(waiters') = Range(waiters) \cup {h}
  BY <1>1, AppendNew DEF IInv, TypeOK, OnePlace, Dispatch
<1>3. \A k \in Jobs : phase'[k] = phase[k]
  BY <1>1, <1>2, PhaseStays DEF Dispatch, Waiting
<1> QED BY <1>3, PhaseSame

(* A task that skips its cancelled job drops it.                           *)
LEMMA SkipDrops ==
    ASSUME IInv, NEW j \in Jobs, Skip(j)
    PROVE  Lifecycle!Drop(j)
<1>1. /\ j \in Range(waiters) /\ Range(waiters') = Range(waiters) \ {j}
      /\ j \notin Range(queue) \cup running
  BY AcquireHead DEF Skip
<1>2. phase[j] = "waiting" /\ phase'[j] = "dropped"
  BY <1>1, PhaseOfJob DEF phase, Skip, IInv, StatusOfLive, Outcome
<1>3. \A k \in Jobs \ {j} : phase'[k] = phase[k]
  BY <1>1, PhaseStays DEF Skip, Waiting
<1> QED BY <1>2, <1>3, PhaseMoves DEF Lifecycle!Drop

(* A task that enters the semaphore begins its job, as one of at most      *)
(* MaxConcurrent.                                                          *)
LEMMA BeginBegins ==
    ASSUME IInv, NEW j \in Jobs, Begin(j)
    PROVE  Lifecycle!Begin(j)
<1>1. /\ j \in Range(waiters) /\ Range(waiters') = Range(waiters) \ {j}
      /\ j \notin Range(queue) \cup running
  BY AcquireHead DEF Begin
<1>2. phase[j] = "waiting" /\ phase'[j] = "active"
  BY <1>1, PhaseOfJob DEF phase, Begin, IInv, TypeOK
<1>3. \A k \in Jobs \ {j} : phase'[k] = phase[k]
  BY <1>1, PhaseStays DEF IInv, TypeOK, Begin, Waiting
<1>4. Lifecycle!Cardinality(Lifecycle!Active) < MaxConcurrent
  <2>1. Cardinality(Lifecycle!Active) < MaxConcurrent
    BY ActiveIsRunning DEF Begin, Acquire
  <2> QED BY <2>1 DEF Lifecycle!Cardinality, Cardinality
<1> QED BY <1>2, <1>3, <1>4, PhaseMoves DEF Lifecycle!Begin

(* The end of _run_job ends the job, with its outcome.                     *)
LEMMA FinishEnds ==
    ASSUME IInv, NEW j \in Jobs, NEW result \in Outcome, Finish(j, result)
    PROVE  Lifecycle!End(j)
<1>1. j \notin Waiting
  BY DEF IInv, OnePlace, Waiting, Finish
<1>2. phase[j] = "active" /\ phase'[j] = result
  BY <1>1, PhaseOfJob DEF phase, Finish, IInv, TypeOK, Outcome, Waiting
<1>3. \A k \in Jobs \ {j} : phase'[k] = phase[k]
  BY PhaseStays DEF IInv, TypeOK, Finish, Waiting
<1> QED BY <1>2, <1>3, PhaseMoves DEF Lifecycle!End, Outcome

(* Expiry, stop and stuttering move no job.                                *)
LEMMA OtherStepsStutter ==
    ASSUME (\E j \in Jobs : Expire(j)) \/ Stop \/ UNCHANGED vars
    PROVE  phase' = phase
<1>1. UNCHANGED <<queue, waiters, running, status>>
  BY DEF Expire, Stop, vars, taskVars
<1>2. \A k \in Jobs : phase'[k] = phase[k]
  BY <1>1, PhaseStays DEF Waiting
<1> QED BY <1>2, PhaseSame

(* Every behaviour of the queue is one of the abstract life of its jobs:   *)
(* accepted once, run at most once among MaxConcurrent, dropped only       *)
(* before it ran.                                                          *)
THEOREM QueueImplementsLifecycle == Spec => Refinement
<1>1. Init => Lifecycle!Init
  BY DEF Init, Lifecycle!Init, phase
<1>2. IInv /\ [Next]_vars => [Lifecycle!Next]_phase
  BY SubmitAccepts, SubmitFullRefuses, CancelStutters, DiscardDrops, DispatchStutters,
     SkipDrops, BeginBegins, FinishEnds, OtherStepsStutter DEF Next, Lifecycle!Next
<1> QED BY <1>1, <1>2, QueueInvariant, PTL DEF Spec, Refinement, Lifecycle!Spec
-----------------------------------------------------------------------------
(* The progress of an upload (ProgressStream), whose job this queue runs.  *)

(* Events that carry on the stages of the job, up to one end.              *)
Carry(es) ==
    /\ es \in Seq(Parsing..Failed) /\ Len(es) \in 1..3 /\ stage < es[1]
    /\ \A i, j \in 1..Len(es) : i <= j => es[i] <= es[j]
    /\ \A i \in 1..Len(es) : es[i] \in Ends => es[i] = es[Len(es)]
    /\ es[Len(es)] \notin Ends => Len(es) = 1

(* One event of a later stage carries on.                                  *)
LEMMA CarryOne ==
    ASSUME NEW e \in Parsing..Failed, stage < e
    PROVE  Carry(<<e>>)
BY DEF Carry

(* The two events of the end, with the last stage before them or not.      *)
LEMMA CarryDone ==
    ASSUME stage < Done, stage \in Nat,
           NEW es \in {<<Done, Done>>, <<Indexing, Done, Done>>},
           stage < Indexing \/ es = <<Done, Done>>
    PROVE  Carry(es)
<1> USE DEF Queued, Parsing, Chunking, Embedding, Indexing,
            Done, Failed, Ends
<1>1. CASE es = <<Done, Done>>
  <2>1. Len(es) = 2 /\ es[1] = 5 /\ es[2] = 5 /\ es \in Seq(Parsing..Failed)
    BY <1>1
  <2>2. \A i \in 1..Len(es) : es[i] = 5
    BY <2>1
  <2> QED BY <2>1, <2>2 DEF Carry
<1>2. CASE es = <<Indexing, Done, Done>>
  <2>4. stage < 4
    BY <1>2
  <2>1. Len(es) = 3 /\ es[1] = 4 /\ es[2] = 5 /\ es[3] = 5 /\ es \in Seq(Parsing..Failed)
    BY <1>2
  <2>2. \A i \in 1..Len(es) : es[i] = IF i = 1 THEN 4 ELSE 5
    BY <2>1
  <2>3. \A i, j \in 1..Len(es) : i <= j => es[i] <= es[j]
    BY <2>1, <2>2
  <2> QED BY <2>1, <2>2, <2>3, <2>4 DEF Carry
<1> QED BY <1>1, <1>2

(* A step of the job puts events that carry on those that wait.            *)
LEMMA EmitEvents ==
    ASSUME StreamIInv, NEW es, Carry(es), Emit(es), job \in {"queued", "processing", "extract"}
    PROVE  /\ EventsInv'
           /\ stage' = es[Len(es)] /\ stage' \in Queued..Failed /\ stage <= stage'
           /\ events' \in Seq(Parsing..Failed)
           /\ fresh' \in 0..3
           /\ \A s \in Streams : at[s] = "waiting" =>
                  shown[s] <= stage' /\ \A i \in 1..Len(events') : shown[s] <= events'[i]
<1> DEFINE n == Len(events)  m == Len(es)
<1>1. /\ es \in Seq(Parsing..Failed) /\ stage < es[1]
      /\ stage' = es[m] /\ events' = events \o es /\ fresh' = m
      /\ m \in 1..3 /\ n \in Nat /\ events \in Seq(Parsing..Failed) /\ stage \in 0..6
      /\ shown \in [Streams -> 0..6]
  BY DEF Carry, Emit, StreamIInv, StreamTypeOK, Queued, Failed
<1>2. /\ events' \in Seq(Parsing..Failed) /\ Len(events') = n + m
      /\ \A i \in 1..(n + m) : events'[i] = IF i <= n THEN events[i] ELSE es[i - n]
  BY <1>1
<1>3. /\ \A i \in 1..n : events[i] \in 1..6 /\ events[i] <= stage
      /\ \A i \in 1..m : es[i] \in 1..6 /\ stage < es[i] /\ es[i] <= es[m]
  <2>1. \A i \in 1..n : events[i] \in 1..6 /\ events[i] <= stage
    BY <1>1, ElementOfSeq DEF StreamIInv, EventsInv, Parsing, Failed
  <2>2. \A i \in 1..m : es[i] \in 1..6
    BY <1>1, ElementOfSeq DEF Parsing, Failed
  <2>3. 1 \in 1..m /\ m \in 1..m
    BY <1>1
  <2>4. \A i \in 1..m : es[1] <= es[i] /\ es[i] <= es[m]
    BY <2>3 DEF Carry
  <2>5. stage \in Int /\ es[1] \in Int
    BY <1>1, <2>2, <2>3
  <2>6. ASSUME NEW i \in 1..m PROVE stage < es[i]
    <3>1. es[1] <= es[i] /\ es[i] \in Int
      BY <2>2, <2>4
    <3> QED BY <1>1, <2>5, <3>1
  <2> QED BY <2>1, <2>2, <2>4, <2>6
<1>4. stage \notin Ends
  BY DEF StreamIInv, JobInv, Ends, Done, Failed, Queued,
         Parsing, Chunking, Embedding, Indexing
<1>5. \A i \in 1..n : events[i] \notin Ends
  BY <1>4 DEF StreamIInv, EventsInv
<1>11. n \in Nat /\ m \in Nat /\ stage \in Int /\ m >= 1
  BY <1>1
<1> HIDE DEF n, m
<1>6. \A i, j \in 1..(n + m) : i <= j => events'[i] <= events'[j]
  <2> SUFFICES ASSUME NEW i \in 1..(n + m), NEW j \in 1..(n + m), i <= j
               PROVE  events'[i] <= events'[j]
    OBVIOUS
  <2>1. CASE j <= n
    BY <1>1, <1>2, <2>1 DEF StreamIInv, EventsInv, n
  <2>2. CASE i <= n /\ j > n
    <3>1. events'[i] <= stage /\ events'[i] \in 1..6
      BY <1>1, <1>2, <1>3, <2>2
    <3>2. j - n \in 1..m /\ events'[j] = es[j - n]
      BY <1>1, <1>2, <2>2
    <3>3. stage < es[j - n] /\ es[j - n] \in 1..6
      BY <1>3, <3>2
    <3> QED BY <1>11, <3>1, <3>2, <3>3
  <2>3. CASE i > n
    <3>1. i - n \in 1..m /\ j - n \in 1..m /\ i - n <= j - n
      BY <1>1, <2>3
    <3>2. es[i - n] <= es[j - n]
      BY <3>1 DEF m, Carry
    <3> QED BY <1>1, <1>2, <2>3, <3>2
  <2> QED BY <1>11, <2>1, <2>2, <2>3
<1>7. \A i \in 1..(n + m) :
          /\ events'[i] <= stage'
          /\ events'[i] \in Ends \/ (i > (n + m) - fresh' /\ stage' \notin Ends) => events'[i] = stage'
  <2> SUFFICES ASSUME NEW i \in 1..(n + m)
               PROVE  /\ events'[i] <= stage'
                      /\ events'[i] \in Ends \/ (i > (n + m) - fresh' /\ stage' \notin Ends) => events'[i] = stage'
    OBVIOUS
  <2>1. CASE i <= n
    <3>1. events'[i] = events[i] /\ events[i] <= stage /\ events[i] \notin Ends /\ events[i] \in 1..6
      BY <1>1, <1>2, <1>3, <1>5, <2>1
    <3>2. ~(i > (n + m) - fresh')
      BY <1>1, <2>1
    <3>3. stage < es[m] /\ es[m] \in 1..6 /\ stage \in 0..6 /\ stage' = es[m]
      BY <1>1, <1>3
    <3>4. events'[i] <= stage'
      BY <3>1, <3>3
    <3> QED BY <3>1, <3>2, <3>4
  <2>2. CASE i > n
    <3>1. i - n \in 1..m /\ events'[i] = es[i - n]
      BY <1>1, <1>2, <2>2
    <3>2. es[i - n] <= es[m] /\ (es[i - n] \in Ends => es[i - n] = es[m])
      BY <1>3, <3>1 DEF m, Carry
    <3>3. es[m] \notin Ends => i - n = m
      BY <1>1, <3>1 DEF m, Carry
    <3>4. stage' = es[m]
      BY <1>1
    <3> QED BY <3>1, <3>2, <3>3, <3>4
  <2> QED BY <1>11, <2>1, <2>2
<1>8. EventsInv'
  BY <1>2, <1>6, <1>7 DEF EventsInv
<1>9. /\ stage' = es[Len(es)] /\ stage' \in Queued..Failed /\ stage <= stage' /\ fresh' \in 0..3
  BY <1>1, <1>3 DEF Queued, Failed, m
<1>10. ASSUME NEW s \in Streams, at[s] = "waiting"
       PROVE  shown[s] <= stage' /\ \A i \in 1..Len(events') : shown[s] <= events'[i]
  <2>1. shown[s] <= stage /\ shown[s] \in 0..6 /\ \A i \in 1..n : shown[s] <= events[i]
    BY <1>1, <1>10 DEF StreamIInv, StreamInv, n
  <2>2. \A i \in 1..m : shown[s] <= es[i]
    BY <1>3, <1>11, <2>1
  <2>3. ASSUME NEW i \in 1..(n + m) PROVE shown[s] <= events'[i]
    <3>1. CASE i <= n
      BY <1>1, <1>2, <2>1, <3>1
    <3>2. CASE i > n
      <4>1. i - n \in 1..m
        BY <1>11, <3>2
      <4>2. events'[i] = es[i - n]
        BY <1>2, <1>11, <3>2
      <4> QED BY <2>2, <4>1, <4>2
    <3> QED BY <1>11, <3>1, <3>2
  <2> QED BY <1>1, <1>2, <1>9, <2>1, <2>2, <2>3
<1> QED BY <1>2, <1>8, <1>9, <1>10

(* A step of the job: no client has been told an end before.               *)
LEMMA JobStep ==
    ASSUME StreamIInv, NEW es, Carry(es), Emit(es), job \in {"queued", "processing", "extract"},
           stage' = es[Len(es)] => JobInv',
           job' \in {"processing", "extract", "done", "error"},
           row' \in {"absent", "processing", "done", "error"},
           outcome' \in {"none", "done", "error"}
    PROVE  StreamIInv'
<1>1. /\ EventsInv' /\ stage' = es[Len(es)] /\ stage' \in Queued..Failed
      /\ events' \in Seq(Parsing..Failed) /\ fresh' \in 0..3
      /\ \A s \in Streams : at[s] = "waiting" =>
             shown[s] <= stage' /\ \A i \in 1..Len(events') : shown[s] <= events'[i]
  BY EmitEvents
<1>2. UNCHANGED <<known, at, shown, crashes>>
  BY DEF Emit, streamVars
<1>3. StreamTypeOK'
  BY <1>1, <1>2 DEF StreamIInv, StreamTypeOK
<1>4. \A s \in Streams : at[s] # "told"
  BY DEF StreamIInv, StreamInv
<1>5. \A s \in Streams : StreamInv(s)'
  BY <1>1, <1>2, <1>4 DEF StreamIInv, StreamInv
<1> QED BY <1>1, <1>2, <1>3, <1>4, <1>5 DEF StreamIInv, OutcomeTold

(* Three events, put one and two at a time.                                *)
LEMMA OneAndTwo ==
    ASSUME NEW x \in Nat, NEW y \in Nat, NEW z \in Nat
    PROVE  <<x>> \o <<y, z>> = <<x, y, z>>
<1> DEFINE a == <<x>>  b == <<y, z>>  c == <<x, y, z>>
<1>1. a \in Seq(Nat) /\ Len(a) = 1 /\ a[1] = x
  OBVIOUS
<1>2. b \in Seq(Nat) /\ Len(b) = 2 /\ b[1] = y /\ b[2] = z
  OBVIOUS
<1>3. c \in Seq(Nat) /\ Len(c) = 3 /\ c[1] = x /\ c[2] = y /\ c[3] = z
  OBVIOUS
<1> HIDE DEF a, b, c
<1>8. /\ a \o b \in Seq(Nat) /\ Len(a \o b) = Len(a) + Len(b)
      /\ \A i \in 1..(Len(a) + Len(b)) : (a \o b)[i] = IF i <= Len(a) THEN a[i] ELSE b[i - Len(a)]
  BY <1>1, <1>2, ConcatProperties, Zenon
<1> DEFINE d == a \o b
<1>4. d \in Seq(Nat) /\ Len(d) = 3
  BY <1>1, <1>2, <1>8
<1>5. d[1] = x /\ d[2] = y /\ d[3] = z
  <2>1. 1 \in 1..3 /\ 2 \in 1..3 /\ 3 \in 1..3 /\ Len(a) + Len(b) = 3
    BY <1>1, <1>2
  <2>2. d[1] = a[1] /\ d[2] = b[1] /\ d[3] = b[2]
    BY <1>1, <1>2, <1>8, <2>1
  <2> QED BY <1>1, <1>2, <2>2
<1> HIDE DEF d
<1>6. \A i \in 1..3 : d[i] = c[i]
  BY <1>3, <1>5
<1>7. d = c
  BY <1>3, <1>4, <1>6, SeqEqual, Zenon
<1> QED BY <1>7 DEF a, b, c, d

(* The actions of the job.                                                 *)
LEMMA StreamWorkIInv ==
    ASSUME StreamIInv, Work
    PROVE  StreamIInv'
<1> USE DEF Queued, Parsing, Chunking, Embedding, Indexing,
            Done, Failed
<1>1. CASE BeginJob
  <2>1. Carry(<<Parsing>>)
    BY <1>1, CarryOne DEF BeginJob, StreamIInv, JobInv
  <2>2. stage' = Parsing => JobInv'
    BY <1>1 DEF BeginJob, Emit, StreamIInv, StreamTypeOK, JobInv
  <2>3. row' \in {"absent", "processing", "done", "error"} /\ outcome' \in {"none", "done", "error"}
    BY <1>1 DEF BeginJob, StreamIInv, StreamTypeOK
  <2> QED BY <1>1, <2>1, <2>2, <2>3, JobStep DEF BeginJob
<1>2. CASE Duplicate
  <2>1. <<>> \o <<Done, Done>> = <<Done, Done>>
    OBVIOUS
  <2>2. Carry(<<Done, Done>>) /\ Emit(<<Done, Done>>)
    BY <1>2, <2>1, CarryDone DEF Duplicate, Returned
  <2>3. stage' = Done => JobInv'
    BY <1>2, <2>2 DEF Duplicate, Returned, Emit, StreamIInv, StreamTypeOK,
                      JobInv
  <2>4. /\ row' \in {"absent", "processing", "done", "error"} /\ outcome' = "done" /\ job' = "done"
        /\ job = "processing" /\ stage = Parsing
    BY <1>2 DEF Duplicate, Returned, StreamIInv, StreamTypeOK
  <2> QED BY <2>2, <2>3, <2>4, JobStep
<1>3. CASE Parsed
  <2>1. Carry(<<Chunking>>)
    BY <1>3, CarryOne DEF Parsed, StreamIInv, JobInv
  <2>2. stage' = Chunking => JobInv'
    BY <1>3 DEF Parsed, Emit, StreamIInv, StreamTypeOK, JobInv
  <2>3. row' = "processing" /\ outcome' \in {"none", "done", "error"}
    BY <1>3 DEF Parsed, StreamIInv, StreamTypeOK
  <2> QED BY <1>3, <2>1, <2>2, <2>3, JobStep DEF Parsed
<1>4. CASE Chunked
  <2>1. Carry(<<Embedding>>)
    BY <1>4, CarryOne DEF Chunked, StreamIInv, JobInv
  <2>2. stage' = Embedding => JobInv'
    BY <1>4 DEF Chunked, Emit, StreamIInv, StreamTypeOK, JobInv
  <2>3. row' \in {"absent", "processing", "done", "error"} /\ outcome' \in {"none", "done", "error"}
    BY <1>4 DEF Chunked, StreamIInv, StreamTypeOK
  <2> QED BY <1>4, <2>1, <2>2, <2>3, JobStep DEF Chunked
<1>5. CASE Indexed
  <2>1. Carry(<<Indexing>>)
    BY <1>5, CarryOne DEF Indexed, StreamIInv, JobInv
  <2>2. stage' = Indexing => JobInv'
    BY <1>5 DEF Indexed, Emit, StreamIInv, StreamTypeOK, JobInv
  <2>3. row' = "done" /\ outcome' \in {"none", "done", "error"}
    BY <1>5 DEF Indexed, StreamIInv, StreamTypeOK
  <2> QED BY <1>5, <2>1, <2>2, <2>3, JobStep DEF Indexed
<1>6. CASE IndexedPlain
  <2>1. <<Indexing>> \o <<Done, Done>> = <<Indexing, Done, Done>>
    BY OneAndTwo
  <2>2. Carry(<<Indexing, Done, Done>>) /\ Emit(<<Indexing, Done, Done>>)
    <3>1. Emit(<<Indexing>> \o <<Done, Done>>) /\ stage = Embedding
      BY <1>6 DEF IndexedPlain, Returned
    <3>2. Emit(<<Indexing, Done, Done>>)
      BY <2>1, <3>1
    <3> QED BY <3>1, <3>2, CarryDone
  <2>3. stage' = Done => JobInv'
    BY <1>6, <2>2 DEF IndexedPlain, Returned, Emit, StreamIInv,
                      StreamTypeOK, JobInv
  <2>4. row' = "done" /\ outcome' = "done" /\ job' = "done" /\ job = "processing" /\ stage = Embedding
    BY <1>6 DEF IndexedPlain, Returned
  <2> QED BY <2>2, <2>3, <2>4, JobStep
<1>7. CASE Extracted
  <2>1. <<>> \o <<Done, Done>> = <<Done, Done>>
    OBVIOUS
  <2>2. Carry(<<Done, Done>>) /\ Emit(<<Done, Done>>)
    BY <1>7, <2>1, CarryDone DEF Extracted, Returned, StreamIInv, JobInv
  <2>3. stage' = Done => JobInv'
    BY <1>7, <2>2 DEF Extracted, Returned, Emit, StreamIInv, StreamTypeOK,
                      JobInv
  <2>4. /\ row' \in {"absent", "processing", "done", "error"} /\ outcome' = "done" /\ job' = "done"
        /\ job = "extract" /\ stage = Indexing
    BY <1>7 DEF Extracted, Returned, StreamIInv, StreamTypeOK, JobInv
  <2> QED BY <2>2, <2>3, <2>4, JobStep
<1>8. CASE Raised
  <2>1. Carry(<<Failed>>)
    BY <1>8, CarryOne DEF Raised, StreamIInv, JobInv
  <2>2. stage' = Failed => JobInv'
    BY <1>8 DEF Raised, Emit, StreamIInv, StreamTypeOK, JobInv
  <2>3. row' \in {"absent", "processing", "done", "error"} /\ outcome' = "error" /\ job' = "error"
    BY <1>8 DEF Raised, StreamIInv, StreamTypeOK
  <2> QED BY <1>8, <2>1, <2>2, <2>3, JobStep DEF Raised
<1> QED BY <1>1, <1>2, <1>3, <1>4, <1>5, <1>6, <1>7, <1>8 DEF Work

(* The job leaves the registry.                                            *)
LEMMA StreamExpireIInv ==
    ASSUME StreamIInv, ExpireJob
    PROVE  StreamIInv'
BY DEF ExpireJob, streamVars, StreamIInv, StreamTypeOK, JobInv,
       EventsInv, OutcomeTold, StreamInv

(* The process dies: who waits is cut off, and an unfinished job is lost.  *)
LEMMA StreamCrashIInv ==
    ASSUME StreamIInv, Crash
    PROVE  StreamIInv'
<1>1. crashes' \in 0..MaxCrashes
  BY ProgressAssumption DEF Crash, StreamIInv, StreamTypeOK
<1>2. StreamTypeOK'
  <2>1. events' \in Seq(Parsing..Failed) /\ fresh' \in 0..3
        /\ job' \in {"queued", "processing", "extract", "done", "error", "lost"}
    BY DEF Crash, StreamIInv, StreamTypeOK
  <2>2. at' \in [Streams -> {"idle", "waiting", "ending", "told", "cut"}]
    BY DEF Crash, StreamIInv, StreamTypeOK
  <2>3. Failed \in Queued..Failed
    BY DEF Queued, Failed
  <2>4. shown' \in [Streams -> Queued..Failed]
    BY <2>3 DEF Crash, StreamIInv, StreamTypeOK
  <2> QED BY <1>1, <2>1, <2>2, <2>4 DEF Crash, StreamIInv, StreamTypeOK
<1>3. JobInv'
  BY DEF Crash, StreamIInv, StreamTypeOK, JobInv
<1>4. EventsInv'
  BY DEF Crash, EventsInv
<1>5. OutcomeTold'
  BY DEF Crash, StreamIInv, StreamTypeOK, OutcomeTold
<1>6. \A s \in Streams : StreamInv(s)'
  BY DEF Crash, StreamIInv, StreamTypeOK, JobInv, StreamInv
<1> QED BY <1>2, <1>3, <1>4, <1>5, <1>6 DEF StreamIInv

(* One stream moves, and takes at most the oldest event.                   *)
LEMMA StreamStep ==
    ASSUME StreamIInv, NEW s \in Streams, Take \/ UNCHANGED jobVars,
           NEW a \in {"waiting", "ending", "told", "cut"}, NEW e \in Queued..Failed,
           at' = [at EXCEPT ![s] = a], shown' = [shown EXCEPT ![s] = e],
           a = "waiting" => /\ job # "lost" /\ e <= stage
                            /\ \A i \in 1..Len(events) : e <= events[i],
           a = "told" => /\ e \in Ends /\ job \in {"done", "error", "lost"}
                         /\ (e = Done) = (outcome = "done" \/ row = "done")
    PROVE  StreamIInv'
<1>1. /\ at'[s] = a /\ shown'[s] = e
      /\ \A x \in Streams \ {s} : at'[x] = at[x] /\ shown'[x] = shown[x]
      /\ at' \in [Streams -> {"idle", "waiting", "ending", "told", "cut"}]
      /\ shown' \in [Streams -> Queued..Failed]
  BY DEF StreamIInv, StreamTypeOK
<1>2. UNCHANGED <<job, known, stage, fresh, row, outcome, crashes>>
  BY DEF Take, jobVars
<1>3. /\ events' \in Seq(Parsing..Failed) /\ Len(events') <= Len(events)
      /\ \E k \in {0, 1} : Len(events') = Len(events) - k /\ \A i \in 1..Len(events') : events'[i] = events[i + k]
  <2>1. CASE Take
    <3>1. events \in Seq(Parsing..Failed) /\ events # <<>> /\ events' = Tail(events)
      BY <2>1 DEF Take, StreamIInv, StreamTypeOK
    <3>2. /\ events' \in Seq(Parsing..Failed) /\ Len(events') = Len(events) - 1 /\ Len(events) \in Nat
          /\ \A i \in 1..Len(events') : events'[i] = events[i + 1]
      BY <3>1, HeadTailProperties
    <3> QED BY <3>2
  <2>2. CASE UNCHANGED jobVars
    <3>1. events' = events /\ events \in Seq(Parsing..Failed) /\ Len(events) \in Nat
      BY <2>2 DEF jobVars, StreamIInv, StreamTypeOK
    <3> QED BY <3>1
  <2> QED BY <2>1, <2>2
<1>4. PICK k \in {0, 1} : Len(events') = Len(events) - k /\ \A i \in 1..Len(events') : events'[i] = events[i + k]
  BY <1>3
<1>5. Len(events) \in Nat /\ Len(events') \in Nat /\ fresh \in 0..3
  BY <1>3 DEF StreamIInv, StreamTypeOK
<1>6. \A i \in 1..Len(events') : i + k \in 1..Len(events)
  BY <1>4, <1>5
<1>7. StreamTypeOK' /\ JobInv'
  BY <1>1, <1>2, <1>3 DEF StreamIInv, StreamTypeOK, JobInv
<1>8. EventsInv'
  <2>1. ASSUME NEW i \in 1..Len(events'), NEW j \in 1..Len(events'), i <= j
        PROVE  events'[i] <= events'[j]
    <3>1. i + k <= j + k
      BY <2>1, <1>4
    <3> QED BY <1>4, <1>6, <3>1 DEF StreamIInv, EventsInv
  <2>2. ASSUME NEW i \in 1..Len(events')
        PROVE  /\ events'[i] <= stage'
               /\ events'[i] \in Ends \/ (i > Len(events') - fresh' /\ stage' \notin Ends) => events'[i] = stage'
    <3>1. i > Len(events') - fresh' => i + k > Len(events) - fresh
      BY <1>2, <1>4, <1>5
    <3> QED BY <1>2, <1>4, <1>6, <3>1 DEF StreamIInv, EventsInv
  <2> QED BY <2>1, <2>2 DEF EventsInv
<1>9. OutcomeTold'
  BY <1>1, <1>2 DEF StreamIInv, OutcomeTold
<1>10. ASSUME NEW x \in Streams PROVE StreamInv(x)'
  <2>1. CASE x = s
    BY <1>1, <1>2, <1>4, <1>6, <2>1 DEF StreamInv
  <2>2. CASE x # s
    BY <1>1, <1>2, <1>4, <1>6, <2>2 DEF StreamIInv, StreamInv
  <2> QED BY <2>1, <2>2
<1> QED BY <1>7, <1>8, <1>9, <1>10 DEF StreamIInv

(* The actions of a stream.                                                *)
LEMMA ServeIInv ==
    ASSUME StreamIInv, NEW s \in Streams,
           Follow(s) \/ Final(s) \/ FromRow(s) \/ Serve(s) \/ Leave(s)
    PROVE  StreamIInv'
<1> USE DEF Queued, Done, Failed, Ends
<1>1. /\ shown[s] \in 0..6 /\ stage \in 0..6 /\ events \in Seq(1..6)
      /\ \A i \in 1..Len(events) : events[i] \in 1..6
  BY ElementOfSeq DEF StreamIInv, StreamTypeOK, Parsing
<1>2. shown = [shown EXCEPT ![s] = shown[s]]
  BY DEF StreamIInv, StreamTypeOK
<1>3. CASE Follow(s)
  <2>1. shown[s] = 0 /\ job # "lost"
    BY <1>3 DEF Follow, StreamIInv, StreamInv
  <2>2. /\ at' = [at EXCEPT ![s] = "waiting"] /\ shown' = [shown EXCEPT ![s] = shown[s]]
        /\ UNCHANGED jobVars
    BY <1>2, <1>3 DEF Follow
  <2>3. shown[s] <= stage /\ \A i \in 1..Len(events) : shown[s] <= events[i]
    BY <1>1, <2>1
  <2> QED BY <1>1, <2>1, <2>2, <2>3, StreamStep
<1>4. CASE Final(s)
  <2>1. /\ stage \in Ends /\ job \in {"done", "error"}
        /\ (stage = Done) = (outcome = "done" \/ row = "done")
    BY <1>4 DEF Final, StreamIInv, JobInv
  <2> QED BY <1>1, <1>4, <2>1, StreamStep DEF Final, Show
<1>5. CASE FromRow(s)
  <2> DEFINE e == IF row = "done" THEN Done ELSE IF row = "error" THEN Failed ELSE Queued
             a == IF e \in Ends THEN "told" ELSE "ending"
  <2>1. job \in {"done", "error", "lost"}
    BY <1>5 DEF FromRow, StreamIInv, JobInv
  <2>2. e \in Ends => (e = Done) = (outcome = "done" \/ row = "done")
    BY <2>1 DEF StreamIInv, JobInv
  <2>3. /\ at' = [at EXCEPT ![s] = a] /\ shown' = [shown EXCEPT ![s] = e] /\ UNCHANGED jobVars
        /\ e \in Queued..Failed /\ a \in {"ending", "told"} /\ (a = "told" => e \in Ends)
    BY <1>5 DEF FromRow, Show
  <2> HIDE DEF e, a
  <2> QED BY <2>1, <2>2, <2>3, StreamStep
<1>6. CASE Ended(s)
  <2>1. at' = [at EXCEPT ![s] = "cut"] /\ shown' = [shown EXCEPT ![s] = Failed] /\ UNCHANGED jobVars
    BY <1>6 DEF Ended
  <2>2. Failed \in Queued..Failed
    OBVIOUS
  <2> QED BY <2>1, <2>2, StreamStep
<1>7. CASE Deliver(s)
  <2> DEFINE e == Head(events)
             a == IF e \in Ends THEN "told" ELSE "waiting"
  <2>1. /\ events # <<>> /\ at[s] = "waiting" /\ Take
        /\ at' = [at EXCEPT ![s] = a] /\ shown' = [shown EXCEPT ![s] = e]
    BY <1>7 DEF Deliver, Take, Show
  <2>2. e = events[1] /\ 1 \in 1..Len(events) /\ Len(events) \in Nat
    BY <1>1, <2>1
  <2>3. e \in 0..6 /\ e <= stage /\ (e \in Ends => e = stage) /\ \A i \in 1..Len(events) : e <= events[i]
    BY <1>1, <2>2 DEF StreamIInv, EventsInv
  <2>4. job # "lost"
    BY <2>1 DEF StreamIInv, StreamInv
  <2>5. e \in Ends => job \in {"done", "error"} /\ (e = Done) = (outcome = "done" \/ row = "done")
    BY <2>3, <2>4 DEF StreamIInv, StreamTypeOK, JobInv, Parsing, Chunking,
                      Embedding, Indexing
  <2>6. a \in {"waiting", "told"} /\ (a = "told" <=> e \in Ends)
    OBVIOUS
  <2> HIDE DEF e, a
  <2> QED BY <2>1, <2>3, <2>4, <2>5, <2>6, StreamStep
<1>8. CASE Keepalive(s)
  <2> DEFINE a == IF stage \in Ends THEN "told" ELSE "waiting"
  <2>1. /\ at[s] = "waiting" /\ Len(events) <= fresh /\ UNCHANGED jobVars
        /\ at' = [at EXCEPT ![s] = a] /\ shown' = [shown EXCEPT ![s] = stage]
    BY <1>8 DEF Keepalive, TimedOut, Show
  <2>2. job # "lost"
    BY <2>1 DEF StreamIInv, StreamInv
  <2>3. stage \in Ends => job \in {"done", "error"} /\ (stage = Done) = (outcome = "done" \/ row = "done")
    BY <2>2 DEF StreamIInv, StreamTypeOK, JobInv, Parsing, Chunking,
                Embedding, Indexing
  <2>4. stage \notin Ends => \A i \in 1..Len(events) : events[i] = stage
    <3>1. fresh \in 0..3 /\ Len(events) \in Nat
      BY <1>1 DEF StreamIInv, StreamTypeOK
    <3>2. \A i \in 1..Len(events) : i > Len(events) - fresh
      BY <2>1, <3>1
    <3> QED BY <3>2 DEF StreamIInv, EventsInv
  <2>5. a \in {"waiting", "told"} /\ (a = "told" <=> stage \in Ends)
    OBVIOUS
  <2> HIDE DEF a
  <2>6. a = "waiting" => stage <= stage /\ \A i \in 1..Len(events) : stage <= events[i]
    BY <1>1, <2>4, <2>5
  <2> QED BY <1>1, <2>1, <2>2, <2>3, <2>5, <2>6, StreamStep
<1>9. CASE Leave(s)
  <2>1. PICK e \in {shown[s], Failed} : shown' = [shown EXCEPT ![s] = e]
    BY <1>9 DEF Leave
  <2>2. e \in Queued..Failed
    BY <1>1, <2>1
  <2>3. at' = [at EXCEPT ![s] = "cut"] /\ (Take \/ UNCHANGED jobVars)
    BY <1>9 DEF Leave
  <2> QED BY <2>1, <2>2, <2>3, StreamStep
<1> QED BY <1>3, <1>4, <1>5, <1>6, <1>7, <1>8, <1>9 DEF Serve

(* Nothing was put yet, and nobody asked.                                  *)
LEMMA StreamInitIInv ==
    ASSUME StreamInit
    PROVE  StreamIInv
BY ProgressAssumption
   DEF StreamInit, StreamIInv, StreamTypeOK, JobInv, EventsInv,
       OutcomeTold, StreamInv, Queued, Parsing, Failed

(* Every step keeps the invariant.                                         *)
LEMMA StreamNextIInv ==
    ASSUME StreamIInv, [StreamNext]_uploadVars
    PROVE  StreamIInv'
<1>1. CASE StreamNext
  BY <1>1, StreamWorkIInv, StreamExpireIInv, StreamCrashIInv, ServeIInv
     DEF StreamNext
<1>2. CASE UNCHANGED uploadVars
  BY <1>2 DEF uploadVars, jobVars, streamVars, StreamIInv, StreamTypeOK,
              JobInv, EventsInv, OutcomeTold, StreamInv
<1> QED BY <1>1, <1>2

(* The inductive invariant of an upload and its streams: the status of the *)
(* job against its stage, its row and its outcome, the order of the events *)
(* that wait, and what each client shows.                                  *)
THEOREM StreamInvariant == StreamSpec => []StreamIInv
<1>1. StreamInit => StreamIInv
  BY StreamInitIInv
<1>2. StreamIInv /\ [StreamNext]_uploadVars => StreamIInv'
  BY StreamNextIInv
<1> QED BY <1>1, <1>2, PTL DEF StreamSpec

(* A client that was told an end was told the right one, however many      *)
(* streams share the one queue of events (documents.py:243-270).           *)
THEOREM StreamOutcomeTold == StreamSpec => []OutcomeTold
<1>1. StreamIInv => OutcomeTold
  BY DEF StreamIInv
<1> QED BY <1>1, StreamInvariant, PTL

(* No client shows an earlier stage than it did, whoever took the events   *)
(* in between.                                                             *)
THEOREM StreamNeverBack == StreamSpec => NeverBack
<1>1. ASSUME StreamIInv, [StreamNext]_uploadVars
      PROVE  [\A s \in Streams : shown'[s] >= shown[s]]_uploadVars
  <2> USE DEF Queued, Done, Failed, Ends
  <2>1. /\ shown \in [Streams -> 0..6] /\ stage \in 0..6 /\ events \in Seq(1..6)
        /\ \A i \in 1..Len(events) : events[i] \in 1..6
    BY <1>1, ElementOfSeq DEF StreamIInv, StreamTypeOK, Parsing
  <2>2. ASSUME shown' = shown PROVE \A s \in Streams : shown'[s] >= shown[s]
    BY <2>1, <2>2
  <2>3. ASSUME NEW s \in Streams, NEW e \in 0..6, e >= shown[s], shown' = [shown EXCEPT ![s] = e]
        PROVE  \A x \in Streams : shown'[x] >= shown[x]
    BY <2>1, <2>3
  <2>4. CASE Work \/ ExpireJob
    BY <2>2, <2>4 DEF Work, BeginJob, Duplicate, Parsed, Chunked,
                      Indexed, IndexedPlain, Extracted, Raised,
                      Returned, Emit, ExpireJob, streamVars
  <2>5. CASE Crash
    <3>1. \A x \in Streams : shown'[x] \in {shown[x], Failed}
      BY <2>5 DEF Crash
    <3> QED BY <2>1, <3>1
  <2>6. ASSUME NEW s \in Streams, Follow(s) PROVE \A x \in Streams : shown'[x] >= shown[x]
    BY <2>2, <2>6 DEF Follow
  <2>7. ASSUME NEW s \in Streams, Final(s) \/ FromRow(s)
        PROVE  \A x \in Streams : shown'[x] >= shown[x]
    <3>1. shown[s] = 0
      BY <1>1, <2>7 DEF Final, FromRow, StreamIInv, StreamInv
    <3>2. PICK e \in 0..6 : shown' = [shown EXCEPT ![s] = e]
      BY <2>1, <2>7 DEF Final, FromRow, Show
    <3>3. e >= shown[s]
      BY <3>1, <3>2
    <3> QED BY <2>3, <3>2, <3>3
  <2>8. ASSUME NEW s \in Streams, Deliver(s) PROVE \A x \in Streams : shown'[x] >= shown[x]
    <3>1. events # <<>> /\ at[s] = "waiting" /\ shown' = [shown EXCEPT ![s] = Head(events)]
      BY <2>8 DEF Deliver, Take, Show
    <3>2. Head(events) = events[1] /\ 1 \in 1..Len(events)
      BY <2>1, <3>1
    <3>3. shown[s] <= events[1] /\ events[1] \in 0..6
      BY <1>1, <2>1, <3>1, <3>2 DEF StreamIInv, StreamInv
    <3> QED BY <2>1, <2>3, <3>1, <3>2, <3>3
  <2>9. ASSUME NEW s \in Streams, Keepalive(s) PROVE \A x \in Streams : shown'[x] >= shown[x]
    <3>1. at[s] = "waiting" /\ shown' = [shown EXCEPT ![s] = stage]
      BY <2>9 DEF Keepalive, TimedOut, Show
    <3>2. shown[s] <= stage
      BY <1>1, <3>1 DEF StreamIInv, StreamInv
    <3> QED BY <2>1, <2>3, <3>1, <3>2
  <2>10. ASSUME NEW s \in Streams, Ended(s) \/ Leave(s)
         PROVE  \A x \in Streams : shown'[x] >= shown[x]
    <3>1. PICK e \in {shown[s], Failed} : shown' = [shown EXCEPT ![s] = e]
      BY <2>10 DEF Ended, Leave
    <3> QED BY <2>1, <2>3, <3>1
  <2>11. CASE UNCHANGED uploadVars
    BY <2>11
  <2> QED BY <1>1, <2>4, <2>5, <2>6, <2>7, <2>8, <2>9, <2>10, <2>11 DEF StreamNext, Serve
<1> QED BY <1>1, StreamInvariant, PTL DEF StreamSpec, NeverBack
=============================================================================
