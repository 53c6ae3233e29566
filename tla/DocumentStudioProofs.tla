------------------------- MODULE DocumentStudioProofs -------------------------
(***************************************************************************)
(* What holds of generated documents for any number of documents, sections *)
(* and tokens, requests, saves and crashes: IInv is inductive, it implies  *)
(* the invariants of DocumentStudio, and the store implements              *)
(* VersionedDocument.  First the sequences of events and the sets of       *)
(* versions, then one lemma per action, then the theorems.                 *)
(***************************************************************************)
EXTENDS DocumentStudio, FiniteSetTheorems, SequenceTheorems, TLAPS

Steps == Running \cup {"idle", "done", "failed", "cancelled", "lost"}

(* Two ordered lists of events, the first before the second, make one.     *)
LEMMA OrderedConcat ==
    ASSUME NEW s \in Seq(Event), NEW t \in Seq(Event), Ordered(s), Ordered(t),
           \A i \in 1..Len(s), j \in 1..Len(t) : Before(s[i], t[j])
    PROVE  Ordered(s \o t)
<1>1. /\ Len(s) \in Nat /\ Len(t) \in Nat /\ Len(s \o t) = Len(s) + Len(t)
      /\ \A i \in 1..(Len(s) + Len(t)) : (s \o t)[i] = IF i <= Len(s) THEN s[i] ELSE t[i - Len(s)]
  BY ConcatProperties, LenProperties
<1>2. SUFFICES ASSUME NEW i \in 1..(Len(s) + Len(t)), NEW j \in 1..(Len(s) + Len(t)), i < j
               PROVE  Before((s \o t)[i], (s \o t)[j])
  BY <1>1 DEF Ordered
<1>3. CASE j <= Len(s)
  <2>1. i \in 1..Len(s) /\ j \in 1..Len(s) /\ (s \o t)[i] = s[i] /\ (s \o t)[j] = s[j]
    BY <1>1, <1>2, <1>3
  <2> QED BY <1>2, <2>1 DEF Ordered
<1>4. CASE i > Len(s)
  <2>1. /\ i - Len(s) \in 1..Len(t) /\ j - Len(s) \in 1..Len(t) /\ i - Len(s) < j - Len(s)
        /\ (s \o t)[i] = t[i - Len(s)] /\ (s \o t)[j] = t[j - Len(s)]
    BY <1>1, <1>2, <1>4
  <2> QED BY <2>1 DEF Ordered
<1>5. CASE i <= Len(s) /\ j > Len(s)
  <2>1. /\ i \in 1..Len(s) /\ j - Len(s) \in 1..Len(t)
        /\ (s \o t)[i] = s[i] /\ (s \o t)[j] = t[j - Len(s)]
    BY <1>1, <1>2, <1>5
  <2> QED BY <2>1
<1> QED BY <1>1, <1>2, <1>3, <1>4, <1>5

(* An event that a task emits waits behind the others.                     *)
LEMMA ConcatElements ==
    ASSUME NEW s \in Seq(Event), NEW t \in Seq(Event), NEW i \in 1..Len(s \o t)
    PROVE  (\E k \in 1..Len(s) : (s \o t)[i] = s[k]) \/ (\E k \in 1..Len(t) : (s \o t)[i] = t[k])
<1>1. /\ Len(s) \in Nat /\ Len(t) \in Nat /\ Len(s \o t) = Len(s) + Len(t)
      /\ (s \o t)[i] = IF i <= Len(s) THEN s[i] ELSE t[i - Len(s)]
  BY ConcatProperties, LenProperties
<1>2. CASE i <= Len(s)
  BY <1>1, <1>2
<1>3. CASE i > Len(s)
  <2>1. i - Len(s) \in 1..Len(t)
    BY <1>1, <1>3
  <2> QED BY <1>1, <1>3, <2>1
<1> QED BY <1>1, <1>2, <1>3

(* Emit appends to the events of one document.                             *)
LEMMA EmitTyped ==
    ASSUME TypeOK, NEW d \in Docs, NEW es \in Seq(Event), Emit(d, es)
    PROVE  /\ events' \in [Docs -> Seq(Event)]
           /\ events'[d] = events[d] \o es
           /\ \A x \in Docs \ {d} : events'[x] = events[x]
<1>1. events[d] \o es \in Seq(Event)
  BY ConcatProperties DEF TypeOK
<1> QED BY <1>1 DEF TypeOK, Emit

(* What a running task may emit.                                           *)
Emittable(d, e) ==
    e.kind \in {"token", "section_done"} => gen[d].step = "writing" /\ e.section = gen[d].section

(* A task goes on and emits: what was told stays in order.                 *)
LEMMA StreamGrows ==
    ASSUME TypeOK, NEW d \in Docs, StreamInv(d), gen[d].step \in Running \cup {"idle"},
           NEW es \in Seq(Event), events'[d] = events[d] \o es, seen'[d] = seen[d],
           gen'[d].step \in Steps \ {"idle"}, gen'[d].section \in 0..Sections,
           Ordered(es), \A j \in 1..Len(es) : Emittable(d, es[j]),
           \A j \in 1..Len(es) : es[j].kind = "ready" => gen'[d].step = "done",
           gen'[d].step = "done" => es # <<>> /\ Last(es).kind = "ready",
           gen'[d].step \in Running => \A j \in 1..Len(es) :
               es[j].kind # "section_done" \/ (gen'[d].step = "writing" /\ es[j].section < gen'[d].section),
           gen'[d].step = "writing" => gen'[d].section > 0,
           gen[d].step = "writing" /\ gen'[d].step \in Running =>
               gen'[d].step = "writing" /\ gen[d].section <= gen'[d].section,
           conn'[d] # "ended"
    PROVE  StreamInv(d)'
<1>1. /\ seen[d] \in Seq(Event) /\ events[d] \in Seq(Event) /\ gen[d].section \in 0..Sections
      /\ Sections \in Nat
  BY StudioAssumption DEF TypeOK
<1>2. \A e \in Event : Told(d, e) =>
        /\ e.kind # "ready"
        /\ e.kind # "section_done" \/ (gen[d].step = "writing" /\ e.section < gen[d].section)
  BY DEF StreamInv, Running, Told
<1>3. /\ \A i \in 1..Len(seen[d]) : seen[d][i] \in Event /\ Told(d, seen[d][i])
      /\ \A i \in 1..Len(events[d]) : events[d][i] \in Event /\ Told(d, events[d][i])
      /\ \A i \in 1..Len(es) : es[i] \in Event
  BY <1>1 DEF Told
<1>4. ASSUME NEW e \in Event, Told(d, e), NEW j \in 1..Len(es) PROVE Before(e, es[j])
  BY <1>1, <1>2, <1>3, <1>4 DEF Before, Emittable, Event
<1>5. Ordered(events'[d]) /\ Ordered(seen'[d])
  BY <1>1, <1>3, <1>4, OrderedConcat DEF StreamInv
<1>6. \A i \in 1..Len(seen'[d]), j \in 1..Len(events'[d]) : Before(seen'[d][i], events'[d][j])
  <2> SUFFICES ASSUME NEW i \in 1..Len(seen[d]), NEW j \in 1..Len(events[d] \o es)
               PROVE  Before(seen[d][i], (events[d] \o es)[j])
    OBVIOUS
  <2>1. (\E k \in 1..Len(events[d]) : (events[d] \o es)[j] = events[d][k])
          \/ (\E k \in 1..Len(es) : (events[d] \o es)[j] = es[k])
    BY <1>1, ConcatElements
  <2> QED BY <1>3, <1>4, <2>1 DEF StreamInv
<1>7. \A e \in Event : Told(d, e)' =>
        /\ e.kind = "ready" => gen'[d].step = "done"
        /\ gen'[d].step \in Running =>
              e.kind # "section_done" \/ (gen'[d].step = "writing" /\ e.section < gen'[d].section)
  <2> SUFFICES ASSUME NEW e \in Event, Told(d, e)'
               PROVE  /\ e.kind = "ready" => gen'[d].step = "done"
                      /\ gen'[d].step \in Running =>
                            e.kind # "section_done" \/ (gen'[d].step = "writing" /\ e.section < gen'[d].section)
    OBVIOUS
  <2>1. Told(d, e) \/ \E j \in 1..Len(es) : e = es[j]
    BY <1>1, ConcatElements DEF Told
  <2>2. CASE Told(d, e)
    <3>1. e.section \in 0..Sections
      BY DEF Event
    <3> QED BY <1>1, <1>2, <2>2, <3>1
  <2>3. CASE \E j \in 1..Len(es) : e = es[j]
    BY <2>3
  <2> QED BY <2>1, <2>2, <2>3
<1>8. gen'[d].step = "done" => events'[d] # <<>> /\ Newest(d)'.kind = "ready"
  <2> SUFFICES ASSUME es # <<>>, Last(es).kind = "ready"
               PROVE  events'[d] # <<>> /\ Newest(d)'.kind = "ready"
    OBVIOUS
  <2>1. /\ Len(es) \in Nat /\ Len(es) > 0 /\ Len(events[d]) \in Nat
        /\ Len(events[d] \o es) = Len(events[d]) + Len(es)
        /\ (events[d] \o es)[Len(events[d]) + Len(es)] = es[Len(es)]
    BY <1>1, ConcatProperties, LenProperties, EmptySeq
  <2>2. events'[d] # <<>> /\ Last(events'[d]) = Last(es)
    BY <2>1 DEF Last
  <2> QED BY <2>2 DEF Newest
<1> QED BY <1>5, <1>6, <1>7, <1>8 DEF StreamInv

GenRecords == [step : Steps, section : 0..Sections, tokens : 0..MaxTokens]

(* What a task that is stopped, or not concerned, leaves of its stream.    *)
LEMMA StreamKept ==
    ASSUME NEW d \in Docs, StreamInv(d), seen'[d] = seen[d], events'[d] = events[d],
           gen'[d].section = gen[d].section, conn'[d] = "ended" => conn[d] = "ended",
           \/ gen'[d].step = gen[d].step
           \/ gen[d].step \in Running /\ gen'[d].step \in {"cancelled", "lost"}
    PROVE  StreamInv(d)'
<1>1. /\ Ordered(seen'[d]) /\ Ordered(events'[d])
      /\ \A i \in 1..Len(seen'[d]), j \in 1..Len(events'[d]) : Before(seen'[d][i], events'[d][j])
  BY DEF StreamInv
<1>2. Newest(d)' = Newest(d) /\ \A e : Told(d, e)' <=> Told(d, e)
  BY DEF Newest, Told
<1>3. gen'[d].step \in Running => gen'[d].step = gen[d].step
  BY DEF Running
<1>4. \A e \in Event : Told(d, e) =>
        /\ e.kind = "ready" => gen'[d].step = "done"
        /\ gen'[d].step \in Running =>
              e.kind # "section_done" \/ (gen'[d].step = "writing" /\ e.section < gen'[d].section)
  BY <1>3 DEF StreamInv, Running
<1>5. gen[d].step \in Running => conn'[d] # "ended"
  BY DEF StreamInv, Running
<1> QED BY <1>1, <1>2, <1>4, <1>5 DEF StreamInv

(* ... and of its document.                                                *)
LEMMA StoreKept ==
    ASSUME TypeOK, NEW d \in Docs, StoreInv(d), NumberInv(d),
           Exists(d)' <=> Exists(d), versions'[d] = versions[d],
           d \in signatures' <=> d \in signatures, d \in deleted' <=> d \in deleted,
           saves' \in Nat, saves <= saves',
           \/ gen'[d].step = gen[d].step
           \/ gen[d].step \in Running /\ gen'[d].step \in {"cancelled", "lost"}
    PROVE  StoreInv(d)' /\ NumberInv(d)'
<1>1. StoreInv(d)'
  BY DEF StoreInv, Whole, Over, Running
<1>2. NumberInv(d)'
  <2>1. Cardinality(versions[d]) \in Nat /\ saves \in Nat
    BY FS_CardinalityType, StudioAssumption DEF NumberInv, TypeOK
  <2> QED BY <2>1 DEF NumberInv
<1> QED BY <1>1, <1>2

(* A step of the task of d: the other documents are not concerned.         *)
LEMMA TaskIInv ==
    ASSUME IInv, NEW d \in Docs, gen[d].step \in Running \cup {"idle"},
           NEW new \in GenRecords, gen' = [gen EXCEPT ![d] = new],
           NEW es \in Seq(Event), Emit(d, es),
           conn' \in [Docs -> {"none", "open", "ended", "closed"}],
           \A x \in Docs : conn'[x] = "ended" => conn[x] = "ended",
           UNCHANGED <<seen, plans, ask, executed, saves, crashes>>,
           content' \in [Docs -> {None} \cup 0..MaxSaves],
           versions' \in [Docs -> SUBSET [num : 1..(MaxSaves + 1), content : 0..MaxSaves]],
           signatures' \in SUBSET Docs, deleted' = deleted,
           \A x \in Docs \ {d} : /\ content'[x] = content[x] /\ versions'[x] = versions[x]
                                 /\ x \in signatures' <=> x \in signatures,
           StoreInv(d)', NumberInv(d)',
           new.step # "idle",
           Ordered(es), \A j \in 1..Len(es) : Emittable(d, es[j]),
           \A j \in 1..Len(es) : es[j].kind = "ready" => new.step = "done",
           new.step = "done" => es # <<>> /\ Last(es).kind = "ready",
           new.step \in Running => \A j \in 1..Len(es) :
               es[j].kind # "section_done" \/ (new.step = "writing" /\ es[j].section < new.section),
           new.step = "writing" => new.section > 0,
           gen[d].step = "writing" /\ new.step \in Running =>
               new.step = "writing" /\ gen[d].section <= new.section
    PROVE  IInv'
<1>1. TypeOK /\ saves \in Nat
  BY StudioAssumption DEF IInv, TypeOK
<1>2. gen' \in [Docs -> GenRecords] /\ gen'[d] = new /\ \A x \in Docs \ {d} : gen'[x] = gen[x]
  BY <1>1 DEF TypeOK, GenRecords, Steps
<1>3. /\ events' \in [Docs -> Seq(Event)] /\ events'[d] = events[d] \o es
      /\ \A x \in Docs \ {d} : events'[x] = events[x]
  BY <1>1, EmitTyped
<1>4. TypeOK'
  BY <1>1, <1>2, <1>3 DEF TypeOK, GenRecords, Steps
<1>5. StreamInv(d)'
  <2>1. StreamInv(d) /\ conn[d] # "ended"
    BY DEF IInv, StreamInv, Running
  <2>2. new.step \in Steps \ {"idle"} /\ new.section \in 0..Sections
    BY DEF GenRecords
  <2> QED BY <1>1, <1>2, <1>3, <2>1, <2>2, StreamGrows
<1>6. ASSUME NEW x \in Docs \ {d} PROVE StreamInv(x)' /\ StoreInv(x)' /\ NumberInv(x)'
  <2>1. StreamInv(x)'
    BY <1>2, <1>3, StreamKept DEF IInv
  <2>2. StoreInv(x)' /\ NumberInv(x)'
    BY <1>1, <1>2, StoreKept DEF IInv, Exists
  <2> QED BY <2>1, <2>2
<1> QED BY <1>4, <1>5, <1>6 DEF IInv

(* Until the last section the task stores nothing.                         *)
LEMMA ProgressIInv ==
    ASSUME IInv, NEW d \in Docs, gen[d].step \in Running \cup {"idle"},
           NEW new \in GenRecords, gen' = [gen EXCEPT ![d] = new], new.step \in Running,
           NEW es \in Seq(Event), Emit(d, es),
           conn' \in [Docs -> {"none", "open", "ended", "closed"}],
           \A x \in Docs : conn'[x] = "ended" => conn[x] = "ended",
           UNCHANGED <<seen, storeVars, askVars, saves, crashes>>,
           Ordered(es), \A j \in 1..Len(es) : Emittable(d, es[j]) /\ es[j].kind # "ready",
           \A j \in 1..Len(es) :
               es[j].kind # "section_done" \/ (new.step = "writing" /\ es[j].section < new.section),
           new.step = "writing" => new.section > 0,
           gen[d].step = "writing" => new.step = "writing" /\ gen[d].section <= new.section
    PROVE  IInv'
<1>1. /\ UNCHANGED <<seen, content, versions, signatures, deleted, plans, ask, executed, saves, crashes>>
      /\ TypeOK
  BY DEF IInv, storeVars, askVars
<1>2. gen'[d] = new
  BY <1>1 DEF TypeOK
<1>3. StoreInv(d)' /\ NumberInv(d)'
  <2>1. StoreInv(d) /\ NumberInv(d) /\ gen[d].step \notin Over /\ gen'[d].step \notin Over
    BY <1>2 DEF IInv, Running, Over
  <2>2. StoreInv(d)'
    BY <1>1, <2>1 DEF StoreInv, Exists, Over
  <2>3. NumberInv(d)'
    BY <1>1, <2>1 DEF NumberInv
  <2> QED BY <2>2, <2>3
<1>4. new.step # "idle" /\ new.step # "done"
  BY DEF Running
<1>5. /\ content' \in [Docs -> {None} \cup 0..MaxSaves]
      /\ versions' \in [Docs -> SUBSET [num : 1..(MaxSaves + 1), content : 0..MaxSaves]]
      /\ signatures' \in SUBSET Docs
  BY <1>1 DEF TypeOK
<1> QED BY <1>1, <1>3, <1>4, <1>5, TaskIInv

(* What is emitted on the way: progress, a token, the end of a section.    *)
LEMMA ProgressEvents ==
    /\ Progress \in Event /\ Progress.kind = "progress" /\ Progress.section = 0
    /\ \A k \in {"progress", "token", "section_done", "ready", "error"}, n \in 0..Sections :
          Of(k, n) \in Event /\ Of(k, n).kind = k /\ Of(k, n).section = n
BY StudioAssumption DEF Progress, Of, Event

(* The task of a document begins, with an empty list of events.            *)
LEMMA StartIInv ==
    ASSUME IInv, NEW d \in Docs, Start(d)
    PROVE  IInv'
<1> DEFINE new == [step |-> "context", section |-> 0, tokens |-> 0]
<1>1. /\ gen[d].step = "idle" /\ conn' = [conn EXCEPT ![d] = "open"]
      /\ gen' = [gen EXCEPT ![d] = new] /\ Emit(d, <<Progress>>)
      /\ UNCHANGED <<seen, storeVars, askVars, saves, crashes>>
  BY DEF Start, Goto
<1>2. new \in GenRecords /\ new.step = "context"
  BY StudioAssumption DEF GenRecords, Steps, Running
<1>3. <<Progress>> \in Seq(Event) /\ Ordered(<<Progress>>)
      /\ \A j \in 1..Len(<<Progress>>) : <<Progress>>[j].kind = "progress"
  BY ProgressEvents DEF Ordered
<1>4. /\ conn' \in [Docs -> {"none", "open", "ended", "closed"}]
      /\ \A x \in Docs : conn'[x] = "ended" => conn[x] = "ended"
  BY <1>1 DEF IInv, TypeOK
<1> HIDE DEF new
<1> QED BY <1>1, <1>2, <1>3, <1>4, ProgressIInv DEF Emittable, Running

(* A step that only goes on to another stage, with progress to tell.       *)
LEMMA StageIInv ==
    ASSUME IInv, NEW d \in Docs, gen[d].step \in {"context", "wider", "title"},
           NEW stage \in Running, NEW n \in 0..Sections, Goto(d, stage, n), stage = "writing" => n > 0,
           NEW es \in Seq(Event), Emit(d, es), \A j \in 1..Len(es) : es[j].kind = "progress",
           UNCHANGED <<seen, conn, storeVars, askVars, saves, crashes>>
    PROVE  IInv'
<1> DEFINE new == [step |-> stage, section |-> n, tokens |-> 0]
<1>1. gen' = [gen EXCEPT ![d] = new]
  BY DEF Goto
<1>2. new \in GenRecords /\ new.step = stage /\ new.section = n
  BY StudioAssumption DEF GenRecords, Steps
<1>3. Ordered(es)
  BY DEF Ordered, Before
<1>4. conn' \in [Docs -> {"none", "open", "ended", "closed"}]
  BY DEF IInv, TypeOK
<1> HIDE DEF new
<1> QED BY <1>1, <1>2, <1>3, <1>4, ProgressIInv DEF Emittable, Running

(* The task comes to the title, with or without the wider search.          *)
LEMMA TitleIInv ==
    ASSUME IInv, NEW d \in Docs, gen[d].step \in {"context", "wider"}, Goto(d, "title", 0),
           Emit(d, <<Progress>>), UNCHANGED <<seen, conn, storeVars, askVars, saves, crashes>>
    PROVE  IInv'
<1>1. 0 \in 0..Sections /\ "title" \in Running /\ "title" # "writing"
  BY StudioAssumption DEF Running
<1>2. <<Progress>> \in Seq(Event) /\ \A j \in 1..Len(<<Progress>>) : <<Progress>>[j].kind = "progress"
  BY ProgressEvents
<1>3. gen[d].step \in {"context", "wider", "title"}
  OBVIOUS
<1> QED BY <1>1, <1>2, <1>3, StageIInv

(* The first search found enough, or the wider one is to be made.          *)
LEMMA RetrievedIInv ==
    ASSUME IInv, NEW d \in Docs, Retrieved(d)
    PROVE  IInv'
<1>1. /\ gen[d].step = "context" /\ 0 \in 0..Sections
      /\ UNCHANGED <<seen, conn, storeVars, askVars, saves, crashes>>
  BY StudioAssumption DEF Retrieved
<1>2. CASE Goto(d, "wider", 0) /\ UNCHANGED events
  <2>1. events[d] \in Seq(Event) /\ <<>> \in Seq(Event) /\ events \in [Docs -> Seq(Event)]
    BY DEF IInv, TypeOK
  <2>2. events[d] \o <<>> = events[d]
    BY <2>1, ConcatEmptySeq
  <2>3. Emit(d, <<>>)
    BY <1>2, <2>1, <2>2 DEF Emit
  <2>4. "wider" \in Running /\ \A j \in 1..Len(<<>>) : <<>>[j].kind = "progress"
    BY DEF Running
  <2>5. gen[d].step \in {"context", "wider", "title"} /\ "wider" # "writing"
    BY <1>1
  <2> HIDE DEF Emit
  <2> QED BY <1>1, <1>2, <2>1, <2>3, <2>4, <2>5, StageIInv
<1>3. CASE Goto(d, "title", 0) /\ Emit(d, <<Progress>>)
  BY <1>1, <1>3, TitleIInv
<1> QED BY <1>2, <1>3 DEF Retrieved

(* The wider search returned.                                              *)
LEMMA WidenedIInv ==
    ASSUME IInv, NEW d \in Docs, Widened(d)
    PROVE  IInv'
BY TitleIInv DEF Widened

(* The title is there, and the first section begins.                       *)
LEMMA TitledIInv ==
    ASSUME IInv, NEW d \in Docs, Titled(d)
    PROVE  IInv'
<1>1. 1 \in 0..Sections /\ <<Progress, Progress>> \in Seq(Event)
  BY StudioAssumption, ProgressEvents
<1>2. \A j \in 1..Len(<<Progress, Progress>>) : <<Progress, Progress>>[j].kind = "progress"
  BY ProgressEvents
<1>3. /\ gen[d].step \in {"context", "wider", "title"} /\ Goto(d, "writing", 1)
      /\ Emit(d, <<Progress, Progress>>) /\ 1 > 0 /\ "writing" \in Running
      /\ UNCHANGED <<seen, conn, storeVars, askVars, saves, crashes>>
  BY DEF Titled, Running
<1> QED BY <1>1, <1>2, <1>3, StageIInv

(* A token is of the section that is being written ...                     *)
LEMMA TokenIInv ==
    ASSUME IInv, NEW d \in Docs, Token(d)
    PROVE  IInv'
<1> DEFINE new == [gen[d] EXCEPT !.tokens = @ + 1]
           e == Of("token", gen[d].section)
<1>1. /\ gen[d].step = "writing" /\ gen[d].tokens < MaxTokens
      /\ gen' = [gen EXCEPT ![d] = new] /\ Emit(d, <<e>>)
      /\ UNCHANGED <<seen, conn, storeVars, askVars, saves, crashes>>
  BY DEF Token
<1>2. gen[d] \in GenRecords /\ gen[d].section > 0
  BY <1>1 DEF IInv, TypeOK, GenRecords, Steps, StreamInv
<1>3. new \in GenRecords /\ new.step = "writing" /\ new.section = gen[d].section
  BY <1>1, <1>2, StudioAssumption DEF GenRecords
<1>4. e \in Event /\ e.kind = "token" /\ e.section = gen[d].section
  BY <1>2, ProgressEvents DEF GenRecords
<1> HIDE DEF new, e
<1>5. /\ <<e>> \in Seq(Event) /\ Ordered(<<e>>)
      /\ \A j \in 1..Len(<<e>>) : <<e>>[j] = e
  BY <1>4 DEF Ordered
<1>6. conn' \in [Docs -> {"none", "open", "ended", "closed"}]
  BY <1>1 DEF IInv, TypeOK
<1>7. gen[d].section <= new.section
  BY <1>2, <1>3 DEF GenRecords
<1> QED BY <1>1, <1>2, <1>3, <1>4, <1>5, <1>6, <1>7, ProgressIInv DEF Emittable, Running

(* ... and so is its end, after which the next one is written.             *)
LEMMA WrittenIInv ==
    ASSUME IInv, NEW d \in Docs, Written(d)
    PROVE  IInv'
<1> DEFINE new == [step |-> "writing", section |-> gen[d].section + 1, tokens |-> 0]
           e == Of("section_done", gen[d].section)
<1>1. /\ gen[d].step = "writing" /\ gen[d].section < Sections
      /\ gen' = [gen EXCEPT ![d] = new] /\ Emit(d, <<e, Progress>>)
      /\ UNCHANGED <<seen, conn, storeVars, askVars, saves, crashes>>
  BY DEF Written, Goto
<1>2. gen[d].section \in 0..Sections /\ Sections \in Nat
  BY StudioAssumption DEF IInv, TypeOK
<1>3. new \in GenRecords /\ new.step = "writing" /\ new.section = gen[d].section + 1
  BY <1>1, <1>2, StudioAssumption DEF GenRecords, Steps, Running
<1>4. e \in Event /\ e.kind = "section_done" /\ e.section = gen[d].section
  BY <1>2, ProgressEvents
<1> HIDE DEF new, e
<1>5. /\ <<e, Progress>> \in Seq(Event)
      /\ \A j \in 1..Len(<<e, Progress>>) : <<e, Progress>>[j] = e \/ <<e, Progress>>[j] = Progress
  BY <1>4, ProgressEvents
<1>6. Ordered(<<e, Progress>>)
  BY <1>4, ProgressEvents DEF Ordered, Before
<1>7. conn' \in [Docs -> {"none", "open", "ended", "closed"}]
  BY <1>1 DEF IInv, TypeOK
<1>8. gen[d].section < new.section /\ gen[d].section <= new.section /\ new.section > 0
  BY <1>2, <1>3
<1>9. \A j \in 1..Len(<<e, Progress>>) :
        /\ Emittable(d, <<e, Progress>>[j]) /\ <<e, Progress>>[j].kind # "ready"
        /\ <<e, Progress>>[j].kind # "section_done" \/ <<e, Progress>>[j].section < new.section
  BY <1>1, <1>4, <1>5, <1>8, ProgressEvents DEF Emittable
<1> QED BY <1>1, <1>3, <1>5, <1>6, <1>7, <1>8, <1>9, ProgressIInv DEF Running

-----------------------------------------------------------------------------
(* Versions: the empty set, and the first one.                             *)
LEMMA NoVersions ==
    ASSUME NEW d \in Docs, versions'[d] = {}, saves' \in Nat
    PROVE  NumberInv(d)'
BY FS_EmptySet DEF NumberInv

(* A document that was just completed has version 1.                       *)
LEMMA FirstVersion ==
    ASSUME NEW d \in Docs, versions'[d] = {[num |-> 1, content |-> 0]}, saves' \in Nat
    PROVE  NumberInv(d)'
<1>1. IsFiniteSet(versions'[d]) /\ Cardinality(versions'[d]) = 1
  BY FS_Singleton
<1>2. {v.num : v \in versions'[d]} = 1..1
  OBVIOUS
<1>3. \A n \in Nat : 1 <= n + 1
  OBVIOUS
<1>4. \A u, v \in versions'[d] : u = v
  OBVIOUS
<1> QED BY <1>1, <1>2, <1>3, <1>4 DEF NumberInv

(* The first k transactions of storing a document that did not exist.      *)
LEMMA StoredDocument ==
    ASSUME IInv, NEW d \in Docs, LastSection(d), NEW k \in 0..3, Stored(d, k), saves' = saves,
           gen'[d].step \in Over, gen'[d].step = "done" => k = 3
    PROVE  /\ content' \in [Docs -> {None} \cup 0..MaxSaves]
           /\ versions' \in [Docs -> SUBSET [num : 1..(MaxSaves + 1), content : 0..MaxSaves]]
           /\ signatures' \in SUBSET Docs /\ deleted' = deleted
           /\ \A x \in Docs \ {d} : /\ content'[x] = content[x] /\ versions'[x] = versions[x]
                                    /\ x \in signatures' <=> x \in signatures
           /\ StoreInv(d)' /\ NumberInv(d)'
<1>1. TypeOK /\ saves \in Nat /\ MaxSaves \in Nat
  BY StudioAssumption DEF IInv, TypeOK
<1>2. content[d] = None /\ versions[d] = {} /\ d \notin signatures /\ d \notin deleted
  BY DEF IInv, StoreInv, LastSection, Over, Exists
<1>3. [num |-> 1, content |-> 0] \in [num : 1..(MaxSaves + 1), content : 0..MaxSaves]
  BY <1>1
<1>4. /\ content' \in [Docs -> {None} \cup 0..MaxSaves]
      /\ content'[d] = IF k >= 1 THEN 0 ELSE None
      /\ \A x \in Docs \ {d} : content'[x] = content[x]
  BY <1>1, <1>2 DEF Stored, TypeOK
<1>5. /\ versions' \in [Docs -> SUBSET [num : 1..(MaxSaves + 1), content : 0..MaxSaves]]
      /\ versions'[d] = IF k >= 2 THEN {[num |-> 1, content |-> 0]} ELSE {}
      /\ \A x \in Docs \ {d} : versions'[x] = versions[x]
  BY <1>1, <1>2, <1>3 DEF Stored, TypeOK
<1>6. /\ signatures' = IF k >= 3 THEN signatures \cup {d} ELSE signatures
      /\ deleted' = deleted
  BY DEF Stored
<1>7. StoreInv(d)'
  <2>1. Exists(d)' <=> k >= 1
    BY <1>4 DEF Exists, None
  <2>2. k = 3 => Whole(d)'
    BY <1>5, <1>6, <2>1 DEF Whole
  <2> QED BY <1>2, <1>5, <1>6, <2>1, <2>2 DEF StoreInv, Over
<1>8. NumberInv(d)'
  BY <1>1, <1>5, NoVersions, FirstVersion
<1> QED BY <1>1, <1>4, <1>5, <1>6, <1>7, <1>8 DEF TypeOK

(* What the task emits at its end: the document comes last.                *)
LEMMA LastEventsInOrder ==
    ASSUME NEW d \in Docs, LastSection(d)
    PROVE  /\ \A es \in {LastEvents, LastEvents \o <<Of("ready", 0)>>} :
                 es \in Seq(Event) /\ Ordered(es) /\ \A j \in 1..Len(es) : Emittable(d, es[j])
           /\ \A j \in 1..Len(LastEvents) : LastEvents[j].kind # "ready"
           /\ LastEvents \o <<Of("ready", 0)>> # <<>>
           /\ Last(LastEvents \o <<Of("ready", 0)>>).kind = "ready"
<1>1. PICK e \in Event : e = Of("section_done", Sections)
  BY ProgressEvents, StudioAssumption
<1>2. PICK f \in Event : f = Of("ready", 0)
  BY ProgressEvents, StudioAssumption
<1>3. /\ e.kind = "section_done" /\ e.section = Sections /\ f.kind = "ready"
      /\ Progress \in Event /\ Progress.kind = "progress"
  BY <1>1, <1>2, ProgressEvents, StudioAssumption
<1>4. LastEvents = <<e, Progress, Progress>>
  BY <1>1 DEF LastEvents
<1>6. gen[d].step = "writing" /\ gen[d].section = Sections
  BY DEF LastSection
<1>7. /\ LastEvents \in Seq(Event) /\ Ordered(LastEvents)
      /\ \A j \in 1..Len(LastEvents) : Emittable(d, LastEvents[j]) /\ LastEvents[j].kind # "ready"
  BY <1>3, <1>4, <1>6 DEF Ordered, Before, Emittable
<1>8. /\ LastEvents \o <<Of("ready", 0)>> \in Seq(Event)
      /\ Ordered(LastEvents \o <<Of("ready", 0)>>)
      /\ \A j \in 1..Len(LastEvents \o <<Of("ready", 0)>>) :
            Emittable(d, (LastEvents \o <<Of("ready", 0)>>)[j])
      /\ LastEvents \o <<Of("ready", 0)>> # <<>>
      /\ Last(LastEvents \o <<Of("ready", 0)>>).kind = "ready"
  <2> DEFINE es == LastEvents \o <<f>>
  <2>1. LastEvents \in Seq(Event) /\ <<f>> \in Seq(Event) /\ Len(LastEvents) = 3 /\ Len(<<f>>) = 1
    BY <1>3, <1>4
  <2>2. /\ es \in Seq(Event) /\ Len(es) = 4
        /\ \A i \in 1..4 : es[i] = IF i <= 3 THEN LastEvents[i] ELSE <<f>>[i - 3]
    <3> HIDE DEF LastEvents
    <3> DEFINE t == <<f>>
    <3>1. t \in Seq(Event) /\ Len(t) = 1
      BY <2>1
    <3> HIDE DEF t
    <3>2. /\ LastEvents \o t \in Seq(Event) /\ Len(LastEvents \o t) = Len(LastEvents) + Len(t)
          /\ \A i \in 1..(Len(LastEvents) + Len(t)) :
                (LastEvents \o t)[i] = IF i <= Len(LastEvents) THEN LastEvents[i] ELSE t[i - Len(LastEvents)]
      BY <2>1, <3>1, ConcatProperties
    <3>3. /\ LastEvents \o t \in Seq(Event) /\ Len(LastEvents \o t) = 4
          /\ \A i \in 1..4 : (LastEvents \o t)[i] = IF i <= 3 THEN LastEvents[i] ELSE t[i - 3]
      BY <2>1, <3>1, <3>2
    <3> QED BY <3>3 DEF t
  <2>3. es[1] = e /\ es[2] = Progress /\ es[3] = Progress /\ es[4] = f
    BY <1>4, <2>2
  <2> HIDE DEF es
  <2>4. Ordered(es)
    BY <1>3, <2>2, <2>3 DEF Ordered, Before
  <2>5. \A j \in 1..Len(es) : Emittable(d, es[j])
    BY <1>3, <1>6, <2>2, <2>3 DEF Emittable
  <2>6. es # <<>> /\ Last(es).kind = "ready"
    BY <1>3, <2>2, <2>3 DEF Last
  <2>7. LastEvents \o <<Of("ready", 0)>> = es
    BY <1>2 DEF es
  <2> QED BY <2>2, <2>4, <2>5, <2>6, <2>7
<1> QED BY <1>7, <1>8

(* A document is stored and announced, or its task fails on the way.       *)
LEMMA CompletedIInv ==
    ASSUME IInv, NEW d \in Docs, Completed(d)
    PROVE  IInv'
<1> DEFINE new == [step |-> "done", section |-> 0, tokens |-> 0]
           es == LastEvents \o <<Of("ready", 0)>>
<1>1. /\ LastSection(d) /\ Stored(d, 3) /\ gen' = [gen EXCEPT ![d] = new] /\ Emit(d, es)
      /\ UNCHANGED <<seen, conn, plans, ask, executed, saves, crashes>>
  BY DEF Completed, Goto, askVars
<1>2. new \in GenRecords /\ new.step = "done"
  BY StudioAssumption DEF GenRecords, Steps
<1>3. gen'[d] = new /\ gen[d].step = "writing" /\ gen[d].step \in Running
  BY <1>1 DEF IInv, TypeOK, LastSection, Running
<1>4. conn' \in [Docs -> {"none", "open", "ended", "closed"}]
  BY <1>1 DEF IInv, TypeOK
<1>5. /\ es \in Seq(Event) /\ Ordered(es) /\ es # <<>> /\ Last(es).kind = "ready"
      /\ \A j \in 1..Len(es) : Emittable(d, es[j])
  BY <1>1, LastEventsInOrder
<1> HIDE DEF new, es
<1>6. gen'[d].step \in Over /\ (gen'[d].step = "done" => 3 = 3) /\ 3 \in 0..3
  BY <1>2, <1>3 DEF Over
<1>7. /\ content' \in [Docs -> {None} \cup 0..MaxSaves]
      /\ versions' \in [Docs -> SUBSET [num : 1..(MaxSaves + 1), content : 0..MaxSaves]]
      /\ signatures' \in SUBSET Docs /\ deleted' = deleted
      /\ \A x \in Docs \ {d} : /\ content'[x] = content[x] /\ versions'[x] = versions[x]
                               /\ x \in signatures' <=> x \in signatures
      /\ StoreInv(d)' /\ NumberInv(d)'
  BY <1>1, <1>6, StoredDocument
<1>8. new.step \notin Running /\ new.step # "idle" /\ new.step # "writing"
  BY <1>2 DEF Running
<1> QED BY <1>1, <1>2, <1>3, <1>4, <1>5, <1>7, <1>8, TaskIInv

(* Completing raised: nothing was stored, and the stream says so.          *)
LEMMA CompletionFailsIInv ==
    ASSUME IInv, NEW d \in Docs, CompletionFails(d)
    PROVE  IInv'
<1> DEFINE new == [step |-> "failed", section |-> 0, tokens |-> 0]
<1>1. PICK k \in 0..2 : Stored(d, k)
  BY DEF CompletionFails
<1>2. /\ LastSection(d) /\ gen' = [gen EXCEPT ![d] = new] /\ Emit(d, LastEvents)
      /\ UNCHANGED <<seen, conn, plans, ask, executed, saves, crashes>>
  BY DEF CompletionFails, Goto, askVars
<1>3. new \in GenRecords /\ new.step = "failed"
  BY StudioAssumption DEF GenRecords, Steps
<1>4. gen'[d] = new /\ gen[d].step = "writing" /\ gen[d].step \in Running
  BY <1>2 DEF IInv, TypeOK, LastSection, Running
<1>5. conn' \in [Docs -> {"none", "open", "ended", "closed"}]
  BY <1>2 DEF IInv, TypeOK
<1>6. /\ LastEvents \in Seq(Event) /\ Ordered(LastEvents)
      /\ \A j \in 1..Len(LastEvents) : Emittable(d, LastEvents[j]) /\ LastEvents[j].kind # "ready"
  BY <1>2, LastEventsInOrder
<1> HIDE DEF new, LastEvents
<1>7. gen'[d].step \in Over /\ gen'[d].step # "done" /\ k \in 0..3
  BY <1>3, <1>4 DEF Over
<1>8. /\ content' \in [Docs -> {None} \cup 0..MaxSaves]
      /\ versions' \in [Docs -> SUBSET [num : 1..(MaxSaves + 1), content : 0..MaxSaves]]
      /\ signatures' \in SUBSET Docs /\ deleted' = deleted
      /\ \A x \in Docs \ {d} : /\ content'[x] = content[x] /\ versions'[x] = versions[x]
                               /\ x \in signatures' <=> x \in signatures
      /\ StoreInv(d)' /\ NumberInv(d)'
  BY <1>1, <1>2, <1>7, StoredDocument
<1>9. new.step \notin Running /\ new.step # "idle" /\ new.step # "writing" /\ new.step # "done"
  BY <1>3 DEF Running
<1> QED BY <1>2, <1>3, <1>4, <1>5, <1>6, <1>8, <1>9, TaskIInv

(* So every step of a generation preserves IInv.                           *)
LEMMA GenerateIInv ==
    ASSUME IInv, NEW d \in Docs, Generate(d)
    PROVE  IInv'
BY RetrievedIInv, WidenedIInv, TitledIInv, TokenIInv, WrittenIInv, CompletedIInv, CompletionFailsIInv
   DEF Generate

-----------------------------------------------------------------------------
(* A step of the stream of d alone.                                        *)
LEMMA StreamStepIInv ==
    ASSUME IInv, NEW d \in Docs,
           UNCHANGED <<storeVars, askVars, saves, crashes>>,
           gen' \in [Docs -> GenRecords], events' \in [Docs -> Seq(Event)], seen' \in [Docs -> Seq(Event)],
           conn' \in [Docs -> {"none", "open", "ended", "closed"}],
           \A x \in Docs \ {d} : /\ gen'[x] = gen[x] /\ events'[x] = events[x]
                                 /\ seen'[x] = seen[x] /\ conn'[x] = conn[x],
           \/ gen'[d].step = gen[d].step
           \/ gen[d].step \in Running /\ gen'[d].step \in {"cancelled", "lost"},
           StreamInv(d)'
    PROVE  IInv'
<1>1. /\ UNCHANGED <<content, versions, signatures, deleted, plans, ask, executed, saves, crashes>>
      /\ TypeOK /\ saves \in Nat
  BY StudioAssumption DEF IInv, TypeOK, storeVars, askVars
<1>2. TypeOK'
  BY <1>1 DEF TypeOK, GenRecords, Steps
<1>3. ASSUME NEW x \in Docs PROVE StreamInv(x)'
  BY StreamKept DEF IInv
<1>4. ASSUME NEW x \in Docs PROVE StoreInv(x)' /\ NumberInv(x)'
  <2>1. \/ gen'[x].step = gen[x].step
        \/ gen[x].step \in Running /\ gen'[x].step \in {"cancelled", "lost"}
    OBVIOUS
  <2>2. saves' \in Nat /\ saves <= saves'
    BY <1>1
  <2> QED BY <1>1, <2>1, <2>2, StoreKept DEF IInv, Exists
<1> QED BY <1>2, <1>3, <1>4 DEF IInv

(* The first event that waits becomes the last one sent.                   *)
LEMMA DeliverIInv ==
    ASSUME IInv, NEW d \in Docs, Deliver(d)
    PROVE  IInv'
<1> DEFINE s == seen[d]  q == events[d]
<1>1. /\ conn[d] = "open" /\ q # <<>>
      /\ seen' = [seen EXCEPT ![d] = Append(s, Head(q))]
      /\ events' = [events EXCEPT ![d] = Tail(q)]
      /\ UNCHANGED <<gen, conn, storeVars, askVars, saves, crashes>>
  BY DEF Deliver
<1>2. TypeOK /\ StreamInv(d) /\ s \in Seq(Event) /\ q \in Seq(Event)
  BY DEF IInv, TypeOK
<1>3. /\ Len(q) \in Nat /\ Len(q) > 0 /\ Head(q) = q[1] /\ Tail(q) \in Seq(Event)
      /\ Len(Tail(q)) = Len(q) - 1 /\ \A i \in 1..(Len(q) - 1) : Tail(q)[i] = q[i + 1]
  BY <1>1, <1>2, HeadTailProperties, EmptySeq, LenProperties
<1>4. /\ Len(s) \in Nat /\ Append(s, q[1]) \in Seq(Event) /\ Len(Append(s, q[1])) = Len(s) + 1
      /\ \A i \in 1..Len(s) : Append(s, q[1])[i] = s[i]
      /\ Append(s, q[1])[Len(s) + 1] = q[1]
  <2>1. q[1] \in Event
    BY <1>2, <1>3
  <2> QED BY <1>2, <2>1, AppendProperties, LenProperties
<1>5. /\ seen' \in [Docs -> Seq(Event)] /\ seen'[d] = Append(s, q[1])
      /\ events' \in [Docs -> Seq(Event)] /\ events'[d] = Tail(q)
      /\ \A x \in Docs \ {d} : seen'[x] = seen[x] /\ events'[x] = events[x]
  BY <1>1, <1>2, <1>3, <1>4 DEF TypeOK
<1>6. /\ Ordered(s) /\ Ordered(q)
      /\ \A i \in 1..Len(s), j \in 1..Len(q) : Before(s[i], q[j])
  BY <1>2 DEF StreamInv
<1> HIDE DEF s, q
<1>7. Ordered(seen'[d]) /\ Ordered(events'[d])
  <2>1. Ordered(Append(s, q[1]))
    BY <1>3, <1>4, <1>6 DEF Ordered
  <2>2. Ordered(Tail(q))
    BY <1>3, <1>6 DEF Ordered
  <2> QED BY <1>5, <2>1, <2>2
<1>8. \A i \in 1..Len(seen'[d]), j \in 1..Len(events'[d]) : Before(seen'[d][i], events'[d][j])
  BY <1>3, <1>4, <1>5, <1>6 DEF Ordered
<1>9. \A e : Told(d, e)' => Told(d, e)
  BY <1>3, <1>4, <1>5 DEF Told, s, q
<1>10. gen[d].step = "done" => /\ seen'[d] # <<>> \/ events'[d] # <<>>
                              /\ Newest(d)'.kind = "ready"
  <2>1. seen'[d] # <<>> /\ Last(seen'[d]) = q[1]
    BY <1>4, <1>5, EmptySeq DEF Last
  <2>2. Newest(d) = q[Len(q)]
    BY <1>1 DEF Newest, Last, q
  <2>3. events'[d] = <<>> => Len(q) = 1
    <3>1. ASSUME Tail(q) = <<>> PROVE Len(q) - 1 = 0
      BY <1>3, <3>1, EmptySeq
    <3> QED BY <1>3, <1>5, <3>1
  <2>4. events'[d] # <<>> => Last(events'[d]) = q[Len(q)]
    <3>1. ASSUME Tail(q) # <<>> PROVE Len(q) - 1 > 0
      BY <1>3, <3>1, EmptySeq
    <3>2. ASSUME Len(q) - 1 > 0 PROVE Tail(q)[Len(q) - 1] = q[Len(q)]
      BY <1>3, <3>2
    <3> QED BY <1>3, <1>5, <3>1, <3>2 DEF Last
  <2> QED BY <1>2, <2>1, <2>2, <2>3, <2>4 DEF StreamInv, Newest
<1>11. gen[d].step # "idle"
  BY <1>1, <1>2 DEF StreamInv, q
<1>12. StreamInv(d)'
  BY <1>1, <1>2, <1>7, <1>8, <1>9, <1>10, <1>11 DEF StreamInv
<1> QED BY <1>1, <1>2, <1>5, <1>12, StreamStepIInv DEF TypeOK, GenRecords, Steps

(* The stream ends with the document, or with an error after a failure.    *)
LEMMA EndIInv ==
    ASSUME IInv, NEW d \in Docs, End(d)
    PROVE  IInv'
<1> DEFINE s == seen[d]  e == Of("error", 0)
<1>1. /\ conn[d] = "open" /\ gen[d].step \in {"done", "failed"} /\ events[d] = <<>>
      /\ conn' = [conn EXCEPT ![d] = "ended"]
      /\ seen' = IF gen[d].step = "failed" THEN [seen EXCEPT ![d] = Append(s, e)] ELSE seen
      /\ UNCHANGED <<gen, events, storeVars, askVars, saves, crashes>>
  BY DEF End
<1>2. TypeOK /\ StreamInv(d) /\ s \in Seq(Event) /\ e \in Event /\ e.kind = "error"
  BY ProgressEvents, StudioAssumption DEF IInv, TypeOK
<1>3. /\ Len(s) \in Nat /\ Append(s, e) \in Seq(Event) /\ Len(Append(s, e)) = Len(s) + 1
      /\ \A i \in 1..Len(s) : Append(s, e)[i] = s[i]
      /\ Append(s, e)[Len(s) + 1] = e
  BY <1>2, AppendProperties, LenProperties
<1> HIDE DEF e
<1>4. /\ seen' \in [Docs -> Seq(Event)] /\ conn' \in [Docs -> {"none", "open", "ended", "closed"}]
      /\ seen'[d] = IF gen[d].step = "failed" THEN Append(s, e) ELSE s
      /\ conn'[d] = "ended" /\ \A x \in Docs \ {d} : seen'[x] = seen[x] /\ conn'[x] = conn[x]
  BY <1>1, <1>2, <1>3 DEF TypeOK
<1>5. Ordered(s) /\ \A i \in 1..Len(s) : s[i] \in Event /\ Told(d, s[i])
  BY <1>2 DEF StreamInv, Told
<1> HIDE DEF s
<1>6. Ordered(seen'[d])
  <2>1. CASE gen[d].step = "failed"
    <3>1. \A i \in 1..Len(s) : Before(s[i], e)
      BY <1>2, <1>5, <2>1 DEF StreamInv, Before
    <3>2. Ordered(Append(s, e))
      BY <1>3, <1>5, <3>1 DEF Ordered
    <3> QED BY <1>4, <2>1, <3>2
  <2>2. CASE gen[d].step = "done"
    BY <1>4, <1>5, <2>2
  <2> QED BY <1>1, <2>1, <2>2
<1>7. seen'[d] # <<>> /\ Last(seen'[d]).kind = IF gen[d].step = "done" THEN "ready" ELSE "error"
  <2>1. CASE gen[d].step = "failed"
    BY <1>2, <1>3, <1>4, <2>1, EmptySeq DEF Last
  <2>2. CASE gen[d].step = "done"
    BY <1>1, <1>2, <1>4, <2>2 DEF StreamInv, Newest, s
  <2> QED BY <1>1, <2>1, <2>2
<1>8. \A x \in Event : Told(d, x)' => Told(d, x) \/ x = e
  BY <1>1, <1>3, <1>4 DEF Told, s
<1>9. Len(events'[d]) = 0 /\ Ordered(events'[d])
  BY <1>1 DEF Ordered
<1>10. StreamInv(d)'
  BY <1>1, <1>2, <1>4, <1>6, <1>7, <1>8, <1>9 DEF StreamInv, Running, Newest
<1> QED BY <1>1, <1>2, <1>4, <1>10, StreamStepIInv DEF TypeOK, GenRecords, Steps

(* The client is gone, and with it perhaps the task.                       *)
LEMMA LeaveIInv ==
    ASSUME IInv, NEW d \in Docs, Leave(d)
    PROVE  IInv'
<1>1. /\ conn[d] = "open" /\ conn' = [conn EXCEPT ![d] = "closed"]
      /\ \/ gen[d].step \in Running /\ gen' = [gen EXCEPT ![d] = [gen[d] EXCEPT !.step = "cancelled"]]
         \/ UNCHANGED gen
      /\ UNCHANGED <<events, seen, storeVars, askVars, saves, crashes>>
  BY DEF Leave
<1>2. TypeOK /\ gen[d] \in GenRecords
  BY DEF IInv, TypeOK, GenRecords, Steps
<1>3. /\ [gen[d] EXCEPT !.step = "cancelled"] \in GenRecords
      /\ [gen[d] EXCEPT !.step = "cancelled"].step = "cancelled"
      /\ [gen[d] EXCEPT !.step = "cancelled"].section = gen[d].section
  BY <1>2 DEF GenRecords, Steps
<1>4. /\ gen' \in [Docs -> GenRecords] /\ gen'[d].section = gen[d].section
      /\ \/ gen'[d].step = gen[d].step
         \/ gen[d].step \in Running /\ gen'[d].step \in {"cancelled", "lost"}
      /\ \A x \in Docs \ {d} : gen'[x] = gen[x]
  <2>1. gen \in [Docs -> GenRecords]
    BY <1>2 DEF TypeOK, GenRecords, Steps
  <2>2. CASE UNCHANGED gen
    BY <2>1, <2>2
  <2>3. CASE gen[d].step \in Running /\ gen' = [gen EXCEPT ![d] = [gen[d] EXCEPT !.step = "cancelled"]]
    <3> DEFINE new == [gen[d] EXCEPT !.step = "cancelled"]
    <3>1. new \in GenRecords /\ new.step = "cancelled" /\ new.section = gen[d].section
      BY <1>3
    <3> HIDE DEF new
    <3> QED BY <2>1, <2>3, <3>1 DEF new
  <2> QED BY <1>1, <2>2, <2>3
<1>5. /\ conn' \in [Docs -> {"none", "open", "ended", "closed"}] /\ conn'[d] = "closed"
      /\ \A x \in Docs \ {d} : conn'[x] = conn[x]
  BY <1>1, <1>2 DEF TypeOK
<1>6. StreamInv(d)'
  BY <1>1, <1>4, <1>5, StreamKept DEF IInv
<1> QED BY <1>1, <1>2, <1>4, <1>5, <1>6, StreamStepIInv DEF TypeOK

-----------------------------------------------------------------------------
(* The number of a new version is the next one: a count does for it while  *)
(* no version is ever dropped alone.                                       *)
LEMMA NextVersion ==
    ASSUME TypeOK, NEW d \in Docs, NumberInv(d), NEW c,
           versions'[d] = versions[d] \cup {[num |-> NextNumber(d), content |-> c]}, saves' = saves + 1
    PROVE  NumberInv(d)' /\ NextNumber(d) \in 1..(saves + 2)
<1> DEFINE n == Cardinality(versions[d])
           new == [num |-> n + 1, content |-> c]
<1>1. n \in Nat /\ n <= saves + 1 /\ saves \in Nat /\ IsFiniteSet(versions[d])
  BY FS_CardinalityType, StudioAssumption DEF NumberInv, TypeOK
<1>2. NextNumber(d) = n + 1 /\ versions'[d] = versions[d] \cup {new}
  BY DEF NextNumber
<1>3. /\ {v.num : v \in versions[d]} = 1..n
      /\ \A u, v \in versions[d] : u.num = v.num => u = v
  BY DEF NumberInv
<1>4. new.num = n + 1
  OBVIOUS
<1> HIDE DEF new
<1>5. \A v \in versions[d] : v.num \in 1..n
  BY <1>3
<1> HIDE DEF n
<1>6. \A v \in versions[d] : v.num # n + 1
  BY <1>1, <1>5
<1>7. new \notin versions[d]
  BY <1>4, <1>6
<1>8. IsFiniteSet(versions'[d]) /\ Cardinality(versions'[d]) = n + 1
  <2>1. IsFiniteSet(versions[d] \cup {new}) /\ Cardinality(versions[d] \cup {new}) = Cardinality(versions[d]) + 1
    BY <1>1, <1>7, FS_AddElement
  <2> QED BY <1>2, <2>1 DEF n
<1>9. {v.num : v \in versions'[d]} = 1..(n + 1)
  <2>1. {v.num : v \in versions'[d]} = {v.num : v \in versions[d]} \cup {n + 1}
    BY <1>2, <1>4
  <2>2. 1..(n + 1) = (1..n) \cup {n + 1}
    BY <1>1
  <2> QED BY <1>3, <2>1, <2>2
<1>10. \A u, v \in versions'[d] : u.num = v.num => u = v
  BY <1>2, <1>3, <1>4, <1>6
<1>11. n + 1 <= saves' + 1 /\ n + 1 \in 1..(saves + 2)
  BY <1>1
<1> QED BY <1>2, <1>8, <1>9, <1>10, <1>11 DEF NumberInv

(* A step of the store of d: no task and no stream moves.                  *)
LEMMA StoreStepIInv ==
    ASSUME IInv, NEW d \in Docs, UNCHANGED <<streamVars, askVars, crashes>>,
           content' \in [Docs -> {None} \cup 0..MaxSaves],
           versions' \in [Docs -> SUBSET [num : 1..(MaxSaves + 1), content : 0..MaxSaves]],
           signatures' \in SUBSET Docs, deleted' \in SUBSET Docs,
           saves' \in 0..MaxSaves, saves <= saves',
           \A x \in Docs \ {d} : /\ content'[x] = content[x] /\ versions'[x] = versions[x]
                                 /\ x \in signatures' <=> x \in signatures
                                 /\ x \in deleted' <=> x \in deleted,
           StoreInv(d)', NumberInv(d)'
    PROVE  IInv'
<1>1. /\ UNCHANGED <<gen, events, seen, conn, plans, ask, executed, crashes>> /\ TypeOK
      /\ saves' \in Nat
  BY StudioAssumption DEF IInv, streamVars, askVars
<1>2. TypeOK'
  BY <1>1 DEF TypeOK
<1>3. ASSUME NEW x \in Docs PROVE StreamInv(x)'
  BY <1>1, StreamKept DEF IInv
<1>4. ASSUME NEW x \in Docs PROVE StoreInv(x)' /\ NumberInv(x)'
  BY <1>1, StoreKept DEF IInv, Exists
<1> QED BY <1>2, <1>3, <1>4 DEF IInv

(* The first transaction of a save.                                        *)
LEMMA ContentPut ==
    ASSUME IInv, NEW d \in Docs, PutContent(d)
    PROVE  /\ content' \in [Docs -> {None} \cup 0..MaxSaves] /\ Exists(d) /\ Exists(d)'
           /\ \A x \in Docs \ {d} : content'[x] = content[x]
           /\ saves \in Nat /\ MaxSaves \in Nat /\ saves' = saves + 1 /\ saves' \in 0..MaxSaves
           /\ UNCHANGED <<signatures, deleted>>
<1>1. /\ content[d] # None /\ saves < MaxSaves /\ saves' = saves + 1
      /\ content' = [content EXCEPT ![d] = saves + 1] /\ UNCHANGED <<signatures, deleted>>
  BY DEF PutContent, Exists
<1>2. saves \in Nat /\ MaxSaves \in Nat /\ content \in [Docs -> {None} \cup 0..MaxSaves]
  BY StudioAssumption DEF IInv, TypeOK
<1>3. saves + 1 \in 0..MaxSaves /\ saves + 1 # None
  BY <1>1, <1>2 DEF None
<1> QED BY <1>1, <1>2, <1>3 DEF Exists

(* An autosave changes the content and no version.                         *)
LEMMA AutosaveIInv ==
    ASSUME IInv, NEW d \in Docs, Autosave(d)
    PROVE  IInv'
<1>1. PutContent(d) /\ UNCHANGED <<streamVars, versions, askVars, crashes>>
  BY DEF Autosave
<1>2. UNCHANGED <<gen, signatures, deleted>> /\ Exists(d) /\ Exists(d)' /\ saves \in Nat /\ saves' = saves + 1
  BY <1>1, ContentPut DEF streamVars
<1>3. StoreInv(d)' /\ NumberInv(d)'
  <2>1. saves' \in Nat /\ saves <= saves'
    BY <1>2
  <2> QED BY <1>1, <1>2, <2>1, StoreKept DEF IInv
<1>4. saves <= saves'
  BY <1>2
<1> QED BY <1>1, <1>3, <1>4, ContentPut, StoreStepIInv DEF IInv, TypeOK

(* A saved version gets the number after the ones there are.               *)
LEMMA SaveVersionIInv ==
    ASSUME IInv, NEW d \in Docs, SaveVersion(d)
    PROVE  IInv'
<1> DEFINE new == [num |-> NextNumber(d), content |-> saves + 1]
<1>1. /\ PutContent(d) /\ UNCHANGED <<streamVars, askVars, crashes>>
      /\ versions' = [versions EXCEPT ![d] = versions[d] \cup {new}]
  BY DEF SaveVersion, WithVersion
<1>2. /\ UNCHANGED <<gen, signatures, deleted>> /\ Exists(d) /\ Exists(d)'
      /\ saves \in Nat /\ MaxSaves \in Nat /\ saves' = saves + 1 /\ saves' \in 0..MaxSaves
  BY <1>1, ContentPut DEF streamVars
<1>3. /\ versions'[d] = versions[d] \cup {new}
      /\ \A x \in Docs \ {d} : versions'[x] = versions[x]
  BY <1>1 DEF IInv, TypeOK
<1>4. NumberInv(d)' /\ NextNumber(d) \in 1..(saves + 2)
  BY <1>2, <1>3, NextVersion DEF IInv
<1>5. new \in [num : 1..(MaxSaves + 1), content : 0..MaxSaves]
  <2>1. NextNumber(d) \in 1..(MaxSaves + 1)
    BY <1>2, <1>4
  <2> QED BY <1>2, <2>1
<1> HIDE DEF new
<1>6. versions' \in [Docs -> SUBSET [num : 1..(MaxSaves + 1), content : 0..MaxSaves]]
  BY <1>1, <1>5 DEF IInv, TypeOK
<1>7. StoreInv(d)'
  BY <1>2, <1>3 DEF IInv, StoreInv, Whole
<1>8. saves <= saves'
  BY <1>2
<1> QED BY <1>1, <1>3, <1>4, <1>6, <1>7, <1>8, ContentPut, StoreStepIInv DEF IInv, TypeOK

(* A delete leaves nothing of the document.                                *)
LEMMA DeleteIInv ==
    ASSUME IInv, NEW d \in Docs, Delete(d)
    PROVE  IInv'
<1>1. /\ content[d] # None /\ content' = [content EXCEPT ![d] = None]
      /\ versions' = [versions EXCEPT ![d] = {}] /\ signatures' = signatures \ {d}
      /\ deleted' = deleted \cup {d} /\ UNCHANGED <<streamVars, askVars, crashes>>
      /\ UNCHANGED saves /\ UNCHANGED gen
  BY DEF Delete, Exists, streamVars
<1>2. TypeOK /\ saves \in 0..MaxSaves /\ saves \in Nat
  BY StudioAssumption DEF IInv, TypeOK
<1>3. /\ content' \in [Docs -> {None} \cup 0..MaxSaves] /\ content'[d] = None
      /\ versions' \in [Docs -> SUBSET [num : 1..(MaxSaves + 1), content : 0..MaxSaves]]
      /\ versions'[d] = {}
      /\ \A x \in Docs \ {d} : content'[x] = content[x] /\ versions'[x] = versions[x]
  BY <1>1, <1>2 DEF TypeOK
<1>4. gen[d].step \in Over
  BY <1>1 DEF IInv, StoreInv, Exists
<1>5. StoreInv(d)'
  BY <1>1, <1>3, <1>4 DEF StoreInv, Exists
<1>6. NumberInv(d)'
  BY <1>1, <1>2, <1>3, NoVersions
<1>7. signatures' \in SUBSET Docs /\ deleted' \in SUBSET Docs /\ saves' \in 0..MaxSaves /\ saves <= saves'
  BY <1>1, <1>2 DEF TypeOK
<1>8. \A x \in Docs \ {d} : /\ x \in signatures' <=> x \in signatures
                            /\ x \in deleted' <=> x \in deleted
  BY <1>1
<1> QED BY <1>1, <1>3, <1>5, <1>6, <1>7, <1>8, StoreStepIInv

-----------------------------------------------------------------------------
(* Requests about a document touch neither store nor streams.              *)
LEMMA AskIInv ==
    ASSUME IInv, UNCHANGED <<streamVars, storeVars, saves, crashes>>,
           plans' \in SUBSET Asks,
           ask' \in [Asks -> Waiting \cup {"idle", "planned", "replied", "failed", "lost"}],
           executed' \in [Asks -> {"never", "error"}]
    PROVE  IInv'
<1>1. /\ UNCHANGED <<gen, events, seen, conn, content, versions, signatures, deleted, saves, crashes>>
      /\ TypeOK /\ saves \in Nat
  BY StudioAssumption DEF IInv, TypeOK, streamVars, storeVars
<1>2. TypeOK'
  BY <1>1 DEF TypeOK
<1>3. ASSUME NEW x \in Docs PROVE StreamInv(x)' /\ StoreInv(x)' /\ NumberInv(x)'
  <2>1. saves' \in Nat /\ saves <= saves'
    BY <1>1
  <2> QED BY <1>1, <2>1, StreamKept, StoreKept DEF IInv, Exists
<1> QED BY <1>2, <1>3 DEF IInv

(* Requests about a document change none.                                  *)
LEMMA AskStepIInv ==
    ASSUME IInv, NEW a \in Asks, Request(a) \/ Answer(a) \/ Execute(a)
    PROVE  IInv'
<1>1. UNCHANGED <<streamVars, storeVars, saves, crashes>>
  BY DEF Request, Answer, Searched, Planned, PlanFails, Replied, Execute
<1>2. plans' \in SUBSET Asks
  BY DEF IInv, TypeOK, Request, Answer, Searched, Planned, PlanFails, Replied, Execute
<1>3. executed' \in [Asks -> {"never", "error"}]
  BY DEF IInv, TypeOK, Request, Answer, Searched, Planned, PlanFails, Replied, Execute
<1>4. ask' \in [Asks -> Waiting \cup {"idle", "planned", "replied", "failed", "lost"}]
  <2>1. ask \in [Asks -> Waiting \cup {"idle", "planned", "replied", "failed", "lost"}]
    BY DEF IInv, TypeOK
  <2>2. UNCHANGED ask \/ \E pc \in Waiting \cup {"planned", "replied", "failed"} : To(a, pc)
    BY DEF Request, Answer, Searched, Planned, PlanFails, Replied, Execute, Waiting
  <2> QED BY <2>1, <2>2 DEF To
<1> QED BY <1>1, <1>2, <1>3, <1>4, AskIInv

-----------------------------------------------------------------------------
(* The process dies: every running task is lost, with its stream as it is. *)
LEMMA DownStreams ==
    ASSUME IInv, Down
    PROVE  /\ gen' \in [Docs -> GenRecords] /\ UNCHANGED <<events, seen, plans, executed>>
           /\ conn' \in [Docs -> {"none", "open", "ended", "closed"}]
           /\ ask' \in [Asks -> Waiting \cup {"idle", "planned", "replied", "failed", "lost"}]
           /\ crashes' \in 0..MaxCrashes
           /\ \A d \in Docs : /\ StreamInv(d)'
                              /\ gen'[d].step = IF gen[d].step \in Running THEN "lost" ELSE gen[d].step
<1>1. /\ crashes < MaxCrashes /\ crashes' = crashes + 1
      /\ gen' = [d \in Docs |-> IF gen[d].step \in Running THEN [gen[d] EXCEPT !.step = "lost"] ELSE gen[d]]
      /\ ask' = [a \in Asks |-> IF ask[a] \in Waiting THEN "lost" ELSE ask[a]]
      /\ conn' = [d \in Docs |-> IF conn[d] = "open" THEN "closed" ELSE conn[d]]
      /\ UNCHANGED <<events, seen, plans, executed>>
  BY DEF Down
<1>2. TypeOK
  BY DEF IInv
<1>3. ASSUME NEW d \in Docs
      PROVE  /\ gen'[d] \in GenRecords /\ gen'[d].section = gen[d].section
             /\ gen'[d].step = IF gen[d].step \in Running THEN "lost" ELSE gen[d].step
  <2> DEFINE new == [gen[d] EXCEPT !.step = "lost"]
  <2>1. gen[d] \in GenRecords
    BY <1>2 DEF TypeOK, GenRecords, Steps
  <2>2. new \in GenRecords /\ new.step = "lost" /\ new.section = gen[d].section
    BY <2>1 DEF GenRecords, Steps
  <2>3. gen'[d] = IF gen[d].step \in Running THEN new ELSE gen[d]
    BY <1>1
  <2> HIDE DEF new
  <2> QED BY <2>1, <2>2, <2>3
<1>4. gen' \in [Docs -> GenRecords]
  BY <1>1, <1>3
<1>5. /\ conn' \in [Docs -> {"none", "open", "ended", "closed"}]
      /\ ask' \in [Asks -> Waiting \cup {"idle", "planned", "replied", "failed", "lost"}]
  BY <1>1, <1>2 DEF TypeOK
<1>6. crashes' \in 0..MaxCrashes
  BY <1>1, <1>2, StudioAssumption DEF TypeOK
<1>7. ASSUME NEW d \in Docs PROVE StreamInv(d)'
  <2>1. conn'[d] = "ended" => conn[d] = "ended"
    BY <1>1
  <2> QED BY <1>1, <1>3, <2>1, StreamKept DEF IInv
<1> QED BY <1>1, <1>3, <1>4, <1>5, <1>6, <1>7

(* The server dies: tasks, streams and requests are gone, the tables stay. *)
LEMMA DownIInv ==
    ASSUME IInv, Down,
           content' \in [Docs -> {None} \cup 0..MaxSaves],
           versions' \in [Docs -> SUBSET [num : 1..(MaxSaves + 1), content : 0..MaxSaves]],
           signatures' \in SUBSET Docs, deleted' \in SUBSET Docs, saves' \in 0..MaxSaves,
           \A x \in Docs : StoreInv(x)' /\ NumberInv(x)'
    PROVE  IInv'
<1>1. TypeOK'
  BY DownStreams DEF IInv, TypeOK, GenRecords, Steps
<1> QED BY <1>1, DownStreams DEF IInv

(* A document that a crash does not concern.                               *)
LEMMA DownKept ==
    ASSUME IInv, Down, NEW x \in Docs, Exists(x)' <=> Exists(x), versions'[x] = versions[x],
           x \in signatures' <=> x \in signatures, x \in deleted' <=> x \in deleted,
           saves' \in Nat, saves <= saves'
    PROVE  StoreInv(x)' /\ NumberInv(x)'
<1>1. \/ gen'[x].step = gen[x].step
      \/ gen[x].step \in Running /\ gen'[x].step \in {"cancelled", "lost"}
  BY DownStreams
<1> QED BY <1>1, StoreKept DEF IInv

(* A crash between the handlers.                                           *)
LEMMA CrashIInv ==
    ASSUME IInv, Crash
    PROVE  IInv'
<1>1. Down /\ UNCHANGED <<content, versions, signatures, deleted, saves>>
  BY DEF Crash, storeVars
<1>2. saves \in Nat /\ saves <= saves
  BY StudioAssumption DEF IInv, TypeOK
<1>3. \A x \in Docs : StoreInv(x)' /\ NumberInv(x)'
  BY <1>1, <1>2, DownKept DEF Exists
<1> QED BY <1>1, <1>3, DownIInv DEF IInv, TypeOK

(* ... between the transactions that store a document ...                  *)
LEMMA CrashCompletingIInv ==
    ASSUME IInv, NEW d \in Docs, CrashCompleting(d)
    PROVE  IInv'
<1>1. PICK k \in 1..2 : Stored(d, k)
  BY DEF CrashCompleting
<1>2. Down /\ LastSection(d) /\ UNCHANGED saves /\ k \in 0..3
  BY DEF CrashCompleting
<1>3. gen'[d].step = "lost"
  BY <1>2, DownStreams DEF LastSection, Running
<1>4. gen'[d].step \in Over /\ gen'[d].step # "done"
  BY <1>3 DEF Over
<1>5. /\ content' \in [Docs -> {None} \cup 0..MaxSaves]
      /\ versions' \in [Docs -> SUBSET [num : 1..(MaxSaves + 1), content : 0..MaxSaves]]
      /\ signatures' \in SUBSET Docs /\ deleted' = deleted
      /\ \A x \in Docs \ {d} : /\ content'[x] = content[x] /\ versions'[x] = versions[x]
                               /\ x \in signatures' <=> x \in signatures
      /\ StoreInv(d)' /\ NumberInv(d)'
  BY <1>1, <1>2, <1>4, StoredDocument
<1>6. saves \in Nat /\ saves <= saves /\ saves \in 0..MaxSaves
  BY StudioAssumption DEF IInv, TypeOK
<1>7. ASSUME NEW x \in Docs \ {d} PROVE StoreInv(x)' /\ NumberInv(x)'
  BY <1>2, <1>5, <1>6, DownKept DEF Exists
<1> QED BY <1>2, <1>5, <1>6, <1>7, DownIInv DEF IInv, TypeOK

(* ... or between those of a save.                                         *)
LEMMA CrashSavingIInv ==
    ASSUME IInv, NEW d \in Docs, CrashSaving(d)
    PROVE  IInv'
<1>1. Down /\ PutContent(d) /\ UNCHANGED versions
  BY DEF CrashSaving
<1>2. /\ content' \in [Docs -> {None} \cup 0..MaxSaves] /\ Exists(d) /\ Exists(d)'
      /\ \A x \in Docs \ {d} : content'[x] = content[x]
      /\ saves \in Nat /\ MaxSaves \in Nat /\ saves' = saves + 1 /\ saves' \in 0..MaxSaves
      /\ UNCHANGED <<signatures, deleted>>
  BY <1>1, ContentPut
<1>3. saves' \in Nat /\ saves <= saves'
  BY <1>2
<1>4. ASSUME NEW x \in Docs PROVE StoreInv(x)' /\ NumberInv(x)'
  <2>1. Exists(x)' <=> Exists(x)
    BY <1>2 DEF Exists
  <2> QED BY <1>1, <1>2, <1>3, <2>1, DownKept
<1> QED BY <1>1, <1>2, <1>4, DownIInv DEF IInv, TypeOK

-----------------------------------------------------------------------------
(* Nothing is generated yet.                                               *)
LEMMA InitIInv ==
    ASSUME Init
    PROVE  IInv
<1>1. /\ MaxSaves \in Nat /\ MaxTokens \in Nat /\ MaxCrashes \in Nat /\ Sections \in Nat
      /\ <<>> \in Seq(Event) /\ Len(<<>>) = 0
  BY StudioAssumption
<1>2. gen \in [Docs -> GenRecords]
  BY <1>1 DEF Init, GenRecords, Steps
<1>3. TypeOK
  <2>1. 0 \in 0..MaxSaves /\ 0 \in 0..MaxCrashes
    BY <1>1
  <2> QED BY <1>1, <1>2, <2>1 DEF Init, TypeOK, GenRecords, Steps
<1>4. ASSUME NEW d \in Docs PROVE StoreInv(d) /\ StreamInv(d)
  BY <1>1 DEF Init, StoreInv, StreamInv, Exists, Over, Running, Ordered, Told
<1>5. ASSUME NEW d \in Docs PROVE NumberInv(d)
  BY FS_EmptySet DEF Init, NumberInv
<1> QED BY <1>3, <1>4, <1>5 DEF IInv

(* Nothing moves.                                                          *)
LEMMA IdleIInv ==
    ASSUME IInv, UNCHANGED vars
    PROVE  IInv'
BY AskIInv DEF IInv, TypeOK, vars, streamVars, storeVars, askVars

(* So every step preserves IInv.                                           *)
LEMMA NextIInv ==
    ASSUME IInv, Next
    PROVE  IInv'
<1>1. ASSUME NEW d \in Docs, Start(d) \/ Generate(d) PROVE IInv'
  BY <1>1, StartIInv, GenerateIInv
<1>2. ASSUME NEW d \in Docs, Deliver(d) \/ End(d) \/ Leave(d) PROVE IInv'
  BY <1>2, DeliverIInv, EndIInv, LeaveIInv
<1>3. ASSUME NEW d \in Docs, Autosave(d) \/ SaveVersion(d) \/ Delete(d) PROVE IInv'
  BY <1>3, AutosaveIInv, SaveVersionIInv, DeleteIInv
<1>4. ASSUME NEW d \in Docs, CrashCompleting(d) \/ CrashSaving(d) PROVE IInv'
  BY <1>4, CrashCompletingIInv, CrashSavingIInv
<1>5. ASSUME NEW a \in Asks, Request(a) \/ Answer(a) \/ Execute(a) PROVE IInv'
  BY <1>5, AskStepIInv
<1> QED BY <1>1, <1>2, <1>3, <1>4, <1>5, CrashIInv DEF Next

(* However generations, streams, saves, requests and crashes interleave,   *)
(* IInv holds: what was told and what waits is in order, and a document    *)
(* exists only after its task.                                             *)
THEOREM StudioInvariant == Spec => []IInv
<1>1. Init => IInv
  BY InitIInv
<1>2. IInv /\ [Next]_vars => IInv'
  BY NextIInv, IdleIInv
<1> QED BY <1>1, <1>2, PTL DEF Spec

(* A document announced as ready is whole until it is deleted              *)
(* (generator.py:568-582).                                                 *)
THEOREM StudioReadyMeansWhole == Spec => []ReadyMeansWhole
<1>1. IInv => ReadyMeansWhole
  <2> SUFFICES ASSUME IInv, NEW d \in Docs, "ready" \in Kinds(d), d \notin deleted PROVE Whole(d)
    BY DEF ReadyMeansWhole
  <2>1. PICK i \in 1..Len(seen[d]) : seen[d][i].kind = "ready"
    BY DEF Kinds
  <2>2. seen[d][i] \in Event /\ Told(d, seen[d][i])
    BY DEF IInv, TypeOK, Told
  <2> QED BY <2>1, <2>2 DEF IInv, StreamInv, StoreInv
<1> QED BY <1>1, StudioInvariant, PTL

(* The client is told everything in order, to the end                      *)
(* (generated_documents.py:112-137).                                       *)
THEOREM StudioStreamTold == Spec => []StreamTold
<1>1. IInv => StreamTold
  BY DEF IInv, StreamTold, StreamInv, Newest
<1> QED BY <1>1, StudioInvariant, PTL

(* The versions are numbered without a gap (generated_documents.py:216).   *)
THEOREM StudioVersionsNumbered == Spec => []VersionsNumbered
<1>1. IInv => VersionsNumbered
  BY DEF IInv, VersionsNumbered, NumberInv
<1> QED BY <1>1, StudioInvariant, PTL

(* No version and no signature without its document, and no document of a  *)
(* cancelled generation (generated_documents.py:124, 248).                 *)
THEOREM StudioNoOrphans == Spec => []NoOrphans
<1>1. IInv => NoOrphans
  BY DEF IInv, NoOrphans, StoreInv, Over
<1> QED BY <1>1, StudioInvariant, PTL

-----------------------------------------------------------------------------
(* The store implements VersionedDocument.  The versions of a document,    *)
(* ordered by their numbers, are its history.                              *)
Phase(d) == IF Exists(d) THEN "live" ELSE IF d \in deleted THEN "deleted" ELSE "unborn"

Phases == [d \in Docs |-> Phase(d)]
Histories == [d \in Docs |-> History(d)]

Versions == SUBSET [num : 1..(MaxSaves + 1), content : 0..MaxSaves]

Numbered(vs) ==
    /\ IsFiniteSet(vs)
    /\ {v.num : v \in vs} = 1..Cardinality(vs)
    /\ \A u, v \in vs : u.num = v.num => u = v

Numbering(vs, i) == CHOOSE v \in vs : v.num = i

(* Each number up to their count is that of one version.                   *)
LEMMA HistoryTyped ==
    ASSUME NEW vs \in Versions, Numbered(vs)
    PROVE  /\ HistoryOf(vs) \in Seq(0..MaxSaves) /\ Len(HistoryOf(vs)) = Cardinality(vs)
           /\ Cardinality(vs) \in Nat
           /\ \A v \in vs : v.num \in 1..Cardinality(vs) /\ HistoryOf(vs)[v.num] = v.content
<1> DEFINE n == Cardinality(vs)
<1>1. n \in Nat /\ HistoryOf(vs) = [i \in 1..n |-> Numbering(vs, i).content]
  BY FS_CardinalityType DEF Numbered, HistoryOf, Numbering
<1>2. \A v \in vs : v.num \in 1..n
  BY DEF Numbered
<1>3. \A u, v \in vs : u.num = v.num => u = v
  BY DEF Numbered
<1>4. ASSUME NEW i \in 1..n PROVE Numbering(vs, i) \in vs /\ Numbering(vs, i).num = i
  <2>1. \E v \in vs : v.num = i
    BY DEF Numbered
  <2> QED BY <2>1 DEF Numbering
<1> HIDE DEF n
<1>5. ASSUME NEW i \in 1..n PROVE Numbering(vs, i).content \in 0..MaxSaves
  BY <1>4 DEF Versions
<1>6. ASSUME NEW v \in vs PROVE HistoryOf(vs)[v.num] = v.content
  <2>1. v.num \in 1..n
    BY <1>2
  <2>2. Numbering(vs, v.num) = v
    BY <1>3, <1>4, <2>1
  <2> QED BY <1>1, <2>1, <2>2
<1>7. HistoryOf(vs) \in [1..n -> 0..MaxSaves]
  BY <1>1, <1>5
<1>8. HistoryOf(vs) \in Seq(0..MaxSaves) /\ Len(HistoryOf(vs)) = n
  BY <1>1, <1>7
<1> QED BY <1>1, <1>2, <1>6, <1>8 DEF n

(* No versions, no history.                                                *)
LEMMA NoHistory == HistoryOf({}) = <<>>
<1>1. Cardinality({}) = 0 /\ 1..0 = {}
  BY FS_EmptySet
<1> QED BY <1>1 DEF HistoryOf

(* A version with the next number becomes the last of the history.         *)
LEMMA HistoryGrows ==
    ASSUME NEW vs \in Versions, NEW ws \in Versions, Numbered(vs), Numbered(ws), NEW c \in 0..MaxSaves,
           ws = vs \cup {[num |-> Cardinality(vs) + 1, content |-> c]},
           Cardinality(ws) = Cardinality(vs) + 1
    PROVE  HistoryOf(ws) = Append(HistoryOf(vs), c)
<1> DEFINE n == Cardinality(vs)
           new == [num |-> n + 1, content |-> c]
           h == HistoryOf(vs)
           k == HistoryOf(ws)
<1>1. /\ h \in Seq(0..MaxSaves) /\ Len(h) = n /\ n \in Nat
      /\ \A v \in vs : v.num \in 1..n /\ h[v.num] = v.content
  BY HistoryTyped
<1>2. /\ k \in Seq(0..MaxSaves) /\ Len(k) = n + 1
      /\ \A v \in ws : k[v.num] = v.content
  BY HistoryTyped
<1>3. new \in ws /\ new.num = n + 1 /\ new.content = c /\ vs \subseteq ws
  OBVIOUS
<1>4. {v.num : v \in vs} = 1..n
  BY DEF Numbered
<1> HIDE DEF new, h, k, n
<1>5. ASSUME NEW i \in 1..n PROVE k[i] = h[i]
  <2>1. PICK v \in vs : v.num = i
    BY <1>4
  <2> QED BY <1>1, <1>2, <1>3, <2>1
<1>6. k[n + 1] = c
  BY <1>2, <1>3
<1>7. /\ Append(h, c) \in Seq(0..MaxSaves) /\ Len(Append(h, c)) = n + 1
      /\ \A i \in 1..n : Append(h, c)[i] = h[i]
      /\ Append(h, c)[n + 1] = c
  BY <1>1, AppendProperties
<1>8. \A i \in 1..(n + 1) : k[i] = Append(h, c)[i]
  BY <1>1, <1>5, <1>6, <1>7
<1>9. k = Append(h, c)
  BY <1>2, <1>7, <1>8, SeqEqual
<1> QED BY <1>9 DEF h, k

(* The history of a document that was just completed.                      *)
LEMMA FirstHistory == HistoryOf({[num |-> 1, content |-> 0]}) = <<0>>
<1> DEFINE new == [num |-> 1, content |-> 0]
<1>1. Cardinality({new}) = 1
  BY FS_Singleton
<1>2. (CHOOSE v \in {new} : v.num = 1) = new
  OBVIOUS
<1>3. HistoryOf({new}) = [i \in 1..1 |-> 0]
  BY <1>1, <1>2 DEF HistoryOf
<1>4. [i \in 1..1 |-> 0] = <<0>>
  OBVIOUS
<1> QED BY <1>3, <1>4

(* A step moves the document whose phase or history it changes.            *)
LEMMA OtherDocuments ==
    ASSUME NEW d \in Docs, \A x \in Docs \ {d} : Phase(x)' = Phase(x) /\ versions'[x] = versions[x]
    PROVE  /\ Phases' = [Phases EXCEPT ![d] = Phase(d)']
           /\ Histories' = [Histories EXCEPT ![d] = HistoryOf(versions'[d])]
<1>1. /\ Phases' = [x \in Docs |-> Phase(x)'] /\ Phases = [x \in Docs |-> Phase(x)]
      /\ Histories' = [x \in Docs |-> HistoryOf(versions'[x])]
      /\ Histories = [x \in Docs |-> HistoryOf(versions[x])]
  BY DEF Phases, Histories, History
<1>2. Phases' = [Phases EXCEPT ![d] = Phase(d)']
  BY <1>1
<1>3. Histories' = [Histories EXCEPT ![d] = HistoryOf(versions'[d])]
  BY <1>1
<1> QED BY <1>2, <1>3

(* Nothing the abstract document sees changes.                             *)
LEMMA StoreStutters ==
    ASSUME \A x \in Docs : Phase(x)' = Phase(x) /\ versions'[x] = versions[x]
    PROVE  UNCHANGED <<Phases, Histories>>
<1>1. /\ Phases' = [x \in Docs |-> Phase(x)'] /\ Phases = [x \in Docs |-> Phase(x)]
      /\ Histories' = [x \in Docs |-> HistoryOf(versions'[x])]
      /\ Histories = [x \in Docs |-> HistoryOf(versions[x])]
  BY DEF Phases, Histories, History
<1> QED BY <1>1

(* A step of the abstract document.                                        *)
AbstractStep == Abstract!Next \/ UNCHANGED <<Phases, Histories>>

(* The transactions that store a document: it appears once its row is      *)
(* there.                                                                  *)
LEMMA StoredAppears ==
    ASSUME IInv, NEW d \in Docs, LastSection(d), NEW k \in 0..3, Stored(d, k)
    PROVE  AbstractStep
<1>1. content[d] = None /\ versions[d] = {} /\ d \notin signatures /\ d \notin deleted /\ TypeOK
  BY DEF IInv, StoreInv, LastSection, Over, Exists
<1>2. /\ content'[d] = IF k >= 1 THEN 0 ELSE None
      /\ versions'[d] = IF k >= 2 THEN {[num |-> 1, content |-> 0]} ELSE {}
      /\ deleted' = deleted
      /\ \A x \in Docs \ {d} : content'[x] = content[x] /\ versions'[x] = versions[x]
  BY <1>1 DEF Stored, TypeOK
<1>3. \A x \in Docs \ {d} : Phase(x)' = Phase(x) /\ versions'[x] = versions[x]
  BY <1>2 DEF Phase, Exists
<1>4. Phase(d) = "unborn" /\ Phase(d)' = IF k >= 1 THEN "live" ELSE "unborn"
  BY <1>1, <1>2 DEF Phase, Exists, None
<1>5. CASE k = 0
  <2>1. Phase(d)' = Phase(d) /\ versions'[d] = versions[d]
    BY <1>1, <1>2, <1>4, <1>5
  <2> QED BY <1>3, <2>1, StoreStutters DEF AbstractStep
<1>6. CASE k >= 1
  <2>1. Phases[d] = "unborn" /\ Phases' = [Phases EXCEPT ![d] = "live"]
    BY <1>3, <1>4, <1>6, OtherDocuments DEF Phases
  <2>2. Histories' \in {Histories, [Histories EXCEPT ![d] = <<0>>]}
    <3>1. Histories' = [Histories EXCEPT ![d] = HistoryOf(versions'[d])]
      BY <1>3, OtherDocuments
    <3>2. Histories[d] = <<>> /\ Histories = [x \in Docs |-> HistoryOf(versions[x])]
      BY <1>1, NoHistory DEF Histories, History
    <3>3. CASE versions'[d] = {}
      BY <3>1, <3>2, <3>3, NoHistory
    <3>4. CASE versions'[d] = {[num |-> 1, content |-> 0]}
      BY <3>1, <3>4, FirstHistory
    <3> QED BY <1>2, <3>3, <3>4
  <2>3. Abstract!Appear(d)
    BY <2>1, <2>2 DEF Abstract!Appear, Phases, Histories, Phase
  <2> QED BY <2>3 DEF AbstractStep, Abstract!Next
<1> QED BY <1>5, <1>6

(* A saved version is the next of the history.                             *)
LEMMA SaveVersionAppends ==
    ASSUME IInv, IInv', NEW d \in Docs, SaveVersion(d)
    PROVE  AbstractStep
<1> DEFINE c == saves + 1
           new == [num |-> NextNumber(d), content |-> c]
<1>1. /\ PutContent(d) /\ versions' = [versions EXCEPT ![d] = versions[d] \cup {new}]
  BY DEF SaveVersion, WithVersion
<1>2. /\ UNCHANGED deleted /\ Exists(d) /\ Exists(d)' /\ c \in 0..MaxSaves
      /\ \A x \in Docs \ {d} : content'[x] = content[x]
  BY <1>1, ContentPut
<1>3. /\ versions'[d] = versions[d] \cup {new} /\ versions[d] \in Versions /\ versions'[d] \in Versions
      /\ \A x \in Docs \ {d} : versions'[x] = versions[x]
  BY <1>1 DEF IInv, TypeOK, Versions
<1>4. Numbered(versions[d]) /\ Numbered(versions'[d])
  BY DEF IInv, NumberInv, Numbered
<1>5. Cardinality(versions'[d]) = Cardinality(versions[d]) + 1 /\ NextNumber(d) = Cardinality(versions[d]) + 1
  <2>1. /\ Cardinality(versions[d]) \in Nat /\ NextNumber(d) = Cardinality(versions[d]) + 1
        /\ IsFiniteSet(versions[d])
    BY <1>4, FS_CardinalityType DEF NextNumber, Numbered
  <2>2. new \notin versions[d]
    <3>1. \A v \in versions[d] : v.num \in 1..Cardinality(versions[d])
      BY <1>4 DEF Numbered
    <3>2. new.num = Cardinality(versions[d]) + 1
      BY <2>1
    <3> HIDE DEF new
    <3> QED BY <2>1, <3>1, <3>2
  <2> HIDE DEF new
  <2> QED BY <1>3, <2>1, <2>2, FS_AddElement
<1>6. HistoryOf(versions'[d]) = Append(HistoryOf(versions[d]), c)
  BY <1>2, <1>3, <1>4, <1>5, HistoryGrows
<1> HIDE DEF c, new
<1>7. \A x \in Docs \ {d} : Phase(x)' = Phase(x) /\ versions'[x] = versions[x]
  BY <1>2, <1>3 DEF Phase, Exists
<1>8. Phases[d] = "live" /\ Phases' = Phases
  <2>1. Phase(d) = "live" /\ Phase(d)' = "live"
    BY <1>2 DEF Phase
  <2> QED BY <1>7, <2>1 DEF Phases
<1>9. Histories' = [Histories EXCEPT ![d] = Append(Histories[d], c)]
  BY <1>6, <1>7, OtherDocuments DEF Histories, History
<1>10. Abstract!Version(d, c)
  BY <1>8, <1>9 DEF Abstract!Version, Phases, Histories, Phase
<1> QED BY <1>2, <1>10 DEF AbstractStep, Abstract!Next

(* A delete is the end of the document.                                    *)
LEMMA DeleteVanishes ==
    ASSUME IInv, NEW d \in Docs, Delete(d)
    PROVE  AbstractStep
<1>1. /\ content[d] # None /\ content' = [content EXCEPT ![d] = None]
      /\ versions' = [versions EXCEPT ![d] = {}] /\ deleted' = deleted \cup {d} /\ TypeOK
  BY DEF Delete, Exists, IInv
<1>2. /\ content'[d] = None /\ versions'[d] = {}
      /\ \A x \in Docs \ {d} : content'[x] = content[x] /\ versions'[x] = versions[x]
  BY <1>1 DEF TypeOK
<1>3. \A x \in Docs \ {d} : Phase(x)' = Phase(x) /\ versions'[x] = versions[x]
  BY <1>1, <1>2 DEF Phase, Exists
<1>4. Phase(d) = "live" /\ Phase(d)' = "deleted"
  BY <1>1, <1>2 DEF Phase, Exists
<1>5. Phases[d] = "live" /\ Phases' = [Phases EXCEPT ![d] = "deleted"]
  BY <1>3, <1>4, OtherDocuments DEF Phases
<1>6. Histories' = [Histories EXCEPT ![d] = <<>>]
  BY <1>2, <1>3, OtherDocuments, NoHistory
<1>7. Abstract!Vanish(d)
  BY <1>5, <1>6 DEF Abstract!Vanish, Phases, Histories, Phase
<1> QED BY <1>7 DEF AbstractStep, Abstract!Next

(* Contents without a version, streams, requests and other crashes are not *)
(* seen.                                                                   *)
LEMMA UnseenStutters ==
    ASSUME UNCHANGED <<versions, deleted>>, \A x \in Docs : Exists(x)' <=> Exists(x)
    PROVE  AbstractStep
<1>1. \A x \in Docs : Phase(x)' = Phase(x) /\ versions'[x] = versions[x]
  BY DEF Phase
<1> QED BY <1>1, StoreStutters DEF AbstractStep

(* A content that is put changes nothing the abstract document shows.      *)
LEMMA PutStutters ==
    ASSUME IInv, NEW d \in Docs, PutContent(d), UNCHANGED versions
    PROVE  AbstractStep
<1>1. /\ UNCHANGED deleted /\ Exists(d) /\ Exists(d)'
      /\ \A x \in Docs \ {d} : content'[x] = content[x]
  BY ContentPut
<1> QED BY <1>1, UnseenStutters DEF Exists

(* So every step is one of the abstract store, or changes nothing of it.   *)
LEMMA NextImplements ==
    ASSUME IInv, IInv', [Next]_vars
    PROVE  AbstractStep
<1>1. ASSUME UNCHANGED storeVars PROVE AbstractStep
  BY <1>1, UnseenStutters DEF storeVars, Exists
<1>2. ASSUME NEW d \in Docs, Completed(d) \/ CompletionFails(d) \/ CrashCompleting(d) PROVE AbstractStep
  <2>1. LastSection(d) /\ \E k \in 0..3 : Stored(d, k)
    BY <1>2 DEF Completed, CompletionFails, CrashCompleting
  <2> QED BY <2>1, StoredAppears
<1>3. ASSUME NEW d \in Docs, Start(d) \/ Generate(d) PROVE AbstractStep
  BY <1>1, <1>2, <1>3 DEF Start, Generate, Retrieved, Widened, Titled, Token, Written
<1>4. ASSUME NEW d \in Docs, Deliver(d) \/ End(d) \/ Leave(d) PROVE AbstractStep
  BY <1>1, <1>4 DEF Deliver, End, Leave
<1>5. ASSUME NEW d \in Docs, Autosave(d) \/ SaveVersion(d) \/ Delete(d) PROVE AbstractStep
  BY <1>5, PutStutters, SaveVersionAppends, DeleteVanishes DEF Autosave
<1>6. ASSUME NEW d \in Docs, CrashCompleting(d) \/ CrashSaving(d) PROVE AbstractStep
  BY <1>2, <1>6, PutStutters DEF CrashSaving
<1>7. ASSUME NEW a \in Asks, Request(a) \/ Answer(a) \/ Execute(a) PROVE AbstractStep
  BY <1>1, <1>7 DEF Request, Answer, Searched, Planned, PlanFails, Replied, Execute
<1>8. ASSUME Crash \/ UNCHANGED vars PROVE AbstractStep
  BY <1>1, <1>8 DEF Crash, vars
<1> QED BY <1>3, <1>4, <1>5, <1>6, <1>7, <1>8 DEF Next

(* The store implements the abstract versioned document: a document        *)
(* appears once, its versions only grow, and with it they all go           *)
(* (generator.py:568-582, generated_documents.py:204-251).                 *)
THEOREM StudioImplements == Spec => Implements
<1>1. Init => Abstract!Init
  <2> SUFFICES ASSUME Init PROVE Abstract!Init
    OBVIOUS
  <2>1. \A d \in Docs : Phase(d) = "unborn" /\ versions[d] = {}
    BY DEF Init, Phase, Exists
  <2> QED BY <2>1, NoHistory DEF Abstract!Init, Phase, History
<1>2. IInv /\ IInv' /\ [Next]_vars => [Abstract!Next]_(Abstract!vars)
  BY NextImplements DEF AbstractStep, Abstract!vars, Phases, Histories, Phase
<1> QED BY <1>1, <1>2, StudioInvariant, PTL DEF Spec, Implements, Abstract!Spec

=============================================================================
