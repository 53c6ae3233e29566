-------------------------- MODULE LiveSettingsProofs --------------------------
(***************************************************************************)
(* What holds of changing settings for any number of documents, settings,  *)
(* requests and restarts: IInv is inductive, and it implies the invariants *)
(* of LiveSettings.  Each action has a lemma; a document that an action    *)
(* leaves alone keeps its DocInv by the lemma DocKept.  Then the same for  *)
(* EmbeddingCalls, which writes the cache those settings are checked with. *)
(***************************************************************************)
EXTENDS LiveSettings, EmbeddingCalls,
        FiniteSetTheorems, SequenceTheorems, WellFoundedInduction, TLAPS

(* Two settings whose providers go by different ids or models mismatch:    *)
(* what the cache holds of the one is foreign to the other.                *)
LEMMA EncodersMismatch ==
    ASSUME NEW e, NEW f, Encoder(e) # Encoder(f)
    PROVE  Encoder(e).id # f.name \/ Encoder(e).model # f.model
<1>1. /\ Encoder(e).model = e.model /\ Encoder(f).model = f.model
      /\ Encoder(e).id = IF e.name \in {"bge-m3", "sentence_transformers"} \/ e.model = "bge-m3"
                         THEN "local" ELSE e.name
      /\ Encoder(f).id = IF f.name \in {"bge-m3", "sentence_transformers"} \/ f.model = "bge-m3"
                         THEN "local" ELSE f.name
  BY DEF Encoder
<1>2. Encoder(e) = [id |-> Encoder(e).id, model |-> Encoder(e).model]
  BY DEF Encoder
<1>3. Encoder(f) = [id |-> Encoder(f).id, model |-> Encoder(f).model]
  BY DEF Encoder
<1>4. SUFFICES ASSUME Encoder(e).id = f.name, Encoder(e).model = f.model
               PROVE  FALSE
  OBVIOUS
<1>5. e.model = f.model
  BY <1>1, <1>4
<1>6. Encoder(e).id = Encoder(f).id
  BY <1>1, <1>4, <1>5
<1> QED BY <1>1, <1>2, <1>3, <1>5, <1>6

(* A document no step touched keeps its invariant while flag, size and     *)
(* vectors are kept for it.                                                *)
LEMMA DocKept ==
    ASSUME NEW d \in Docs, DocInv(d), doc'[d] = doc[d], doc[d].backend \in Backends,
           up' = up \/ doc[d].at \notin Working, made'.emb = made.emb,
           d \in chunks' => d \in chunks, d \in met' <=> d \in met,
           up' => up, flag => flag', unseen' = unseen,
           \A b \in Backends : vectors'[b][d] = vectors[b][d],
           size' = size \/ (~doc[d].pinned /\ doc[d].backend = "qdrant" => size # Dimensions[doc[d].emb])
    PROVE  DocInv(d)'
<1>1. "qdrant" \in Backends
  BY DEF Backends
<1>2. doc[d].at = "done" /\ d \notin met => vectors'[doc[d].backend][d] = doc[d].batches
  BY DEF DocInv
<1>3. doc[d].at \in Working => up' /\ (doc[d].pinned \/ doc[d].emb = made'.emb)
  BY DEF DocInv
<1>4. up' /\ d \in chunks' /\ Mixed(d)' => flag' \/ d \in unseen'
  BY DEF DocInv, Mixed, Encoder
<1>5. doc[d].at \in Working /\ d \notin met => vectors'[doc[d].backend][d] + doc[d].left = doc[d].batches
  BY DEF DocInv
<1>6. \A b \in Backends : vectors'[b][d] > 0 => doc[d].backend = b /\ doc[d].at \notin {"new", "queued"}
  BY DEF DocInv
<1>7. ~doc[d].pinned /\ doc[d].backend = "qdrant"
          /\ (doc[d].at \in {"prepared", "embedded"} \/ vectors'["qdrant"][d] > 0)
      => size' = Dimensions[doc[d].emb]
  BY <1>1 DEF DocInv
<1> QED BY <1>2, <1>3, <1>4, <1>5, <1>6, <1>7 DEF DocInv

(* The settings change: the embedding model of the server does not.        *)
LEMMA PutIInv ==
    ASSUME IInv, NEW s \in Settings, NEW named \in Bodies, Put(s, named) \/ PutUnwritten(s, named)
    PROVE  IInv'
<1>0. /\ named \subseteq Fields /\ First \in Settings /\ Factory \in Settings
      /\ MaxPuts \in Nat
  BY SettingsAssumption
<1>1. /\ up /\ cfg' = s /\ puts < MaxPuts /\ puts' = puts + 1
      /\ \A f \in Fields \ named : s[f] = cfg[f]
      /\ UNCHANGED <<up, refused, unseen, stops, rows, size, doc, chunks, vectors, met>>
  BY DEF Put, PutUnwritten, Names, dataVars
<1>2. TypeOK /\ LlmFollowsSettings /\ s.llm \in Llms
  BY DEF IInv, Settings
<1>3. made' \in Settings /\ made'.emb = made.emb /\ (flag => flag') /\ flag' \in BOOLEAN
  <2>1. CASE Put(s, named)
    <3>1. made' = made \/ made' = [made EXCEPT !.llm = s.llm]
      BY <2>1 DEF Put, Rebuild
    <3>2. made' \in Settings /\ made'.emb = made.emb
      BY <1>2, <3>1 DEF TypeOK, Settings
    <3>3. flag' = flag \/ flag' = (flag \/ (s.emb # cfg.emb /\ Mismatch(s.emb)))
      BY <2>1 DEF Put
    <3>4. flag' \in BOOLEAN /\ (flag => flag')
      BY <1>2, <3>3 DEF TypeOK
    <3> QED BY <3>2, <3>4
  <2>2. CASE PutUnwritten(s, named)
    BY <1>2, <2>2 DEF PutUnwritten, TypeOK
  <2> QED BY <2>1, <2>2
<1>4. puts' \in 0..MaxPuts
  BY <1>0, <1>1, <1>2 DEF TypeOK
<1>5. accepted' \in BOOLEAN /\ written' \in BOOLEAN
  <2>1. accepted \in BOOLEAN /\ written \in BOOLEAN
    BY <1>2 DEF TypeOK
  <2>2. CASE Put(s, named)
    <3>1. written' = written /\ (accepted' = (s.llm \in KnownLlms) \/ accepted' = accepted)
      BY <2>2 DEF Put
    <3>2. (s.llm \in KnownLlms) \in BOOLEAN
      OBVIOUS
    <3>3. accepted' \in BOOLEAN
      BY <2>1, <3>1, <3>2, Zenon
    <3> QED BY <2>1, <3>1, <3>3
  <2>3. CASE PutUnwritten(s, named)
    <3>1. written' = FALSE /\ accepted' = (accepted /\ "llm" \notin named)
      BY <2>3 DEF PutUnwritten
    <3> QED BY <2>1, <3>1
  <2> QED BY <2>2, <2>3
<1>6. env' \in Settings /\ (Put(s, named) => env' = [f \in Fields |-> IF f \in named THEN s[f] ELSE env[f]])
  <2>1. ASSUME Put(s, named) PROVE env' = [f \in Fields |-> IF f \in named THEN s[f] ELSE env[f]]
    BY <2>1 DEF Put
  <2>2. [f \in Fields |-> IF f \in named THEN s[f] ELSE env[f]] \in Settings
    BY <1>2 DEF TypeOK, Settings, Fields
  <2>3. ASSUME PutUnwritten(s, named) PROVE env' \in Settings
    <3>1. env' \in {env, Factory}
      BY <2>3 DEF PutUnwritten
    <3> QED BY <1>0, <1>2, <3>1 DEF TypeOK
  <2> QED BY <2>1, <2>2, <2>3
<1>7. TypeOK'
  BY <1>1, <1>2, <1>3, <1>4, <1>5, <1>6 DEF TypeOK
<1>8. LlmFollowsSettings'
  <2>1. made.llm \in KnownLlms /\ (accepted => made.llm = cfg.llm) /\ (written => env = cfg)
    BY <1>1, <1>2 DEF LlmFollowsSettings
  <2>2. CASE Put(s, named)
    <3>1. written' => env' = cfg'
      <4>1. written' = written
        BY <2>2 DEF Put
      <4>2. ASSUME written PROVE env' = s
        <5>1. env' = [f \in Fields |-> IF f \in named THEN s[f] ELSE cfg[f]]
          BY <1>6, <2>1, <2>2, <4>2
        <5>2. \A f \in Fields : env'[f] = s[f]
          BY <1>1, <5>1
        <5>3. s = [f \in Fields |-> s[f]] /\ env' = [f \in Fields |-> env'[f]]
          BY <5>1 DEF Settings, Fields
        <5> QED BY <5>2, <5>3
      <4> QED BY <1>1, <4>1, <4>2
    <3>2. CASE "llm" \in named /\ s.llm \in KnownLlms
      <4>1. made' = [made EXCEPT !.llm = s.llm]
        BY <2>2, <3>2 DEF Put, Rebuild
      <4>2. made'.llm = s.llm
        BY <1>2, <4>1 DEF TypeOK, Settings
      <4> QED BY <1>1, <3>1, <3>2, <4>2 DEF LlmFollowsSettings
    <3>3. CASE "llm" \in named /\ s.llm \notin KnownLlms
      <4>1. made' = made /\ ~accepted'
        BY <2>2, <3>3 DEF Put
      <4> QED BY <2>1, <3>1, <4>1 DEF LlmFollowsSettings
    <3>4. CASE "llm" \notin named
      <4>1. made' = made /\ accepted' = accepted
        BY <2>2, <3>4 DEF Put
      <4>2. s.llm = cfg.llm
        <5>1. "llm" \in Fields
          BY DEF Fields
        <5> QED BY <1>1, <3>4, <5>1
      <4> QED BY <1>1, <2>1, <3>1, <4>1, <4>2 DEF LlmFollowsSettings
    <3> QED BY <3>2, <3>3, <3>4
  <2>3. CASE PutUnwritten(s, named)
    <3>1. made' = made /\ ~written' /\ accepted' = (accepted /\ "llm" \notin named)
      BY <2>3 DEF PutUnwritten
    <3>2. "llm" \notin named => s.llm = cfg.llm
      <4>1. "llm" \in Fields
        BY DEF Fields
      <4> QED BY <1>1, <4>1
    <3> QED BY <1>1, <2>1, <3>1, <3>2 DEF LlmFollowsSettings
  <2> QED BY <2>2, <2>3
<1>9. ASSUME NEW d \in Docs PROVE DocInv(d)'
  BY <1>1, <1>2, <1>3, DocKept DEF IInv, TypeOK
<1> QED BY <1>7, <1>8, <1>9 DEF IInv

DocRecords == [at : Working \cup {"new", "done", "error", "lost", "deleted"},
               emb : Embeddings, backend : Backends, pinned : BOOLEAN,
               batches : Nat, left : Nat]

(* What is left to show of an ingest step, an upload or a delete of d.     *)
LEMMA DocumentStepIInv ==
    ASSUME IInv, NEW d \in Docs, UNCHANGED settingVars,
           NEW new \in DocRecords, doc' = [doc EXCEPT ![d] = new],
           rows' \subseteq Encoders,
           chunks' \subseteq chunks \cup {d}, vectors' \in [Backends -> [Docs -> Nat]],
           \A b \in Backends, x \in Docs \ {d} : vectors'[b][x] = vectors[b][x],
           met' \subseteq Docs, \A x \in Docs \ {d} : x \in met' <=> x \in met,
           size' \in {0} \cup {Dimensions[e] : e \in Embeddings},
           size' = size \/ size = 0,
           DocInv(d)'
    PROVE  IInv'
<1>1. UNCHANGED <<cfg, env, up, made, flag, accepted, written, refused, unseen, puts, stops>>
  BY DEF settingVars
<1>2. TypeOK
  BY DEF IInv
<1>3. doc' \in [Docs -> DocRecords] /\ \A x \in Docs \ {d} : doc'[x] = doc[x]
  BY <1>2 DEF TypeOK, DocRecords
<1>4. chunks' \in SUBSET Docs
  BY <1>2 DEF TypeOK
<1>5. TypeOK'
  BY <1>1, <1>2, <1>3, <1>4 DEF TypeOK, DocRecords
<1>6. LlmFollowsSettings'
  BY <1>1 DEF IInv, LlmFollowsSettings
<1>7. ASSUME NEW x \in Docs PROVE DocInv(x)'
  <2>1. CASE x = d
    BY <2>1
  <2>2. CASE x # d
    <3>1. doc'[x] = doc[x] /\ doc[x].backend \in Backends /\ doc[x].emb \in Embeddings
      BY <1>2, <1>3, <2>2 DEF TypeOK
    <3>2. size' = size \/ size # Dimensions[doc[x].emb]
      BY <3>1, SettingsAssumption
    <3> QED BY <1>1, <2>2, <3>1, <3>2, DocKept DEF IInv
  <2> QED BY <2>1, <2>2
<1> QED BY <1>5, <1>6, <1>7 DEF IInv

(* An upload takes the model of the server, or the pinned one.             *)
LEMMA UploadIInv ==
    ASSUME IInv, NEW d \in Docs, NEW e \in Embeddings, NEW pinned \in BOOLEAN, Upload(d, e, pinned)
    PROVE  IInv'
<1>0. PICK n \in Batches :
         doc' = [doc EXCEPT ![d] = [at |-> "queued", emb |-> e, backend |-> cfg.backend,
                                    pinned |-> pinned, batches |-> n, left |-> n]]
  BY DEF Upload
<1> DEFINE new == [at |-> "queued", emb |-> e, backend |-> cfg.backend, pinned |-> pinned,
                   batches |-> n, left |-> n]
<1>1. /\ up /\ doc[d].at = "new" /\ (pinned \/ e = made.emb)
      /\ doc' = [doc EXCEPT ![d] = new] /\ UNCHANGED settingVars
      /\ UNCHANGED <<rows, size, chunks, vectors, met>>
  BY <1>0 DEF Upload
<1>2. TypeOK /\ cfg.backend \in Backends /\ up' = up /\ made' = made /\ flag' = flag /\ n \in Nat
  BY <1>1, SettingsAssumption DEF IInv, TypeOK, Settings, settingVars
<1>3. new \in DocRecords
  BY <1>2 DEF DocRecords, Working
<1>4. doc'[d] = new
  BY <1>1, <1>2 DEF TypeOK
<1>5. d \notin chunks /\ \A b \in Backends : vectors[b][d] = 0
  BY <1>1, <1>2 DEF IInv, DocInv, TypeOK
<1>6. DocInv(d)'
  <2>1. "qdrant" \in Backends
    BY DEF Backends
  <2> QED BY <1>1, <1>2, <1>4, <1>5, <2>1 DEF DocInv
<1> QED BY <1>1, <1>2, <1>3, <1>6, DocumentStepIInv DEF TypeOK

(* ensure_collection: the shared collection gets the size of the first     *)
(* document, and a document of another size fails.                         *)
LEMMA PreparedIInv ==
    ASSUME IInv, NEW d \in Docs, Prepared(d)
    PROVE  IInv'
<1> DEFINE qdrant == doc[d].backend = "qdrant"
           ok == qdrant => Serves(d) /\ Fits(d)
           to == IF ok THEN "prepared" ELSE "error"
           new == [doc[d] EXCEPT !.at = to]
<1>1. /\ up /\ doc[d].at = "queued" /\ doc' = [doc EXCEPT ![d] = new]
      /\ size' = IF ok /\ qdrant /\ ~doc[d].pinned THEN Dimensions[doc[d].emb] ELSE size
      /\ UNCHANGED settingVars /\ UNCHANGED <<rows, chunks, vectors, met>>
  BY DEF Prepared, Goto
<1>2. TypeOK /\ up' = up /\ made' = made /\ flag' = flag /\ doc[d] \in DocRecords
  BY <1>1 DEF IInv, TypeOK, settingVars, DocRecords
<1>3. to \in {"prepared", "error"}
  OBVIOUS
<1> HIDE DEF to
<1>4. /\ new \in DocRecords /\ new.at = to /\ new.emb = doc[d].emb
      /\ new.backend = doc[d].backend /\ new.pinned = doc[d].pinned
      /\ new.batches = doc[d].batches /\ new.left = doc[d].left
  BY <1>2, <1>3 DEF DocRecords, Working
<1> HIDE DEF new
<1>5. doc'[d] = new
  BY <1>1, <1>2 DEF TypeOK
<1>6. size' = size \/ (size = 0 /\ size' = Dimensions[doc[d].emb])
  BY <1>1 DEF Fits
<1>7. to = "prepared" /\ ~new.pinned /\ new.backend = "qdrant" => size' = Dimensions[new.emb]
  BY <1>1, <1>4 DEF to
<1>8. d \notin chunks /\ \A b \in Backends : vectors[b][d] = 0
  BY <1>1, <1>2 DEF IInv, DocInv, TypeOK
<1>9. /\ doc[d].pinned \/ doc[d].emb = made.emb
      /\ d \notin met => vectors[doc[d].backend][d] + doc[d].left = doc[d].batches
  BY <1>1 DEF IInv, DocInv, Working
<1>10. DocInv(d)'
  <2>1. "qdrant" \in Backends
    BY DEF Backends
  <2> QED BY <1>1, <1>2, <1>3, <1>4, <1>5, <1>7, <1>8, <1>9, <2>1 DEF DocInv, Working
<1>11. doc[d].emb \in Embeddings
  BY <1>2 DEF DocRecords
<1> QED BY <1>1, <1>2, <1>4, <1>6, <1>10, <1>11, DocumentStepIInv DEF TypeOK

(* What every later step of a job finds: its model is the one of the       *)
(* server, or pinned, and its collection has its size.                     *)
LEMMA JobFacts ==
    ASSUME IInv, NEW d \in Docs, doc[d].at \in {"prepared", "embedded"}
    PROVE  /\ up /\ (doc[d].pinned \/ doc[d].emb = made.emb) /\ ~Mixed(d)
           /\ ~doc[d].pinned /\ doc[d].backend = "qdrant" => size = Dimensions[doc[d].emb]
           /\ d \notin met => vectors[doc[d].backend][d] + doc[d].left = doc[d].batches
           /\ \A b \in Backends : vectors[b][d] > 0 => doc[d].backend = b
           /\ doc[d] \in DocRecords
  BY DEF IInv, DocInv, Working, Mixed, TypeOK, DocRecords

(* The chunks of a batch are inserted; what is pruned from the cache only  *)
(* matters at the next start.                                              *)
LEMMA EmbeddedIInv ==
    ASSUME IInv, NEW d \in Docs, Embedded(d)
    PROVE  IInv'
<1> DEFINE to == IF d \in met THEN "error" ELSE "embedded"
           new == [doc[d] EXCEPT !.at = to]
<1>1. /\ up /\ doc[d].at = "prepared" /\ doc' = [doc EXCEPT ![d] = new] /\ doc[d].left > 0
      /\ rows' \in CachedWith(Encoder(doc[d].emb)) /\ chunks' \subseteq chunks \cup {d}
      /\ UNCHANGED settingVars /\ UNCHANGED <<size, vectors, met>>
  BY DEF Embedded, Goto
<1>2. TypeOK /\ up' = up /\ made' = made /\ flag' = flag
  BY <1>1 DEF IInv, TypeOK, settingVars
<1>3. to = IF d \in met THEN "error" ELSE "embedded"
  OBVIOUS
<1> HIDE DEF to
<1>4. /\ new \in DocRecords /\ new.at = to /\ new.emb = doc[d].emb
      /\ new.backend = doc[d].backend /\ new.pinned = doc[d].pinned
      /\ new.batches = doc[d].batches /\ new.left = doc[d].left
  BY <1>1, <1>3, JobFacts DEF DocRecords, Working
<1> HIDE DEF new
<1>5. doc'[d] = new
  BY <1>1, <1>2 DEF TypeOK
<1>6. rows' \subseteq Encoders
  <2>1. doc[d].emb \in Embeddings
    BY <1>1, JobFacts DEF DocRecords
  <2>2. Encoder(doc[d].emb) \in Encoders
    BY <2>1 DEF Encoders
  <2> QED BY <1>1, <1>2, <2>2 DEF CachedWith, TypeOK
<1>7. DocInv(d)'
  <2>1. "qdrant" \in Backends
    BY DEF Backends
  <2>2. ~Mixed(d)'
    BY <1>1, <1>2, <1>4, <1>5, JobFacts DEF Mixed
  <2> QED BY <1>1, <1>2, <1>3, <1>4, <1>5, <2>1, <2>2, JobFacts DEF DocInv, Working
<1> QED BY <1>1, <1>2, <1>4, <1>6, <1>7, DocumentStepIInv DEF TypeOK

(* A batch more in the store, a batch less to do.                          *)
LEMMA StoredIInv ==
    ASSUME IInv, NEW d \in Docs, Stored(d)
    PROVE  IInv'
<1> DEFINE new == [doc[d] EXCEPT !.at = "prepared", !.left = doc[d].left - 1]
           own == doc[d].backend
<1>1. /\ up /\ doc[d].at = "embedded"
      /\ doc' = [doc EXCEPT ![d].at = "prepared", ![d].left = doc[d].left - 1]
      /\ vectors' = [vectors EXCEPT ![own][d] = vectors[own][d] + 1]
      /\ UNCHANGED settingVars /\ UNCHANGED <<rows, size, chunks, met>>
  BY DEF Stored
<1>2. TypeOK /\ up' = up /\ made' = made /\ flag' = flag
  BY <1>1 DEF IInv, TypeOK, settingVars
<1>3. doc[d].left \in Nat /\ doc[d].left > 0
  BY <1>1 DEF IInv, DocInv, TypeOK
<1>4. /\ new \in DocRecords /\ new.at = "prepared" /\ new.emb = doc[d].emb
      /\ new.backend = doc[d].backend /\ new.pinned = doc[d].pinned
      /\ new.batches = doc[d].batches /\ new.left = doc[d].left - 1 /\ own \in Backends
  <2>1. doc[d] \in DocRecords /\ doc[d].left - 1 \in Nat
    BY <1>2, <1>3 DEF TypeOK, DocRecords
  <2> QED BY <2>1 DEF DocRecords, Working
<1>5. doc' = [doc EXCEPT ![d] = new]
  BY <1>1, <1>2 DEF TypeOK
<1> HIDE DEF new
<1>6. doc'[d] = new
  BY <1>2, <1>5 DEF TypeOK
<1>7. /\ vectors' \in [Backends -> [Docs -> Nat]]
      /\ \A b \in Backends, x \in Docs \ {d} : vectors'[b][x] = vectors[b][x]
      /\ vectors'[own][d] = vectors[own][d] + 1
      /\ \A b \in Backends \ {own} : vectors'[b][d] = vectors[b][d]
  BY <1>1, <1>2, <1>4 DEF TypeOK
<1>8. DocInv(d)'
  <2>1. "qdrant" \in Backends
    BY DEF Backends
  <2>2. ~Mixed(d)'
    BY <1>1, <1>2, <1>4, <1>6, JobFacts DEF Mixed
  <2>3. d \notin met => vectors'[own][d] + new.left = new.batches
    <3>1. vectors[own][d] \in Nat
      BY <1>2, <1>4 DEF TypeOK
    <3>2. d \notin met => vectors[own][d] + doc[d].left = doc[d].batches
      BY <1>1, JobFacts
    <3> QED BY <1>3, <1>4, <1>7, <3>1, <3>2
  <2>4. \A b \in Backends : vectors'[b][d] > 0 => b = own
    BY <1>1, <1>7, JobFacts
  <2> HIDE DEF own
  <2> QED BY <1>1, <1>2, <1>4, <1>6, <2>1, <2>2, <2>3, <2>4, JobFacts DEF DocInv, Working, own
<1> HIDE DEF own
<1> QED BY <1>1, <1>2, <1>4, <1>5, <1>7, <1>8, DocumentStepIInv DEF TypeOK

(* A job that has nothing left to do is done; one may fail at any time.    *)
LEMMA EndIInv ==
    ASSUME IInv, NEW d \in Docs, Finished(d) \/ Fails(d)
    PROVE  IInv'
<1> DEFINE to == IF Fails(d) THEN "error" ELSE "done"
           new == [doc[d] EXCEPT !.at = to, !.left = 0]
<1>1. /\ up /\ doc[d].at \in Working
      /\ to = "done" => doc[d].at = "prepared" /\ doc[d].left = 0
      /\ UNCHANGED settingVars /\ UNCHANGED <<rows, size, chunks, vectors, met>>
  BY DEF Finished, Fails, Goto, Working
<1>2. TypeOK /\ up' = up /\ made' = made /\ flag' = flag /\ doc[d] \in DocRecords
  BY <1>1 DEF IInv, TypeOK, settingVars, DocRecords
<1>3. doc' = [doc EXCEPT ![d] = new]
  <2>1. CASE Fails(d)
    BY <1>2, <2>1 DEF Fails, TypeOK
  <2>2. CASE ~Fails(d)
    <3>1. doc' = [doc EXCEPT ![d].at = "done"] /\ doc[d].left = 0
      BY <2>2 DEF Finished, Goto
    <3>2. [doc[d] EXCEPT !.at = "done"] = [doc[d] EXCEPT !.at = "done", !.left = 0]
      BY <1>2, <3>1 DEF DocRecords
    <3>3. doc' = [doc EXCEPT ![d] = [doc[d] EXCEPT !.at = "done"]]
      BY <1>2, <3>1 DEF TypeOK
    <3> QED BY <2>2, <3>2, <3>3
  <2> QED BY <2>1, <2>2
<1>4. to \in {"done", "error"}
  OBVIOUS
<1> HIDE DEF to
<1>5. /\ new \in DocRecords /\ new.at = to /\ new.emb = doc[d].emb
      /\ new.backend = doc[d].backend /\ new.pinned = doc[d].pinned
      /\ new.batches = doc[d].batches
  BY <1>2, <1>4 DEF DocRecords
<1> HIDE DEF new
<1>6. doc'[d] = new
  BY <1>2, <1>3 DEF TypeOK
<1>7. DocInv(d)'
  <2>1. "qdrant" \in Backends
    BY DEF Backends
  <2>2. ~Mixed(d)'
    BY <1>1, <1>2, <1>5, <1>6 DEF IInv, DocInv, Mixed
  <2>3. to = "done" /\ d \notin met => vectors[doc[d].backend][d] = doc[d].batches
    <3>1. doc[d].backend \in Backends
      BY <1>2 DEF DocRecords
    <3>2. vectors[doc[d].backend][d] \in Nat
      BY <1>2, <3>1 DEF TypeOK
    <3> QED BY <1>1, <3>2, JobFacts
  <2>4. \A b \in Backends : vectors[b][d] > 0 => doc[d].backend = b
    BY <1>1 DEF IInv, DocInv
  <2>5. ~doc[d].pinned /\ doc[d].backend = "qdrant" /\ vectors["qdrant"][d] > 0 => size = Dimensions[doc[d].emb]
    BY DEF IInv, DocInv
  <2>6. doc'[d].at \notin Working \cup {"new", "queued", "embedded", "prepared"}
    BY <1>4, <1>5, <1>6 DEF Working
  <2> QED BY <1>1, <1>2, <1>4, <1>5, <1>6, <2>1, <2>2, <2>3, <2>4, <2>5, <2>6 DEF DocInv
<1> QED BY <1>1, <1>2, <1>3, <1>5, <1>7, DocumentStepIInv DEF TypeOK

(* A delete empties the store that the server has; a job that runs goes on *)
(* and is noted.                                                           *)
LEMMA DeleteIInv ==
    ASSUME IInv, NEW d \in Docs, Delete(d)
    PROVE  IInv'
<1> DEFINE runs == doc[d].at \in Working
           new == IF runs THEN doc[d] ELSE [doc[d] EXCEPT !.at = "deleted"]
<1>1. /\ up /\ chunks' = chunks \ {d} /\ d \notin met /\ doc[d].at \notin {"new", "queued"}
      /\ vectors' = [vectors EXCEPT ![cfg.backend][d] = 0]
      /\ met' = IF runs THEN met \cup {d} ELSE met
      /\ UNCHANGED settingVars /\ UNCHANGED <<rows, size>>
  BY DEF Delete
<1>2. TypeOK /\ up' = up /\ made' = made /\ flag' = flag /\ doc[d] \in DocRecords /\ cfg.backend \in Backends
  BY <1>1 DEF IInv, TypeOK, settingVars, DocRecords, Settings
<1>3. doc' = [doc EXCEPT ![d] = new]
  <2>1. CASE runs
    BY <1>2, <2>1 DEF Delete, TypeOK
  <2>2. CASE ~runs
    BY <1>2, <2>2 DEF Delete, TypeOK
  <2> QED BY <2>1, <2>2
<1>4. /\ new \in DocRecords /\ new.at = (IF runs THEN doc[d].at ELSE "deleted") /\ new.emb = doc[d].emb
      /\ new.backend = doc[d].backend /\ new.pinned = doc[d].pinned /\ new.left = doc[d].left
  BY <1>2 DEF DocRecords
<1> HIDE DEF new
<1>5. doc'[d] = new
  BY <1>2, <1>3 DEF TypeOK
<1>6. /\ vectors' \in [Backends -> [Docs -> Nat]]
      /\ \A b \in Backends, x \in Docs \ {d} : vectors'[b][x] = vectors[b][x]
      /\ \A b \in Backends : vectors'[b][d] = vectors[b][d] \/ vectors'[b][d] = 0
  BY <1>1, <1>2 DEF TypeOK
<1>7. DocInv(d)'
  <2>1. "qdrant" \in Backends /\ DocInv(d)
    BY DEF Backends, IInv
  <2>2. \A b \in Backends : vectors'[b][d] > 0 => vectors[b][d] > 0
    BY <1>6
  <2>3. runs => d \in met'
    BY <1>1
  <2>4. new.at # "done" \/ (d \notin chunks' /\ ~runs)
    BY <1>1, <1>4 DEF Working
  <2>5. new.at = "done" => FALSE
    BY <1>4 DEF Working
  <2> QED BY <1>1, <1>2, <1>4, <1>5, <2>1, <2>2, <2>3, <2>5 DEF DocInv, Working
<1>8. met' \subseteq Docs /\ \A x \in Docs \ {d} : x \in met' <=> x \in met
  BY <1>1, <1>2 DEF TypeOK
<1>9. rows' \subseteq Encoders /\ size' \in {0} \cup {Dimensions[e] : e \in Embeddings} /\ chunks' \subseteq chunks \cup {d}
  BY <1>1, <1>2 DEF TypeOK
<1> QED BY <1>1, <1>3, <1>4, <1>6, <1>7, <1>8, <1>9, DocumentStepIInv

(* A stop loses what was being ingested: there is no model to agree with.  *)
LEMMA StopIInv ==
    ASSUME IInv, Stop
    PROVE  IInv'
<1>1. /\ up' = FALSE /\ stops < MaxStops /\ stops' = stops + 1
      /\ doc' = [d \in Docs |-> IF doc[d].at \in Working THEN [doc[d] EXCEPT !.at = "lost", !.left = 0] ELSE doc[d]]
      /\ UNCHANGED <<cfg, made, flag, accepted, written, refused, unseen, rows, size, chunks, vectors, met>>
  BY DEF Stop
<1>2. TypeOK
  BY DEF IInv
<1>3. ASSUME NEW d \in Docs
      PROVE  /\ doc'[d] \in DocRecords /\ doc'[d].emb = doc[d].emb /\ doc'[d].batches = doc[d].batches
             /\ doc'[d].backend = doc[d].backend /\ doc'[d].pinned = doc[d].pinned
             /\ doc'[d].at = IF doc[d].at \in Working THEN "lost" ELSE doc[d].at
  <2>1. doc[d] \in DocRecords
    BY <1>2 DEF TypeOK, DocRecords
  <2> DEFINE r == [doc[d] EXCEPT !.at = "lost", !.left = 0]
  <2>2. /\ r \in DocRecords /\ r.emb = doc[d].emb /\ r.batches = doc[d].batches
        /\ r.backend = doc[d].backend /\ r.pinned = doc[d].pinned /\ r.at = "lost"
    BY <2>1 DEF DocRecords
  <2>3. doc'[d] = IF doc[d].at \in Working THEN r ELSE doc[d]
    BY <1>1
  <2> HIDE DEF r
  <2> QED BY <2>1, <2>2, <2>3
<1>4. stops' \in 0..MaxStops /\ puts' \in 0..MaxPuts /\ env' \in Settings
  <2>1. Factory \in Settings /\ MaxPuts \in Nat /\ MaxStops \in Nat
    BY SettingsAssumption
  <2>2. \/ env' = env /\ puts' = puts
        \/ puts < MaxPuts /\ puts' = puts + 1 /\ env' = Factory
    BY DEF Stop
  <2>3. stops' \in 0..MaxStops
    <3>1. stops \in 0..MaxStops /\ stops < MaxStops /\ stops' = stops + 1
      BY <1>1, <1>2 DEF TypeOK
    <3> QED BY <2>1, <3>1
  <2>4. puts' \in 0..MaxPuts
    BY <1>2, <2>1, <2>2 DEF TypeOK
  <2>5. env' \in Settings
    BY <1>2, <2>1, <2>2 DEF TypeOK
  <2> QED BY <2>3, <2>4, <2>5
<1>5. doc' \in [Docs -> DocRecords]
  BY <1>1, <1>3
<1>6. TypeOK'
  BY <1>1, <1>2, <1>4, <1>5 DEF TypeOK, DocRecords
<1>7. LlmFollowsSettings'
  BY <1>1 DEF LlmFollowsSettings
<1>8. ASSUME NEW d \in Docs PROVE DocInv(d)'
  <2>1. DocInv(d) /\ "qdrant" \in Backends
    BY DEF IInv, Backends
  <2>2. doc'[d].at \notin Working
    BY <1>3 DEF Working
  <2>3. doc'[d].at \in {"new", "done"} => doc[d].at = doc'[d].at
    BY <1>3
  <2> QED BY <1>1, <1>3, <2>1, <2>2, <2>3 DEF DocInv, Working
<1> QED BY <1>6, <1>7, <1>8 DEF IInv

(* A start compares every row of the cache with the settings it builds     *)
(* from, before anything else can be ingested.                             *)
LEMMA StartIInv ==
    ASSUME IInv, Start
    PROVE  IInv'
<1>1. /\ ~up /\ env.llm \in KnownLlms /\ up' = TRUE /\ cfg' = env /\ made' = env
      /\ flag' = Mismatch(env.emb) /\ accepted' = TRUE /\ written' = TRUE /\ refused' = FALSE
      /\ unseen' = {d \in chunks : Encoder(doc[d].emb) \notin rows}
      /\ UNCHANGED <<env, puts, stops, rows, size, doc, chunks, vectors, met>>
  BY DEF Start, dataVars
<1>2. TypeOK
  BY DEF IInv
<1>3. flag' \in BOOLEAN
  BY <1>1 DEF Mismatch
<1>4. TypeOK'
  BY <1>1, <1>2, <1>3 DEF TypeOK
<1>5. LlmFollowsSettings'
  BY <1>1 DEF LlmFollowsSettings
<1>6. ASSUME NEW d \in Docs PROVE DocInv(d)'
  <2>1. DocInv(d) /\ doc[d].at \notin Working
    BY <1>1 DEF IInv, DocInv
  <2>2. ASSUME d \in chunks, Encoder(doc[d].emb) # Encoder(env.emb), d \notin unseen' PROVE flag'
    <3>1. Encoder(doc[d].emb) \in rows
      BY <1>1, <2>2
    <3>2. Encoder(doc[d].emb).id # env.emb.name \/ Encoder(doc[d].emb).model # env.emb.model
      BY <2>2, EncodersMismatch
    <3> QED BY <1>1, <2>2, <3>1, <3>2 DEF Mismatch
  <2>3. d \in chunks' /\ Mixed(d)' => flag' \/ d \in unseen'
    BY <1>1, <2>2 DEF Mixed
  <2> QED BY <1>1, <2>1, <2>3 DEF DocInv
<1> QED BY <1>4, <1>5, <1>6 DEF IInv

(* A start that fails, or nothing at all.                                  *)
LEMMA IdleIInv ==
    ASSUME IInv, StartFails \/ UNCHANGED vars
    PROVE  IInv'
<1>1. /\ UNCHANGED <<cfg, env, up, made, flag, accepted, written, unseen, puts, stops,
                     rows, size, doc, chunks, vectors, met>>
      /\ refused' \in BOOLEAN
  BY DEF StartFails, vars, settingVars, dataVars, IInv, TypeOK
<1>2. TypeOK' /\ LlmFollowsSettings'
  BY <1>1 DEF IInv, TypeOK, LlmFollowsSettings
<1>3. ASSUME NEW d \in Docs PROVE DocInv(d)'
  BY <1>1 DEF IInv, DocInv, Mixed
<1> QED BY <1>2, <1>3 DEF IInv

(* The server was installed with settings it can start with.               *)
LEMMA InitIInv ==
    ASSUME Init
    PROVE  IInv
<1>1. First \in Settings /\ First.emb \in Embeddings /\ First.backend \in Backends
  BY SettingsAssumption DEF Settings
<1>2. TypeOK
  <2>1. 0 \in 0..MaxPuts /\ 0 \in 0..MaxStops
    BY SettingsAssumption
  <2>2. doc \in [Docs -> DocRecords]
    BY <1>1 DEF Init, DocRecords
  <2>3. rows \subseteq Encoders /\ {chunks, unseen, met} \subseteq SUBSET Docs /\ vectors \in [Backends -> [Docs -> Nat]]
    BY DEF Init
  <2> QED BY <1>1, <2>1, <2>2, <2>3 DEF Init, TypeOK, DocRecords
<1>3. LlmFollowsSettings
  BY SettingsAssumption DEF Init, LlmFollowsSettings
<1>4. ASSUME NEW d \in Docs PROVE DocInv(d)
  <2>1. "qdrant" \in Backends
    BY DEF Backends
  <2>2. doc[d].at = "new" /\ \A b \in Backends : vectors[b][d] = 0
    BY DEF Init
  <2> QED BY <2>1, <2>2 DEF Init, DocInv, Working
<1> QED BY <1>2, <1>3, <1>4 DEF IInv

(* So every step preserves IInv.                                           *)
LEMMA NextIInv ==
    ASSUME IInv, Next
    PROVE  IInv'
<1>1. ASSUME NEW s \in Settings, NEW named \in Bodies, Put(s, named) \/ PutUnwritten(s, named) PROVE IInv'
  BY <1>1, PutIInv
<1>2. ASSUME Stop \/ Start \/ StartFails PROVE IInv'
  BY <1>2, StopIInv, StartIInv, IdleIInv
<1>3. ASSUME NEW d \in Docs, NEW e \in Embeddings, NEW pinned \in BOOLEAN, Upload(d, e, pinned)
      PROVE  IInv'
  BY <1>3, UploadIInv
<1>4. ASSUME NEW d \in Docs, Ingest(d) \/ Delete(d) PROVE IInv'
  BY <1>4, PreparedIInv, EmbeddedIInv, StoredIInv, EndIInv, DeleteIInv DEF Ingest
<1> QED BY <1>1, <1>2, <1>3, <1>4 DEF Next

(* Whatever the settings go through and however often the server restarts, *)
(* IInv holds.                                                             *)
THEOREM SettingsInvariant == Spec => []IInv
<1>1. Init => IInv
  BY InitIInv
<1>2. IInv /\ [Next]_vars => IInv'
  BY NextIInv, IdleIInv
<1> QED BY <1>1, <1>2, PTL DEF Spec

(* A search over vectors of another embedding model is reported, unless    *)
(* the cache had lost the rows of that model before the server started     *)
(* (embedding_consistency.py:34, settings.py:309).                         *)
THEOREM SettingsMixedIsReported == Spec => []MixedIsReported
<1>1. IInv => MixedIsReported
  BY DEF IInv, TypeOK, MixedIsReported, DocInv, ReindexReported
<1> QED BY <1>1, SettingsInvariant, PTL

(* The vectors of the shared collection are of its size                    *)
(* (vector_store.py:77-84).                                                *)
THEOREM SettingsOneSize == Spec => []OneSize
<1>1. IInv => OneSize
  <2>1. "qdrant" \in Backends
    BY DEF Backends
  <2>2. ASSUME IInv, NEW d \in Docs, vectors["qdrant"][d] > 0, ~doc[d].pinned
        PROVE  Dimensions[doc[d].emb] = size
    BY <2>1, <2>2 DEF IInv, DocInv
  <2> QED BY <2>2 DEF OneSize
<1> QED BY <1>1, SettingsInvariant, PTL

(* A document is done only with each of its batches in the store its       *)
(* upload meant, and none in the other (documents.py:103,                  *)
(* pipeline.py:226).                                                       *)
THEOREM SettingsDoneIsStored == Spec => []DoneIsStored
<1>1. ASSUME IInv, NEW d \in Docs, NEW b \in Backends, doc[d].at = "done", d \notin met
      PROVE  vectors[b][d] = IF b = doc[d].backend THEN doc[d].batches ELSE 0
  <2>1. vectors[b][d] \in Nat /\ DocInv(d)
    BY <1>1 DEF IInv, TypeOK
  <2> QED BY <1>1, <2>1 DEF DocInv
<1>2. IInv => DoneIsStored
  BY <1>1 DEF DoneIsStored
<1> QED BY <1>2, SettingsInvariant, PTL

(* The server answers with the LLM of the settings, as long as the last    *)
(* request about it was answered, and a restart would read those settings  *)
(* (settings.py:61-93).                                                    *)
THEOREM SettingsLlmFollows == Spec => []LlmFollowsSettings
<1>1. IInv => LlmFollowsSettings
  BY DEF IInv
<1> QED BY <1>1, SettingsInvariant, PTL
-----------------------------------------------------------------------------
(* The rows of the embedding cache that a settings check reads are written *)
(* by the calls of EmbeddingCalls: the loops of the cache, one lemma per   *)
(* action, the theorems.                                                   *)

(* Every nonempty set of natural numbers has a least element.              *)
LEMMA Least ==
    ASSUME NEW S, S \subseteq Nat, S # {}
    PROVE  \E x \in S : \A y \in S : x <= y
<1>1. PICK x \in S : \A y \in S : ~ (<<y, x>> \in OpToRel(<, Nat))
  BY WFMin, NatLessThanWellFounded
<1>2. ASSUME NEW y \in S PROVE x <= y
  <2>1. ~(<<y, x>> \in {p \in Nat \X Nat : p[1] < p[2]})
    BY <1>1 DEF OpToRel
  <2> QED BY <2>1
<1> QED BY <1>2

(* f is what a loop of N passes goes through from `base`.                  *)
Passes(f, N, base, step) == f = [n \in 0..N |-> IF n = 0 THEN base ELSE step[<<n, f[n - 1]>>]]

(* What a loop goes through from `base`, where its n-th pass keeps I: the  *)
(* function exists, and I holds all along.                                 *)
LEMMA Loop ==
    ASSUME NEW N \in Nat, NEW I, NEW base \in I[0], NEW step,
           \A n \in 1..N : \A x \in I[n - 1] : step[<<n, x>>] \in I[n]
    PROVE  \E f : Passes(f, N, base, step) /\ \A n \in 0..N : f[n] \in I[n]
<1> USE DEF Passes
<1> DEFINE Upto(f, m) == Passes(f, m, base, step) /\ \A n \in 0..m : f[n] \in I[n]
           Bad == {m \in 0..N : ~\E f : Upto(f, m)}
<1>1. ASSUME Bad # {} PROVE FALSE
  <2>1. PICK m \in Bad : \A y \in Bad : m <= y
    <3>1. Bad \subseteq Nat
      OBVIOUS
    <3> HIDE DEF Bad
    <3> QED BY <1>1, <3>1, Least
  <2>2. m \in 0..N /\ ~\E f : Upto(f, m)
    OBVIOUS
  <2>3. CASE m = 0
    <3>1. Upto([n \in 0..0 |-> base], 0)
      OBVIOUS
    <3> QED BY <2>2, <2>3, <3>1
  <2>4. CASE m > 0
    <3>1. m - 1 \in 0..N /\ ~(m <= m - 1)
      BY <2>2, <2>4
    <3>2. PICK g : Upto(g, m - 1)
      BY <2>1, <3>1
    <3> DEFINE f == [n \in 0..m |-> IF n = m THEN step[<<m, g[m - 1]>>] ELSE g[n]]
    <3>3. f[m] = step[<<m, g[m - 1]>>] /\ \A n \in 0..(m - 1) : f[n] = g[n]
      BY <2>2, <2>4
    <3>4. ASSUME NEW n \in 0..m PROVE f[n] \in I[n]
      <4>1. CASE n = m
        <5>1. m \in 1..N /\ g[m - 1] \in I[m - 1]
          BY <2>2, <2>4, <3>2
        <5> QED BY <3>3, <4>1, <5>1
      <4>2. CASE n # m
        BY <2>2, <3>2, <3>3, <4>2
      <4> QED BY <4>1, <4>2
    <3>5. ASSUME NEW n \in 0..m PROVE f[n] = IF n = 0 THEN base ELSE step[<<n, f[n - 1]>>]
      <4>1. CASE n = m
        <5>1. m - 1 \in 0..(m - 1) /\ m # 0
          BY <2>2, <2>4
        <5> HIDE DEF f
        <5> QED BY <3>3, <4>1, <5>1
      <4>2. CASE n # m
        <5>1. n \in 0..(m - 1) /\ (n # 0 => n - 1 \in 0..(m - 1))
          BY <2>2, <4>2
        <5>2. g[n] = IF n = 0 THEN base ELSE step[<<n, g[n - 1]>>]
          BY <3>2, <5>1
        <5> QED BY <3>3, <5>1, <5>2
      <4> QED BY <4>1, <4>2
    <3>6. f = [n \in 0..m |-> IF n = 0 THEN base ELSE step[<<n, f[n - 1]>>]]
      <4> HIDE DEF f
      <4>1. f = [n \in 0..m |-> f[n]]
        BY DEF f
      <4> QED BY <3>5, <4>1
    <3> HIDE DEF f
    <3>7. Upto(f, m)
      BY <3>4, <3>6
    <3> QED BY <2>2, <3>7
  <2> QED BY <2>2, <2>3, <2>4
<1>2. N \in 0..N
  OBVIOUS
<1>3. \E f : Upto(f, N)
  BY <1>1, <1>2
<1> QED BY <1>3

(* What holds at first and is kept by every pass holds all along.          *)
LEMMA Kept ==
    ASSUME NEW N \in Nat, NEW I, NEW f, f[0] \in I[0],
           \A n \in 1..N : f[n - 1] \in I[n - 1] => f[n] \in I[n]
    PROVE  \A n \in 0..N : f[n] \in I[n]
<1> DEFINE Bad == {m \in 0..N : f[m] \notin I[m]}
<1>1. ASSUME Bad # {} PROVE FALSE
  <2>1. PICK m \in Bad : \A y \in Bad : m <= y
    <3>1. Bad \subseteq Nat
      OBVIOUS
    <3> HIDE DEF Bad
    <3> QED BY <1>1, <3>1, Least
  <2>2. m \in 0..N /\ f[m] \notin I[m] /\ m # 0
    OBVIOUS
  <2>3. m \in 1..N /\ m - 1 \in 0..N /\ ~(m <= m - 1)
    BY <2>2
  <2>4. f[m - 1] \in I[m - 1]
    BY <2>1, <2>3
  <2> QED BY <2>2, <2>3, <2>4
<1> QED BY <1>1

(* The positions that are not in the cache are listed, each once.          *)
LEMMA MissesListed ==
    ASSUME NEW S, NEW got \in Seq(S)
    PROVE  /\ Misses(got) \in Seq(1..Len(got))
           /\ Len(Misses(got)) <= Len(got)
           /\ \A k, l \in DOMAIN Misses(got) : Misses(got)[k] = Misses(got)[l] => k = l
           /\ \A i \in 1..Len(got) :
                  got[i] = Missing => \E k \in DOMAIN Misses(got) : Misses(got)[k] = i
<1> DEFINE N == Len(got)
           Good(s, n) == /\ s \in Seq(1..n) /\ Len(s) <= n
                         /\ \A k, l \in DOMAIN s : s[k] = s[l] => k = l
                         /\ \A i \in 1..n : got[i] = Missing => \E k \in DOMAIN s : s[k] = i
           I == [n \in 0..N |-> {s \in Seq(1..n) : Good(s, n)}]
           step == [p \in (1..N) \X Seq(1..N) |->
                       IF got[p[1]] = Missing THEN Append(p[2], p[1]) ELSE p[2]]
<1>1. N \in Nat
  OBVIOUS
<1>2. <<>> \in I[0]
  BY <1>1
<1>3. ASSUME NEW n \in 1..N, NEW s \in I[n - 1] PROVE step[<<n, s>>] \in I[n]
  <2>1. n - 1 \in 0..N /\ n \in 0..N /\ n \in Nat /\ n >= 1
    BY <1>1
  <2>2. Good(s, n - 1) /\ s \in Seq(1..(n - 1))
    BY <2>1
  <2>3. s \in Seq(1..n) /\ s \in Seq(1..N) /\ Len(s) \in Nat /\ DOMAIN s = 1..Len(s)
    BY <1>1, <2>1, <2>2
  <2>4. \A k \in DOMAIN s : s[k] \in 1..(n - 1)
    BY <2>2
  <2>5. step[<<n, s>>] = IF got[n] = Missing THEN Append(s, n) ELSE s
    BY <2>3
  <2>6. ASSUME got[n] = Missing PROVE Good(Append(s, n), n)
    <3>1. /\ Append(s, n) \in Seq(1..n) /\ Len(Append(s, n)) = Len(s) + 1
          /\ \A k \in 1..Len(s) : Append(s, n)[k] = s[k]
          /\ Append(s, n)[Len(s) + 1] = n
          /\ DOMAIN Append(s, n) = 1..(Len(s) + 1)
      BY <2>1, <2>3
    <3> DEFINE a == Append(s, n)
    <3> HIDE DEF a
    <3>2. Len(a) <= n
      BY <2>1, <2>2, <2>3, <3>1 DEF a
    <3>3. ASSUME NEW k \in DOMAIN a, NEW l \in DOMAIN a, a[k] = a[l] PROVE k = l
      <4>1. (k \in 1..Len(s) \/ k = Len(s) + 1) /\ (l \in 1..Len(s) \/ l = Len(s) + 1)
        BY <2>3, <3>1 DEF a
      <4>2. \A h \in 1..Len(s) : a[h] = s[h] /\ a[h] \in 1..(n - 1) /\ a[h] # n
        BY <2>1, <2>3, <2>4, <3>1 DEF a
      <4>3. a[Len(s) + 1] = n
        BY <3>1 DEF a
      <4> QED BY <2>2, <2>3, <3>3, <4>1, <4>2, <4>3
    <3>4. ASSUME NEW i \in 1..n, got[i] = Missing PROVE \E k \in DOMAIN a : a[k] = i
      <4>1. CASE i = n
        <5>1. Len(s) + 1 \in DOMAIN a /\ a[Len(s) + 1] = n
          BY <2>3, <3>1 DEF a
        <5> QED BY <4>1, <5>1
      <4>2. CASE i # n
        <5>1. i \in 1..(n - 1)
          BY <2>1, <4>2
        <5>2. PICK k \in DOMAIN s : s[k] = i
          BY <2>2, <3>4, <5>1
        <5>3. k \in DOMAIN a /\ a[k] = i
          BY <2>3, <3>1, <5>2 DEF a
        <5> QED BY <5>3
      <4> QED BY <4>1, <4>2
    <3> QED BY <3>1, <3>2, <3>3, <3>4 DEF a
  <2>7. ASSUME got[n] # Missing PROVE Good(s, n)
    <3>1. \A i \in 1..n : got[i] = Missing => i \in 1..(n - 1)
      BY <2>1, <2>7
    <3>2. Len(s) <= n
      BY <2>1, <2>2, <2>3
    <3> QED BY <2>2, <2>3, <3>1, <3>2
  <2> HIDE DEF Good, step
  <2>8. Good(step[<<n, s>>], n)
    BY <2>5, <2>6, <2>7
  <2>9. Good(step[<<n, s>>], n) => step[<<n, s>>] \in Seq(1..n)
    BY DEF Good
  <2> QED BY <2>1, <2>8, <2>9
<1>4. PICK f : Passes(f, N, <<>>, step) /\ \A n \in 0..N : f[n] \in I[n]
  <2>1. <<>> \in I[0] /\ \A n \in 1..N : \A x \in I[n - 1] : step[<<n, x>>] \in I[n]
    BY <1>2, <1>3
  <2> HIDE DEF N, I, step
  <2> QED BY <1>1, <2>1, Loop
<1>5. ASSUME NEW n \in 1..N, NEW x \in I[n - 1]
      PROVE  step[<<n, x>>] = IF got[n] = Missing THEN Append(x, n) ELSE x
  <2>1. n - 1 \in 0..N /\ x \in Seq(1..(n - 1))
    BY <1>1
  <2>2. x \in Seq(1..N)
    BY <1>1, <2>1
  <2> QED BY <2>2
<1> DEFINE Rec(g) == g = [n \in 0..Len(got) |->
                             IF n = 0 THEN <<>> ELSE IF got[n] = Missing THEN Append(g[n - 1], n) ELSE g[n - 1]]
           h == CHOOSE g : Rec(g)
<1>6. Rec(f)
  <2>1. ASSUME NEW n \in 0..N
        PROVE  f[n] = IF n = 0 THEN <<>> ELSE IF got[n] = Missing THEN Append(f[n - 1], n) ELSE f[n - 1]
    <3>1. CASE n = 0
      BY <1>4, <3>1 DEF Passes
    <3>2. CASE n # 0
      <4>1. n - 1 \in 0..N /\ n \in 1..N
        BY <1>1, <3>2
      <4> HIDE DEF I, step
      <4>2. f[n] = step[<<n, f[n - 1]>>] /\ f[n - 1] \in I[n - 1]
        BY <1>4, <3>2, <4>1 DEF Passes
      <4> QED BY <1>5, <3>2, <4>1, <4>2
    <3> QED BY <3>1, <3>2
  <2>2. f = [n \in 0..N |-> f[n]]
    BY <1>4 DEF Passes
  <2> HIDE DEF I, step
  <2> QED BY <2>1, <2>2
<1>7. Rec(h) /\ Misses(got) = h[N]
  <2>1. Rec(h)
    BY <1>6
  <2>2. Misses(got) = h[N]
    BY DEF Misses
  <2> QED BY <2>1, <2>2
<1>8. \A n \in 0..N : h[n] \in I[n]
  <2> HIDE DEF h
  <2>1. h[0] = <<>>
    BY <1>1, <1>7
  <2>2. ASSUME NEW n \in 1..N, h[n - 1] \in I[n - 1] PROVE h[n] \in I[n]
    <3>1. h[n] = IF got[n] = Missing THEN Append(h[n - 1], n) ELSE h[n - 1]
      <4>1. n \in 0..N /\ n # 0
        BY <1>1
      <4> QED BY <1>7, <4>1
    <3>2. h[n] = step[<<n, h[n - 1]>>]
      <4> HIDE DEF I, step
      <4> QED BY <1>5, <2>2, <3>1
    <3> HIDE DEF I, step
    <3> QED BY <1>3, <2>2, <3>2
  <2> HIDE DEF I, N
  <2> QED BY <1>1, <1>2, <2>1, <2>2, Kept
<1>9. h[N] \in I[N] /\ N \in 0..N
  <2>1. N \in 0..N
    BY <1>1
  <2> HIDE DEF N, I, h
  <2> QED BY <1>8, <2>1
<1>10. Good(Misses(got), N)
  <2> HIDE DEF h, Good
  <2> QED BY <1>7, <1>9
<1> QED BY <1>10

-----------------------------------------------------------------------------
(* The rows of OneRowPerText, for any list.                                *)
OneRow(kept) ==
    \A i, j \in 1..Len(kept) :
        /\ kept[i].vector = <<kept[i].model, kept[i].text>>
        /\ i # j => kept[i].model # kept[j].model \/ kept[i].text # kept[j].text

(* The rows of model m with a text in M are there, and are the last ones.  *)
Newest(kept, m, M) ==
    /\ \A t \in M : \E i \in 1..Len(kept) : kept[i].model = m /\ kept[i].text = t
    /\ \A i, j \in 1..Len(kept) :
           i <= j /\ kept[i].model = m /\ kept[i].text \in M => kept[j].model = m /\ kept[j].text \in M

(* An insertion takes away the row d of the key, if there is one, and puts *)
(* the new row at the end.                                                 *)
LEMMA InsertedPlaces ==
    ASSUME NEW kept \in Seq(Row), OneRow(kept), NEW r \in Row
    PROVE  \E d \in 1..(Len(kept) + 1) :
               LET q == Inserted(kept, r)
                   n == IF d <= Len(kept) THEN Len(kept) - 1 ELSE Len(kept)
               IN  /\ q \in Seq(Row) /\ Len(q) = n + 1 /\ q[n + 1] = r
                   /\ \A i \in 1..n : q[i] = kept[IF i < d THEN i ELSE i + 1]
                   /\ \A i \in 1..Len(kept) : kept[i].model = r.model /\ kept[i].text = r.text <=> i = d
<1> DEFINE N == Len(kept)
           old == Keyed(kept, r.model, r.text)
           w == Without(kept, r.model, r.text)
<1>1. N \in Nat
  OBVIOUS
<1>2. old = {i \in 1..N : kept[i].model = r.model /\ kept[i].text = r.text}
  BY DEF Keyed
<1>3. Inserted(kept, r) = Append(w, r)
  BY DEF Inserted
<1>4. CASE old = {}
  <2>1. w = kept
    BY <1>4 DEF Without
  <2>2. /\ Append(kept, r) \in Seq(Row) /\ Len(Append(kept, r)) = N + 1 /\ Append(kept, r)[N + 1] = r
        /\ \A i \in 1..N : Append(kept, r)[i] = kept[i]
    OBVIOUS
  <2>3. \A i \in 1..N : ~(kept[i].model = r.model /\ kept[i].text = r.text)
    BY <1>2, <1>4
  <2>4. N + 1 \in 1..(N + 1) /\ ~(N + 1 <= N) /\ \A i \in 1..N : i # N + 1 /\ i < N + 1
    BY <1>1
  <2> HIDE DEF w, old
  <2> WITNESS N + 1 \in 1..(Len(kept) + 1)
  <2> QED BY <1>3, <2>1, <2>2, <2>3, <2>4
<1>5. CASE old # {}
  <2> DEFINE d == CHOOSE i \in old : TRUE
             a == SubSeq(kept, 1, d - 1)
             b == SubSeq(kept, d + 1, N)
  <2>1. w = a \o b /\ d \in old
    BY <1>5 DEF Without, RemoveAt
  <2>2. d \in 1..N /\ kept[d].model = r.model /\ kept[d].text = r.text
    BY <1>2, <2>1
  <2> HIDE DEF d, w, old
  <2>3. /\ a \in Seq(Row) /\ Len(a) = d - 1 /\ \A i \in 1..(d - 1) : a[i] = kept[i]
    <3>1. /\ 1 \in 1..(N + 1) /\ d - 1 \in 0..N
          /\ (1 <= d - 1 => d - 1 - 1 + 1 = d - 1) /\ (~(1 <= d - 1) => d - 1 = 0)
      BY <1>1, <2>2
    <3> QED BY <1>1, <2>2, <3>1
  <2>4. /\ b \in Seq(Row) /\ Len(b) = N - d /\ \A i \in 1..(N - d) : b[i] = kept[d + i]
    <3>1. d + 1 \in 1..(N + 1) /\ N \in d..N
      BY <1>1, <2>2
    <3> QED BY <1>1, <2>2, <3>1
  <2> HIDE DEF a, b
  <2>5. /\ a \o b \in Seq(Row) /\ Len(a \o b) = Len(a) + Len(b)
        /\ \A i \in 1..(Len(a) + Len(b)) : (a \o b)[i] = IF i <= Len(a) THEN a[i] ELSE b[i - Len(a)]
    BY <2>3, <2>4, ConcatProperties, Zenon
  <2>6. /\ w \in Seq(Row) /\ Len(w) = N - 1
    BY <1>1, <2>1, <2>2, <2>3, <2>4, <2>5
  <2>7. ASSUME NEW i \in 1..(N - 1) PROVE w[i] = kept[IF i < d THEN i ELSE i + 1]
    <3>1. i \in 1..(Len(a) + Len(b)) /\ Len(a) = d - 1 /\ Len(b) = N - d /\ d \in 1..N
      BY <1>1, <2>2, <2>3, <2>4
    <3>2. w[i] = IF i <= Len(a) THEN a[i] ELSE b[i - Len(a)]
      BY <2>1, <2>5, <3>1
    <3>3. CASE i < d
      <4>1. i <= Len(a) /\ i \in 1..(d - 1)
        BY <1>1, <3>1, <3>3
      <4> QED BY <2>3, <3>2, <3>3, <4>1
    <3>4. CASE ~(i < d)
      <4>1. ~(i <= Len(a)) /\ i - Len(a) \in 1..(N - d) /\ d + (i - Len(a)) = i + 1
        BY <1>1, <3>1, <3>4
      <4> QED BY <2>4, <3>2, <3>4, <4>1
    <3> QED BY <3>3, <3>4
  <2>8. /\ Append(w, r) \in Seq(Row) /\ Len(Append(w, r)) = N /\ Append(w, r)[N] = r
        /\ \A i \in 1..(N - 1) : Append(w, r)[i] = w[i]
    BY <1>1, <2>6
  <2>9. \A i \in 1..N : kept[i].model = r.model /\ kept[i].text = r.text <=> i = d
    BY <2>2 DEF OneRow
  <2>10. d \in 1..(N + 1) /\ d <= N /\ (N - 1) + 1 = N
    BY <1>1, <2>2
  <2> USE <2>10
  <2> WITNESS d \in 1..(Len(kept) + 1)
  <2> QED BY <1>3, <2>7, <2>8, <2>9, <2>10
<1> QED BY <1>4, <1>5

(* It keeps one row for a key, and puts the row it makes after those made  *)
(* before.                                                                 *)
LEMMA InsertedKeeps ==
    ASSUME NEW kept \in Seq(Row), OneRow(kept), NEW r \in Row, r.vector = <<r.model,
           r.text>>,
           NEW M, Newest(kept, r.model, M)
    PROVE  /\ Inserted(kept, r) \in Seq(Row)
           /\ OneRow(Inserted(kept, r))
           /\ Newest(Inserted(kept, r), r.model, M \cup {r.text})
<1> DEFINE q == Inserted(kept, r)
           N == Len(kept)
<1>1. PICK d \in 1..(N + 1) :
          LET n == IF d <= N THEN N - 1 ELSE N
          IN  /\ q \in Seq(Row) /\ Len(q) = n + 1 /\ q[n + 1] = r
              /\ \A i \in 1..n : q[i] = kept[IF i < d THEN i ELSE i + 1]
              /\ \A i \in 1..N : kept[i].model = r.model /\ kept[i].text = r.text <=> i = d
  BY InsertedPlaces
<1> DEFINE n == IF d <= N THEN N - 1 ELSE N
           p(i) == IF i < d THEN i ELSE i + 1
<1>2. N \in Nat /\ n \in Nat /\ d \in 1..(N + 1)
  BY <1>1
<1>3. /\ q \in Seq(Row) /\ Len(q) = n + 1 /\ q[n + 1] = r
      /\ \A i \in 1..n : q[i] = kept[p(i)]
      /\ \A i \in 1..N : kept[i].model = r.model /\ kept[i].text = r.text <=> i = d
  BY <1>1
<1>4. \A i \in 1..n : p(i) \in 1..N /\ p(i) # d /\ \A j \in 1..n : (i < j => p(i) < p(j)) /\ (i # j => p(i) # p(j))
  BY <1>2
<1>5. \A k \in 1..N : k # d => \E i \in 1..n : p(i) = k
  <2> SUFFICES ASSUME NEW k \in 1..N, k # d PROVE \E i \in 1..n : p(i) = k
    OBVIOUS
  <2>1. CASE k < d
    <3>1. k \in 1..n /\ p(k) = k
      BY <1>2, <2>1
    <3> QED BY <3>1
  <2>2. CASE k > d
    <3>1. k - 1 \in 1..n /\ p(k - 1) = k
      BY <1>2, <2>2
    <3> QED BY <3>1
  <2> QED BY <1>2, <2>1, <2>2
<1>6. \A i \in 1..(n + 1) : i \in 1..n \/ i = n + 1
  BY <1>2
<1> HIDE DEF q, n, p, N
<1>7. OneRow(q)
  <2> SUFFICES ASSUME NEW i \in 1..(n + 1), NEW j \in 1..(n + 1)
               PROVE  /\ q[i].vector = <<q[i].model, q[i].text>>
                      /\ i # j => q[i].model # q[j].model \/ q[i].text # q[j].text
    BY <1>3 DEF OneRow
  <2>1. \A k \in 1..n : q[k].vector = <<q[k].model, q[k].text>> /\ ~(q[k].model = r.model /\ q[k].text = r.text)
    BY <1>3, <1>4 DEF OneRow, N
  <2>2. \A k, l \in 1..n : k # l => q[k].model # q[l].model \/ q[k].text # q[l].text
    BY <1>3, <1>4 DEF OneRow, N
  <2> QED BY <1>3, <1>6, <2>1, <2>2
<1>8. ASSUME NEW t \in M \cup {r.text} PROVE \E i \in 1..(n + 1) : q[i].model = r.model /\ q[i].text = t
  <2>1. CASE t = r.text
    <3>1. n + 1 \in 1..(n + 1)
      BY <1>2
    <3> QED BY <1>3, <2>1, <3>1
  <2>2. CASE t # r.text
    <3>1. PICK k \in 1..N : kept[k].model = r.model /\ kept[k].text = t
      BY <2>2, <1>8 DEF Newest, N
    <3>2. PICK i \in 1..n : p(i) = k
      BY <1>3, <1>5, <2>2, <3>1
    <3>3. i \in 1..(n + 1) /\ q[i] = kept[k]
      BY <1>2, <1>3, <3>2
    <3> QED BY <3>1, <3>3
  <2> QED BY <2>1, <2>2
<1>9. ASSUME NEW i \in 1..(n + 1), NEW j \in 1..(n + 1), i <= j, q[i].model = r.model,
             q[i].text \in M \cup {r.text}
      PROVE  q[j].model = r.model /\ q[j].text \in M \cup {r.text}
  <2>1. CASE j = n + 1
    BY <1>3, <2>1
  <2>2. CASE j \in 1..n
    <3>1. i \in 1..n
      BY <1>2, <1>9, <2>2
    <3>2. q[i] = kept[p(i)] /\ q[j] = kept[p(j)] /\ p(i) \in 1..N /\ p(j) \in 1..N /\ p(i) # d
      BY <1>3, <1>4, <2>2, <3>1
    <3>3. kept[p(i)].text \in M
      BY <1>3, <1>9, <3>2
    <3>4. p(i) <= p(j)
      BY <1>2, <1>9, <2>2, <3>1 DEF p
    <3> QED BY <1>9, <3>2, <3>3, <3>4 DEF Newest, N
  <2> QED BY <1>6, <2>1, <2>2
<1> QED BY <1>3, <1>7, <1>8, <1>9 DEF Newest, q

(* A list of new rows of one model: one row for a key, and the new rows at *)
(* the end.                                                                *)
LEMMA InsertedAllKeeps ==
    ASSUME NEW kept \in Seq(Row), OneRow(kept), NEW m, NEW new \in Seq(Row),
           \A k \in 1..Len(new) : new[k].model = m /\ new[k].vector = <<m, new[k].text>>
    PROVE  /\ InsertedAll(kept, new) \in Seq(Row)
           /\ OneRow(InsertedAll(kept, new))
           /\ Newest(InsertedAll(kept, new), m, {new[k].text : k \in 1..Len(new)})
<1> DEFINE N == Len(new)
           M(n) == {new[k].text : k \in 1..n}
           I == [n \in 0..N |-> {q \in Seq(Row) : OneRow(q) /\ Newest(q, m, M(n))}]
           step == [p \in (1..N) \X Seq(Row) |-> Inserted(p[2], new[p[1]])]
<1>1. N \in Nat
  OBVIOUS
<1>2. kept \in I[0]
  <2>1. M(0) = {}
    OBVIOUS
  <2>2. Newest(kept, m, {})
    BY DEF Newest
  <2>3. I[0] = {q \in Seq(Row) : OneRow(q) /\ Newest(q, m, M(0))}
    BY <1>1
  <2> HIDE DEF I, M
  <2> QED BY <2>1, <2>2, <2>3
<1>3. ASSUME NEW n \in 1..N, NEW q \in I[n - 1]
      PROVE  Inserted(q, new[n]) \in I[n] /\ step[<<n, q>>] = Inserted(q, new[n])
  <2>1. n - 1 \in 0..N /\ n \in 0..N
    BY <1>1
  <2>2. q \in Seq(Row) /\ OneRow(q) /\ Newest(q, m, M(n - 1))
    BY <2>1
  <2>3. new[n] \in Row /\ new[n].model = m /\ new[n].vector = <<new[n].model, new[n].text>>
    OBVIOUS
  <2>4. M(n) = M(n - 1) \cup {new[n].text}
    <3>1. \A k : k \in 1..n <=> k \in 1..(n - 1) \/ k = n
      BY <1>1
    <3> QED BY <3>1
  <2>5. step[<<n, q>>] = Inserted(q, new[n])
    BY <2>2
  <2> HIDE DEF step
  <2>6. /\ Inserted(q, new[n]) \in Seq(Row) /\ OneRow(Inserted(q, new[n]))
        /\ Newest(Inserted(q, new[n]), m, M(n - 1) \cup {new[n].text})
    <3> HIDE DEF M
    <3> QED BY <2>2, <2>3, InsertedKeeps
  <2> HIDE DEF M
  <2> QED BY <2>1, <2>4, <2>5, <2>6
<1>4. PICK f : Passes(f, N, kept, step) /\ \A n \in 0..N : f[n] \in I[n]
  <2>1. \A n \in 1..N : \A x \in I[n - 1] : step[<<n, x>>] \in I[n]
    <3> HIDE DEF I, step, N
    <3> QED BY <1>3
  <2> HIDE DEF N, I, step
  <2> QED BY <1>1, <1>2, <2>1, Loop
<1> HIDE DEF I, step
<1> DEFINE Rec(g) == g = [n \in 0..Len(new) |-> IF n = 0 THEN kept ELSE Inserted(g[n - 1], new[n])]
           h == CHOOSE g : Rec(g)
<1>6. Rec(f)
  <2>1. ASSUME NEW n \in 0..N
        PROVE  f[n] = IF n = 0 THEN kept ELSE Inserted(f[n - 1], new[n])
    <3>1. CASE n = 0
      BY <1>4, <3>1 DEF Passes
    <3>2. CASE n # 0
      <4>1. n - 1 \in 0..N /\ n \in 1..N
        BY <1>1, <3>2
      <4>2. f[n] = step[<<n, f[n - 1]>>] /\ f[n - 1] \in I[n - 1]
        BY <1>4, <3>2, <4>1 DEF Passes
      <4> QED BY <1>3, <3>2, <4>1, <4>2
    <3> QED BY <3>1, <3>2
  <2>2. f = [n \in 0..N |-> f[n]]
    BY <1>4 DEF Passes
  <2> QED BY <2>1, <2>2
<1>7. Rec(h) /\ InsertedAll(kept, new) = h[N]
  <2>1. Rec(h)
    BY <1>6
  <2>2. InsertedAll(kept, new) = h[N]
    BY DEF InsertedAll
  <2> QED BY <2>1, <2>2
<1>8. \A n \in 0..N : h[n] \in I[n]
  <2> HIDE DEF h
  <2>1. h[0] = kept
    BY <1>1, <1>7
  <2>2. ASSUME NEW n \in 1..N, h[n - 1] \in I[n - 1] PROVE h[n] \in I[n]
    <3>1. h[n] = Inserted(h[n - 1], new[n])
      <4>1. n \in 0..N /\ n # 0
        BY <1>1
      <4> QED BY <1>7, <4>1
    <3> QED BY <1>3, <2>2, <3>1
  <2> HIDE DEF N
  <2> QED BY <1>1, <1>2, <2>1, <2>2, Kept
<1>9. h[N] \in I[N]
  <2>1. N \in 0..N
    BY <1>1
  <2> HIDE DEF N, h
  <2> QED BY <1>8, <2>1
<1>10. InsertedAll(kept, new) \in {q \in Seq(Row) : OneRow(q) /\ Newest(q, m, M(N))}
  <2>1. I[N] = {q \in Seq(Row) : OneRow(q) /\ Newest(q, m, M(N))}
    BY <1>1 DEF I
  <2> HIDE DEF h, M
  <2> QED BY <1>7, <1>9, <2>1
<1> QED BY <1>10

(* Pruning keeps one row for a key, and every row that is among the last   *)
(* ones, when these are no more than the table may hold.                   *)
LEMMA PrunedKeeps ==
    ASSUME NEW kept \in Seq(Row), OneRow(kept)
    PROVE  /\ Pruned(kept) \in Seq(Row) /\ OneRow(Pruned(kept))
           /\ \A m, M : Newest(kept, m, M) /\ IsFiniteSet(M) /\ Cardinality(M) <= MaxRows =>
                  \A t \in M : \E i \in 1..Len(Pruned(kept)) :
                      Pruned(kept)[i].model = m /\ Pruned(kept)[i].text = t
<1> DEFINE N == Len(kept)  q == Pruned(kept)  off == N - MaxRows
<1>1. N \in Nat /\ MaxRows \in Nat \ {0}
  BY CallsAssumption
<1>2. CASE N <= MaxRows
  BY <1>2 DEF Pruned, Newest
<1>3. CASE ~(N <= MaxRows)
  <2>1. q = SubSeq(kept, off + 1, N)
    BY <1>3 DEF Pruned
  <2>2. off \in Nat /\ off + 1 \in 1..(N + 1) /\ N \in off..N /\ off + 1 <= N /\ N - (off + 1) + 1 = MaxRows
    BY <1>1, <1>3
  <2> HIDE DEF off, N, q
  <2>3. /\ q \in Seq(Row) /\ Len(q) = MaxRows /\ \A i \in 1..MaxRows : q[i] = kept[off + i]
    <3>1. off + 1 - 1 = off /\ \A i \in 1..MaxRows : off + 1 + i - 1 = off + i
      BY <1>1, <2>2
    <3>2. /\ SubSeq(kept, off + 1, N) \in Seq(Row)
          /\ Len(SubSeq(kept, off + 1, N)) = N - (off + 1) + 1
          /\ \A i \in 1..(N - (off + 1) + 1) : SubSeq(kept, off + 1, N)[i] = kept[off + 1 + i - 1]
      BY <2>2, <3>1, SubSeqProperties DEF N
    <3> QED BY <2>1, <2>2, <3>1, <3>2
  <2>4. \A i \in 1..MaxRows : off + i \in 1..N
    BY <1>1, <2>2
  <2>5. OneRow(q)
    <3>1. \A i, j \in 1..MaxRows : i # j => off + i # off + j
      BY <1>1, <2>2
    <3> QED BY <2>3, <2>4, <3>1 DEF OneRow, N
  <2>6. ASSUME NEW m, NEW M, Newest(kept, m, M), IsFiniteSet(M), Cardinality(M) <= MaxRows, NEW t \in M
        PROVE  \E i \in 1..Len(q) : q[i].model = m /\ q[i].text = t
    <3>1. PICK k \in 1..N : kept[k].model = m /\ kept[k].text = t
      BY <2>6 DEF Newest, N
    <3>2. k \in Int /\ N \in Int /\ k <= N
      BY <1>1
    <3>3. \A j \in k..N : j \in 1..N /\ kept[j].model = m /\ kept[j].text \in M
      <4>1. \A j \in k..N : j \in 1..N /\ k <= j
        BY <3>2
      <4> QED BY <2>6, <3>1, <4>1 DEF Newest, N
    <3> DEFINE g == [j \in k..N |-> kept[j].text]
    <3>4. g \in Injection(k..N, M)
      <4>1. \A i, j \in k..N : g[i] = g[j] => i = j
        BY <3>3 DEF OneRow, N
      <4> QED BY <3>3, <4>1 DEF Injection, IsInjective
    <3>5. Cardinality(k..N) <= Cardinality(M)
      <4> HIDE DEF g
      <4> QED BY <2>6, <3>4, FS_Injection
    <3>6. Cardinality(k..N) = N - k + 1
      BY <3>2, FS_Interval
    <3>7. Cardinality(M) \in Nat
      BY <2>6, FS_CardinalityType
    <3>8. k - off \in 1..MaxRows /\ off + (k - off) = k
      BY <1>1, <2>2, <2>6, <3>2, <3>5, <3>6, <3>7 DEF off
    <3>9. q[k - off] = kept[k]
      BY <2>3, <3>8
    <3> QED BY <2>3, <3>1, <3>8, <3>9
  <2> QED BY <2>3, <2>5, <2>6 DEF q
<1> QED BY <1>2, <1>3

-----------------------------------------------------------------------------
(* What the cache tells is the vector of the text, or nothing.             *)
LEMMA CachedRight ==
    ASSUME CallsIInv, NEW m \in Models, NEW t \in Texts
    PROVE  Cached(m, t) \in {Missing, <<m, t>>}
BY DEF Cached, Keyed, CallsIInv, OneRowPerText

(* A vector is not the mark of a missing one.                              *)
LEMMA VectorIsThere ==
    ASSUME NEW m, NEW t
    PROVE  <<m, t>> # Missing
BY DEF Missing

(* A call that moves on, and the others stay.                              *)
LEMMA CallMoves ==
    ASSUME CallsIInv, NEW c \in Calls, NEW r, call' = [call EXCEPT ![c] = r],
           r \in [at : Waiting \cup {"idle", "done", "failed", "lost"},
                  model : Models, provider : Nat,
                  texts : Seq(Texts), got : Seq(Vector \cup {Missing}),
                  missing : Seq(1..MaxTexts), from : 0..MaxTexts],
           CallInv(r),
           r.at = "done" => r.got = [i \in 1..Len(r.texts) |-> <<r.model, r.texts[i]>>],
           {pool', loads'} \subseteq [Models -> Nat],
           \A m \in Models : loads'[m] > 0 => pool'[m] > 0,
           table' \in Seq(Row), OneRowPerText', count' \in Nat, crashes' = crashes
    PROVE  CallsIInv'
<1>1. call'[c] = r /\ \A d \in Calls \ {c} : call'[d] = call[d]
  BY DEF CallsIInv, CallsTypeOK
<1>2. CallsTypeOK'
  BY DEF CallsIInv, CallsTypeOK
<1>3. EveryTextItsVector'
  <2> SUFFICES ASSUME NEW d \in Calls, call'[d].at = "done"
               PROVE  call'[d].got = [i \in 1..Len(call'[d].texts) |-> <<call'[d].model, call'[d].texts[i]>>]
    BY DEF EveryTextItsVector
  <2>1. CASE d = c
    BY <1>1, <2>1
  <2>2. CASE d # c
    <3>1. call'[d] = call[d] /\ call[d].at = "done"
      BY <1>1, <2>2
    <3>2. call[d].got = [i \in 1..Len(call[d].texts) |-> <<call[d].model, call[d].texts[i]>>]
      BY <3>1 DEF CallsIInv, EveryTextItsVector
    <3> QED BY <3>1, <3>2
  <2> QED BY <2>1, <2>2
<1>4. ASSUME NEW d \in Calls PROVE CallInv(call'[d])
  BY <1>1 DEF CallsIInv
<1> QED BY <1>2, <1>3, <1>4 DEF CallsIInv

(* The pool.                                                               *)
LEMMA CallsAskIInv ==
    ASSUME CallsIInv, NEW c \in Calls, NEW m \in Models,
           NEW ts \in BoundedSeq(Texts, MaxTexts), Ask(c, m, ts)
    PROVE  CallsIInv'
<1> DEFINE r == [call[c] EXCEPT !.at = IF pool[m] = 0 THEN "loading" ELSE "ready",
                                !.model = m, !.provider = pool[m], !.texts = ts]
<1>1. ts \in Seq(Texts) /\ Len(ts) <= MaxTexts
  <2>1. PICK n \in 0..MaxTexts : ts \in [1..n -> Texts]
    BY DEF BoundedSeq, SeqOf
  <2>2. MaxTexts \in Nat
    BY CallsAssumption
  <2> QED BY <2>1, <2>2
<1>2. /\ call' = [call EXCEPT ![c] = r] /\ UNCHANGED <<pool, loads, table, count, crashes>>
      /\ call[c].at = "idle"
  BY DEF Ask, CallsIInv, CallsTypeOK
<1>3. r \in [at : Waiting \cup {"idle", "done", "failed", "lost"},
             model : Models, provider : Nat,
             texts : Seq(Texts), got : Seq(Vector \cup {Missing}),
             missing : Seq(1..MaxTexts), from : 0..MaxTexts]
  BY <1>1 DEF CallsIInv, CallsTypeOK, Waiting
<1>4. /\ r.at = (IF pool[m] = 0 THEN "loading" ELSE "ready") /\ r.provider = pool[m] /\ r.texts = ts
      /\ r.from = call[c].from /\ pool[m] \in Nat /\ call[c].from = 0
  BY <1>2 DEF CallsIInv, CallsTypeOK, CallInv
<1> HIDE DEF r
<1>6. CallInv(r)
  BY <1>1, <1>4 DEF CallInv
<1>7. /\ {pool', loads'} \subseteq [Models -> Nat] /\ \A x \in Models : loads'[x] > 0 => pool'[x] > 0
      /\ table' \in Seq(Row) /\ OneRowPerText' /\ count' \in Nat /\ crashes' = crashes
  BY <1>2 DEF CallsIInv, CallsTypeOK, OneRowPerText
<1> QED BY <1>2, <1>3, <1>4, <1>6, <1>7, CallMoves

(* A provider is loaded, and is the one of its model from now on.          *)
LEMMA CallsLoadedIInv ==
    ASSUME CallsIInv, NEW c \in Calls, Loaded(c)
    PROVE  CallsIInv'
<1> DEFINE m == call[c].model
           r == [call[c] EXCEPT !.at = "ready", !.provider = loads[m] + 1]
<1>1. /\ call' = [call EXCEPT ![c] = r] /\ UNCHANGED <<table, count, crashes>>
      /\ call[c].at = "loading" /\ m \in Models /\ loads[m] \in Nat
      /\ loads' = [loads EXCEPT ![m] = @ + 1] /\ pool' = [pool EXCEPT ![m] = loads[m] + 1]
  BY DEF Loaded, CallsIInv, CallsTypeOK
<1> HIDE DEF m
<1>2. r \in [at : Waiting \cup {"idle", "done", "failed", "lost"},
             model : Models, provider : Nat,
             texts : Seq(Texts), got : Seq(Vector \cup {Missing}),
             missing : Seq(1..MaxTexts), from : 0..MaxTexts]
  <2>1. /\ call[c] \in [at : Waiting \cup {"idle", "done", "failed", "lost"},
                       model : Models, provider : Nat,
                       texts : Seq(Texts), got : Seq(Vector \cup {Missing}),
                       missing : Seq(1..MaxTexts), from : 0..MaxTexts]
        /\ loads[m] + 1 \in Nat
    BY <1>1 DEF CallsIInv, CallsTypeOK
  <2> QED BY <2>1 DEF Waiting
<1>3. /\ r.at = "ready" /\ r.provider = loads[m] + 1 /\ r.texts = call[c].texts
      /\ r.from = call[c].from /\ call[c].from = 0 /\ Len(call[c].texts) <= MaxTexts
  BY <1>1 DEF CallsIInv, CallsTypeOK, CallInv
<1>4. /\ {pool', loads'} \subseteq [Models -> Nat] /\ \A x \in Models : loads'[x] > 0 => pool'[x] > 0
      /\ table' \in Seq(Row) /\ OneRowPerText' /\ count' \in Nat /\ crashes' = crashes
  <2>1. pool' \in [Models -> Nat] /\ loads' \in [Models -> Nat]
    BY <1>1 DEF CallsIInv, CallsTypeOK
  <2>2. \A x \in Models : loads'[x] > 0 => pool'[x] > 0
    BY <1>1 DEF CallsIInv, CallsTypeOK
  <2>3. table' \in Seq(Row) /\ OneRowPerText' /\ count' \in Nat /\ crashes' = crashes
    BY <1>1 DEF CallsIInv, CallsTypeOK, OneRowPerText
  <2> QED BY <2>1, <2>2, <2>3
<1> HIDE DEF r
<1>6. CallInv(r)
  BY <1>1, <1>3 DEF CallInv
<1> QED BY <1>1, <1>2, <1>3, <1>4, <1>6, CallMoves

(* The cache is read.                                                      *)
LEMMA CallsReadIInv ==
    ASSUME CallsIInv, NEW c \in Calls, Read(c)
    PROVE  CallsIInv'
<1> DEFINE m == call[c].model  ts == call[c].texts  n == Len(ts)
           got == LookedUp(m, ts)  missing == Misses(got)
           r == [call[c] EXCEPT !.at = IF missing = <<>> THEN "done" ELSE "embedding",
                                !.got = got, !.missing = missing]
<1>1. /\ call' = [call EXCEPT ![c] = r] /\ UNCHANGED <<pool, loads, table, count, crashes>>
      /\ call[c].at = "ready"
  BY DEF Read, CallsIInv, CallsTypeOK
<1>2. m \in Models /\ ts \in Seq(Texts) /\ n \in Nat /\ n <= MaxTexts /\ MaxTexts \in Nat
  BY CallsAssumption DEF CallsIInv, CallsTypeOK, CallInv
<1>3. \A i \in 1..n : Cached(m, ts[i]) \in {Missing, <<m, ts[i]>>} /\ ts[i] \in Texts
  <2> HIDE DEF m, ts
  <2> QED BY <1>2, CachedRight
<1>4. /\ got \in Seq(Vector \cup {Missing}) /\ Len(got) = n
      /\ \A i \in 1..n : got[i] = Missing \/ got[i] = <<m, ts[i]>>
  <2>1. got = [i \in 1..n |-> Cached(m, ts[i])]
    BY DEF LookedUp
  <2>2. \A i \in 1..n : Cached(m, ts[i]) \in Vector \cup {Missing}
    BY <1>2, <1>3 DEF Vector
  <2> HIDE DEF m, ts, n, got
  <2> QED BY <1>2, <1>3, <2>1, <2>2
<1>5. /\ missing \in Seq(1..n) /\ Len(missing) <= n
      /\ \A k, l \in DOMAIN missing : missing[k] = missing[l] => k = l
      /\ \A i \in 1..n : got[i] = Missing => \E k \in DOMAIN missing : missing[k] = i
  <2> HIDE DEF m, ts, n, got
  <2> QED BY <1>4, MissesListed
<1>6. /\ missing \in Seq(1..MaxTexts) /\ Len(missing) \in Nat /\ DOMAIN missing = 1..Len(missing)
      /\ \A k \in DOMAIN missing : missing[k] \in 1..n
  <2> HIDE DEF n, missing
  <2> QED BY <1>2, <1>5
<1>7. r \in [at : Waiting \cup {"idle", "done", "failed", "lost"},
             model : Models, provider : Nat,
             texts : Seq(Texts), got : Seq(Vector \cup {Missing}),
             missing : Seq(1..MaxTexts), from : 0..MaxTexts]
  <2> HIDE DEF got, missing, ts, m, n
  <2> QED BY <1>4, <1>6 DEF CallsIInv, CallsTypeOK, Waiting
<1>8. /\ r.at = (IF missing = <<>> THEN "done" ELSE "embedding") /\ r.model = m /\ r.texts = ts
      /\ r.got = got /\ r.missing = missing /\ r.from = call[c].from
  <2> HIDE DEF got, missing, ts, m, n
  <2> QED BY DEF CallsIInv, CallsTypeOK, m, ts
<1>9. r.from = 0
  BY <1>1, <1>8 DEF CallsIInv, CallInv
<1>11. /\ {pool', loads'} \subseteq [Models -> Nat] /\ \A x \in Models : loads'[x] > 0 => pool'[x] > 0
       /\ table' \in Seq(Row) /\ OneRowPerText' /\ count' \in Nat /\ crashes' = crashes
  BY <1>1 DEF CallsIInv, CallsTypeOK, OneRowPerText
<1> HIDE DEF r, got, missing
<1>12. missing # <<>> => Len(missing) > 0
  BY <1>5, <1>6, EmptySeq
<1>13. \A i \in 1..n : got[i] = <<m, ts[i]>> \/ \E k \in DOMAIN missing : k > 0 /\ missing[k] = i
  BY <1>4, <1>5, <1>6
<1>14. r.at = "done" => r.got = [i \in 1..Len(r.texts) |-> <<r.model, r.texts[i]>>]
  <2> SUFFICES ASSUME missing = <<>> PROVE got = [i \in 1..n |-> <<m, ts[i]>>]
    BY <1>8
  <2>1. \A i \in 1..n : got[i] = <<m, ts[i]>>
    BY <1>13
  <2>2. got = [i \in 1..n |-> got[i]]
    BY <1>4
  <2> QED BY <2>1, <2>2
<1> HIDE DEF m, ts, n
<1>15. CallInv(r)
  <2>1. /\ r.at \in {"done", "embedding"} /\ (r.at = "embedding" => Len(missing) > 0)
        /\ r.got = got /\ r.missing = missing /\ r.from = 0 /\ r.model = m /\ r.texts = ts
    BY <1>8, <1>9, <1>12
  <2> QED BY <1>2, <1>4, <1>5, <1>6, <1>13, <2>1 DEF CallInv, n
<1> QED BY <1>1, <1>7, <1>11, <1>14, <1>15, CallMoves

(* The rows a call stores are of its model, each with its own vector.      *)
NewRows(r) ==
    [k \in DOMAIN r.missing |->
        [model |-> r.model, text |-> r.texts[r.missing[k]], vector |-> r.got[r.missing[k]]]]

(* What a batch fills in.                                                  *)
LEMMA BatchFills ==
    ASSUME CallsIInv, NEW c \in Calls, call[c].at = "embedding"
    PROVE  LET r == call[c]
               n == Len(r.texts)
               got == Filled(c, Size(c))
           IN  /\ Size(c) \in 1..Batch /\ After(c) \in (r.from + 1)..Len(r.missing)
               /\ got \in Seq(Vector \cup {Missing}) /\ Len(got) = n
               /\ \A i \in 1..n : \/ got[i] = <<r.model, r.texts[i]>>
                                  \/ \E k \in DOMAIN r.missing : k > After(c) /\ r.missing[k] = i
<1> DEFINE r == call[c]
           n == Len(r.texts)
           got == Filled(c, Size(c))
           N == Len(r.missing)
<1>1. /\ r.model \in Models /\ r.texts \in Seq(Texts) /\ r.got \in Seq(Vector \cup {Missing})
      /\ r.missing \in Seq(1..MaxTexts) /\ r.from \in Nat /\ N \in Nat /\ n \in Nat
      /\ DOMAIN r.missing = 1..N
  BY DEF CallsIInv, CallsTypeOK
<1>2. /\ Len(r.got) = n /\ r.from < N
      /\ \A k \in DOMAIN r.missing : r.missing[k] \in 1..n
      /\ \A k, l \in DOMAIN r.missing : r.missing[k] = r.missing[l] => k = l
      /\ \A i \in 1..n : r.got[i] = <<r.model, r.texts[i]>>
                           \/ \E k \in DOMAIN r.missing : k > r.from /\ r.missing[k] = i
  BY DEF CallsIInv, CallInv
<1>3. Batch \in Nat \ {0}
  BY CallsAssumption
<1>4. /\ Size(c) \in 1..Batch /\ After(c) \in (r.from + 1)..N /\ After(c) = r.from + Size(c)
      /\ r.from + Size(c) <= N
  <2>1. Size(c) = (IF N - r.from < Batch THEN N - r.from ELSE Batch) /\ After(c) = r.from + Size(c)
    BY DEF Size, After
  <2>2. r.from \in Nat /\ N \in Nat /\ r.from < N
    BY <1>1, <1>2
  <2> HIDE DEF r, n, N
  <2> QED BY <1>3, <2>1, <2>2
<1>5. \A k \in 1..Size(c) : r.from + k \in 1..N /\ Target(c, k) = r.missing[r.from + k]
  <2>1. \A k : Target(c, k) = r.missing[r.from + k]
    BY DEF Target
  <2>2. r.from \in Nat /\ N \in Nat
    BY <1>1
  <2> HIDE DEF r, n, N
  <2> QED BY <1>3, <1>4, <2>1, <2>2
<1> HIDE DEF r, n, N
<1> DEFINE ks(i) == {k \in 1..Size(c) : Target(c, k) = i}
           value(i) == IF ks(i) = {} THEN r.got[i]
                       ELSE <<r.model, r.texts[r.missing[r.from + CHOOSE k \in ks(i) : TRUE]]>>
<1>6. got = [i \in 1..n |-> value(i)]
  BY <1>2 DEF Filled, r
<1>7. ASSUME NEW i \in 1..n, ks(i) # {} PROVE value(i) = <<r.model, r.texts[i]>>
  <2> DEFINE k == CHOOSE k \in ks(i) : TRUE
  <2>1. k \in ks(i)
    BY <1>7
  <2>2. r.missing[r.from + k] = i
    <3> HIDE DEF k
    <3> QED BY <1>5, <2>1
  <2>3. value(i) = <<r.model, r.texts[r.missing[r.from + k]]>>
    BY <1>7
  <2> HIDE DEF k, value
  <2> QED BY <2>2, <2>3
<1>8. ASSUME NEW i \in 1..n PROVE value(i) \in Vector \cup {Missing}
  <2>1. CASE ks(i) = {}
    BY <1>1, <1>2, <2>1
  <2>2. CASE ks(i) # {}
    <3>1. r.texts[i] \in Texts
      BY <1>1 DEF n
    <3> HIDE DEF value
    <3> QED BY <1>1, <1>7, <2>2, <3>1 DEF Vector
  <2> QED BY <2>1, <2>2
<1>9. ASSUME NEW i \in 1..n
      PROVE  value(i) = <<r.model, r.texts[i]>> \/ \E k \in DOMAIN r.missing : k > After(c) /\ r.missing[k] = i
  <2>1. CASE ks(i) = {} /\ r.got[i] # <<r.model, r.texts[i]>>
    <3>1. PICK k \in DOMAIN r.missing : k > r.from /\ r.missing[k] = i
      BY <1>2, <2>1
    <3>2. ASSUME ~(k > After(c)) PROVE FALSE
      <4>1. k - r.from \in 1..Size(c) /\ r.from + (k - r.from) = k
        <5>1. k \in Nat /\ r.from \in Nat /\ Size(c) \in Nat /\ k > r.from /\ ~(k > r.from + Size(c))
          BY <1>1, <1>3, <1>4, <3>1, <3>2
        <5> QED BY <5>1
      <4>2. Target(c, k - r.from) = i
        BY <1>5, <3>1, <4>1
      <4> QED BY <2>1, <4>1, <4>2
    <3> QED BY <3>1, <3>2
  <2>2. CASE ks(i) = {} /\ r.got[i] = <<r.model, r.texts[i]>>
    BY <2>2
  <2>3. CASE ks(i) # {}
    BY <1>7, <2>3
  <2> QED BY <2>1, <2>2, <2>3
<1> HIDE DEF value, got
<1>10. got \in Seq(Vector \cup {Missing}) /\ Len(got) = n /\ \A i \in 1..n : got[i] = value(i)
  BY <1>1, <1>6, <1>8
<1> QED BY <1>4, <1>9, <1>10 DEF r, n, N, got

(* After the last batch the rows are stored, and what they replace or push *)
(* out leaves one row for a key.                                           *)
LEMMA StoredKeeps ==
    ASSUME CallsIInv, NEW c \in Calls, BatchEmbedded(c),
           After(c) = Len(call[c].missing)
    PROVE  LET r == call'[c]
               kept == InsertedAll(table, NewRows(r))
               M == {r.texts[r.missing[k]] : k \in 1..Len(r.missing)}
           IN  /\ r.got = [i \in 1..Len(r.texts) |-> <<r.model, r.texts[i]>>]
               /\ table' \in {kept, Pruned(kept)} /\ kept \in Seq(Row) /\ OneRow(kept)
               /\ table' \in Seq(Row) /\ OneRow(table')
               /\ Newest(kept, r.model, M)
               /\ count' \in Nat
<1> DEFINE r == call'[c]
           n == Len(r.texts)
           N == Len(r.missing)
           new == NewRows(r)
           kept == InsertedAll(table, new)
           M == {r.texts[r.missing[k]] : k \in 1..N}
<1>1. /\ call[c].at = "embedding"
      /\ r = [call[c] EXCEPT !.at = "done", !.got = Filled(c, Size(c)), !.from = After(c)]
      /\ StoreNew(c)
  BY DEF BatchEmbedded, CallsIInv, CallsTypeOK
<1>2. /\ r.model = call[c].model /\ r.texts = call[c].texts /\ r.missing = call[c].missing
      /\ r.got = Filled(c, Size(c)) /\ call[c].model \in Models /\ call[c].texts \in Seq(Texts)
      /\ call[c].missing \in Seq(1..MaxTexts)
  BY <1>1 DEF CallsIInv, CallsTypeOK
<1>3. /\ n \in Nat /\ N \in Nat /\ DOMAIN r.missing = 1..N /\ \A k \in 1..N : r.missing[k] \in 1..n
      /\ r.model \in Models /\ r.texts \in Seq(Texts)
  BY <1>1, <1>2 DEF CallsIInv, CallInv
<1>4. \A i \in 1..n : r.got[i] = <<r.model, r.texts[i]>>
  <2>1. ~\E k \in DOMAIN r.missing : k > After(c)
    BY <1>2, <1>3
  <2> QED BY <1>1, <1>2, <2>1, BatchFills
<1>5. r.got = [i \in 1..n |-> <<r.model, r.texts[i]>>]
  <2>1. r.got \in Seq(Vector \cup {Missing}) /\ Len(r.got) = n
    BY <1>1, <1>2, BatchFills
  <2> HIDE DEF r, n
  <2>2. r.got = [i \in 1..n |-> r.got[i]]
    BY <2>1
  <2> QED BY <1>4, <2>2
<1>6. /\ new \in Seq(Row) /\ Len(new) = N
      /\ \A k \in 1..N : /\ new[k].model = r.model /\ new[k].text = r.texts[r.missing[k]]
                         /\ new[k].vector = <<r.model, new[k].text>>
  <2> HIDE DEF r, n, N
  <2>1. new = [k \in 1..N |-> [model |-> r.model, text |-> r.texts[r.missing[k]], vector |-> r.got[r.missing[k]]]]
    BY <1>3 DEF NewRows
  <2>2. ASSUME NEW k \in 1..N
        PROVE  /\ r.texts[r.missing[k]] \in Texts
               /\ r.got[r.missing[k]] = <<r.model, r.texts[r.missing[k]]>>
    <3>1. r.missing[k] \in 1..n
      BY <1>3
    <3>2. r.texts[r.missing[k]] \in Texts
      BY <1>3, <3>1 DEF n
    <3> QED BY <1>4, <3>1, <3>2
  <2> DEFINE e(k) == [model |-> r.model, text |-> r.texts[r.missing[k]], vector |-> r.got[r.missing[k]]]
  <2>3. ASSUME NEW k \in 1..N
        PROVE  /\ e(k) \in Row /\ e(k).model = r.model /\ e(k).text = r.texts[r.missing[k]]
               /\ e(k).vector = <<r.model, e(k).text>>
    <3>1. <<r.model, r.texts[r.missing[k]]>> \in Vector
      BY <1>3, <2>2 DEF Vector
    <3> QED BY <1>3, <2>2, <3>1 DEF Row
  <2>4. new = [k \in 1..N |-> e(k)]
    BY <2>1
  <2> HIDE DEF new, e
  <2>5. new \in Seq(Row) /\ Len(new) = N /\ \A k \in 1..N : new[k] = e(k)
    BY <1>3, <2>3, <2>4
  <2> QED BY <2>3, <2>5
<1>7. table \in Seq(Row) /\ OneRow(table) /\ count \in Nat
  BY DEF CallsIInv, CallsTypeOK, OneRowPerText, OneRow
<1>8. {new[k].text : k \in 1..Len(new)} = M
  <2> HIDE DEF new, r, N
  <2> QED BY <1>6
<1>9. kept \in Seq(Row) /\ OneRow(kept) /\ Newest(kept, r.model, M)
  <2> HIDE DEF new, r, N, M
  <2>1. \A k \in 1..Len(new) : new[k].model = r.model /\ new[k].vector = <<r.model, new[k].text>>
    BY <1>6
  <2>2. kept \in Seq(Row) /\ OneRow(kept) /\ Newest(kept, r.model, {new[k].text : k \in 1..Len(new)})
    BY <1>6, <1>7, <2>1, InsertedAllKeeps
  <2> HIDE DEF kept
  <2> QED BY <1>8, <2>2
<1>10. table' \in {kept, Pruned(kept)} /\ count' = count + N
  <2>1. new = [k \in DOMAIN call[c].missing |->
                  [model |-> call[c].model, text |-> call[c].texts[call[c].missing[k]],
                   vector |-> call'[c].got[call[c].missing[k]]]]
    BY <1>2 DEF NewRows
  <2> HIDE DEF new
  <2> QED BY <1>1, <1>2, <2>1 DEF StoreNew
<1>11. Pruned(kept) \in Seq(Row) /\ OneRow(Pruned(kept))
  <2> HIDE DEF kept
  <2> QED BY <1>9, PrunedKeeps
<1>12. table' \in Seq(Row) /\ OneRow(table') /\ count' \in Nat
  <2> HIDE DEF kept, N
  <2> QED BY <1>3, <1>7, <1>9, <1>10, <1>11
<1> HIDE DEF kept
<1> QED BY <1>5, <1>9, <1>10, <1>12 DEF kept

(* A batch comes.                                                          *)
LEMMA CallsEmbeddedIInv ==
    ASSUME CallsIInv, NEW c \in Calls, BatchEmbedded(c)
    PROVE  CallsIInv'
<1> DEFINE to == After(c)
           missing == call[c].missing
           got == Filled(c, Size(c))
           r == [call[c] EXCEPT !.at = IF to = Len(missing) THEN "done" ELSE "embedding",
                                !.got = got, !.from = to]
           n == Len(call[c].texts)
<1>1. /\ call[c].at = "embedding" /\ UNCHANGED <<pool, loads, crashes>>
      /\ call' = [call EXCEPT ![c] = r]
      /\ IF to = Len(missing) THEN StoreNew(c) ELSE UNCHANGED <<table, count>>
  BY DEF BatchEmbedded, CallsIInv, CallsTypeOK
<1>2. /\ to \in (call[c].from + 1)..Len(missing)
      /\ got \in Seq(Vector \cup {Missing}) /\ Len(got) = n
      /\ \A i \in 1..n : \/ got[i] = <<call[c].model, call[c].texts[i]>>
                         \/ \E k \in DOMAIN missing : k > to /\ missing[k] = i
  BY <1>1, BatchFills
<1>3. /\ n \in Nat /\ n <= MaxTexts /\ MaxTexts \in Nat /\ Len(missing) \in Nat /\ Len(missing) <= n
      /\ call[c].from \in Nat
      /\ \A k \in DOMAIN missing : missing[k] \in 1..n
      /\ \A k, l \in DOMAIN missing : missing[k] = missing[l] => k = l
  <2>1. MaxTexts \in Nat
    BY CallsAssumption
  <2>2. n \in Nat /\ Len(missing) \in Nat /\ call[c].from \in Nat
    <3>1. call[c].texts \in Seq(Texts) /\ missing \in Seq(1..MaxTexts) /\ call[c].from \in 0..MaxTexts
      BY DEF CallsIInv, CallsTypeOK
    <3> QED BY <2>1, <3>1
  <2>3. CallInv(call[c])
    BY DEF CallsIInv
  <2>4. /\ n <= MaxTexts /\ Len(missing) <= n
        /\ \A k \in DOMAIN missing : missing[k] \in 1..n
        /\ \A k, l \in DOMAIN missing : missing[k] = missing[l] => k = l
    BY <1>1, <2>3 DEF CallInv
  <2> QED BY <2>1, <2>2, <2>4
<1> HIDE DEF to, got
<1>4. to \in 0..MaxTexts
  BY <1>2, <1>3
<1>5. r \in [at : Waiting \cup {"idle", "done", "failed", "lost"},
             model : Models, provider : Nat,
             texts : Seq(Texts), got : Seq(Vector \cup {Missing}),
             missing : Seq(1..MaxTexts), from : 0..MaxTexts]
  <2>1. call[c] \in [at : Waiting \cup {"idle", "done", "failed", "lost"},
                     model : Models, provider : Nat,
                     texts : Seq(Texts), got : Seq(Vector \cup {Missing}),
                     missing : Seq(1..MaxTexts), from : 0..MaxTexts]
    BY DEF CallsIInv, CallsTypeOK
  <2> QED BY <1>2, <1>4, <2>1 DEF Waiting
<1>6. /\ r.at = (IF to = Len(missing) THEN "done" ELSE "embedding") /\ r.model = call[c].model
      /\ r.texts = call[c].texts /\ r.got = got /\ r.missing = missing /\ r.from = to
      /\ call'[c] = r
  BY <1>1 DEF CallsIInv, CallsTypeOK
<1> HIDE DEF r
<1>7. CallInv(r)
  <2>1. /\ r.at \in {"done", "embedding"} /\ (r.at = "embedding" => to < Len(missing))
    BY <1>2, <1>3, <1>6
  <2> QED BY <1>2, <1>3, <1>6, <2>1 DEF CallInv
<1>8. CASE to = Len(missing)
  <2>1. /\ r.got = [i \in 1..Len(r.texts) |-> <<r.model, r.texts[i]>>]
        /\ table' \in Seq(Row) /\ OneRow(table') /\ count' \in Nat
    BY <1>6, <1>8, StoredKeeps DEF to
  <2>2. OneRowPerText'
    BY <2>1 DEF OneRowPerText, OneRow
  <2>3. {pool', loads'} \subseteq [Models -> Nat] /\ \A x \in Models : loads'[x] > 0 => pool'[x] > 0
    BY <1>1 DEF CallsIInv, CallsTypeOK
  <2>4. call' = [call EXCEPT ![c] = r] /\ crashes' = crashes
    BY <1>1 DEF r
  <2> QED BY <1>5, <1>7, <2>1, <2>2, <2>3, <2>4, CallMoves
<1>9. CASE to # Len(missing)
  <2>1. /\ {pool', loads'} \subseteq [Models -> Nat] /\ \A x \in Models : loads'[x] > 0 => pool'[x] > 0
        /\ table' \in Seq(Row) /\ OneRowPerText' /\ count' \in Nat /\ crashes' = crashes
    BY <1>1, <1>9 DEF CallsIInv, CallsTypeOK, OneRowPerText
  <2>2. r.at # "done"
    BY <1>6, <1>9
  <2>3. call' = [call EXCEPT ![c] = r]
    BY <1>1 DEF r
  <2> QED BY <1>5, <1>7, <2>1, <2>2, <2>3, CallMoves
<1> QED BY <1>8, <1>9

(* A call fails, or the process dies.                                      *)
LEMMA CallsFailIInv ==
    ASSUME CallsIInv, NEW c \in Calls, Fail(c)
    PROVE  CallsIInv'
<1> DEFINE r == [call[c] EXCEPT !.at = "failed"]
<1>1. call' = [call EXCEPT ![c] = r] /\ UNCHANGED <<pool, loads, table, count, crashes>>
  BY DEF Fail, CallsIInv, CallsTypeOK
<1>2. r \in [at : Waiting \cup {"idle", "done", "failed", "lost"},
             model : Models, provider : Nat,
             texts : Seq(Texts), got : Seq(Vector \cup {Missing}),
             missing : Seq(1..MaxTexts), from : 0..MaxTexts]
  BY DEF CallsIInv, CallsTypeOK, Waiting
<1>3. r.at = "failed" /\ r.texts = call[c].texts /\ Len(call[c].texts) <= MaxTexts
  BY DEF CallsIInv, CallsTypeOK, CallInv
<1>4. /\ {pool', loads'} \subseteq [Models -> Nat] /\ \A x \in Models : loads'[x] > 0 => pool'[x] > 0
      /\ table' \in Seq(Row) /\ OneRowPerText' /\ count' \in Nat /\ crashes' = crashes
  BY <1>1 DEF CallsIInv, CallsTypeOK, OneRowPerText
<1> HIDE DEF r
<1>5. CallInv(r)
  BY <1>3 DEF CallInv
<1>6. call' = [call EXCEPT ![c] = r]
  BY <1>1
<1> QED BY <1>2, <1>3, <1>4, <1>5, <1>6, CallMoves

(* The process dies: whoever waits is lost, the table stays.               *)
LEMMA CallsCrashIInv ==
    ASSUME CallsIInv, Crash
    PROVE  CallsIInv'
<1>1. /\ call' = [c \in Calls |-> IF call[c].at \in Waiting THEN [call[c] EXCEPT !.at = "lost"] ELSE call[c]]
      /\ pool' = Registered /\ loads' = Registered /\ count' = 0 /\ table' = table
      /\ crashes' \in 0..MaxCrashes
  BY CallsAssumption DEF Crash, CallsIInv, CallsTypeOK
<1>2. ASSUME NEW c \in Calls
      PROVE  /\ call'[c] \in [at : Waiting \cup {"idle", "done", "failed", "lost"},
                              model : Models, provider : Nat,
                              texts : Seq(Texts), got : Seq(Vector \cup {Missing}),
                              missing : Seq(1..MaxTexts), from : 0..MaxTexts]
             /\ CallInv(call'[c])
             /\ call'[c].at = "done" => call'[c] = call[c]
  <2>1. call[c] \in [at : Waiting \cup {"idle", "done", "failed", "lost"},
                     model : Models, provider : Nat,
                     texts : Seq(Texts), got : Seq(Vector \cup {Missing}),
                     missing : Seq(1..MaxTexts), from : 0..MaxTexts] /\ CallInv(call[c])
    BY DEF CallsIInv, CallsTypeOK
  <2>2. CASE call[c].at \in Waiting
    <3> DEFINE r == [call[c] EXCEPT !.at = "lost"]
    <3>1. r \in [at : Waiting \cup {"idle", "done", "failed", "lost"},
                 model : Models, provider : Nat,
                 texts : Seq(Texts), got : Seq(Vector \cup {Missing}),
                 missing : Seq(1..MaxTexts), from : 0..MaxTexts]
      BY <2>1
    <3>2. r.at = "lost" /\ r.texts = call[c].texts /\ Len(call[c].texts) <= MaxTexts
      BY <2>1 DEF CallInv
    <3>3. call'[c] = r
      BY <1>1, <2>2
    <3> HIDE DEF r
    <3>4. CallInv(r)
      BY <3>2 DEF CallInv
    <3> QED BY <3>1, <3>2, <3>3, <3>4
  <2>3. CASE call[c].at \notin Waiting
    BY <1>1, <2>1, <2>3
  <2> QED BY <2>2, <2>3
<1>3. Registered \in [Models -> Nat] /\ \A m \in Models : Registered[m] > 0 => Registered[m] > 0
  BY DEF Registered
<1>4. CallsTypeOK'
  BY <1>1, <1>2, <1>3 DEF CallsIInv, CallsTypeOK
<1>5. EveryTextItsVector'
  <2> SUFFICES ASSUME NEW c \in Calls, call'[c].at = "done"
               PROVE  call'[c].got = [i \in 1..Len(call'[c].texts) |-> <<call'[c].model, call'[c].texts[i]>>]
    BY DEF EveryTextItsVector
  <2>1. call'[c] = call[c] /\ call[c].at = "done"
    BY <1>2
  <2>2. call[c].got = [i \in 1..Len(call[c].texts) |-> <<call[c].model, call[c].texts[i]>>]
    BY <2>1 DEF CallsIInv, EveryTextItsVector
  <2> QED BY <2>1, <2>2
<1>6. OneRowPerText'
  BY <1>1 DEF CallsIInv, OneRowPerText
<1> QED BY <1>1, <1>2, <1>3, <1>4, <1>5, <1>6 DEF CallsIInv

(* Nobody asked yet.                                                       *)
LEMMA CallsInitIInv ==
    ASSUME CallsInit
    PROVE  CallsIInv
<1> DEFINE r == [at |-> "idle", model |-> Default, provider |-> 0,
                 texts |-> <<>>, got |-> <<>>, missing |-> <<>>, from |-> 0]
<1>1. r \in [at : Waiting \cup {"idle", "done", "failed", "lost"},
             model : Models, provider : Nat,
             texts : Seq(Texts), got : Seq(Vector \cup {Missing}),
             missing : Seq(1..MaxTexts), from : 0..MaxTexts]
  BY CallsAssumption
<1>2. r.at = "idle" /\ r.texts = <<>> /\ r.from = 0
  OBVIOUS
<1> HIDE DEF r
<1>3. CallInv(r)
  BY <1>2, CallsAssumption DEF CallInv
<1>4. call = [c \in Calls |-> r]
  BY DEF CallsInit, r
<1>5. Registered \in [Models -> Nat]
  BY DEF Registered
<1>6. CallsTypeOK
  BY <1>1, <1>4, <1>5, CallsAssumption DEF CallsInit, CallsTypeOK
<1>7. EveryTextItsVector
  BY <1>2, <1>4 DEF EveryTextItsVector
<1>8. OneRowPerText
  BY DEF CallsInit, OneRowPerText
<1> QED BY <1>3, <1>4, <1>6, <1>7, <1>8 DEF CallsInit, CallsIInv

(* Every step keeps the invariant.                                         *)
LEMMA CallsNextIInv ==
    ASSUME CallsIInv, [CallsNext]_callsVars
    PROVE  CallsIInv'
<1>1. CASE CallsNext
  BY <1>1, CallsAskIInv, CallsLoadedIInv, CallsReadIInv, CallsEmbeddedIInv,
     CallsFailIInv, CallsCrashIInv
     DEF CallsNext, Progress
<1>2. CASE UNCHANGED callsVars
  BY <1>2 DEF callsVars, CallsIInv, CallsTypeOK, OneRowPerText, EveryTextItsVector
<1> QED BY <1>1, <1>2

(* The inductive invariant of the calls, the pool and the table: which     *)
(* vectors a call has and which it still misses, one row for a key, a      *)
(* provider for every model that was loaded.                               *)
THEOREM CallsInvariant == CallsSpec => []CallsIInv
<1>1. CallsInit => CallsIInv
  BY CallsInitIInv
<1>2. CallsIInv /\ [CallsNext]_callsVars => CallsIInv'
  BY CallsNextIInv
<1> QED BY <1>1, <1>2, PTL DEF CallsSpec

(* A call returns for each of its texts the vector of that text, however   *)
(* hits and misses fall into batches and whatever other calls do to the    *)
(* table (embeddings.py:134-140).                                          *)
THEOREM CallsEveryTextItsVector == CallsSpec => []EveryTextItsVector
<1>1. CallsIInv => EveryTextItsVector
  BY DEF CallsIInv
<1> QED BY <1>1, CallsInvariant, PTL

(* The table never holds two rows for one text of a model, nor the vector  *)
(* of another text (embeddings.py:147).                                    *)
THEOREM CallsOneRowPerText == CallsSpec => []OneRowPerText
<1>1. CallsIInv => OneRowPerText
  BY DEF CallsIInv
<1> QED BY <1>1, CallsInvariant, PTL

(* Only the last batch ends a call that embeds.                            *)
LEMMA EndsByLastBatch ==
    ASSUME CallsIInv, [CallsNext]_callsVars, NEW c \in Calls, call[c].at = "embedding",
           call'[c].at = "done"
    PROVE  BatchEmbedded(c) /\ After(c) = Len(call[c].missing)
<1>1. ASSUME NEW d \in Calls, d # c, NEW r, call' = [call EXCEPT ![d] = r] PROVE FALSE
  BY <1>1 DEF CallsIInv, CallsTypeOK
<1>2. CallsNext
  BY DEF callsVars
<1>3. ~Crash
  BY DEF Crash, Waiting, CallsIInv, CallsTypeOK
<1>4. ASSUME NEW d \in Calls, NEW m \in Models, NEW ts \in BoundedSeq(Texts, MaxTexts),
             Ask(d, m, ts)
      PROVE  FALSE
  BY <1>4 DEF Ask, CallsIInv, CallsTypeOK
<1>5. ASSUME NEW d \in Calls, Loaded(d) \/ Read(d) \/ Fail(d) PROVE FALSE
  BY <1>5 DEF Loaded, Read, Fail, CallsIInv, CallsTypeOK
<1>6. PICK d \in Calls : BatchEmbedded(d)
  BY <1>2, <1>3, <1>4, <1>5 DEF CallsNext, Progress
<1>7. d = c
  BY <1>6 DEF BatchEmbedded, CallsIInv, CallsTypeOK
<1>8. After(c) = Len(call[c].missing)
  BY <1>6, <1>7 DEF BatchEmbedded, CallsIInv, CallsTypeOK
<1> QED BY <1>6, <1>7, <1>8

(* What a call stored is in the table after it pruned, as far as the table *)
(* may hold it (embeddings.py:38-58).                                      *)
THEOREM CallsNewestStay == CallsSpec => NewestStay
<1>1. ASSUME CallsIInv, [CallsNext]_callsVars, NEW c \in Calls, call[c].at = "embedding",
             call'[c].at = "done",
             Cardinality({call[c].texts[call[c].missing[k]] : k \in 1..Len(call[c].missing)}) <= MaxRows,
             NEW t \in {call[c].texts[call[c].missing[k]] : k \in 1..Len(call[c].missing)}
      PROVE  \E i \in 1..Len(table') : table'[i].model = call[c].model /\ table'[i].text = t
  <2> DEFINE M == {call[c].texts[call[c].missing[k]] : k \in 1..Len(call[c].missing)}
             kept == InsertedAll(table, NewRows(call'[c]))
  <2>1. BatchEmbedded(c) /\ After(c) = Len(call[c].missing)
    BY <1>1, EndsByLastBatch
  <2>2. /\ call'[c].model = call[c].model /\ call'[c].texts = call[c].texts
        /\ call'[c].missing = call[c].missing
    BY <1>1, <2>1 DEF BatchEmbedded, CallsIInv, CallsTypeOK
  <2>3. /\ table' \in {kept, Pruned(kept)} /\ kept \in Seq(Row) /\ OneRow(kept)
        /\ Newest(kept, call[c].model, M)
    <3>1. {call'[c].texts[call'[c].missing[k]] : k \in 1..Len(call'[c].missing)} = M
      BY <2>2
    <3>2. /\ table' \in {kept, Pruned(kept)} /\ kept \in Seq(Row) /\ OneRow(kept)
          /\ Newest(kept, call'[c].model,
                    {call'[c].texts[call'[c].missing[k]] : k \in 1..Len(call'[c].missing)})
      BY <1>1, <2>1, StoredKeeps
    <3> HIDE DEF M, kept
    <3> QED BY <2>2, <3>1, <3>2
  <2>4. IsFiniteSet(M)
    <3> DEFINE N == Len(call[c].missing)
               g == [k \in 1..N |-> call[c].texts[call[c].missing[k]]]
    <3>1. N \in Nat
      BY <1>1 DEF CallsIInv, CallsTypeOK
    <3>2. g \in Surjection(1..N, M)
      BY DEF Surjection
    <3> HIDE DEF g, M, N
    <3>3. IsFiniteSet(1..N)
      <4>1. 1 \in Int /\ N \in Int
        BY <3>1
      <4> QED BY <4>1, FS_Interval, Zenon
    <3> QED BY <3>2, <3>3, FS_Surjection
  <2>5. t \in M /\ Cardinality(M) <= MaxRows
    BY <1>1
  <2> HIDE DEF M, kept
  <2>6. CASE table' = kept
    BY <2>3, <2>5, <2>6 DEF Newest
  <2>7. CASE table' = Pruned(kept)
    BY <2>3, <2>4, <2>5, <2>7, PrunedKeeps
  <2> QED BY <2>3, <2>6, <2>7
<1> DEFINE Stay ==
        \A c \in Calls : call[c].at = "embedding" /\ call'[c].at = "done" =>
            LET stored == {call[c].texts[call[c].missing[k]] : k \in 1..Len(call[c].missing)}
                kept == {table'[i].text : i \in {k \in 1..Len(table') : table'[k].model = call[c].model}}
            IN  Cardinality(stored) <= MaxRows => stored \subseteq kept
<1>2. ASSUME CallsIInv, [CallsNext]_callsVars PROVE Stay
  <2> SUFFICES ASSUME NEW c \in Calls, call[c].at = "embedding", call'[c].at = "done",
                      Cardinality({call[c].texts[call[c].missing[k]] : k \in 1..Len(call[c].missing)}) <= MaxRows,
                      NEW t \in {call[c].texts[call[c].missing[k]] : k \in 1..Len(call[c].missing)}
               PROVE  t \in {table'[i].text : i \in {k \in 1..Len(table') : table'[k].model = call[c].model}}
    OBVIOUS
  <2>1. PICK i \in 1..Len(table') : table'[i].model = call[c].model /\ table'[i].text = t
    BY <1>1, <1>2
  <2> QED BY <2>1
<1> HIDE DEF Stay
<1>3. CallsIInv /\ [CallsNext]_callsVars => [Stay]_callsVars
  BY <1>2
<1> QED BY <1>3, CallsInvariant, PTL DEF CallsSpec, NewestStay, Stay

(* Once a model has a provider and none is being loaded, all calls share   *)
(* it until the process ends (pool.py:21-30).                              *)
THEOREM CallsPoolSettles == CallsSpec => PoolSettles
<1> DEFINE Settled(m) ==
        /\ crashes' = crashes
        /\ loads[m] > 0
        /\ ~\E c \in Calls : call[c].at = "loading" /\ call[c].model = m
        => /\ loads'[m] = loads[m] /\ pool'[m] = pool[m]
           /\ \A c \in Calls : call[c].at = "idle" /\ call'[c].at # "idle" /\ call'[c].model = m =>
                  call'[c].at = "ready" /\ call'[c].provider = pool[m]
<1>1. ASSUME CallsIInv, CallsNext, NEW m \in Models, crashes' = crashes, loads[m] > 0,
             ~\E c \in Calls : call[c].at = "loading" /\ call[c].model = m
      PROVE  /\ loads'[m] = loads[m] /\ pool'[m] = pool[m]
             /\ \A c \in Calls : call[c].at = "idle" /\ call'[c].at # "idle" /\ call'[c].model = m =>
                    call'[c].at = "ready" /\ call'[c].provider = pool[m]
  <2>1. ~Crash
    BY <1>1 DEF Crash, CallsIInv, CallsTypeOK
  <2>2. ASSUME NEW d \in Calls, NEW x \in Models, NEW ts \in BoundedSeq(Texts, MaxTexts),
               Ask(d, x, ts)
        PROVE  \A c \in Calls : call[c].at = "idle" /\ call'[c].at # "idle" /\ call'[c].model = m =>
                   call'[c].at = "ready" /\ call'[c].provider = pool[m]
    <3>1. pool[m] # 0
      BY <1>1 DEF CallsIInv, CallsTypeOK
    <3>2. /\ call'[d].at = (IF pool[x] = 0 THEN "loading" ELSE "ready")
          /\ call'[d].model = x /\ call'[d].provider = pool[x]
          /\ \A c \in Calls : c # d => call'[c] = call[c]
      BY <1>1, <2>2 DEF Ask, CallsIInv, CallsTypeOK
    <3> QED BY <3>1, <3>2
  <2>3. ASSUME NEW d \in Calls, Loaded(d) PROVE loads'[m] = loads[m] /\ pool'[m] = pool[m]
    <3>1. call[d].model # m
      BY <1>1, <2>3 DEF Loaded
    <3> QED BY <1>1, <2>3, <3>1 DEF Loaded, CallsIInv, CallsTypeOK
  <2>4. ASSUME NEW d \in Calls, Loaded(d) \/ Read(d) \/ BatchEmbedded(d) \/ Fail(d)
        PROVE  \A c \in Calls : call[c].at = "idle" => call'[c] = call[c]
    <3>1. call[d].at # "idle"
      BY <2>4 DEF Loaded, Read, BatchEmbedded, Fail
    <3>2. \A c \in Calls : c # d => call'[c] = call[c]
      BY <1>1, <2>4 DEF Loaded, Read, BatchEmbedded, Fail, CallsIInv,
                        CallsTypeOK
    <3> QED BY <3>1, <3>2
  <2>5. ASSUME NEW d \in Calls, Read(d) \/ BatchEmbedded(d) \/ Fail(d)
        PROVE  UNCHANGED <<pool, loads>>
    BY <2>5 DEF Read, BatchEmbedded, Fail
  <2>6. ASSUME NEW d \in Calls, NEW x \in Models, NEW ts \in BoundedSeq(Texts, MaxTexts),
               Ask(d, x, ts)
        PROVE  UNCHANGED <<pool, loads>>
    BY <2>6 DEF Ask
  <2> QED BY <1>1, <2>1, <2>2, <2>3, <2>4, <2>5, <2>6 DEF CallsNext, Progress
<1>2. CallsIInv /\ [CallsNext]_callsVars => [\A m \in Models : Settled(m)]_callsVars
  BY <1>1
<1> QED BY <1>2, CallsInvariant, PTL DEF CallsSpec, PoolSettles
=============================================================================
