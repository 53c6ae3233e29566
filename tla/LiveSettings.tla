---------------------------- MODULE LiveSettings ----------------------------
(***************************************************************************)
(* Settings that change while the server runs, and restarts that apply     *)
(* them: the settings routes (backend/api/routes/settings.py), the objects *)
(* the lifespan builds from the settings (main.py), the consistency check  *)
(* of embeddings (core/embedding_consistency.py), and uploads and deletes, *)
(* which read some of it live and some of it as it was at startup.         *)
(*                                                                         *)
(* A delete is one step: DocLifecycle takes it apart.  An embedding        *)
(* setting is the name of a provider and a model that the provider can     *)
(* load; BAAI/bge-m3 is written "bge-m3" too.  The LLM settings are one    *)
(* value, named by its provider.  The .env file is the one of the backend  *)
(* directory, short enough to be written by one call.  `accepted`,         *)
(* `written`, `refused`, `unseen` and `met` are history variables.         *)
(***************************************************************************)
EXTENDS Naturals

CONSTANTS Docs,
          Llms,         \* values of llm_provider
          KnownLlms,    \* those get_llm_provider builds
          Embeddings,   \* embedding settings: [name, model]
          Dimensions,   \* dimensions of each embedding setting
          First,        \* the settings of the first start
          Factory,      \* those of config.py, for what .env does not name
          Bodies,       \* bound: which fields one request may name
          Batches,      \* bound: how many batches of chunks a document may have
          MaxPuts,      \* bound: settings requests
          MaxStops      \* bound: shutdowns and crashes

Backends == {"qdrant", "sqlite"}
Fields == {"llm", "emb", "backend"}
Settings == [llm : Llms, emb : Embeddings, backend : Backends]

ASSUME SettingsAssumption ==
    /\ KnownLlms \subseteq Llms
    /\ Dimensions \in [Embeddings -> Nat \ {0}]
    /\ {First, Factory} \subseteq Settings
    /\ {First.llm, Factory.llm} \subseteq KnownLlms
    /\ Bodies \subseteq SUBSET Fields
    /\ Batches \subseteq Nat
    /\ {MaxPuts, MaxStops} \subseteq Nat

VARIABLES
    cfg,       \* app.state.settings
    env,       \* the .env file
    up,        \* the server runs
    made,      \* its LLM, default embedding provider and vector store
    flag,      \* app.state.reindex_required
    rows,      \* provider and model of the rows of embedding_cache
    size,      \* dimensions of the collection chunks_default, 0 if none
    doc,       \* each document and its job: [at, emb, backend, pinned, batches, left]
    chunks,    \* documents with chunks in SQLite
    vectors,   \* how many batches of each document each store has
    accepted,  \* the last request that named LLM settings was answered
    written,   \* no write of .env failed since the start
    refused,   \* the last start failed on the settings
    unseen,    \* documents the cache had no row of at the start
    met,       \* documents deleted while they were being ingested
    puts, stops

settingVars == <<cfg, env, up, made, flag, accepted, written, refused, unseen, puts, stops>>
dataVars == <<rows, size, doc, chunks, vectors, met>>
vars == <<settingVars, dataVars>>

(* build_provider_direct, and the id and model the provider goes by: the   *)
(* two local ones, chosen by name or by model, share the id "local".       *)
Encoder(e) ==
    [id |-> IF e.name \in {"bge-m3", "sentence_transformers"} \/ e.model = "bge-m3" THEN "local" ELSE e.name,
     model |-> e.model]

Encoders == {Encoder(e) : e \in Embeddings}
Working == {"queued", "prepared", "embedded"}

TypeOK ==
    /\ cfg \in Settings /\ env \in Settings /\ made \in Settings
    /\ up \in BOOLEAN /\ flag \in BOOLEAN /\ accepted \in BOOLEAN
    /\ written \in BOOLEAN /\ refused \in BOOLEAN
    /\ rows \subseteq Encoders
    /\ size \in {0} \cup {Dimensions[e] : e \in Embeddings}
    /\ doc \in [Docs -> [at : Working \cup {"new", "done", "error", "lost", "deleted"},
                         emb : Embeddings, backend : Backends, pinned : BOOLEAN,
                         batches : Nat, left : Nat]]
    /\ chunks \in SUBSET Docs
    /\ vectors \in [Backends -> [Docs -> Nat]]
    /\ unseen \in SUBSET Docs
    /\ met \in SUBSET Docs
    /\ puts \in 0..MaxPuts
    /\ stops \in 0..MaxStops

Init ==
    /\ cfg = First /\ env = First /\ made = First
    /\ up = TRUE /\ accepted = TRUE /\ written = TRUE
    /\ flag = FALSE /\ refused = FALSE
    /\ rows = {} /\ chunks = {} /\ unseen = {} /\ met = {}
    /\ size = 0
    /\ doc = [d \in Docs |-> [at |-> "new", emb |-> First.emb, backend |-> First.backend,
                              pinned |-> FALSE, batches |-> 0, left |-> 0]]
    /\ vectors = [b \in Backends |-> [d \in Docs |-> 0]]
    /\ puts = 0
    /\ stops = 0

-----------------------------------------------------------------------------
(* Faulty: a row is another one only if provider and model both differ.    *)
MismatchBoth(e) == chunks # {} /\ \E r \in rows : r.id # e.name /\ r.model # e.model

(* check_embedding_consistency: the settings against the cached rows.      *)
Mismatch(e) == chunks # {} /\ \E r \in rows : r.id # e.name \/ r.model # e.model

(* GET /health reports the flag, or checks again.                          *)
ReindexReported == flag \/ Mismatch(cfg.emb)

(* Faulty: the LLM is not built anew.                                      *)
RebuildNot(s) == made' = made

(* Only the LLM provider is built anew.                                    *)
Rebuild(s) == made' = [made EXCEPT !.llm = s.llm]

(* PUT /settings, with no await.  The body names some of the fields; the   *)
(* others stay, in the app and in .env.                                    *)
Names(s, named) ==
    /\ up
    /\ puts < MaxPuts
    /\ puts' = puts + 1
    /\ \A f \in Fields \ named : s[f] = cfg[f]
    /\ cfg' = s
    /\ UNCHANGED <<up, refused, unseen, stops, dataVars>>

(* The settings are set and written before the LLM provider is built, and  *)
(* it is built only if the body names an LLM setting.  An unknown one      *)
(* raises: the request fails there, and the embeddings are not checked.    *)
Put(s, named) ==
    /\ Names(s, named)
    /\ env' = [f \in Fields |-> IF f \in named THEN s[f] ELSE env[f]]
    /\ UNCHANGED written
    /\ IF "llm" \in named
       THEN accepted' = (s.llm \in KnownLlms) /\ IF s.llm \in KnownLlms THEN Rebuild(s) ELSE UNCHANGED made
       ELSE UNCHANGED <<accepted, made>>
    /\ flag' = IF "llm" \in named /\ s.llm \notin KnownLlms THEN flag
               ELSE flag \/ (s.emb # cfg.emb /\ Mismatch(s.emb))

(* The write of .env raises, before the file is truncated or after.        *)
PutUnwritten(s, named) ==
    /\ Names(s, named)
    /\ env' \in {env, Factory}
    /\ written' = FALSE
    /\ accepted' = (accepted /\ "llm" \notin named)
    /\ UNCHANGED <<made, flag>>

(* A shutdown, or a crash, which may fall into a request that has          *)
(* truncated .env.  What was being ingested is lost.                       *)
Stop ==
    /\ up
    /\ stops < MaxStops
    /\ stops' = stops + 1
    /\ up' = FALSE
    /\ \/ UNCHANGED <<env, puts>>
       \/ puts < MaxPuts /\ puts' = puts + 1 /\ env' = Factory
    /\ doc' = [d \in Docs |-> IF doc[d].at \in Working THEN [doc[d] EXCEPT !.at = "lost", !.left = 0] ELSE doc[d]]
    /\ UNCHANGED <<cfg, made, flag, accepted, written, refused, unseen, rows, size, chunks, vectors, met>>

(* The lifespan reads the settings and builds everything from them.        *)
Start ==
    /\ ~up
    /\ env.llm \in KnownLlms
    /\ up' = TRUE
    /\ cfg' = env
    /\ made' = env
    /\ flag' = Mismatch(env.emb)
    /\ accepted' = TRUE /\ written' = TRUE
    /\ refused' = FALSE
    /\ unseen' = {d \in chunks : Encoder(doc[d].emb) \notin rows}
    /\ UNCHANGED <<env, puts, stops, dataVars>>

StartFails ==
    /\ ~up
    /\ env.llm \notin KnownLlms
    /\ refused' = TRUE
    /\ UNCHANGED <<cfg, env, up, made, flag, accepted, written, unseen, puts, stops, dataVars>>

-----------------------------------------------------------------------------
(* Upload, without a project or to one pinned to an embedding model.  The  *)
(* provider is the one made at startup or the pinned one, the backend that *)
(* of the settings now.  `batches` is what the chunker will make of it.    *)
Upload(d, e, pinned) ==
    /\ up
    /\ doc[d].at = "new"
    /\ pinned \/ e = made.emb
    /\ \E n \in Batches :
           doc' = [doc EXCEPT ![d] = [at |-> "queued", emb |-> e, backend |-> cfg.backend,
                                      pinned |-> pinned, batches |-> n, left |-> n]]
    /\ UNCHANGED <<settingVars, rows, size, chunks, vectors, met>>

Goto(d, from, to) == doc[d].at = from /\ doc' = [doc EXCEPT ![d].at = to]

(* The store the job means is the one the server has: a Qdrant client does *)
(* not take the calls of the SQLite store, nor the other way round.        *)
Serves(d) == doc[d].backend = made.backend

(* Only the shared collection may have another size already.               *)
Fits(d) == doc[d].pinned \/ size \in {0, Dimensions[doc[d].emb]}

(* The row is inserted; ensure_collection, which the SQLite store does     *)
(* not need.                                                               *)
Prepared(d) ==
    /\ up
    /\ LET qdrant == doc[d].backend = "qdrant"
           ok == qdrant => Serves(d) /\ Fits(d)
       IN  /\ Goto(d, "queued", IF ok THEN "prepared" ELSE "error")
           /\ size' = IF ok /\ qdrant /\ ~doc[d].pinned THEN Dimensions[doc[d].emb] ELSE size
    /\ UNCHANGED <<settingVars, rows, chunks, vectors, met>>

(* The rows of the cache after a batch: texts that were all cached change  *)
(* nothing; new rows are stored, and now and then older ones are pruned.   *)
CachedWith(e) ==
    {kept \cup {e} : kept \in SUBSET rows}

(* The next batch is embedded through the cache and its chunks inserted,   *)
(* which their foreign key forbids once the row is gone.                   *)
Embedded(d) ==
    /\ up
    /\ doc[d].left > 0
    /\ Goto(d, "prepared", IF d \in met THEN "error" ELSE "embedded")
    /\ rows' \in CachedWith(Encoder(doc[d].emb))
    /\ chunks' = IF d \in met THEN chunks ELSE chunks \cup {d}
    /\ UNCHANGED <<settingVars, size, vectors, met>>

(* Faulty: a store that does not take the vectors is passed over.          *)
StoredAnyhow(d) ==
    /\ up
    /\ doc[d].at = "embedded"
    /\ doc' = [doc EXCEPT ![d].at = "prepared", ![d].left = @ - 1]
    /\ vectors' = IF Serves(d) THEN [vectors EXCEPT ![doc[d].backend][d] = @ + 1] ELSE vectors
    /\ UNCHANGED <<settingVars, rows, size, chunks, met>>

(* The vectors of the batch are stored.                                    *)
Stored(d) ==
    /\ up
    /\ doc[d].at = "embedded"
    /\ Serves(d)
    /\ doc' = [doc EXCEPT ![d].at = "prepared", ![d].left = @ - 1]
    /\ vectors' = [vectors EXCEPT ![doc[d].backend][d] = @ + 1]
    /\ UNCHANGED <<settingVars, rows, size, chunks, met>>

(* After the last batch, if there was any, the row becomes done.           *)
Finished(d) ==
    /\ up
    /\ doc[d].left = 0
    /\ Goto(d, "prepared", "done")
    /\ UNCHANGED <<settingVars, rows, size, chunks, vectors, met>>

(* Parser, embedder, database or store raise, as a client of the other     *)
(* store does: the batches stored before stay.                             *)
Fails(d) ==
    /\ up
    /\ doc[d].at \in Working
    /\ doc' = [doc EXCEPT ![d].at = "error", ![d].left = 0]
    /\ UNCHANGED <<settingVars, rows, size, chunks, vectors, met>>

(* DELETE of a document, in any state: the vectors first, in the store the *)
(* settings name now; if it is not the one the server has, the call        *)
(* raises.  The cached embeddings stay, and a job that runs goes on.       *)
Delete(d) ==
    /\ up
    /\ doc[d].at \notin {"new", "queued", "deleted"}
    /\ d \notin met
    /\ cfg.backend = made.backend
    /\ IF doc[d].at \in Working
       THEN met' = met \cup {d} /\ UNCHANGED doc
       ELSE doc' = [doc EXCEPT ![d].at = "deleted"] /\ UNCHANGED met
    /\ chunks' = chunks \ {d}
    /\ vectors' = [vectors EXCEPT ![cfg.backend][d] = 0]
    /\ UNCHANGED <<settingVars, rows, size>>

Ingest(d) == Prepared(d) \/ Embedded(d) \/ Stored(d) \/ Finished(d) \/ Fails(d)

Next ==
    \/ \E s \in Settings, named \in Bodies : Put(s, named) \/ PutUnwritten(s, named)
    \/ Stop \/ Start \/ StartFails
    \/ \E d \in Docs :
          \/ \E e \in Embeddings, pinned \in BOOLEAN : Upload(d, e, pinned)
          \/ Ingest(d) \/ Delete(d)

Spec == Init /\ [][Next]_vars

-----------------------------------------------------------------------------
(* What a search without a project compares its query with.                *)
Compared(d) == vectors[made.backend][d] > 0 /\ ~doc[d].pinned

(* The document is not of the embedding model of the server.               *)
Mixed(d) == ~doc[d].pinned /\ Encoder(doc[d].emb) # Encoder(made.emb)

(* A search that compares a query of one embedding model with the vectors  *)
(* of another is reported by /health, through any sequence of changes and  *)
(* restarts, until those documents are deleted; unless the cache was       *)
(* pruned of every row of that model before the server started             *)
(* (embedding_consistency.py:34, settings.py:309, embeddings.py:35).       *)
MixedIsReported ==
    up => \A d \in chunks : Compared(d) /\ Mixed(d) => ReindexReported \/ d \in unseen

(* The vectors of one collection are of one size, whatever models the      *)
(* settings went through (vector_store.py:77-84).                          *)
OneSize ==
    \A d \in Docs : vectors["qdrant"][d] > 0 /\ ~doc[d].pinned => Dimensions[doc[d].emb] = size

(* A document is done only with each of its batches in the one store its   *)
(* upload meant, and nothing in the other one, although upload, settings   *)
(* and startup may each have meant another store, jobs failed between      *)
(* batches and the server was stopped (documents.py:103, pipeline.py:226); *)
(* unless it was deleted meanwhile.                                        *)
DoneIsStored ==
    \A d \in Docs, b \in Backends :
        doc[d].at = "done" /\ d \notin met =>
            vectors[b][d] = IF b = doc[d].backend THEN doc[d].batches ELSE 0

(* If the last request that named an LLM setting was answered, the server  *)
(* answers with the LLM the settings name, whatever other requests came    *)
(* between; if not, it goes on with one it knows.  And as long as no write *)
(* of .env failed, a restart reads the settings the server has             *)
(* (settings.py:61-93).                                                    *)
LlmFollowsSettings ==
    up => /\ made.llm \in KnownLlms
          /\ accepted => made.llm = cfg.llm
          /\ written => env = cfg

(* The inductive invariant.  Only the running server ingests, with its own *)
(* embedding model or a pinned one; a start that met a document of another *)
(* model has set the flag, which stays until the next start, or the cache  *)
(* had no row of it; and of a document nobody deleted the store has what   *)
(* its job has not left to do.                                             *)
DocInv(d) ==
    /\ doc[d].at \in Working => up /\ (doc[d].pinned \/ doc[d].emb = made.emb)
    /\ d \in chunks => doc[d].at \notin {"new", "queued"}
    /\ up /\ d \in chunks /\ Mixed(d) => flag \/ d \in unseen
    /\ \A b \in Backends : vectors[b][d] > 0 => doc[d].backend = b /\ doc[d].at \notin {"new", "queued"}
    /\ doc[d].at \in Working /\ d \notin met =>
           vectors[doc[d].backend][d] + doc[d].left = doc[d].batches
    /\ doc[d].at = "embedded" => doc[d].left > 0
    /\ doc[d].at = "done" /\ d \notin met => vectors[doc[d].backend][d] = doc[d].batches
    /\ ~doc[d].pinned /\ doc[d].backend = "qdrant"
           /\ (doc[d].at \in {"prepared", "embedded"} \/ vectors["qdrant"][d] > 0)
       => size = Dimensions[doc[d].emb]

IInv == TypeOK /\ LlmFollowsSettings /\ \A d \in Docs : DocInv(d)

-----------------------------------------------------------------------------
(* embedding_consistency.py:33 calls embeddings of the current provider    *)
(* and model consistent.  Does not hold: the providers "bge-m3", which is  *)
(* the default, and "local" both store their rows under "local".           *)
HealthHonest ==
    up /\ ReindexReported => flag \/ \E d \in Docs : doc[d].at # "new" /\ doc[d].emb # cfg.emb

(* settings.py:68 says the settings are written "so they survive           *)
(* restarts".  Does not hold: an LLM provider that the request failed on   *)
(* is written too, and no start succeeds any more.                         *)
SurvivesRestart == ~refused

(* settings.py:83 says the LLM provider is built anew whenever its         *)
(* settings change.  Does not hold: a request that only names other        *)
(* settings is answered while the LLM is not the one they name.            *)
AnsweredIsLive ==
    [][\A s \in Settings, named \in Bodies :
           Put(s, named) /\ "llm" \notin named => made'.llm = cfg'.llm]_vars

(* embedding_consistency.py:34 says that any embeddings of another         *)
(* provider or model need a reindex.  Does not hold: the table it counts   *)
(* in is pruned, the vectors stay.                                         *)
MixedAlwaysReported ==
    up => \A d \in chunks : Compared(d) /\ Mixed(d) => ReindexReported

(* documents.py:186 says a delete removes a document "from SQLite and the  *)
(* vector store".  Does not hold for one indexed before the backend was    *)
(* changed, nor for one still being ingested.                              *)
DeleteReachesStore ==
    \A d \in Docs : doc[d].at = "deleted" => \A b \in Backends : vectors[b][d] = 0
=============================================================================
