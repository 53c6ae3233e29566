----------------------------- MODULE SearchCache -----------------------------
(***************************************************************************)
(* The semantic query cache (backend/cache/query_cache.py) under the       *)
(* concurrent searches that read and fill it (MemoryIndexManager.search,   *)
(* backend/memory/manager.py), the ingestions that add documents and the   *)
(* delete route that removes them and invalidates the cache.               *)
(*                                                                         *)
(* An action is the code between two awaits.  What a query matches is not  *)
(* modelled: every searchable document in the scope may be found, and the  *)
(* ranking returns any non-empty part of what was found.  A document is    *)
(* one batch of chunks and points, and its row comes with its chunks: none *)
(* of it is searchable before.  Two history variables: `overlapped`, the   *)
(* search was under way when a delete finished; `met`, a delete of the     *)
(* document began before its ingestion had ended.                          *)
(***************************************************************************)
EXTENDS Naturals, Sequences, SequencesExt

CONSTANTS Tasks,         \* concurrent calls of search
          CleanQueries,  \* clean queries, normalised as their MD5 key is
          Scopes,        \* requested scopes: a project and a document filter
          Docs,          \* documents
          MaxSize,       \* cfg.semantic_cache_max_size
          InScope(_, _), \* the document belongs to the requested scope
          Dim(_),        \* dimensions of the embedding model of a scope's project
          Similar(_, _)  \* cosine of the embeddings of two queries >= threshold

ASSUME CacheAssumption == MaxSize \in Nat \ {0}

VARIABLES
    cache,       \* _cache, least recently used first
    phase,       \* where each search is
    clean,       \* its clean query (after a retry the rewritten one)
    scope,       \* its scope
    attempt,     \* the search itself, its retry, or the search again after a retry that raised
    first,       \* clean query and results the first attempt holds while the retry runs
    pending,     \* the retrievals still awaited
    found,       \* documents retrieved so far
    given,       \* documents of its answer
    overlapped,  \* a delete finished while it was under way
    job,         \* the ingestion of each document
    rows,        \* documents with their row and chunks in SQLite
    vectors,     \* documents with points in the vector store
    deleter,     \* the delete route of each document
    met          \* documents a delete of which began before their ingestion ended

taskVars == <<phase, clean, scope, attempt, first, pending, found, given, overlapped>>
docVars == <<job, rows, vectors, deleter, met>>
cacheVars == <<cache, taskVars, docVars>>

Entry == [query : CleanQueries, dim : {Dim(s) : s \in Scopes}, result : SUBSET Docs, stale : BOOLEAN]
Busy == {"embedding", "searching", "ranking"}

CacheTypeOK ==
    /\ cache \in Seq(Entry)
    /\ phase \in [Tasks -> {"idle"} \cup Busy]
    /\ clean \in [Tasks -> CleanQueries]
    /\ scope \in [Tasks -> Scopes]
    /\ attempt \in [Tasks -> {"first", "retry", "fallback"}]
    /\ first \in [Tasks -> [clean : CleanQueries, found : SUBSET Docs]]
    /\ pending \in [Tasks -> SUBSET {"vector", "fts"}]
    /\ found \in [Tasks -> SUBSET Docs]
    /\ given \in [Tasks -> SUBSET Docs]
    /\ overlapped \in [Tasks -> BOOLEAN]
    /\ job \in [Docs -> {"new", "inserted", "ended"}]
    /\ rows \in SUBSET Docs
    /\ vectors \in SUBSET Docs
    /\ deleter \in [Docs -> {"idle", "vectors", "sql"}]
    /\ met \in SUBSET Docs

CacheInit ==
    /\ cache = <<>>
    /\ phase = [t \in Tasks |-> "idle"]
    /\ clean \in [Tasks -> CleanQueries]
    /\ scope \in [Tasks -> Scopes]
    /\ attempt = [t \in Tasks |-> "first"]
    /\ first = [t \in Tasks |-> [clean |-> clean[t], found |-> {}]]
    /\ pending = [t \in Tasks |-> {}]
    /\ found = [t \in Tasks |-> {}]
    /\ given = [t \in Tasks |-> {}]
    /\ overlapped = [t \in Tasks |-> FALSE]
    /\ job = [d \in Docs |-> "new"]
    /\ rows = {}
    /\ vectors = {}
    /\ deleter = [d \in Docs |-> "idle"]
    /\ met = {}

-----------------------------------------------------------------------------
(* The cache.                                                              *)
Keys(s) == {s[i].query : i \in DOMAIN s}

Without(s, q) ==
    IF q \in Keys(s) THEN RemoveAt(s, CHOOSE i \in DOMAIN s : s[i].query = q) ELSE s

(* move_to_end.                                                            *)
Touch(s, e) == Append(Without(s, e.query), e)

(* Faulty: the eviction is off by one.                                     *)
PutOver(s, e) ==
    LET full == Touch(s, e)
    IN  IF Len(full) > MaxSize + 1 THEN Tail(full) ELSE full

(* set: insert at the recent end, then drop the oldest beyond max_size.    *)
Put(s, e) ==
    LET full == Touch(s, e)
    IN  IF Len(full) > MaxSize THEN Tail(full) ELSE full

(* get: the exact entry, else the entries that are similar enough; the     *)
(* best of them is one of them.                                            *)
Hits(q, dim) ==
    LET exact == {e \in ToSet(cache) : e.query = q}
    IN  IF exact # {} THEN exact
        ELSE {e \in ToSet(cache) : e.dim = dim /\ Similar(e.query, q)}

(* Without an exact entry the query embedding is compared with every one:  *)
(* numpy's dot raises when an entry has another model's dimensions.        *)
Incomparable(q, dim) ==
    /\ \A e \in ToSet(cache) : e.query # q
    /\ \E e \in ToSet(cache) : e.dim # dim

-----------------------------------------------------------------------------
(* What the first attempt of a query holds while no retry of it runs.      *)
Nothing(q) == [clean |-> q, found |-> {}]

(* A search begins; the provider is resolved, the query embedded.          *)
Ask(t) ==
    /\ phase[t] = "idle"
    /\ phase' = [phase EXCEPT ![t] = "embedding"]
    /\ \E q \in CleanQueries :
          /\ clean' = [clean EXCEPT ![t] = q]
          /\ first' = [first EXCEPT ![t] = Nothing(q)]
    /\ \E s \in Scopes : scope' = [scope EXCEPT ![t] = s]
    /\ given' = [given EXCEPT ![t] = {}]
    /\ UNCHANGED <<cache, attempt, pending, found, overlapped, docVars>>

Give(t, result) ==
    /\ phase' = [phase EXCEPT ![t] = "idle"]
    /\ given' = [given EXCEPT ![t] = result]
    /\ attempt' = [attempt EXCEPT ![t] = "first"]
    /\ first' = [first EXCEPT ![t] = Nothing(clean[t])]
    /\ pending' = [pending EXCEPT ![t] = {}]
    /\ found' = [found EXCEPT ![t] = {}]
    /\ overlapped' = [overlapped EXCEPT ![t] = FALSE]
    /\ UNCHANGED clean

Retrieve(t) ==
    /\ phase' = [phase EXCEPT ![t] = "searching"]
    /\ pending' = [pending EXCEPT ![t] = {"vector", "fts"}]
    /\ found' = [found EXCEPT ![t] = {}]

(* The cache check.  An empty cached result is no hit, but it is touched.  *)
LookupHit(t) ==
    /\ phase[t] = "embedding"
    /\ ~Incomparable(clean[t], Dim(scope[t]))
    /\ \E e \in Hits(clean[t], Dim(scope[t])) :
        /\ cache' = Touch(cache, e)
        /\ IF e.result # {}
           THEN Give(t, e.result)
           ELSE Retrieve(t) /\ UNCHANGED <<clean, attempt, first, given, overlapped>>
    /\ UNCHANGED <<scope, docVars>>

LookupMiss(t) ==
    /\ phase[t] = "embedding"
    /\ ~Incomparable(clean[t], Dim(scope[t]))
    /\ Hits(clean[t], Dim(scope[t])) = {}
    /\ Retrieve(t)
    /\ UNCHANGED <<cache, clean, scope, attempt, first, given, overlapped, docVars>>

(* An awaited call raises, or the lookup does.  In a retry the exception   *)
(* ends in the grader's handler (manager.py:253): the first attempt goes   *)
(* on with its own query and results, and may store them.                  *)
Raises(t) ==
    /\ phase[t] \in Busy
    /\ IF attempt[t] = "retry"
       THEN /\ phase' = [phase EXCEPT ![t] = "ranking"]
            /\ attempt' = [attempt EXCEPT ![t] = "fallback"]
            /\ clean' = [clean EXCEPT ![t] = first[t].clean]
            /\ found' = [found EXCEPT ![t] = first[t].found]
            /\ first' = [first EXCEPT ![t] = Nothing(first[t].clean)]
            /\ pending' = [pending EXCEPT ![t] = {}]
            /\ UNCHANGED <<given, overlapped>>
       ELSE Give(t, {})
    /\ UNCHANGED <<cache, scope, docVars>>

(* The vector and the full-text search run side by side in threads.        *)
Searched(t, source) ==
    LET searchable == IF source = "vector" THEN vectors ELSE rows
    IN  /\ phase[t] = "searching"
        /\ source \in pending[t]
        /\ pending' = [pending EXCEPT ![t] = @ \ {source}]
        /\ found' = [found EXCEPT ![t] = @ \cup {d \in searchable : InScope(d, scope[t])}]
        /\ phase' = [phase EXCEPT ![t] = IF pending[t] = {source} THEN "ranking" ELSE @]
        /\ UNCHANGED <<cache, clean, scope, attempt, first, given, overlapped, docVars>>

RetryWith(t, q) ==
    /\ phase' = [phase EXCEPT ![t] = "embedding"]
    /\ attempt' = [attempt EXCEPT ![t] = "retry"]
    /\ first' = [first EXCEPT ![t] = [clean |-> clean[t], found |-> found[t]]]
    /\ clean' = [clean EXCEPT ![t] = q]
    /\ found' = [found EXCEPT ![t] = {}]
    /\ UNCHANGED <<cache, scope, pending, given, overlapped, docVars>>

(* The CRAG grader rejects the results: search again with a rewritten or   *)
(* decomposed query, once; a failing grader does not retry.                *)
Retry(t) ==
    /\ phase[t] = "ranking"
    /\ attempt[t] = "first"
    /\ \E q \in CleanQueries : RetryWith(t, q)

(* Reranking, MMR and the cut to final_top_k; a retry is not cached.       *)
RankResults(t) ==
    /\ phase[t] = "ranking"
    /\ \E result \in SUBSET found[t] :
        /\ found[t] # {} => result # {}
        /\ Give(t, result)
        /\ cache' = IF attempt[t] = "retry" THEN cache
                    ELSE Put(cache, [query |-> clean[t], dim |-> Dim(scope[t]),
                                     result |-> result, stale |-> overlapped[t]])
    /\ UNCHANGED <<scope, docVars>>

-----------------------------------------------------------------------------
(* The pipeline inserts a document and its chunks, then stores its points. *)
IndexRows(d) ==
    /\ job[d] = "new"
    /\ job' = [job EXCEPT ![d] = "inserted"]
    /\ rows' = rows \cup {d}
    /\ UNCHANGED <<cache, taskVars, vectors, deleter, met>>

IndexVectors(d) ==
    /\ job[d] = "inserted"
    /\ job' = [job EXCEPT ![d] = "ended"]
    /\ vectors' = vectors \cup {d}
    /\ UNCHANGED <<cache, taskVars, rows, deleter, met>>

IndexFails(d) ==
    /\ job[d] = "inserted"
    /\ job' = [job EXCEPT ![d] = "ended"]
    /\ UNCHANGED <<cache, taskVars, rows, vectors, deleter, met>>

(* delete_document accepts a row of any status: vectors in a thread, then  *)
(* the rows and the invalidation.  What raises ends it.                    *)
DeleteStart(d) ==
    /\ d \in rows
    /\ deleter[d] = "idle"
    /\ deleter' = [deleter EXCEPT ![d] = "vectors"]
    /\ met' = IF job[d] = "ended" THEN met ELSE met \cup {d}
    /\ UNCHANGED <<cache, taskVars, job, rows, vectors>>

DeleteVectors(d) ==
    /\ deleter[d] = "vectors"
    /\ deleter' = [deleter EXCEPT ![d] = "sql"]
    /\ vectors' = vectors \ {d}
    /\ UNCHANGED <<cache, taskVars, job, rows, met>>

RowsGone(d) ==
    /\ deleter[d] = "sql"
    /\ deleter' = [deleter EXCEPT ![d] = "idle"]
    /\ rows' = rows \ {d}
    /\ overlapped' = [t \in Tasks |-> overlapped[t] \/ phase[t] \in Busy]
    /\ UNCHANGED <<phase, clean, scope, attempt, first, pending, found, given, job, vectors, met>>

(* Faulty: the cache is not invalidated.                                   *)
DeleteRowsOnly(d) == RowsGone(d) /\ UNCHANGED cache

DeleteRows(d) == RowsGone(d) /\ cache' = <<>>

DeleteFails(d) ==
    /\ deleter[d] # "idle"
    /\ deleter' = [deleter EXCEPT ![d] = "idle"]
    /\ UNCHANGED <<cache, taskVars, job, rows, vectors, met>>

(* A change of the settings invalidates too.                               *)
Invalidate ==
    /\ cache' = <<>>
    /\ UNCHANGED <<taskVars, docVars>>

SearchStep(t) ==
    \/ LookupHit(t) \/ LookupMiss(t) \/ Raises(t)
    \/ \E source \in {"vector", "fts"} : Searched(t, source)
    \/ Retry(t) \/ RankResults(t)

CacheNext ==
    \/ \E t \in Tasks : Ask(t) \/ SearchStep(t)
    \/ \E d \in Docs : IndexRows(d) \/ IndexVectors(d) \/ IndexFails(d)
    \/ \E d \in Docs : DeleteStart(d) \/ DeleteVectors(d) \/ DeleteRows(d) \/ DeleteFails(d)
    \/ Invalidate

CacheSpec == CacheInit /\ [][CacheNext]_cacheVars

-----------------------------------------------------------------------------
(* The cache never holds two results for a query, nor more than max_size,  *)
(* whatever concurrent searches store, touch and evict.                    *)
CacheBounded ==
    /\ Len(cache) <= MaxSize
    /\ \A i, j \in DOMAIN cache : cache[i].query = cache[j].query => i = j

(* The delete route invalidates last, after both stores forgot the         *)
(* document: a cached result names a deleted document only if its search   *)
(* was already under way when the delete finished, or if the delete met    *)
(* the ingestion, whose upsert brings the vectors back.                    *)
Deleted(d) == job[d] # "new" /\ d \notin rows

StaleOnlyByOverlap ==
    \A e \in ToSet(cache), d \in Docs :
        d \in e.result /\ Deleted(d) => e.stale \/ d \in met

-----------------------------------------------------------------------------
(* What the invalidation in the delete route (documents.py:219) is for: no *)
(* cached result names a deleted document.  A search that was under way    *)
(* stores its result after the invalidation; and one that comes later      *)
(* finds the vectors an upsert left and their payload (manager.py:348).    *)
CacheForgetsDeleted ==
    \A e \in ToSet(cache), d \in Docs : d \in e.result => ~Deleted(d)

(* "Optional project_id to scope search to one project" and "Optional      *)
(* doc_id to restrict search scope" (manager.py:117-118): the key of the   *)
(* cache does not hold them.                                               *)
AnswerInScope == \A t \in Tasks : \A d \in given[t] : InScope(d, scope[t])

(* "Clear the entire cache (called after re-indexing)" (query_cache.py:96) *)
(* is not called when a document has been indexed: answers computed before *)
(* go on being served.                                                     *)
IndexingClears ==
    [][\A d \in Docs :
        d \notin vectors /\ d \in vectors'
            => \A e \in ToSet(cache') : e.result = {}]_cacheVars

(* "Returns the result if found (exact or semantic hit), else None"        *)
(* (query_cache.py:39): get never raises.                                  *)
LookupReturns ==
    \A t \in Tasks : phase[t] = "embedding" => ~Incomparable(clean[t], Dim(scope[t]))
-----------------------------------------------------------------------------
(* The strengthening of the safety properties that is inductive: what is   *)
(* deleted is in neither store, unless its delete met the ingestion, and   *)
(* what a search holds of it makes the entry it will store a stale one.    *)
GoneFromStores ==
    /\ \A d \in rows : job[d] # "new"
    /\ \A d \in Docs \ met :
          /\ deleter[d] # "idle" \/ Deleted(d) => job[d] = "ended"
          /\ deleter[d] = "sql" \/ Deleted(d) => d \notin vectors

HeldByOverlap ==
    \A t \in Tasks :
        /\ phase[t] = "idle" => found[t] = {}
        /\ phase[t] \in Busy =>
              \A d \in (found[t] \cup first[t].found) \ met : Deleted(d) => overlapped[t]

CacheIInv ==
    /\ CacheTypeOK
    /\ CacheBounded
    /\ StaleOnlyByOverlap
    /\ GoneFromStores
    /\ HeldByOverlap
=============================================================================
