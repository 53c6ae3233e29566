--------------------------- MODULE EmbeddingCalls ---------------------------
(***************************************************************************)
(* Embedding of texts: the pool that shares one provider per model         *)
(* (backend/providers/embedding/pool.py) and the embedding cache that the  *)
(* ingestions and the watcher go through (memory/embeddings.py).           *)
(*                                                                         *)
(* A call awaits the load of its provider and every batch of texts; all    *)
(* database work lies between two awaits.  The vector of a text is the     *)
(* pair of the model that made it and the text.  The table is a sequence   *)
(* in the order of its rowids: a replaced row gets a new one.  What the    *)
(* cache stores for one text outside ingestion (store_embedding_cache) is  *)
(* a call of one text.  `loads` is a history variable.                     *)
(***************************************************************************)
EXTENDS Naturals, SequencesExt

CONSTANTS Calls,      \* calls of embed_with_cache
          Models,
          Default,    \* the model registered at startup
          Texts,
          MaxTexts,   \* bound: texts of a call
          Batch,      \* batch_size
          MaxRows,    \* max_entries of the table
          Interval,   \* _PRUNE_INTERVAL
          MaxCrashes  \* bound: crashes of the process

ASSUME CallsAssumption ==
    /\ Default \in Models
    /\ {MaxTexts, Batch, MaxRows, Interval} \subseteq Nat \ {0}
    /\ MaxCrashes \in Nat

VARIABLES
    pool,   \* the provider of each model, 0 if there is none
    loads,  \* providers loaded for each model since the start
    call,   \* [at, model, provider, texts, got, missing, from]
    table,  \* embedding_cache: rows [model, text, vector]
    count,  \* _store_count
    crashes

callsVars == <<pool, loads, call, table, count, crashes>>

Missing == <<>>
Vector == Models \X Texts
Row == [model : Models, text : Texts, vector : Vector]
Waiting == {"loading", "ready", "embedding"}

CallsTypeOK ==
    /\ {pool, loads} \subseteq [Models -> Nat]
    /\ call \in [Calls -> [at : Waiting \cup {"idle", "done", "failed", "lost"},
                           model : Models, provider : Nat,
                           texts : Seq(Texts), got : Seq(Vector \cup {Missing}),
                           missing : Seq(1..MaxTexts), from : 0..MaxTexts]]
    /\ table \in Seq(Row)
    /\ count \in Nat
    /\ crashes \in 0..MaxCrashes

Registered == [m \in Models |-> IF m = Default THEN 1 ELSE 0]

CallsInit ==
    /\ pool = Registered
    /\ loads = Registered
    /\ call = [c \in Calls |-> [at |-> "idle", model |-> Default, provider |-> 0,
                                texts |-> <<>>, got |-> <<>>, missing |-> <<>>, from |-> 0]]
    /\ table = <<>>
    /\ count = 0
    /\ crashes = 0

-----------------------------------------------------------------------------
(* The pool.                                                               *)

(* get: the provider of the pool, or a new one that is awaited.            *)
Ask(c, m, ts) ==
    /\ call[c].at = "idle"
    /\ call' = [call EXCEPT ![c].at = IF pool[m] = 0 THEN "loading" ELSE "ready",
                            ![c].model = m, ![c].provider = pool[m], ![c].texts = ts]
    /\ UNCHANGED <<pool, loads, table, count, crashes>>

(* The new provider takes the place of whatever is there by now.           *)
Loaded(c) ==
    LET m == call[c].model IN
    /\ call[c].at = "loading"
    /\ loads' = [loads EXCEPT ![m] = @ + 1]
    /\ pool' = [pool EXCEPT ![m] = loads[m] + 1]
    /\ call' = [call EXCEPT ![c].at = "ready", ![c].provider = loads[m] + 1]
    /\ UNCHANGED <<table, count, crashes>>

-----------------------------------------------------------------------------
(* The cache.                                                              *)
Keyed(rows, m, t) == {i \in 1..Len(rows) : rows[i].model = m /\ rows[i].text = t}

Cached(m, t) ==
    LET hits == Keyed(table, m, t)
    IN  IF hits = {} THEN Missing ELSE table[CHOOSE i \in hits : TRUE].vector

LookedUp(m, ts) == [i \in 1..Len(ts) |-> Cached(m, ts[i])]

(* The positions that are not in the cache.                                *)
Misses(got) ==
    LET upto[i \in 0..Len(got)] ==
          IF i = 0 THEN <<>> ELSE IF got[i] = Missing THEN Append(upto[i - 1], i) ELSE upto[i - 1]
    IN  upto[Len(got)]

(* embed_with_cache looks up all its texts first.                          *)
Read(c) ==
    LET got == LookedUp(call[c].model, call[c].texts)
        missing == Misses(got)
    IN  /\ call[c].at = "ready"
        /\ call' = [call EXCEPT ![c].at = IF missing = <<>> THEN "done" ELSE "embedding",
                                ![c].got = got, ![c].missing = missing]
        /\ UNCHANGED <<pool, loads, table, count, crashes>>

(* INSERT OR REPLACE: the row of that key goes, of which there is one.     *)
Without(rows, m, t) ==
    LET old == Keyed(rows, m, t)
    IN  IF old = {} THEN rows ELSE RemoveAt(rows, CHOOSE i \in old : TRUE)

Inserted(rows, r) == Append(Without(rows, r.model, r.text), r)

(* executemany: the rows of `new`, one after the other.                    *)
InsertedAll(rows, new) ==
    LET upto[k \in 0..Len(new)] == IF k = 0 THEN rows ELSE Inserted(upto[k - 1], new[k])
    IN  upto[Len(new)]

(* Faulty: the newest rows go.                                             *)
PrunedNewest(rows) == IF Len(rows) <= MaxRows THEN rows ELSE SubSeq(rows, 1, MaxRows)

(* prune_embedding_cache: the oldest rows go.                              *)
Pruned(rows) == IF Len(rows) <= MaxRows THEN rows ELSE SubSeq(rows, Len(rows) - MaxRows + 1, Len(rows))

(* All new rows in one transaction, in the order of the texts; pruning     *)
(* only if the count then is a multiple of the interval.                   *)
StoreNew(c) ==
    LET missing == call[c].missing
        new == [k \in DOMAIN missing |->
                   [model |-> call[c].model, text |-> call[c].texts[missing[k]],
                    vector |-> call'[c].got[missing[k]]]]
        rows == InsertedAll(table, new)
    IN  /\ count' = count + Len(missing)
        /\ table' = IF count' % Interval = 0 THEN Pruned(rows) ELSE rows

(* Faulty: every batch fills the positions of the first.                   *)
TargetFirst(c, k) == call[c].missing[k]

(* The position of the k-th text of the batch.                             *)
Target(c, k) == call[c].missing[call[c].from + k]

(* A batch came: the k-th vector is that of the k-th text of the batch.    *)
Filled(c, size) ==
    [i \in 1..Len(call[c].got) |->
        LET ks == {k \in 1..size : Target(c, k) = i}
        IN  IF ks = {} THEN call[c].got[i]
            ELSE <<call[c].model, call[c].texts[call[c].missing[call[c].from + CHOOSE k \in ks : TRUE]]>>]

Size(c) ==
    LET left == Len(call[c].missing) - call[c].from
    IN  IF left < Batch THEN left ELSE Batch

After(c) == call[c].from + Size(c)

(* The next batch, and after the last one the transaction.                 *)
BatchEmbedded(c) ==
    LET to == After(c)
        last == to = Len(call[c].missing)
    IN  /\ call[c].at = "embedding"
        /\ call' = [call EXCEPT ![c].at = IF last THEN "done" ELSE "embedding",
                                ![c].got = Filled(c, Size(c)), ![c].from = to]
        /\ IF last THEN StoreNew(c) ELSE UNCHANGED <<table, count>>
        /\ UNCHANGED <<pool, loads, crashes>>

(* A provider that cannot be loaded, or does not answer a batch: nothing   *)
(* is stored, and nothing of it is kept in the pool.                       *)
Fail(c) ==
    /\ call[c].at \in {"loading", "embedding"}
    /\ call' = [call EXCEPT ![c].at = "failed"]
    /\ UNCHANGED <<pool, loads, table, count, crashes>>

(* The process dies and starts again: the table stays.                     *)
Crash ==
    /\ crashes < MaxCrashes
    /\ crashes' = crashes + 1
    /\ pool' = Registered
    /\ loads' = Registered
    /\ count' = 0
    /\ call' = [c \in Calls |-> IF call[c].at \in Waiting THEN [call[c] EXCEPT !.at = "lost"] ELSE call[c]]
    /\ UNCHANGED table

Progress(c) == Loaded(c) \/ Read(c) \/ BatchEmbedded(c)

CallsNext ==
    \/ \E c \in Calls :
          \/ \E m \in Models, ts \in BoundedSeq(Texts, MaxTexts) : Ask(c, m, ts)
          \/ Progress(c) \/ Fail(c)
    \/ Crash

CallsSpec == CallsInit /\ [][CallsNext]_callsVars

(* The event loop and the executor threads get on; nothing need fail.      *)
CallsFairness == \A c \in Calls : WF_callsVars(Progress(c))

CallsFairSpec == CallsSpec /\ CallsFairness

-----------------------------------------------------------------------------
(* A call returns, for each of its texts and in their order, the vector    *)
(* its own model makes of that text, whatever was in the cache, however    *)
(* hits and misses fall into batches, and whatever other calls stored,     *)
(* replaced or pruned meanwhile (embeddings.py:135).                       *)
EveryTextItsVector ==
    \A c \in Calls : call[c].at = "done" =>
        call[c].got = [i \in 1..Len(call[c].texts) |-> <<call[c].model, call[c].texts[i]>>]

(* The table has one row for a text of a model, also when two calls        *)
(* embedded the text at the same time, and never the vector of another     *)
(* (embeddings.py:147).                                                    *)
OneRowPerText ==
    \A i, j \in 1..Len(table) :
        /\ table[i].vector = <<table[i].model, table[i].text>>
        /\ i # j => table[i].model # table[j].model \/ table[i].text # table[j].text

(* What a call stored is in the table after it pruned, as far as the table *)
(* may hold it: the newest rows stay (embeddings.py:38).                   *)
NewestStay ==
    [][\A c \in Calls :
        call[c].at = "embedding" /\ call'[c].at = "done" =>
            LET made == {call[c].texts[call[c].missing[k]] : k \in 1..Len(call[c].missing)}
                kept == {table'[i].text : i \in {k \in 1..Len(table') : table'[k].model = call[c].model}}
            IN  Cardinality(made) <= MaxRows => made \subseteq kept]_callsVars

(* Once a provider of a model is in the pool and no load of that model is  *)
(* under way, no further one is loaded and all calls share it, until the   *)
(* process ends (pool.py:14).                                              *)
PoolSettles ==
    [][\A m \in Models :
        /\ crashes' = crashes
        /\ loads[m] > 0
        /\ ~\E c \in Calls : call[c].at = "loading" /\ call[c].model = m
        => /\ loads'[m] = loads[m] /\ pool'[m] = pool[m]
           /\ \A c \in Calls : call[c].at = "idle" /\ call'[c].at # "idle" /\ call'[c].model = m =>
                  call'[c].at = "ready" /\ call'[c].provider = pool[m]]_callsVars

(* Every call ends.                                                        *)
CallEnds == \A c \in Calls : call[c].at \in Waiting ~> call[c].at \notin Waiting

(* The inductive invariant.  The rows are as OneRowPerText says.  A call   *)
(* that has not read the cache has nothing yet; one that embeds has every  *)
(* vector but those of its missing texts from `from` on, each of which it  *)
(* lists once; and a loaded model has a provider.                          *)
CallInv(r) ==
    LET n == Len(r.texts)
        missing == r.missing
    IN  /\ n <= MaxTexts
        /\ r.at \in {"idle", "loading", "ready"} => r.from = 0
        /\ r.at = "ready" => r.provider > 0
        /\ r.at = "embedding" =>
              /\ Len(r.got) = n /\ Len(missing) <= n
              /\ r.from < Len(missing)
              /\ \A k \in DOMAIN missing : missing[k] \in 1..n
              /\ \A k, l \in DOMAIN missing : missing[k] = missing[l] => k = l
              /\ \A i \in 1..n : r.got[i] = <<r.model, r.texts[i]>>
                                   \/ \E k \in DOMAIN missing : k > r.from /\ missing[k] = i

CallsIInv ==
    /\ CallsTypeOK
    /\ OneRowPerText
    /\ EveryTextItsVector
    /\ \A c \in Calls : CallInv(call[c])
    /\ \A m \in Models : loads[m] > 0 => pool[m] > 0

-----------------------------------------------------------------------------
(* pool.py:14 says the "first call for a given pair loads it; subsequent   *)
(* calls return the cached instance".  Does not hold for a call that comes *)
(* while the first one loads.                                              *)
LoadedOnce == \A m \in Models : loads[m] <= 1

(* embeddings.py:37 says the oldest entries go "when count exceeds         *)
(* max_entries".  Does not hold: a batch takes the count past the multiple *)
(* at which it prunes.                                                     *)
RowsBounded == Len(table) < MaxRows + Interval
=============================================================================
