------------------------------ MODULE Retrieval ------------------------------
(***************************************************************************)
(* One question through MemoryManager.search (backend/memory/manager.py):  *)
(* decomposition, the ranked lists of every sub-query, their reciprocal    *)
(* rank fusion (memory/hybrid.py), the entity boost, the cross-encoder,    *)
(* the grader with its one retry, MMR (memory/mmr.py), parent expansion,   *)
(* the score threshold and the cut.                                        *)
(*                                                                         *)
(* A result is its chunk; scores live inside the fusion, where reciprocals *)
(* are exact, in units of 1/One.  After it they fall along the pool,       *)
(* whether the fusion or the cross-encoder gave them, so those that reach  *)
(* the threshold are the first `high` of the pool.  The semantic cache     *)
(* around this pipeline is in SearchCache, its collections in ProjectScope.*)
(***************************************************************************)
EXTENDS Integers, Sequences, SequencesExt, FiniteSetsExt

CONSTANTS Rows,         \* the chunks, in the order a SELECT ... IN returns them
          Group,        \* the parent of a chunk, itself if it has none
          Entities,     \* project_entities
          Mentions,     \* source_chunk_ids of an entity, a set
          Related,      \* project_entity_relations, a set of pairs {a, b}
          Queries,      \* the query asked and what the grader makes of it
          Asked,
          Rel,          \* Rel[q][c]: cosine of query and chunk, in tenths
          Sim,          \* Sim[c][d]: cosine of two chunks, in tenths
          K,            \* k of the fusion (60)
          TopK,         \* vector_search_top_k, fts_search_top_k
          MaxSubs,      \* bound: sub-queries (4)
          RerankTop,    \* reranker_top_n
          MmrTop,       \* mmr_top_n_balanced
          MmrFast,      \* mmr_top_n_fast
          FinalTop,     \* final_top_k
          Lambda        \* mmr_lambda, in tenths

Chunks == ToSet(Rows)

ASSUME RetrievalAssumption ==
    /\ Asked \in Queries /\ Rows \in Seq(Chunks)
    /\ \A e \in Entities : Mentions[e] \subseteq Chunks
    /\ {K, TopK, MaxSubs, RerankTop, MmrTop, MmrFast, FinalTop} \subseteq Nat \ {0}
    /\ Lambda \in 0..10
    /\ Rel \in [Queries -> [Chunks -> -10..10]] /\ Sim \in [Chunks -> [Chunks -> -10..10]]

VARIABLES
    mode,     \* accuracy_mode
    query,    \* clean_query of the running search
    retry,    \* _retry
    subs,     \* number of sub_queries
    left,     \* those still to be searched
    pc,       \* where the running search stands
    vec,      \* vec_results of the sub-query
    sources,  \* the lists the sub-query fused
    all,      \* all_results
    pool,     \* merged
    high,     \* how many of the pool reach min_chunk_score; all if that is 0
    held,     \* merged of the search that retries: a set, empty if none does
    answer

vars == <<mode, query, retry, subs, left, pc, vec, sources, all, pool, high, held, answer>>

Modes == {"fast", "balanced", "max"}

TypeOK ==
    /\ mode \in Modes /\ query \in Queries /\ retry \in BOOLEAN
    /\ subs \in 1..MaxSubs /\ left \in 0..subs
    /\ pc \in {"start", "vectors", "gather", "fuse", "merge", "rerank", "grade", "answer", "done", "failed"}
    /\ {vec, all, pool} \cup ToSet(sources) \cup held \subseteq Seq(Chunks)
    /\ high \in 0..Len(pool)
    /\ ToSet(answer) \subseteq Chunks \cup {Group[c] : c \in Chunks}

Init ==
    /\ mode \in Modes /\ query = Asked /\ retry = FALSE
    /\ subs = 1 /\ left = 0 /\ pc = "start"
    /\ vec = <<>> /\ sources = <<>> /\ all = <<>> /\ pool = <<>> /\ high = 0 /\ held = {} /\ answer = <<>>

-----------------------------------------------------------------------------
(* Reciprocal rank fusion.                                                 *)
LongestList == Len(Rows) * 2

One == LET product[n \in 0..LongestList] == IF n = 0 THEN 1 ELSE product[n - 1] * (K + n)
       IN  product[LongestList]

Weight(rank) == One \div (K + rank)

(* The chunks of the lists with their ranks, list by list.                 *)
Ranked(lists) ==
    LET upto[i \in 0..Len(lists)] ==
          IF i = 0 THEN <<>> ELSE upto[i - 1] \o [r \in DOMAIN lists[i] |-> <<lists[i][r], r>>]
    IN  upto[Len(lists)]

(* Faulty: the last list sets the score instead of adding to it.           *)
ScoreLast(ranked, c) == Weight(ranked[Max({n \in DOMAIN ranked : ranked[n][1] = c})][2])

(* rrf_scores[c]: the sum over all lists.                                  *)
Score(ranked, c) ==
    LET sum[n \in 0..Len(ranked)] ==
          IF n = 0 THEN 0 ELSE sum[n - 1] + IF ranked[n][1] = c THEN Weight(ranked[n][2]) ELSE 0
    IN  sum[Len(ranked)]

(* The higher score first; equal scores stay in the order of insertion.    *)
Before(ranked, c, d) ==
    LET first(x) == Min({n \in DOMAIN ranked : ranked[n][1] = x})
    IN  \/ Score(ranked, c) > Score(ranked, d)
        \/ Score(ranked, c) = Score(ranked, d) /\ first(c) < first(d)

(* The chunks of all lists, each once, in that order.                      *)
Sorted[ranked \in Seq(Chunks \X Nat)] ==
    LET found == {ranked[n][1] : n \in DOMAIN ranked}
        place(c) == Cardinality({d \in found : Before(ranked, d, c)}) + 1
    IN  [p \in 1..Cardinality(found) |-> CHOOSE c \in found : place(c) = p]

Fused(lists) == Sorted[Ranked(lists)]

-----------------------------------------------------------------------------
(* The lists of a sub-query.                                               *)
Lists == UNION {{l \in [1..n -> Chunks] : IsInjective(l)} : n \in 0..TopK}

(* What a vector search by the embedding of q itself can return.           *)
Nearest(q) == {l \in Lists : \A i \in 1..(Len(l) - 1) : Rel[q][l[i]] >= Rel[q][l[i + 1]]}

(* A set of numbers, the least first.                                      *)
Ascending(ks) ==
    CHOOSE s \in [1..Cardinality(ks) -> ks] : \A m, n \in DOMAIN s : m < n => s[m] < s[n]

(* What a loop over s keeps of it: what is at these positions, in order.   *)
Picked(s, ks) == [n \in 1..Cardinality(ks) |-> s[Ascending(ks)[n]]]

Selected(set) == Picked(Rows, {i \in DOMAIN Rows : Rows[i] \in set})

Neighbours(es) == {b \in Entities : \E a \in es : {a, b} \in Related}

(* The chunks of the entities the query matches.                           *)
LowLevel(es) == Selected(UNION {Mentions[e] : e \in es})

(* Walks of one or two relations from the entities that are named.         *)
HighLevel(es) ==
    Selected(UNION {Mentions[e] : e \in Neighbours(es) \cup Neighbours(Neighbours(es))})

Boost(matched, named) ==
    IF LowLevel(matched) = <<>> THEN <<>> ELSE LowLevel(matched) \o HighLevel(named)

-----------------------------------------------------------------------------
(* search.                                                                 *)

SubQueries == IF mode = "fast" \/ retry THEN {1} ELSE 1..MaxSubs

(* A query that looks like several is decomposed, unless this is a retry.  *)
Start ==
    /\ pc = "start"
    /\ subs' \in SubQueries
    /\ left' = subs' /\ pc' = "vectors" /\ all' = <<>>
    /\ UNCHANGED <<mode, query, retry, vec, sources, pool, high, held, answer>>

(* In max mode a second list, by the embedding of a hypothetical passage,  *)
(* is fused with the first; that of a sub-query is of its own embedding.   *)
SearchVectors ==
    /\ pc = "vectors"
    /\ \E first \in IF subs = 1 THEN Nearest(query) ELSE Lists :
         \/ vec' = first
         \/ mode = "max" /\ \E second \in Lists : vec' = Fused(<<first, second>>)
    /\ pc' = "gather"
    /\ UNCHANGED <<mode, query, retry, subs, left, sources, all, pool, high, held, answer>>

(* The keyword search answers too; within a project entities boost.        *)
Gather ==
    /\ pc = "gather"
    /\ \E fts \in Lists, matched \in SUBSET Entities : \E named \in SUBSET matched :
         sources' = <<vec, fts, Boost(matched, named)>>
    /\ vec' = <<>> /\ pc' = "fuse"
    /\ UNCHANGED <<mode, query, retry, subs, left, all, pool, high, held, answer>>

FuseSources ==
    /\ pc = "fuse"
    /\ all' = all \o Fused(sources)
    /\ sources' = <<>> /\ left' = left - 1
    /\ pc' = IF left = 1 THEN "merge" ELSE "vectors"
    /\ UNCHANGED <<mode, query, retry, subs, vec, pool, high, held, answer>>

(* The results of several sub-queries are fused as one list each.          *)
Merge ==
    /\ pc = "merge"
    /\ pool' = IF subs > 1 THEN Fused([i \in DOMAIN all |-> <<all[i]>>]) ELSE all
    /\ all' = <<>>
    /\ pc' = IF mode = "fast" THEN "answer" ELSE "rerank"
    /\ UNCHANGED <<mode, query, retry, subs, left, vec, sources, high, held, answer>>

UpTo(s, n) == SubSeq(s, 1, Min({n, Len(s)}))

(* The cross-encoder orders the pool as it likes and cuts it; if it fails  *)
(* the pool keeps its order.                                               *)
Reordered ==
    \E order \in SetToSeqs(DOMAIN pool) :
        pool' = UpTo([i \in DOMAIN pool |-> pool[order[i]]], RerankTop)

(* Faulty: the flag does not stop another retry.                           *)
RerankRegraded ==
    /\ pc = "rerank" /\ pc' = "grade"
    /\ Reordered \/ UNCHANGED pool
    /\ UNCHANGED <<mode, query, retry, subs, left, vec, sources, all, high, held, answer>>

(* No cross-encoder need be configured: the pool then stays.               *)
Rerank ==
    /\ pc = "rerank"
    /\ Reordered \/ UNCHANGED pool
    /\ pc' = IF retry THEN "answer" ELSE "grade"
    /\ UNCHANGED <<mode, query, retry, subs, left, vec, sources, all, high, held, answer>>

Retried(q) == query' = q /\ retry' = TRUE /\ held' = {pool} /\ pc' = "start"

(* IRRELEVANT retries with another query, AMBIGUOUS with the same one if   *)
(* it can be decomposed.  An empty pool is IRRELEVANT.                     *)
Grade ==
    /\ pc = "grade"
    /\ \/ \E q \in Queries \ {query} : Retried(q)
       \/ pool # <<>> /\ subs = 1 /\ Retried(query)
       \/ pc' = "answer" /\ UNCHANGED <<query, retry, held>>
    /\ UNCHANGED <<mode, subs, left, vec, sources, all, pool, high, answer>>

-----------------------------------------------------------------------------
(* Maximal marginal relevance.                                             *)
Marginal(q, c, chosen) ==
    Lambda * Rel[q][c] - (10 - Lambda) * (IF chosen = {} THEN 0 ELSE Max({Sim[c][d] : d \in chosen}))

(* i exceeds j, with that much chosen: the first of the best is taken.     *)
Exceeds(q, s, chosen, i, j) ==
    LET m(k) == Marginal(q, s[k], {s[h] : h \in chosen})
    IN  m(i) > m(j) \/ (m(i) = m(j) /\ i <= j)

(* Each position is the best of those not chosen before it.                *)
Greedy(q, s, order) ==
    \A k \in DOMAIN order :
        LET chosen == {order[h] : h \in 1..(k - 1)}
        IN  /\ order[k] \notin chosen
            /\ \A i \in DOMAIN s \ chosen : Exceeds(q, s, chosen, order[k], i)

(* The positions of the results in the order MMR selects them.             *)
Mmr(q, s, n) == CHOOSE o \in [1..Min({n, Len(s)}) -> DOMAIN s] : Greedy(q, s, o)

-----------------------------------------------------------------------------
(* From the order to the answer: positions of the pool, parents, the cut.  *)

(* The first child of a parent stands for it, the others go.               *)
Expanded(order) ==
    Picked(order, {k \in DOMAIN order :
                      \A h \in 1..(k - 1) : Group[pool[order[h]]] # Group[pool[order[k]]]})

(* Those that reach the threshold, or else the first.                      *)
Above(order, n) ==
    LET above == Picked(order, {k \in DOMAIN order : order[k] <= n})
    IN  IF above = <<>> THEN UpTo(order, 1) ELSE above

(* In max mode a chunk is given as its parent.                             *)
Given(i) == IF mode = "max" THEN Group[pool[i]] ELSE pool[i]

(* Faulty: cut before the parents are put in.                              *)
FinalCutFirst(order, n) ==
    LET kept == Above(UpTo(order, FinalTop), n)
        whole == IF mode = "max" THEN Expanded(kept) ELSE kept
    IN  [k \in DOMAIN whole |-> Given(whole[k])]

Final(order, n) ==
    LET kept == UpTo(Above(IF mode = "max" THEN Expanded(order) ELSE order, n), FinalTop)
    IN  [k \in DOMAIN kept |-> Given(kept[k])]

(* The pool after MMR, parents, threshold and cut is the answer.           *)
Answer ==
    /\ pc = "answer"
    /\ high' \in 0..Len(pool)
    /\ \E order \in {Mmr(query, pool, IF mode = "fast" THEN MmrFast ELSE MmrTop)} :
         answer' = Final(order, high')
    /\ pc' = "done"
    /\ UNCHANGED <<mode, query, retry, subs, left, vec, sources, all, pool, held>>

(* Faulty: the pool of the first search is ranked by the retry's query.    *)
FallBackRewritten == pc' = "answer" /\ UNCHANGED query /\ retry' = FALSE /\ pool' \in held

(* The retry is awaited inside the grader's try: the search that awaits it *)
(* goes on with what it had merged.                                        *)
FallBack == pc' = "answer" /\ query' = Asked /\ retry' = FALSE /\ pool' \in held

(* An embedding or a vector search raises.                                 *)
Fail ==
    /\ pc \in {"start", "vectors", "gather", "fuse", "merge", "answer"}
    /\ IF retry THEN FallBack ELSE pc' = "failed" /\ UNCHANGED <<query, retry, pool>>
    /\ vec' = <<>> /\ sources' = <<>> /\ all' = <<>> /\ left' = 0
    /\ UNCHANGED <<mode, subs, high, held, answer>>

Progress == Start \/ SearchVectors \/ Gather \/ FuseSources \/ Merge \/ Rerank \/ Grade \/ Answer

Next == Fail \/ Progress

Spec == Init /\ [][Next]_vars

(* The event loop runs the search on: what it awaits returns or raises.    *)
FairSpec == Spec /\ WF_vars(Next)

-----------------------------------------------------------------------------
(* The inductive invariant: what is searched, fused and merged so far, and *)
(* what the pool holds from then on.                                       *)
SearchInv ==
    /\ mode \in Modes /\ query \in Queries /\ retry \in BOOLEAN
    /\ subs \in 1..MaxSubs
    /\ pc \in {"start", "vectors", "gather", "fuse", "merge", "rerank", "grade", "answer", "done", "failed"}
    /\ retry \/ pc \in {"rerank", "grade"} => mode # "fast"
    /\ retry => held # {} /\ pc # "failed"
    /\ pc = "grade" => ~retry

ListsInv ==
    /\ vec \in Seq(Chunks) /\ sources \in Seq(Seq(Chunks)) /\ all \in Seq(Chunks)
    /\ pc \in {"vectors", "gather", "fuse"} => left \in 1..subs /\ (left = subs => all = <<>>)
    /\ pc = "merge" /\ subs = 1 => IsInjective(all)

PoolInv ==
    /\ pool \in Seq(Chunks) /\ high \in Nat
    /\ pc \in {"rerank", "grade", "answer", "done"} => IsInjective(pool)
    /\ pc = "done" => high <= Len(pool)
    /\ \A h \in held : h \in Seq(Chunks) /\ IsInjective(h)

IInv == SearchInv /\ ListsInv /\ PoolInv

-----------------------------------------------------------------------------
(* Positions of a chunk in the lists it was fused from.                    *)
Appearances(lists, c) ==
    {p \in (DOMAIN lists) \X (1..LongestList) : p[2] \in DOMAIN lists[p[1]] /\ lists[p[1]][p[2]] = c}

(* The place of the first appearance of c in a list, after its end if      *)
(* there is none.                                                          *)
Standing(list, c) == Min({r \in DOMAIN list : list[r] = c} \cup {Len(list) + 1})

(* The fusion of a first sub-query stands for the others: what they found  *)
(* before plays no part in it.                                             *)
Fusing == pc = "fuse" /\ all = <<>> /\ held = {}

(* Fusing loses and repeats no chunk of its lists, and a chunk that some   *)
(* source ranks higher than another and no source ranks lower comes first, *)
(* unless a source names the other twice (reciprocal_rank_fusion).         *)
DominantComesFirst ==
    LET fused == Fused(sources)
        named(c, i) == Cardinality({r \in DOMAIN sources[i] : sources[i][r] = c})
        dominates(c, d) ==
            \A i \in DOMAIN sources :
                Standing(sources[i], c) <= Standing(sources[i], d) /\ named(d, i) <= 1
    IN  Fusing =>
        /\ IsInjective(fused)
        /\ ToSet(fused) = UNION {ToSet(sources[i]) : i \in DOMAIN sources}
        /\ \A p \in DOMAIN fused : \A o \in 1..(p - 1) : ~dominates(fused[p], fused[o])

Promoted(lists, p) ==
    LET l == lists[p[1]]
    IN  [lists EXCEPT ![p[1]] = [l EXCEPT ![p[2] - 1] = l[p[2]], ![p[2]] = l[p[2] - 1]]]

(* A source that ranks a chunk one place higher never moves it down in the *)
(* fused list, whatever the other sources say and however ties fall.       *)
PromotionNeverHurts ==
    Fusing => \A c \in Chunks : \A p \in Appearances(sources, c) :
        p[2] > 1 => Standing(Fused(Promoted(sources, p)), c) <= Standing(Fused(sources), c)

Running == IF retry THEN query ELSE Asked

(* Without a threshold the answer starts with the best chunk of the pool   *)
(* for the query whose pool it is, or with its parent, also when a failed  *)
(* retry gave way to the first search.                                     *)
BestFirst ==
    pc = "done" /\ high = Len(pool) /\ pool # <<>> =>
        \E i \in DOMAIN pool :
            /\ \A j \in DOMAIN pool : Rel[Running][pool[i]] >= Rel[Running][pool[j]]
            /\ answer # <<>> /\ answer[1] = Given(i)

(* No chunk and no parent is given to the model twice, a threshold never   *)
(* empties the answer, and without one it is as long as the pool allows:   *)
(* collapsing children into their parents never leaves it short, unless    *)
(* MMR cut a pool that no cross-encoder had cut to fit.                    *)
FullAnswer ==
    pc = "done" =>
        /\ IsInjective(answer)
        /\ pool # <<>> => answer # <<>>
        /\ high = Len(pool) /\ (mode = "max" => Len(pool) <= MmrTop) =>
              Len(answer) = Min({FinalTop, Cardinality({Given(i) : i \in DOMAIN pool})})

(* The _retry flag "to prevent infinite CRAG recursion" (manager.py:110)   *)
(* does: every search ends, with an answer or an exception.                *)
SearchFinishes == <>(pc \in {"done", "failed"})

(* The entity source names a chunk once ("exclude seed entities").         *)
SeedsExcluded == sources # <<>> => IsInjective(sources[3])
=============================================================================
