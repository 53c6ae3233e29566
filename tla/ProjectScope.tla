---------------------------- MODULE ProjectScope ----------------------------
(***************************************************************************)
(* Projects and what they scope: the project routes                        *)
(* (backend/api/routes/projects.py, projects/manager.py), the collections  *)
(* of the vector store (memory/vector_store.py), which uploads and         *)
(* searches create on first use (ingestion/pipeline.py, memory/manager.py),*)
(* and the delete route of documents (api/routes/documents.py).            *)
(*                                                                         *)
(* A document carries its project in its row, which full-text search       *)
(* reads, and its vectors are in the collection of the project it was      *)
(* uploaded to, which vector search reads.  Work given to executor threads *)
(* takes steps of its own.  Models are told apart by their dimensions, and *)
(* a document is one batch of chunks.  The semantic cache, which a search  *)
(* asks first, is here the set of searches whose answers it holds: which   *)
(* of them is similar enough, or was evicted, is SearchCache's matter.     *)
(* `origin`, `been`, `moved` and `overlapped` are history variables.       *)
(***************************************************************************)
EXTENDS Naturals

CONSTANTS Projects,
          Docs,     \* uploads
          Queries,  \* searches
          Models,   \* embedding models, as the dimensions of their vectors
          Default,  \* the one of the server
          Shared    \* no project: the collection chunks_default

Absent == "absent"

ASSUME ScopeAssumption ==
    /\ Models \subseteq Nat \ {0}
    /\ Default \in Models
    /\ Shared \notin Projects
    /\ Absent \notin Projects \cup {Shared}
    /\ Docs \cap Queries = {}

VARIABLES
    life,        \* of each project
    model,       \* its embedding model
    collection,  \* dimensions of each collection, None if there is none
    points,      \* the documents with vectors in each collection
    ensured,     \* MemoryIndexManager._ensured_collections
    project,     \* project_id of each document row, Absent if there is no row
    chunks,      \* documents with chunks in SQLite
    at,          \* where each upload and each search is
    scope,       \* its project
    dims,        \* of its embedding provider
    found,       \* documents a search found
    pending,     \* the halves of it that are still out
    cached,      \* the searches whose answers are in the semantic cache
    origin,      \* the search that retrieved what each one found
    deleter,     \* the delete route of each document: [at, from]
    been,        \* projects each document was ever in
    moved,       \* documents whose project was changed
    overlapped   \* documents deleted before their upload was done

taskVars == <<at, scope, dims>>
searchVars == <<found, pending, cached, origin>>
storeVars == <<collection, points, ensured, project, chunks>>
historyVars == <<been, moved, overlapped>>
vars == <<life, model, storeVars, taskVars, searchVars, deleter, historyVars>>

None == 0
Scopes == Projects \cup {Shared}
Tasks == Docs \cup Queries
Busy == {"queued", "list", "create", "ready", "upsert", "lookup", "search"}

TypeOK ==
    /\ life \in [Projects -> {"unborn", "live", "deleted"}]
    /\ model \in [Projects -> Models]
    /\ collection \in [Scopes -> Models \cup {None}]
    /\ points \in [Scopes -> SUBSET Docs]
    /\ ensured \in SUBSET Scopes
    /\ project \in [Docs -> Scopes \cup {Absent}]
    /\ chunks \in SUBSET Docs
    /\ at \in [Tasks -> Busy \cup {"idle", "done", "failed", "beaten"}]
    /\ scope \in [Tasks -> Scopes]
    /\ dims \in [Tasks -> Models]
    /\ found \in [Queries -> SUBSET Docs]
    /\ pending \in [Queries -> SUBSET {"vector", "text"}]
    /\ cached \in SUBSET Queries
    /\ origin \in [Queries -> Queries]
    /\ deleter \in [Docs -> [at : {"idle", "vectors", "rows", "failed"}, from : Scopes]]
    /\ been \in [Docs -> SUBSET Scopes]
    /\ moved \in SUBSET Docs
    /\ overlapped \in SUBSET Docs

Init ==
    /\ life = [p \in Projects |-> "unborn"]
    /\ model = [p \in Projects |-> Default]
    /\ collection = [s \in Scopes |-> None]
    /\ points = [s \in Scopes |-> {}]
    /\ ensured = {}
    /\ project = [d \in Docs |-> Absent]
    /\ chunks = {}
    /\ at = [t \in Tasks |-> "idle"]
    /\ scope = [t \in Tasks |-> Shared]
    /\ dims = [t \in Tasks |-> Default]
    /\ found = [q \in Queries |-> {}]
    /\ pending = [q \in Queries |-> {}]
    /\ cached = {}
    /\ origin = [q \in Queries |-> q]
    /\ deleter = [d \in Docs |-> [at |-> "idle", from |-> Shared]]
    /\ been = [d \in Docs |-> {}]
    /\ moved = {}
    /\ overlapped = {}

-----------------------------------------------------------------------------
(* Projects.                                                               *)
Live(s) == s \in {Shared} \cup {p \in Projects : life[p] = "live"}

(* POST of a project.  When its model does not load the row gets other     *)
(* dimensions than the model has (projects.py:39); nothing reads them, and *)
(* its uploads and searches fail, as any may.                              *)
Create(p, m) ==
    /\ life[p] = "unborn"
    /\ life' = [life EXCEPT ![p] = "live"]
    /\ model' = [model EXCEPT ![p] = m]
    /\ UNCHANGED <<storeVars, taskVars, searchVars, deleter, historyVars>>

(* DELETE of a project: its row, then its collection, best effort.  The    *)
(* rows of its documents keep its id: project_id has no foreign key.       *)
Drop(p) ==
    /\ life[p] = "live"
    /\ life' = [life EXCEPT ![p] = "deleted"]
    /\ \/ /\ collection' = [collection EXCEPT ![p] = None]
          /\ points' = [points EXCEPT ![p] = {}]
          /\ ensured' = IF collection[p] # None THEN ensured \ {p} ELSE ensured
       \/ UNCHANGED <<collection, points, ensured>>
    /\ UNCHANGED <<model, project, chunks, taskVars, searchVars, deleter, historyVars>>

(* The document changes its project, its vectors stay where they are.      *)
MoveTo(d, s) ==
    /\ project[d] \notin {Absent, s}
    /\ project' = [project EXCEPT ![d] = s]
    /\ been' = [been EXCEPT ![d] = @ \cup {s}]
    /\ moved' = moved \cup {d}
    /\ UNCHANGED <<life, model, collection, points, ensured, chunks, taskVars, searchVars, deleter, overlapped>>

Assign(d, p) == life[p] = "live" /\ MoveTo(d, p)

Remove(d) == MoveTo(d, Shared)

-----------------------------------------------------------------------------
(* Uploads and searches.                                                   *)
Goto(t, from, to) == at[t] = from /\ at' = [at EXCEPT ![t] = to]

(* get_for_project: the default when there is no project, or no more.      *)
Provider(s) == IF s # Shared /\ Live(s) THEN model[s] ELSE Default

(* A request names no project, or one that exists or existed.              *)
Known(s) == s \in {Shared} \cup {p \in Projects : life[p] # "unborn"}

Enter(t, s, to) ==
    /\ Known(s)
    /\ Goto(t, "idle", to)
    /\ scope' = [scope EXCEPT ![t] = s]
    /\ dims' = [dims EXCEPT ![t] = Provider(s)]

(* An upload takes its provider when it is submitted ...                   *)
Upload(d, s) ==
    /\ Enter(d, s, "queued")
    /\ been' = [been EXCEPT ![d] = {s}]
    /\ UNCHANGED <<life, model, storeVars, searchVars, deleter, moved, overlapped>>

(* ... and its row is inserted when the job has parsed it.                 *)
Parsed(d) ==
    /\ Goto(d, "queued", "list")
    /\ project' = [project EXCEPT ![d] = scope[d]]
    /\ UNCHANGED <<life, model, collection, points, ensured, chunks, scope, dims, searchVars, deleter, historyVars>>

(* Faulty: the collection is noted as ensured before it is.                *)
SearchEager(q, s) ==
    /\ Enter(q, s, IF s \in ensured THEN "lookup" ELSE "list")
    /\ ensured' = ensured \cup {s}
    /\ UNCHANGED <<life, model, collection, points, project, chunks, searchVars, deleter, historyVars>>

(* search: the collection is ensured once per server.                      *)
Search(q, s) ==
    /\ Enter(q, s, IF s \in ensured THEN "lookup" ELSE "list")
    /\ UNCHANGED <<life, model, storeVars, searchVars, deleter, historyVars>>

(* ensure_collection, in a thread: list the collections, and compare the   *)
(* dimensions of the one that exists ...                                   *)
List(t) ==
    /\ Goto(t, "list", IF collection[scope[t]] = None THEN "create"
                       ELSE IF collection[scope[t]] = dims[t] THEN "ready" ELSE "failed")
    /\ UNCHANGED <<life, model, storeVars, scope, dims, searchVars, deleter, historyVars>>

(* Faulty: the collection that appeared meanwhile is replaced.             *)
MakeAnew(t) ==
    /\ Goto(t, "create", "ready")
    /\ collection' = [collection EXCEPT ![scope[t]] = dims[t]]
    /\ points' = [points EXCEPT ![scope[t]] = {}]
    /\ UNCHANGED <<life, model, ensured, project, chunks, scope, dims, searchVars, deleter, historyVars>>

(* ... or create the missing one, which raises when another thread did.    *)
Make(t) ==
    /\ Goto(t, "create", IF collection[scope[t]] = None THEN "ready" ELSE "beaten")
    /\ collection' = [collection EXCEPT ![scope[t]] = IF @ = None THEN dims[t] ELSE @]
    /\ UNCHANGED <<life, model, points, ensured, project, chunks, scope, dims, searchVars, deleter, historyVars>>

(* The chunks are embedded and inserted; their foreign key needs the row.  *)
Embedded(d) ==
    /\ Goto(d, "ready", IF project[d] = Absent THEN "failed" ELSE "upsert")
    /\ chunks' = IF project[d] = Absent THEN chunks ELSE chunks \cup {d}
    /\ UNCHANGED <<life, model, collection, points, ensured, project, scope, dims, searchVars, deleter, historyVars>>

Fits(t) == collection[scope[t]] = dims[t]

(* upsert_chunks; the store refuses a missing collection and vectors of    *)
(* another size.                                                           *)
Upserted(d) ==
    /\ Goto(d, "upsert", IF Fits(d) THEN "done" ELSE "failed")
    /\ points' = IF Fits(d) THEN [points EXCEPT ![scope[d]] = @ \cup {d}] ELSE points
    /\ UNCHANGED <<life, model, collection, ensured, project, chunks, scope, dims, searchVars, deleter, historyVars>>

(* Parser, embedder and store may fail on their own account.               *)
Fail(t) ==
    /\ \E from \in Busy : Goto(t, from, "failed")
    /\ UNCHANGED <<life, model, storeVars, scope, dims, searchVars, deleter, historyVars>>

(* The search resumes and notes the collection.                            *)
Ensured(q) ==
    /\ Goto(q, "ready", "lookup")
    /\ ensured' = ensured \cup {scope[q]}
    /\ UNCHANGED <<life, model, collection, points, project, chunks, scope, dims, searchVars, deleter, historyVars>>

(* The semantic cache knows no projects: what was found for a similar      *)
(* query in another one is the answer, unless it is empty.                 *)
Hit(q) ==
    /\ Goto(q, "lookup", "done")
    /\ \E r \in cached :
          /\ found[r] # {}
          /\ found' = [found EXCEPT ![q] = found[r]]
          /\ origin' = [origin EXCEPT ![q] = r]
    /\ UNCHANGED <<life, model, storeVars, scope, dims, pending, cached, deleter, historyVars>>

(* Without one that is similar enough its two halves start.                *)
Miss(q) ==
    /\ Goto(q, "lookup", "search")
    /\ pending' = [pending EXCEPT ![q] = {"vector", "text"}]
    /\ UNCHANGED <<life, model, storeVars, scope, dims, found, cached, origin, deleter, historyVars>>

Took(q, half, docs) ==
    /\ at[q] = "search"
    /\ half \in pending[q]
    /\ found' = [found EXCEPT ![q] = @ \cup docs]
    /\ pending' = [pending EXCEPT ![q] = @ \ {half}]

(* vector_search_qdrant: hits without a chunk row are answered from their  *)
(* payload (manager.py:348).  A missing collection, or vectors of another  *)
(* size, raise.                                                            *)
VectorHalf(q) ==
    /\ Took(q, "vector", IF Fits(q) THEN points[scope[q]] ELSE {})
    /\ at' = IF Fits(q) THEN at ELSE [at EXCEPT ![q] = "failed"]
    /\ UNCHANGED <<life, model, storeVars, scope, dims, cached, origin, deleter, historyVars>>

(* Faulty: no filter on the project.                                       *)
TextHitsAll(s) == {d \in chunks : project[d] # Absent}

(* fts_search filters on the project, if there is one.                     *)
TextHits(s) == {d \in chunks : project[d] # Absent /\ (s = Shared \/ project[d] = s)}

TextHalf(q) ==
    /\ Took(q, "text", TextHits(scope[q]))
    /\ UNCHANGED <<life, model, storeVars, taskVars, cached, origin, deleter, historyVars>>

(* The answer is cached, unless the search retried another wording.        *)
Answered(q) ==
    /\ pending[q] = {}
    /\ Goto(q, "search", "done")
    /\ cached' \in {cached, cached \cup {q}}
    /\ UNCHANGED <<life, model, storeVars, scope, dims, found, pending, origin, deleter, historyVars>>

-----------------------------------------------------------------------------
(* DELETE of a document: it reads the project of the row, then awaits the  *)
(* removal of the vectors, which raises when that project has no           *)
(* collection, and then deletes the rows and clears the semantic cache.    *)
Ask(d) ==
    /\ project[d] # Absent
    /\ deleter[d].at \in {"idle", "failed"}
    /\ deleter' = [deleter EXCEPT ![d] = [at |-> "vectors", from |-> project[d]]]
    /\ overlapped' = IF at[d] \in Busy THEN overlapped \cup {d} ELSE overlapped
    /\ UNCHANGED <<life, model, storeVars, taskVars, searchVars, been, moved>>

(* Faulty: the vectors are looked for in the shared collection.            *)
DeleteVectorsShared(d) ==
    /\ deleter[d].at = "vectors"
    /\ deleter' = [deleter EXCEPT ![d].at = "rows"]
    /\ points' = [points EXCEPT ![Shared] = @ \ {d}]
    /\ UNCHANGED <<life, model, collection, ensured, project, chunks, taskVars, searchVars, historyVars>>

DeleteVectors(d) ==
    LET c == deleter[d].from IN
    /\ deleter[d].at = "vectors"
    /\ deleter' = [deleter EXCEPT ![d].at = IF collection[c] = None THEN "failed" ELSE "rows"]
    /\ points' = [points EXCEPT ![c] = @ \ {d}]
    /\ UNCHANGED <<life, model, collection, ensured, project, chunks, taskVars, searchVars, historyVars>>

DeleteRows(d) ==
    /\ deleter[d].at = "rows"
    /\ deleter' = [deleter EXCEPT ![d].at = "idle"]
    /\ project' = [project EXCEPT ![d] = Absent]
    /\ chunks' = chunks \ {d}
    /\ cached' = {}
    /\ UNCHANGED <<life, model, collection, points, ensured, taskVars, found, pending, origin, historyVars>>

Job(d) == Parsed(d) \/ List(d) \/ Make(d) \/ Embedded(d) \/ Upserted(d)

Look(q) == List(q) \/ Make(q) \/ Ensured(q) \/ Hit(q) \/ Miss(q) \/ VectorHalf(q) \/ TextHalf(q) \/ Answered(q)

Erase(d) == DeleteVectors(d) \/ DeleteRows(d)

Next ==
    \/ \E p \in Projects : Drop(p) \/ (\E m \in Models : Create(p, m)) \/ (\E d \in Docs : Assign(d, p))
    \/ \E d \in Docs : (\E s \in Scopes : Upload(d, s)) \/ Job(d) \/ Remove(d) \/ Ask(d) \/ Erase(d)
    \/ \E q \in Queries : (\E s \in Scopes : Search(q, s)) \/ Look(q)
    \/ \E t \in Tasks : Fail(t)

Spec == Init /\ [][Next]_vars

(* The event loop and the threads of the executor get on with what they    *)
(* have; nothing need fail.                                                 *)
Fairness ==
    /\ \A d \in Docs : WF_vars(Job(d)) /\ WF_vars(Erase(d))
    /\ \A q \in Queries : WF_vars(Look(q))

FairSpec == Spec /\ Fairness

-----------------------------------------------------------------------------
(* What a search of a project retrieves was uploaded or assigned to that   *)
(* project, whatever moves, deletes and drops happen between its two       *)
(* halves (manager.py:190, hybrid.py:61), and the cache brings nothing     *)
(* else in: an answer that is foreign to the project of the search is one  *)
(* that belongs to the project of an earlier search, which found all of it *)
(* (manager.py:141-148).                                                   *)
NeverForeign ==
    \A q \in Queries : LET o == origin[q] IN
        /\ found[q] = found[o]
        /\ scope[o] # Shared => \A d \in found[q] : scope[o] \in been[d]

(* A document whose delete was answered left no vectors behind, unless it  *)
(* was moved to another project or deleted while its upload ran            *)
(* (documents.py:187-210).                                                 *)
NoGhost ==
    \A s \in Scopes : \A d \in points[s] : project[d] = Absent => d \in moved \cup overlapped

(* The dimensions the row of a live project promises.                      *)
Dimensions(s) == IF s = Shared THEN Default ELSE model[s]

(* The collection of a live project has the dimensions of its model, also  *)
(* when uploads and searches of different models create collections at the *)
(* same time, and it exists once the manager noted it as ensured, which    *)
(* lasts for the life of the process (manager.py:427-435).                 *)
CollectionFits ==
    \A s \in Scopes : Live(s) =>
        collection[s] = Dimensions(s) \/ (collection[s] = None /\ s \notin ensured)

(* A finished upload into a live project stays in the collection it was    *)
(* put into until somebody deletes the document: a creation that races     *)
(* another one takes nothing with it (vector_store.py:71-76).              *)
PointsKept ==
    \A d \in Docs : at[d] = "done" /\ Live(scope[d]) /\ project[d] # Absent /\ deleter[d].at = "idle" =>
        d \in points[scope[d]] \/ d \in overlapped

(* The inductive invariant.  What a document left, by the stage of its     *)
(* upload and of its delete: vectors are only where it was uploaded to,    *)
(* and a delete that is not idle while the upload runs overlapped it.      *)
DocInv(d) ==
    /\ at[d] \in {"idle", "queued"} => project[d] = Absent /\ deleter[d].at = "idle"
    /\ at[d] = "idle" => \A q \in Queries : d \notin found[q]
    /\ at[d] # "idle" => scope[d] \in been[d]
    /\ project[d] # Absent => project[d] \in been[d] /\ (project[d] = scope[d] \/ d \in moved)
    /\ \A s \in Scopes : d \in points[s] => s = scope[d] /\ at[d] = "done"
    /\ at[d] \in Busy \ {"queued"} /\ d \notin overlapped => deleter[d].at = "idle" /\ project[d] # Absent
    /\ deleter[d].at = "vectors" /\ d \notin moved => deleter[d].from = scope[d]
    /\ deleter[d].at = "rows" \/ project[d] = Absent =>
           (\A s \in Scopes : d \notin points[s]) \/ d \in moved \cup overlapped

(* What a task met: the dimensions of the project it works for, and after  *)
(* ensure_collection a collection, as long as that project lives.          *)
TaskInv(t) ==
    /\ scope[t] = Shared \/ life[scope[t]] # "unborn"
    /\ Live(scope[t]) => dims[t] = Dimensions(scope[t]) /\ (at[t] = "ready" => collection[scope[t]] # None)

UnbornInv == \A p \in Projects : life[p] = "unborn" => collection[p] = None /\ p \notin ensured

(* Only a search that has ended gives its answer to another one.           *)
FoundInv ==
    /\ \A q \in cached : at[q] = "done" /\ origin[q] = q
    /\ \A q \in Queries :
          /\ at[q] = "idle" => found[q] = {}
          /\ origin[q] = q \/ (at[q] = "done" /\ at[origin[q]] = "done")

IInv ==
    /\ TypeOK
    /\ \A d \in Docs : DocInv(d)
    /\ \A t \in Tasks : TaskInv(t)
    /\ UnbornInv /\ FoundInv
    /\ NeverForeign /\ CollectionFits /\ PointsKept

(* Every upload, search and delete comes to an end.                        *)
TaskEnds ==
    /\ \A t \in Tasks : at[t] \in Busy ~> at[t] \notin Busy
    /\ \A d \in Docs : deleter[d].at = "vectors" ~> deleter[d].at # "vectors"

-----------------------------------------------------------------------------
(* documents.py:186 says "Delete a document and all its chunks from SQLite *)
(* and the vector store".  Does not hold: the delete fails when the        *)
(* project the document is in has no collection, as every document of a    *)
(* deleted project.                                                        *)
DeleteWorks == \A d \in Docs : at[d] = "done" => deleter[d].at # "failed"

(* manager.py:118 says that project_id scopes the search to one project.   *)
(* Does not hold: vectors stay in the collection of the former project,    *)
(* where a search finds them itself ...                                    *)
SearchScoped ==
    [][\A q \in Queries : scope[q] # Shared /\ origin'[q] = q =>
        \A d \in found'[q] \ found[q] : project[d] = scope[q]]_vars

(* ... and the cache answers it with documents that never were in the      *)
(* project.                                                                *)
AnswerScoped == \A q \in Queries : scope[q] # Shared => \A d \in found[q] : scope[q] \in been[d]

(* pipeline.py:172 says that ensuring the collection is idempotent.  Does  *)
(* not hold for two first users at the same time.                          *)
NobodyBeaten == \A t \in Tasks : at[t] # "beaten"
=============================================================================
