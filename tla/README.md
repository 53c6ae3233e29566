# LocalRAG in TLA+

Specifications of the core of LocalRAG (`src/backend`, a FastAPI server over
SQLite, Qdrant and local models; `src/frontend`, its Next.js client): TLA+
modules that follow the code, TLC configurations that check them on small
instances, and TLAPS proofs of what matters most. Paths below are relative to
`src/backend` unless they say otherwise.

To check: `tlc -config X.cfg M` for the runs listed in `PROJECT.json`,
`tlapm M.tla` for the `*Proofs` modules.

## The system

Everything but executor threads runs on one asyncio event loop: the code
between two awaits is atomic for every other task, and the hard behaviours are
what happens between two awaits, and between two transactions when the process
dies.

| Component | State | Operations | Interacts with | Correct when |
|---|---|---|---|---|
| Ingestion queue, `core/ingest_queue.py` | bounded queue, semaphore, job registry, cancelled set | submit, cancel, worker loop, job task, expiry, stop | runs the pipeline, polled by the progress stream | bounded concurrency, first come first served, a job runs at most once, cancelled jobs do not begin, nothing leaks |
| Ingestion pipeline, `ingestion/pipeline.py` | rows of documents, files, chunks; vectors; upload directory | hash, dedup, parse, copy, insert, chunk, ensure collection, embed and store per batch, finish, extract entities | queue, embedding cache, both stores | a done document is complete in both stores, its outcome is persisted, the same bytes are indexed once |
| Document routes, `api/routes/documents.py` | none | upload, list, delete, progress (SSE) | queue, both stores, query cache | a delete takes everything, whatever runs |
| Vector store, `memory/vector_store.py` | collections of points, a lock per collection | ensure, upsert, search, delete by document | pipeline, search, watcher, projects | creating is idempotent; points belong to rows |
| Query cache, `cache/query_cache.py` | LRU map and exact index | get, set, invalidate | search, delete route, settings | bounded; never serves what was deleted, or another project's answer |
| Search, `memory/manager.py`, `hybrid.py`, `mmr.py`, `grader/crag.py` | ensured collections | search with three retrievals, fusion, entity boost, rerank, CRAG retry, MMR, parents, cut | cache, both stores, provider pool, LLM | ends; answers in scope; the ranking respects its sources; a retry never costs the answer |
| Watcher, `watcher/engine.py`, `updater.py` | watcher_runs (a checkpoint per run), project_memory.md, memory points | hourly loop, trigger endpoint, seven steps | LLM, vector store, projects | crash recovery: nothing lost, nothing twice; one run at a time |
| Projects, `api/routes/projects.py`, `projects/manager.py` | projects, project_id of documents and sessions | create, assign, remove, delete | collections, watcher | a document is searched in its project's collection; nothing dangles |
| Sessions, `sessions/manager.py`, `api/routes/sessions.py` | JSONL file, meta file, row | create, load, append, save, compact, delete | query route, LLM | the three agree; no message is lost |
| Editor, `documents/editor.py` | edit_plans | search, plan, cache with expiry, execute | search, LLM | an approved plan runs until it expires |
| Generated documents, `documents/generator.py`, `api/routes/generated_documents.py` | documents, versions, signatures; a task and an event list per stream | generate, autosave, save a version, delete, chat | search, LLM | ready means stored; the stream ends and is in order; versions are numbered without a gap; nothing outlives its document |
| Settings, `api/routes/settings.py`, `core/embedding_consistency.py`, `main.py` | settings, .env, what the lifespan built from them | get, put, health, startup | all of the above read them | what is written down, what is live and what the data was made with agree, or it is reported |
| Embedding cache and provider pool, `memory/embeddings.py`, `providers/embedding/pool.py` | rows with a pruning counter; loaded models | embed, prune; get | pipeline, search | bounded; a model is loaded once |
| Progress stream, `api/routes/documents.py`, `useIngestionProgress.ts` | none | follow, keepalive | the queue of a job, its row | told an end, and the right one |
| Chunker, parsers, `ingestion/chunker.py`, `parsers.py` | none | pure functions | pipeline | not modelled |
| Frontend, `src/frontend/src` | Redux slices, editor state | streaming reducer, inline diff | the API | tokens are shown in order, the last one too |

The hazards each of them is exposed to, with the line where they bite and the
properties that cover them, are listed in `PROJECT.json`.

## Modules

* `JobLifecycle` is the abstract life of a job: new, waiting, active, then done
  or error; dropped only before it ran; at most `MaxConcurrent` active.
* `IngestQueue` models `IngestQueueManager` and implements `JobLifecycle`
  (`Refinement`; `phase` is the refinement mapping). `queue` is the
  asyncio.Queue, `waiters` the job tasks blocked on the semaphore, `running`
  those in the pipeline, `expiring` the five-minute sleeps, `registry` and
  `cancelled` the two sets of ids, `unfinished` the task count of the queue. An
  action is the code between two awaits: `Submit`/`SubmitFull` are the two ways
  through `submit`, `Discard`/`Dispatch` an iteration of the worker,
  `Skip`/`Begin` and `Finish` the two halves of `_run_job`.
* `DocLifecycle` models what a job does to the stores: `pc` follows
  `ingest_document` from await to await, `row`, `chunks`, `vectors`, `folder`
  and `exists` are the stores, `deleter` is the delete route, `asked` a history
  variable (when the first delete came), and `Crash` a restart, which in this
  code repairs nothing. It takes from the queue that at most `MaxConcurrent`
  jobs run; it does not refine `JobLifecycle`, which knows no crash. A batch of
  32 chunks is one element. The Qdrant backend is modelled. The content-addressed
  part is kept: `content` tells bytes apart, `Twins` is the dedup query.
* `SearchCache` models `SemanticQueryCache` and `search` as far as the cache
  sees it. `cache` is the LRU order; an entry has the query, the dimension of its
  embedding, the documents of its result, and the history flag `stale` (its
  search was under way when a delete finished). What matches a query is left
  open: any document in scope may be found, and ranking returns any non-empty part.
* `Retrieval` is the inside of `search`: decomposition, the ranked lists of each
  sub-query, `Fused` (reciprocal rank fusion), `Merge` with the entity boost, the
  cross-encoder, the grader with its retry, `Mmr`, `Expanded` (parents), threshold
  and cut. A result is its chunk. Fusion scores are exact rationals in units of
  1/`One`, written as recursive functions over the lists; what a loop keeps of a
  sequence is `Picked` at the positions it keeps. The instance takes
  `K = 10` for the code's 60 to keep `One` in TLC's 32 bits. After the fusion
  scores are monotone along the pool, so those that reach `min_chunk_score` are
  its first `high`; which ties a float sum breaks otherwise is left out. What the
  models say (cosines, verdicts, sub-queries) is input.
* `WatcherRun` models `run_for_project` on one project, `WatcherCheckpoint` and
  `update_project_memory`. `run` is the table, `ckpt` the copy of the row a
  worker carries, `file` counts each note in project_memory.md, `points` the
  memory points, `made` is a history variable. While a worker is in a stretch
  without an await (`Synchronous`) no other worker moves, yet a crash may fall
  between its transactions.
* `Conversation` is what a stored session promises: a turn is heard, question
  and answer together, once it was committed, never after the session's delete.
  `SessionStore` implements it (`Implements`). `disk` is the JSONL file, the meta
  file and the row; an operation of the manager is the sequence `todo` of the
  disks it goes through, of which only a crash sees the middle. `pc` follows a
  question through the search, the model and, in `/query/stream`, the citations;
  `doing` and `held` are what a compaction or an editing client loaded before its
  await. A message is its role and the parts of turns it stands for. Here lies the
  atomicity that matters: `Persist` checks and appends without an await, while
  `Compact` and `PutBack` save what they read long before.
* `VersionedDocument` is what the store of generated documents promises; and
  `DocumentStudio` implements it. `gen` is the generation task, `events`, `seen`
  and `conn` its stream, `content`, `versions`, `signatures` the three tables, `ask`, `plans`
  and `executed` the requests about a document. A content is the number of the
  save that brought it. `CrashCompleting` and `CrashSaving` fall between
  transactions; `Leave` is the client that disconnects, whose task is cancelled.
* `ProjectScope` puts projects, collections, uploads, searches and deletes
  together: `project` is the project_id of a row, which full-text search reads,
  `points` the collections, which vector search reads, and `ensured` the manager's
  memory of what exists. `List` and `Make` are the two calls of
  `ensure_collection`, made in executor threads, so others come between.
* `LiveSettings` has the settings three times: `cfg` in the app, `env` on disk,
  `made` as the objects built at startup. `Put` follows the order of the route
  (set, write, rebuild the LLM, which may raise), `Start`/`StartFails` the
  lifespan; uploads and deletes read some of each.
* `EmbeddingCalls` models `EmbeddingProviderPool.get` and `embed_with_cache`:
  `call` is a call with its list of misses and what it has filled in, `table` the
  rows of embedding_cache in rowid order, `count` the counter that pruning tests.
* `ProgressStream` follows one upload from its job to its clients: `events` is the
  progress queue, which all streams of the job share, `at` and `shown` are each
  stream and what its client shows, `outcome` a history variable. The streams may
  be opened at any time: while the job runs (`Follow`), after it ended (`Final`),
  after it expired or was lost (`FromRow`). `fresh` tells the events put by the last
  step of the job: a timeout may overtake those, not older ones.
* `*Proofs` extend a module with its theorems and their proofs; three of them extend
  and prove about a second component too (`ProgressStream`, `EmbeddingCalls`,
  `SearchCache`: their `Init`, `Next` and the like carry the prefix `Stream`, `Calls`
  or `Cache`, so that the names differ). `MC*` add symmetry, concrete operators or data for TLC.

Several modules look at one piece of code from two sides: an upload is taken
apart in `DocLifecycle`, where its batches and the crash are; it is shorter in
`ProjectScope`, where what it meets is another project's collection, and in
`LiveSettings`, where it is a changed backend. Each header says what it leaves to
which other module.

Definitions preceded by a comment that starts with "Faulty" are variants of an
action with a plausible defect. No specification uses them; each breaks a
property, which shows that the property depends on the code.

## What the runs check

Passing, each under the fair specification of its module:

| Run | Instance | Distinct states | Shows |
|---|---|---|---|
| `queue` | 3 jobs, queue of 1, 2 permits | 8,134 | the inductive invariant of the queue; a cancelled job never begins; jobs begin in order (`NoOvertaking`: the one that begins is the head of the backlog, and no step changes the order of those that wait); accepted jobs settle unless the worker was stopped over them; `JobLifecycle` is implemented. Two permits and one slot are exceeded by three jobs, so that a job is refused, waits, or runs beside another |
| `doc` | 2 documents, 2 contents, 1 batch, 2 permits, 1 crash | 156,024 | rows against both stores under concurrent ingestion, deletion, failure and crash; a processing row gets its outcome unless a crash took its job. Two documents collide in dedup and in ensure_collection; the proofs cover every number of batches |
| `cache` | 2 tasks that search again and again, 2 similar queries, cache of 1, 1 document, 2 projects of different dimensions | 222,788 | bound and uniqueness of entries, staleness only by overlap, the retry flag ends the recursion. Two concurrent searches that both miss make the cache evict |
| `watcher` | loop and endpoint, 1 grade, 2 rows, 1 cluster, 1 crash | 485,630 | one resumable row; the memory file before the checkpoint, the points and the project row; a done run consumed its grades; a triggered run consumes its grades or fails |
| `session` | 3 questions, one of them streamed, 1 rewriting client, a cap of 4 messages, 1 crash | 352,813 | transcript, meta file and row agree; turns do not mix; nothing is said twice; an acknowledged turn is lost only to a rewrite under way or a crash in one; `Conversation` is implemented. Three turns pass the cap, so a compaction has something to drop, and one may arrive while it waits |
| `studio` | 1 document of 2 sections, 1 token each, 1 edit plan, 1 chat, 2 saves, 1 crash | 201,434 | ready means whole; the client is told in order and to the end; nothing without its document; `VersionedDocument` is implemented. Documents share no row, so one is enough; two saves give a number after a crash took the first version |
| `scope` | 1 project beside the shared one, 1 upload, 1 search, 2 models | 92,879 | no foreign document is found, no ghost vectors but for documents that moved or overlapped, collections have the size of their model and are there once ensured, a lost creation race takes nothing with it. Upload and search are the two first users of a collection |
| `settings` | 2 documents, 3 LLM names (one unknown), 3 embedding settings of 2 sizes, 2 changes, 1 restart | 824,932 | embeddings of different encoders are reported, a document is done only with its vectors in a store and failed without, the LLM that answers is the one the settings name. Two changes and a restart reach a setting that was changed back, and one that was written but not applied |
| `embed` | 2 calls, 2 models, 2 texts, up to 3 texts per call in batches of 2, table of 2 rows pruned at every 2nd, 1 crash | 170,506 | every text gets its own vector through hits, misses, repeats and batches; pruning keeps the newest. Three texts over batches of two make the index shifts differ |
| `retrieval` | 3 chunks, two of one parent, 2 related entities, all lists of two, 2 sub-queries, the grader's rewritten query | 91,612 | a chunk no source ranks lower is never fused below another, the answer is without repeats and as long as the pool allows, a retry that raises does not cost the first answer. All pairs of lists are enumerated |
| `progress` | 3 clients of 1 upload, 1 crash | 60,747 | a client that is told an end is told the right one, whoever took which event and whenever it came; a client that follows is told an end unless it leaves or the server dies. Two events say done, so three clients leave one to the keepalive |

Deadlock is not checked: the system may be idle, or stopped.

Each cfg names in a comment what else holds on its instance and is not part of
the listed run (type invariants among it); adding the names to it checks them.

The run `studio_plan` finds a disagreement between a docstring and the code (the
finding of `PROJECT.json` quotes it): an edit plan is approved before it expires
and refused. Its expiry is written with microseconds where the seconds belong, and
`fromisoformat` raises the ValueError that the code takes for an expired plan.

Further configurations hold statements of the sources that the code does not
keep; TLC stops at the first it refutes, so check them one at a time:

| Configuration | Property | Counterexample |
|---|---|---|
| `MCIngestQueueClaims` | `WaitingBounded` | jobs wait without bound at the semaphore: the bounded queue is drained at once |
| | `CancelledStays` | a processing job overwrites the status of its cancellation |
| `MCDocLifecycleClaims` | `NoOrphanVectors` | a delete between two batches; the pending upsert leaves vectors without a row |
| | `ContentIndexedOnce` | two uploads of the same bytes pass the hash check before either inserts |
| | `DuplicateOfIndexed` | a retry of a failed upload is a "duplicate" of it |
| `MCSearchCacheClaims` | `AnswerInScope` | one project's answer is served to the other: the cache is keyed by the query alone (manager.py:118) |
| | `CacheForgetsDeleted` | a search stores its result after the delete invalidated the cache |
| | `LookupReturns` | the embeddings of two models are multiplied |
| | `IndexingClears` | an ingestion ends and the cache keeps the answers computed before it |
| `MCWatcherRunClaims` | `NoteOnce` | a crash after the memory file was written, before step 6 is saved: notes twice |
| | `SynthesisKept` | a crash in the synthesis loop: the notes of finished clusters are lost |
| | `NotesSearchable` | a second run overwrites the points of the first |
| | `StepsCommitted` | loop and endpoint on one row: the slower one takes last_step back |
| `MCWatcherRunResume` | `InterruptedResumes` | a crash between marking the grades and mark_done: no trigger is left |
| `MCSessionStoreClaims` | `CompactionKeepsTurns` | a turn stored while the summary is awaited is overwritten (sessions.py:79) |
| | `CapHolds` | appends pass the "hard cap" (manager.py:19) |
| | `TwoTurnsIntact` | compaction cuts a turn in two (compaction.py:50) |
| | `SummaryReachesModel` | queries send user and assistant messages only, a summary is a system message (compaction.py:35, query.py:146-150) |
| `MCProjectScopeClaims` | `DeleteWorks` | a document of a deleted project cannot be deleted (documents.py:186) |
| | `NobodyBeaten` | two first users create one collection, and the slower one fails (pipeline.py:172) |
| | `SearchScoped` | a search finds what was moved to another project (manager.py:118) |
| `MCLiveSettingsClaims` | `SurvivesRestart` | a request that failed has written an LLM no start succeeds with (settings.py:68, llm/factory.py:27) |
| | `DeleteReachesStore` | vectors stay in the store of the former backend (documents.py:186) |
| `MCLiveSettingsHealth` | `HealthHonest` | with the default settings every restart asks for a reindex: rows name the provider otherwise than the settings (embedding_consistency.py:33) |
| `MCEmbeddingCallsClaims` | `LoadedOnce` | a second call comes while the first loads the model (pool.py:14) |
| | `RowsBounded` | a batch takes the count past the multiple at which it prunes (embeddings.py:37) |
| `MCProgressStreamClaims` | `DoneStaysDone` | a duplicate has no row: once its job expired its client is told "queued" and shows an error (documents.py:238) |
| `MCRetrievalSeeds` | `SeedsExcluded` | the walk over relations returns to the seeds (manager.py:577) |

Bounds: `MaxCrashes`, `MaxStops`, `MaxBatches`, `MaxRuns`, `MaxClusters`, `MaxTokens`,
`MaxSaves`, `MaxPuts`, `MaxTexts`, `MaxSubs` and the sets of jobs, documents,
turns, grades, calls and tasks bound the instances; `MaxMessages`, `MaxRows`,
`Interval`, `Batch` and the `*Top*` are constants of the code made small. `Age`
never ages the last row of the watcher, so that a row is left for the run that
replaces it.

## Fairness

Each fair action stands for a task that is ready on the event loop, or for an
await that returns or raises: executor calls and provider requests do one of the
two. The queue needs weak fairness for its worker, its semaphore (the head
waiter), each run and each expiry. In `DocLifecycle` `Begin` is strongly fair: the
semaphore is disabled again and again while other jobs run, and FIFO order
(`NoOvertaking`, proved for the queue) gives every job its turn. A watcher
step is weakly fair, and so is the hourly call of the loop. In `SessionStore` the
steps of a question are strongly fair, since they are disabled while another
handler writes; `DocumentStudio`, `ProjectScope`, `LiveSettings`,
`EmbeddingCalls`, `Retrieval` and `ProgressStream` (the job, and a stream that waits
thirty seconds at most) need weak fairness for the steps of a
generation and its stream, a request, an upload, a search, a delete or a call.
Nobody has to submit, ask, cancel, leave, delete, compact, save, change settings,
stop, record, fail or crash.

## Proofs

Every invariant, safety action property and refinement that a passing run checks is a
theorem of the component's `Spec` (`StreamSpec`, `CallsSpec`, `CacheSpec` for three
of them), without fairness and for all values of the constants: any number of
jobs, streams, documents, turns, grades, workers, projects, settings, calls, chunks,
searches and crashes. Only liveness is left to TLC.

| Module | Theorems |
|---|---|
| `IngestQueueProofs` | `QueueInvariant`, `QueueTypeOK`, `QueueConcurrency`, `QueueAccounting`, `QueueCancelledNeverBegins`, `QueueNoOvertaking`, `QueueImplementsLifecycle`; of `ProgressStream`: `StreamInvariant`, `StreamOutcomeTold`, `StreamNeverBack` |
| `DocLifecycleProofs` | `DocInvariant`, `DocDoneIsIndexed`, `DocOutcomeIsPersisted`, `DocNothingBehindTheRow`, `DocCleanDelete`, `SerialDedup` |
| `RetrievalProofs` | `SearchInvariant`, `SearchRetryNeverLoses`, `SearchFullAnswer`, `SearchDominantComesFirst`, `SearchBestFirst`, `SearchPromotionNeverHurts`; of `SearchCache`: `CacheInvariant`, `CacheStaysBounded`, `CacheStaleOnlyByOverlap` |
| `ProjectScopeProofs` | `ScopeInvariant`, `ScopeNeverForeign`, `ScopeNoGhost`, `ScopeCollectionFits`, `ScopePointsKept` |
| `WatcherRunProofs` | `WatcherInvariant`, `WatcherOneRunning`, `WatcherUpdatedIsWritten`, `WatcherDoneIsProcessed` |
| `LiveSettingsProofs` | `SettingsInvariant`, `SettingsMixedIsReported`, `SettingsOneSize`, `SettingsDoneIsStored`, `SettingsLlmFollows`, `SettingsDeleteCleans`; of `EmbeddingCalls`: `CallsInvariant`, `CallsEveryTextItsVector`, `CallsOneRowPerText`, `CallsNewestStay`, `CallsPoolSettles` |
| `DocumentStudioProofs` | `StudioInvariant`, `StudioReadyMeansWhole`, `StudioStreamTold`, `StudioVersionsNumbered`, `StudioNoOrphans`, `StudioImplements` |
| `SessionStoreProofs` | `SessionInvariant`, `SessionCountsAgree`, `SessionAnswerFollowsQuestion`, `SessionSaidOnce`, `SessionLostOnlyByRewrite`, `SessionDeletedStaysDeleted`, `SessionImplements` |

Each module declares one assumption on its constants, and TLC evaluates it on the
component's own run. Most say that a bound is a
natural number, positive where the code could
not run otherwise (permits, sizes, limits, sections, batches, the threshold of the
watcher, the first row). The rest are: names of different kinds differ (documents and
queries, edits and chats, the shared collection, `Absent` and the projects);
each embedding setting has a dimension; the server was installed with a known
LLM; the streamed questions are questions; cosines are in tenths.

Three theorems assume more. `SerialDedup` is about one permit. `SearchFullAnswer`
assumes `MmrWide`: MMR selects no fewer chunks than the answer may hold in fast mode,
nor than the cross-encoder leaves in the others. The defaults do (5 of 10, 20 of 20,
core/config.py:69-72 and 85). The settings route accepts others (final_top_k up to 20,
reranker_top_n up to 100, api/models.py:186-188), and with those MMR may leave an answer
shorter than the pool allows. `SearchBestFirst` assumes `Lambda # 0`, that relevance
counts at all when MMR selects (mmr_lambda is 0.7, core/config.py:71): with 0 every first
choice is a tie.

Each component has an inductive invariant `IInv` (or `StreamIInv`, `CallsIInv`,
`CacheIInv`), stated with its module; TLC checks it on the instance of the component's run first.

* Queue. `IInv` adds to type correctness, the concurrency bound and the
  accounting of jobs (`OnePlace`) what they need to be inductive:
  an unsubmitted job is nowhere, the status each place allows, and
  `CancelRemembered`: a cancelled id stays in the set as long as a test relies on
  it, because only an expiry discards ids and only jobs that ran expire. One lemma
  per action. `CountCovers` is an inequality for a reason: `Skip` leaks a count.
  `NoOvertaking` and `CancelledNeverBegins` follow from `IInv` for one step
  (`StepKeepsOrder`: each step keeps, shortens or extends the backlog in order).
  `QueueImplementsLifecycle` maps each action to the abstract move of its job or
  to a stutter.
* Documents. `IInv` says, for one document at a time, which rows the stage of
  its job allows (`RowOfStage`), which batches are stored (`BatchesOfStage`), and
  what a delete has removed (`DeleteOfStage`). The properties are consequences of
  one conjunct each. `SerialDedup` assumes one permit: then the document whose
  hash was found new is the only one that may insert (`NewWhileParsing`).
* Cache. `CacheIInv` adds that what is deleted is in neither store and that a
  search holding a deleted document overlapped its delete. Lemmas about `Without`,
  `Touch` and `Put` say which entries they keep.
* Progress stream. `StreamIInv` ties the status of the job to its row and its outcome, says
  in which order the events wait, none after the last, and what each client
  shows. A client that was told an end took it from an event, the registry or the row,
  and the three agree with `outcome`. `StreamNeverBack`: stages only advance.
* Embedding calls. `CallsIInv` says of a call which of its texts have a vector (hits at
  once, misses up to the batch at hand), that the misses are listed in order, and that
  `After` the last batch none is missing. The loops of the code are recursive
  functions; `Loop` says that a loop whose passes keep a set goes through one, for any
  number of passes, and `Kept` is the same for an invariant of the passes. `CallsNewestStay`: what was inserted last has
  the highest rowids, and pruning takes from the other end.
* Search. `IInv` says what the lists, the merged results and the pool hold while the
  search goes on: chunks, none twice once they are ranked, no more than the
  cross-encoder leaves, and a graded pool for a retry to give way to. What remains is
  about the functions of the pipeline. `Places`: in a strict order of a finite set
  each element has a place of its own and no place is free; so `Sorted` and
  `Ascending` are what their CHOOSE asks for. `ScoreAdds`: the score over two lists is the sum of the scores, and a higher rank weighs
  more (`WeightIs`, integer division included). A chunk that dominates another scores no less in each list and is named before it
  (`ListAhead`), so too in one list after another (`ConcatAhead`), and comes before it in
  the fusion whatever the ties (`DominatesIs`). `GreedyExists`: MMR can always select one
  more while a chunk is left, so its CHOOSE is such a selection; parents are collapsed
  to one position each (`ExpandedIs`), whose number is that of the parents.
  `SearchBestFirst`: MMR chooses the most relevant chunk first (`MmrFirst`), and neither
  parents nor the cut take the first away (`FinalFirst`). `SearchPromotionNeverHurts`:
  from one ranking to another `Raised` says that a chunk gains, in score and in where it
  is found first, and no other does. Two neighbours that change places are such a
  change (`RaisedPair`), it is kept by concatenation (`RaisedConcat`), and the place
  of a chunk in the fusion is one more than those before it (`FusedPlace`).
* Projects. `DocInv` follows a document through its upload and its delete: its
  vectors are only in the collection it was uploaded to, the project of its row is
  one it was in, and a delete that is under way while the upload still runs
  overlapped it. `TaskInv` says what a task met: the size of its project's model,
  and a collection once it ensured one, as long as the project lives. That no
  `Make` changes the size of a collection that is there is the heart of
  `CollectionFits`.
* Watcher. Two things carry the proof. `OneAtATime`: no two workers are in
  stretches without an await, so between a worker that inserts a row and the
  status it found nobody else inserts one, which gives `AtMostOne`. `Covered`:
  the entries of a run are in the file, or a worker that carries them is in the
  stretch that writes them. A worker that comes to the memory update carries the
  entries of its row, or another one on the same row covered them; past the update
  they are covered, and since no two workers are in a stretch, a worker that saves
  step 6 finds them written. Points are replaced by points of the same document only, never by none.
* Settings. `DocInv` says that only the running server ingests, with its own
  embedding model or a pinned one; that what is in SQLite has a row in the
  embedding cache; and that the flag stands whenever one of those rows is of
  another encoder: a start compares all rows with the settings before any ingestion, and
  nothing clears the flag before the next start. `size` changes only when there is
  no collection, which gives `OneSize`.
* Document editor and versions. `StreamInv` is about what was sent and
  what waits to be sent together: in order, a section ends only before the one
  being written, "ready" only when the task is done, and then last.
  `StoreInv`: a document exists only after its task is over. `NumberInv`: the
  numbers of the versions are 1 to their count, each once; so a new number, the
  count plus one, is new. `StudioImplements` needs it: the abstract
  history is the list of contents by number, and the lemmas about `HistoryOf` say
  that a first version starts it, a new one extends it and the others keep
  their places. A generation is the abstract Appear, a saved version Version, a
  delete Vanish, all else a stutter.
* Sessions. `Settled` is the disk once the running handler is through.
  `FilesInv` is about every file there is: on the disk, on the way to it, or held
  by a compaction or a client. Its system messages come first, each part of a turn
  is said once and only if the turn was committed, an answer follows its question
  or a summary. `KeptInv`: what was acknowledged before anyone read the file is in every file
  that is not empty. `LifeInv` ties the counts to `Settled`. A handler goes
  through a sequence of disks, and one lemma (`HandlerIInv`) does for all of them:
  what remains to show for an operation is which files it goes through.
  For a compaction `CompactedSummarises` says what it makes of a list: the
  system messages, one summary of the next `j` messages, the rest. It needs to know
  what the recursion `OfRoles` returns, for lists of any length; induction is not
  available for that, so `FilteredOnce` shows that two functions with the same
  recursion are equal at the least place where they could differ, and
  `OfRolesSplits` gives one.
  `SessionImplements`: the start of the appends is Commit, a write that changes what is heard is
  Rewrite, the last write of a delete Delete, a request that ends without a turn, or a
  crash, Close.

Three of the invariants were not inductive as first written, and the attempt
to prove them said what was missing: that a worker about to register its
document knows its id (`WorkerInv`); that a document in SQLite is past its
preparation (`DocInv` of the settings); and that what clients hold is as good as what is
on the disk, with the summaries in front (`SystemFirst`): a compaction moves summaries
to the front, and from the middle of a list it would take one away from the answer behind it.

Only model-checked:

* liveness (`AcceptedSettles`, `ProcessingEnds`, `SearchEnds`,
  `TriggeredRunEnds`, `EndTold`) and the fair refinement of the queue: fairness and
  ENABLED are out of the prover's reach.

## Not modelled, and the plan

Not modelled: the adapters of models and LLMs, parsers, the chunker and the
regular expressions of query expansion (sequential string code without shared
state), `merge_hybrid_results` (nothing calls it), the arithmetic of the
context guard, prompts, templates, export, logging, the Qdrant sidecar process,
migrations, the React client but for its progress hook. The
sqlite-vec backend appears in `LiveSettings` with what it holds and the calls it
refuses, not with its tables. `PROJECT.json` gives the reason for each component.

Next: action properties of the proved components that no run states yet: which
steps may shrink a history of turns or versions.
