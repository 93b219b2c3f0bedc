# TLA+ models of graphrag-agent

graphrag-agent is a document question-answering service.  A gateway accepts
documents; a durable queue hands indexing jobs to a worker; the worker parses a
document once and builds two indexes from it, the classic graph and LightRAG;
query services answer from them, one question at a time or in batches; a
browser application shows it all.  The state lives in rows that are loaded and
saved as a whole, in Redis, in an edge database (D1), in a graph store and in
LightRAG workspaces, and most operations touch several of them without a
transaction around them.  This directory models the parts in which several
processes, threads, requests or clients meet on that state.

1. [Inventory](#1-inventory)
2. [Modules and how they correspond to the code](#2-modules-and-how-they-correspond-to-the-code)
3. [Runs](#3-runs)
4. [Fairness and timing](#4-fairness-and-timing)
5. [Proofs](#5-proofs)
6. [Disagreements](#6-disagreements)
7. [What is only model-checked, and what is not modelled](#7-what-is-only-model-checked-and-what-is-not-modelled)
8. [Plan](#8-plan)

## 1. Inventory

Paths are relative to `src/`.

| component | state it keeps | operations | what is hard | what makes it correct | model |
|---|---|---|---|---|---|
| Durable index queue, `backend/storage/queue_repository.py` | Redis list, sorted set of leased receipts, a lock per tenant, heartbeat keys | enqueue, pop, ack, renew, recover; acquire, renew, release the lock | leases that run out under a live worker; receipts are texts, two copies are one member | no job is lost, attempts are bounded and none is spent while nothing fails | `JobQueue` |
| Queue consumers, `process_next_index_job` in `backend/services/indexing_service.py`, `backend/scripts/worker.py`, `/index/run-next` | job rows, renewal thread, cancel flags | recovery pass, pop, run under the tenant's lock, requeue, ack | crashes between any two calls, a second consumer, cancellations | one job of a tenant at a time; every job ends; a finished one stays finished | `IndexWorker`, `TenantMutex` |
| Index pipeline, `_run_pipeline` and the two engine threads | job row, document row, graph, LightRAG pages, artifacts | parse, build per engine, publish, save artifacts, report | guards and updates that are not atomic between processes; partial failure | what is reported is what was achieved; a deleted document leaves nothing | `IndexPipeline` |
| Cancellation and deletion, `cancel_job`, `delete_document`, `lightrag_deletion_service.py` | the same rows; scheduled deletions; tombstones | cancel, detach, purge, schedule, remove | both run beside the pipeline, in another process | a late worker does not bring anything back | `IndexPipeline`, `UploadIntake` |
| Index gateway, `api/blob-upload.ts`, `register_direct_upload`, `start_indexing` | document row, job rows, receipts | completion callback and its redeliveries, start, mark, enqueue | check and save are separate; redelivery; a push that was refused or lost its answer | no orphan parent; the document says what its job says | `UploadIntake` |
| Visitor claim and account data, `backend/storage/account_repository.py`, `routers/account.py` | owner of documents, sessions, batches; everything a tenant owns | claim at sign-in; export, erase | requests of the visitor, and jobs of the erased account, are still under way | nothing that is owned gets lost or stays behind | `UploadIntake`, `ChatPage` |
| Public question batches, `frontend/worker/public-batches.mjs` | batch and item rows in D1 | create, claim, ask, settle, cancel, clean up | many pollers, isolates that stop, late answers, claims that run out | at most one live claim, no question asked twice, shown answers are final | `PublicBatch` |
| Question batches of the workspace, `backend/services/qa_service.py` | one batch row | start, poll, background thread, cancel | whole-row saves of several actors | answers in order and complete; the batch settles | `BatchQA` |
| Embedded LightRAG adapter, `backend/lightrag_integration/adapters.py` | cache of instances, leases, locks | query, insert, delete, metrics, evict, finalise | cancellation at every await; locks that are remade with the cache entry | an instance in use is never finalised; one user at a time; exact usage | `WorkspaceCache` |
| Conversation page, `QAChat.tsx`, `latest-request.ts`, sessions in `qa_service.py` | messages in view, active session, gate, saved sessions | ask, load, select, new chat, leave and reopen, sign in | late answers, broken streams, overlapping questions | the view shows the selected session; the input unlocks; no answer is lost | `ChatPage` |
| Local index runner, `_run_local_job_serialized` | a thread per job | wait for the tenant's lock, run | starvation, lock of the file queue | as the consumers | planned |
| Worker health, `scripts/worker.py`, `routers/system.py` | heartbeat key | beat, read | interval against time to live | a healthy worker is seen as healthy | planned |
| Release backfill, `scripts/lightrag_backfill_worker.py`, `lightrag_backfill.py` | a state row, the maintenance lock | check, lock, scan, start a batch, report; the card of the health page | state read before the lock; a lock that is not renewed; starts cut short | a release called done has left no document behind; it ends | `Backfill` |
| Async bridge, `services/async_bridge.py` | event loop, its thread | start, submit, close, fork | a loop announced before it runs; close against submit | every caller gets an answer or an error | planned |
| Edge worker, `frontend/worker/index.ts`, `frontend/db/d1.ts` | rate windows, poll and dispatch leases | consume, acquire, release | leases released by the wrong request; refused requests count | limits hold, nobody is locked out | planned |
| Internal request signing, `lightrag_integration/security.py` | nonce cache | sign, verify, consume | two requests with one nonce | a nonce is accepted once | planned |
| Query service and streams, `lightrag_service.py`, `routers/query.py`, `lightrag_integration/runtime.py` | none across requests; the rows of an answer | ask, stream, view, search, over one or two knowledge spaces | a stream that ends early, a connection that breaks, a reader who leaves, one space failing beside another | what the reader is told is true; no lease is kept | `EngineRequest`, `EngineReads` |
| Graph repository, `storage/graph_repository.py`, `file_store.py` | nodes and edges with their documents; a copy of both tables | publish, remove, refresh the copy, read | shared nodes of several documents; files without a lock; a copy made across a commit | removal leaves the other documents' share and nothing of its own; reads agree | `GraphStore`, `GraphReads` |
| Graph building and views, `pipeline/*`, `search_service.py`, `kg_service.py`, `normalization.py` | none | nodes and edges of a parse, sparse view; neighbours, paths, scoped exports; evidence of a question | boundaries of windows, pages and limits; three answers to one question | the operators meet their definitions | `GraphBuild`, `GraphReads`, `EngineReads` |
| Client store and batch panel, `store.tsx`, `QAChat.tsx` | documents, sessions, graph, the shown batch, one timer | refresh, poll | answers out of order | the latest answer wins | planned |

Left out altogether: token verification, parsers of file formats, the SQL inside
the repositories, logging and reports, rendering, deployment scripts,
evaluations.  `PROJECT.json` lists every component with its status.

How they interact.  The gateway writes the document row and the parent's row and
then pushes a receipt (three stores, no transaction).  A consumer pops the
receipt into the set of leases, takes the tenant's lock, and runs the pipeline,
which loads and saves the same two rows, as does a cancellation or a deletion in
the API's process.  Every `_update_meta` and `update_engine_index_status` takes a
lock of its own process only.  Deletions of LightRAG data are jobs of the same
queue.  Signing in changes the owner of rows in one transaction, while requests
made for the visitor go on with copies.  The edge worker keeps batches of the
public demo in D1 and asks the backend question by question; batches of an
account are rows of the backend.

## 2. Modules and how they correspond to the code

`PROJECT.json` "map" names the lines of every definition.

**JobQueue** has one operator per Redis command or script of
`UpstashRedisQueueRepository`; each is atomic because Redis is.  A receipt is
the text of its payload, so the model's receipt is the pair of job and attempt
and two equal copies are one member of the set of leases, as they are in Redis.
Time is the set `expired`.  The module has no behaviour of its own.

**IndexWorker** extends it with the gateway, the handlers of the API and the
consumers.  One action is one call on Redis or on a row with the local computation
up to the next one: recovery pass, marks after it, pop, look at the row, lock,
requeue and mark, run, ack.  Every write of a row loads and saves all of it.  A
write of the status does not depend on what was loaded and is one step; a write of
an engine, of the progress or of an artifact saves the loaded status again and is
two, in the API after a cancellation or a failed submission (`LoadRow`, `SaveRow`;
`SkipRow` is an engine that is left out) and in the worker (`LoadEngineRow`,
`SaveEngineRow`).  `PushRaises` is an LPUSH over REST that was refused, or carried
out with its answer lost; the row is failed by a later call (`FailRefused`), which a
worker may be ahead of.  `Crash` may come between any two steps; `HeartbeatEnds` is a
renewal that failed; `TimePassesLease` and `TimePassesLock` are expiries, guarded by
what is being renewed.  The pipeline is reduced to its checkpoints and its writes.
The history variables `dropped` and `stale` mark what W3 and W6 are about, `breach`
the tenants whose run lost its renewals.

**TenantMutex** is the abstract specification: workers enter and leave a tenant,
one at a time, until the promise is broken for a tenant by a lost renewal.
`IndexWorker!ImplementsMutex` instantiates it with `inside` as the workers in the
pipeline and `breach` as the history variable of the same name.

**IndexPipeline** is one job of one document: the pipeline's thread ("main"), its
two engine threads and the API's thread.  A load and a save are one step where
the process-local lock covers both and every other actor lives in the same
process, and two steps (`copy`, `dcopy`) where an actor of another process can
come between.  An engine may fail at any of its steps (`ChildFails`), also between
a load and a save or behind its store; its locks are let go, and the store it was
writing or emptying may have been written or emptied in part, so that `graph` and
`light` mean some data, not all.  The pipeline's own thread may fail before the
engines are started (`ParserFails`).  `scenario` fixes the deployment: one process
or API and worker apart, the engines of the job, and how many requests and faults
there are; cancellations and deletions are counted apart, because a property may
hold until the first deletion only.  Of the history variables, `overwritten` is a
cancelled row saved over or dropped, `abandoned` an engine that failed on its
graph when it was no longer allowed to write it (P8).
Reduced: the adjacent reads inside `_write_allowed` are one step, the three final
artifacts are saved as one, progress updates of the parse and the deletion of the
uploaded object are left out, LightRAG is enabled, the worker does not crash
(crashes are in `IndexWorker`).

**UploadIntake** is one document from its upload to its deletion, every request a
process of its own.  Callbacks (`Deliveries`) look the object up, look for the row, save
it and start the index under the key of the upload; `Clicks` start it by hand; each
reads, lists, saves, marks and enqueues in separate steps and may stop between any two
(`Stop`).  A push may raise (`PushRaises`), refused or carried out with its answer lost;
its handler then fails the parent (`Refuse`), loads and saves it again for its engines
(`LoadParent`, `SaveParent`), marks the document (`MarkFailed`) and, in a callback,
marks it once more (`MarkAgain`), each in a step of its own, while the worker may run
the job.  The worker inserts pages into the workspace of the tenant it read at its
start; the claim moves the row; the deletion cancels, schedules, removes.  Both engines
are one index, job rows are otherwise updated atomically (two processes on one job row
are in `IndexPipeline`), the deletion's list and cancel are one step.  Where the
uploader is an account, the deletion may be that of all its data: `Export` takes the
rows it will work on, every job is cancelled and every document detached as in a single
deletion, and `DeleteTenantData` drops what is left in one transaction; requests of the
account go on meanwhile.  A cast says who comes, who has uploaded and which of the
faults, and whether a deletion, may happen.  The history variables `raced`, `crossed`,
`reset`, `crashed`, `overtaken` and `stale` record the windows that the disagreements U1
to U4, U6 and U7 are about, so that the properties can say what holds outside them.

**PublicBatch** is one batch of the public demo; an action is one D1 statement or
one call of the backend.  Every request judges claims by the time it began
(`seen`), which is not the time at which its statement runs (`lapsed`).  An item
is claimed at most once in its life, so its identity stands for the claim token.
`Stop`, `RunnerStops` and `StopCancel` are isolates that end, `GrowStale` and
`Cleanup` the time to live of the rows.

**BatchQA** is one batch of an account: the row, the copies the runs of
`_process_batch_items` work with, one cancellation, one crash.  The two ways of
working, a background thread or one question per poll, are chosen at the start.
The routers of one process serialise polls (they call the service without an
await), so concurrent polls stand for several serverless instances; the 1.5 s
poll lease of the edge worker is shorter than a question and does not change it.
A query is one step; whether an answer is an error is left out.
Its names differ from those of `PublicBatch`, so that one module can prove about both.

**WorkspaceCache** is the adapter's cache under one event loop: a step runs from
await to await.  Which of the candidates an eviction takes depends on the time of
last use and the time to live; the model lets it take any.  The parts of a query
over several scopes are separate requests; the cache of dependency probes and
storages whose initialisation failed half-way are left out.

**ChatPage** composes the page and the service: requests in the order of their
sending, each with the token of the gate it was sent under, the service's copy of
the session and how far both ends are.  A selection is an engine with its mode;
an entry of the view is a question with its answer; text that streams in before
the last event is left out.  The session of a new question is saved empty
(`CreateSession`) before it is saved with the answer; the store empties the view
when the identity changes (`SignIn`) and again when the call of the claim is over
(`IdentityReady`).  A visit bounds requests, generations and openings of
the page.

**GraphBuild** is the construction of a document's graph from the entities on
its pages: numbering by first mention, pairs within a page or within a window,
and the sparse view the graph page draws.  **GraphReads** is what is read of a
graph: neighbours ring by ring, by trails and by an engine's frontier, simple
paths and shortest ones, searches and exports cut down to some documents.  Both
are operators without state.

**GraphStore** publishes and removes documents with them.  The backend is chosen
at the start.  In the files an operation loads both, then saves one after the
other, and another operation may come between any two; in PostgreSQL it is one
transaction followed by the discarding of the process's copy, and a refresh of
the copy is two queries and a declaration that it is good; in Neo4j every
statement is a step, and documents share entities.  The index worker's thread
works beside the API's event loop, which runs one call at a time.  A removal is
a merge of no parse, which builds no graph (`NodesOf`, `EdgesOf`).  The history
variables `lost`, `hidden`, `shared` and `missed` mark what G1 to G4 are about.
The reads are checked on every graph that arises: `ViewsAreTrue` compares the
backends' answers with the shortest simple paths, and with each other.

**EngineReads** is what the adapter makes of the library's answers: evidence filtered by
document and merged in turns from several spaces within two limits, references, the walk
that exports a graph, its normalisation and its merge with another space's, entity
search.  `Walk` stands for the library and is external. **EngineRequest** extends it
with one request: the gateway (`gate`), the engine (`engine`, and one task per space in
`tasks`), the events between them (`wire`) and the connection (`link`), which is one
process's generator or an HTTP stream. An action is what happens between two awaits of
one side.  `Fails` is a call of a store or a model that fails, `Break` a connection that
does, `Leave` a reader who closes the page.  A view or a search that loses the
connection of one call to a remote engine leaves its space working.  The module takes a
lease for granted once it is free; `WorkspaceCache` is about how.

**Backfill** is the release's rounds: each replica reads the state row, asks for
the lock, scans, starts its batch call by call and reports, while the queue is
served, documents are deleted, calls fail, replicas stop and the lock runs out.
`Serve` is an index job in one step; what happens inside is `IndexWorker` and
`IndexPipeline`.

How they compose: `JobQueue` is extended by `IndexWorker`, which refines
`TenantMutex`; `UploadIntake` takes the queue as a bag of receipts and the
pipeline as its reports; `IndexPipeline` takes the queue for granted and models
what runs inside `run_queued_job`, with the graph as one bit, which `GraphStore`
takes apart; `GraphStore` extends `GraphBuild` and `GraphReads`, `EngineRequest`
extends `EngineReads`.  The reductions between them are named in the
heads of the modules.

## 3. Runs

| run | instance | what it shows |
|---|---|---|
| `worker_one` | one consumer, an index job that may be cancelled, with two engines, and a deletion, two faults, one recovery | type invariant; no job is lost but for W3 and W6 (`NoOtherOrphan`), no consumer takes back a finished job (`DoneIsFinal`), all submitted jobs settle, with the same exceptions (`EverythingSettles`) |
| `worker_pair` | two consumers, two jobs of one tenant, two faults | runs of a tenant overlap only after a lost renewal (`OwnerExclusion`), no attempt is spent while nothing fails (`AttemptsCostFaults`), refinement (`ImplementsMutex`) |
| `public_batch` | two questions, the page and the runner, two faults | one live claim (`OneLiveClaim`), no replay (`AskedAtMostOnce`), what was shown stays: counts, cancellation, answers (`ShownIsFinal`); the batch ends (`BatchEnds`) |
| `index_pipeline` | four deployments: classic in one process (2 requests, 1 fault) and in two (1 request, 1 fault), LightRAG alone (1 request, 2 faults), both engines (2 faults); a fault is the failure of an engine or of the parse at any step, or an incomplete removal | a deleted document leaves the classic graph but for P8 (`GraphGone`); the verdict is what each engine achieved, and a LightRAG job leaves the classic index alone (`EnginesApart`); the pipeline ends (`PipelineEnds`) |
| `pipeline_resurrect` | API and worker apart, LightRAG job, a cancellation and a deletion | violation of `LightGone`, see P1 |
| `upload_intake` | a visitor's callback and its redelivery, or an account's callback and a click; one fault (a request that stops, a parse that fails, a push that is refused or loses its answer), one claim, one deletion, of the document or of all data | no orphan (`RowsAreSound`), the document tells its job (`RowTellsTheJob`), a deletion leaves no pages (`NothingLeft`), indexing settles (`IndexSettles`) |
| `workspace_cache` | two requests, two workspaces, three objects of a kind, room for one, one interruption | leased instances live (`LeasedIsLive`), one user (`OneUser`), exact usage (`ExactUsage`), nothing leaks and the bound holds at rest (`NothingLeaks`) |
| `batch_qa` | three questions, two polls or one thread, one cancellation, one crash | answers in order and complete, the thread asks once (`BatchIsOrderly`); the batch settles (`BatchSettles`) |
| `chat_page` | three requests in one visit with a sign-in, or two over two openings | the lock of the input tells the truth (`SpinnerIsTrue`); a session has one selection, answers are lost by overlap only, none is there twice (`SessionsAreTrue`); a load fills the view of its selection only (`LatestSelectionOfPage`); the input unlocks (`ThinkingEnds`) |
| `graph` | two interchangeable documents, three parses, four operations, three backends | a document keeps its share whatever happens to another (`SharesKept`), a removed one leaves nothing (`RemovedIsGone`), the copy is current (`CopyIsCurrent`), all reads agree (`ViewsAreTrue`) |
| `engine` | every question, view and search of three documents in two spaces, three states of the stores, two faults | the reader is told the truth (`ToldIsTrue`), evidence is in scope, within limits and fairly shared (`EvidenceIsFair`), views and searches are in scope and whole (`ViewIsSound`), every request ends without a lease (`Settles`) |
| `backfill` | three documents in batches of two, two replicas, one fault, one deletion, the lock runs out once in a round | a release shown as done left no document behind (`CardIsTrue`), one job each (`JobsAreSound`), the release ends (`BackfillEnds`) |

Why the bounds are enough.  Every exclusion property needs two actors, and the windows
it could be violated through need one actor between two steps of the other; a third
consumer, poller or request adds no kind of window (a third job does, for the overlap
told under W1, which `OwnerExclusion` allows).  Two faults allow a crash of the recovery
from a crash.  One recovery is enough for a receipt to be retried and to be given up.
Two engines let a second stale save of a handler follow the first.  In `upload_intake` a
lost answer comes with a redelivery, with a click and with a deletion, one cast for
each. Two items show the hand-over from one question to the next and the end of a batch;
three questions in `batch_qa` let one poll pass another in the middle. Room for one
instance with two workspaces makes every request evict, three objects of a kind are as
many as can be alive at once (cached, being finalised, being made).  In `graph`, four
operations publish two documents, replace one and remove one, in any overlap; the parses
have a page of all pairs beside one without any, a pair on two pages in both orders, and
a page so long that only neighbours are linked (`CliqueLimit` 2 and `MaxNeighbors` 1
stand for 12 and 4), and name the same entities with the same numbers and with others.
In `engine`, the corpora have texts that are empty, longer than all that is left, and
there twice, a chain longer than the walk and a triangle; the windows cut nodes, cut
edges to none and cut nothing; the limits of three chunks and five characters stand for
20 and 60000, in a size at which each of the two is met first.  In `backfill` two
batches are needed, and the fault may be any call or a replica.  All runs are
exhaustive.

Deadlock is checked in the runs of `IndexWorker` and `WorkspaceCache`, whose processes
loop for ever; the other models are one job, one batch, one request, one visit or a
bounded number of operations and end.

## 4. Fairness and timing

| specification | fairness (weak, where not said) on | why the code justifies it |
|---|---|---|
| `IndexWorker` | strong fairness on each consumer's next call other than a report; weak on a save that follows a load, and on the expiry of what nobody renews | the worker loops over `process_next_index_job`; Redis expires keys. Strong, because the pipeline may report any number of times, but not for ever. Nothing forces a submission, a cancellation, a handler of the API, a fault; a crashed consumer starts again because the platform restarts it |
| `PublicBatch` | each poller, the runner's loop, the expiry of each claim | the page polls until the batch is over; claims carry a deadline. The runner alone would not do: it ends when another holds the claim (`public-batches.mjs:696`), so the poller of the page is needed |
| `IndexPipeline` | the pipeline, its threads, the API call that has begun, scheduled deletions | threads run on; `as_completed` waits for every child. `Request` starts a call but is bounded, and faults are not forced |
| `UploadIntake` | a request that has begun, the worker, a deletion that has begun | requests are served to their end unless they stop (`Stop` is always possible within the fault bound); no callback, click, claim or deletion is forced to come |
| `BatchQA` | each poll or thread, the second half of a cancellation | the page polls while the batch is shown. The thread may crash and is not restarted |
| `ChatPage` | the end of each connection, by an answer or by breaking | a `fetch` settles; nobody is forced to ask or to select |
| `EngineRequest` | the gateway's next step; the engine's (`EngineGoesOn`, weak fairness with its enabling condition written out) | calls of the library, the stores and the model come back, if only with an error after their time; an instance is leased to everybody in turn. Faults and leaving readers are not forced |
| `Backfill` | each replica's next step, the expiry of the lock; strong fairness on serving the queue | `run_forever` checks the backfill again after its interval and serves the queue in between; a lock has a time to live. Strong, because a replica in its round does not serve |

Timing assumptions.  A renewal every 60 s keeps leases and locks whose time to
live is at least 60 s and 120 s alive while the renewing thread lives; hence
`TimePassesLease` and `TimePassesLock` exclude what is renewed.  A consumer that
holds a receipt without a renewal thread (between the pop and the run) is quicker
than the lease.  A deletion job has no renewal, and its lease may run out under
it.  A claim of `PublicBatch` may run out at any time, and so may the lock of the
backfill, once in a round.  `GraphStore` states safety only.

`ThinkingEnds` and `SpinnerIsTrue` speak of a view that is not empty and of loads
of the page on screen (`Locked`); C2 and C0 are the reasons.
`BatchSettles` supposes that polls come to be one at a time (Q4) and excepts a
thread whose process stopped (Q5).  `BackfillEnds` excepts batches filled by
starts that were cut short (B2) and says "again and again" where two replicas may
keep finding a round of each other (B3).

## 5. Proofs

Eight modules hold theorems; every one is for all values of the constants under
the `ASSUME`s of the modules.  TLC evaluates each `ASSUME` in the runs, and each
invariant below was checked on the instance of its run before it was proved.

What is assumed.  Types of the constants; that jobs, requests, starts, replicas and
workers which are counted are finitely many, and the limit of the cache and the size of
a batch positive; that a model value standing for "nothing" (`NoJob`, `None`) is none of
the things it is told apart from; that the documents of a backfill are listed once.  Two
are more than that.  `EdgesJoinNodes` of `GraphStore`: an edge that `build_kg` makes
joins two entities of the same document.  It is a fact about a fold over the pages,
whose proof is an induction over data, which the provers cannot do; the builder only
takes pairs of the entities it has numbered, and TLC evaluates it for the parses of the
run.  `OneConsumer`, which is not an assumption of a module but the hypothesis of two
theorems of `IndexWorker`: with two consumers they are false (W2), and the deployment
guide asks for one.

| module | theorem | property, for every value of the constants |
|---|---|---|
| `IndexWorkerProof` | `TypeCorrect`, `Exclusion`, `Refinement` | types; runs of a tenant overlap only after a lost renewal; the workers implement `TenantMutex` |
| | `CalmCostsNothing` | `AttemptsCostFaults`, for any number of workers |
| | `NothingIsForgotten`, `DoneStaysDone` | `NoOtherOrphan`, `DoneIsFinal`, for one consumer |
| `BatchProofs` | `SingleClaim`, `NoReplay`, `ShownIsTrueAndFinal` | `OneLiveClaim`, `AskedAtMostOnce`, the action property `ShownIsFinal` |
| | `AnswersStayInOrder` | `BatchIsOrderly` |
| `WorkspaceCacheProof` | `TypeCorrect`, `LeasedStaysLive`, `OneUserAtATime`, `UsageIsExact`, `NoInstanceIsLost` | `TypeOK`, `LeasedIsLive`, `OneUser`, `ExactUsage`, `NothingLeaks` |
| `BackfillProof` | `DoneLeavesNothingBehind`, `OneJobForEach` | `CardIsTrue`, `JobsAreSound` |
| `UploadIntakeProof` | `NoJobIsForgotten`, `DocumentSaysWhatItsJobSays`, `DeletionLeavesNothing` | `RowsAreSound`, `RowTellsTheJob`, `NothingLeft` |
| `EngineProofs` | `CopyTellsTheTables`, `RemovalLeavesNothing`, `EachKeepsItsShare` | `CopyIsCurrent`, `RemovedIsGone`, `SharesKept` of the classic graph, for all three backends |
| | `ReadersAreToldTheTruth` | `ToldIsTrue` of a request to LightRAG |
| `ChatPageProof` | `SessionsHoldWhatWasAsked`, `InputIsLockedTruly`, `LoadsFillTheirSession` | `SessionsAreTrue`, `SpinnerIsTrue`, the action property `LatestSelectionOfPage` |
| `IndexPipelineProof` | `DeletionLeavesNoGraph`, `NeitherEngineAnswersForTheOther` | `GraphGone`, `EnginesApart`, for both deployments and any number of requests and faults |

**IndexWorkerProof.**  `TypeCorrect`: `TypeOK` with two additions that make it
inductive, the leases are finitely many (a recovery pass lists
them) and a worker that writes a mark has one at the head of its list.  It contains
the bound on attempts.  `Exclusion`: `OwnerExclusion` says nothing of the lock, so it
is strengthened by `RenewedRunsHoldLock`: a run of a tenant not yet in `breach`
has its renewals and its job's name in the lock.  Taking the lock needs an absent key, a
renewed lock does not expire, and a release removes the own name only, so while
the first run is renewed a second one finds the key.
`Refinement`: taking the lock is `Enter`, leaving the pipeline `Leave`, the end of
a renewal `Break`, everything else a stutter; it uses the two invariants above.
`CalmCostsNothing`: until the first fault (`Untroubled`) an index job is one token,
a receipt on the list or a claim of one worker that has yet to run it or to put it
back (`OneToken`); a run whose receipt is leased renews it and has the lock
(`RunsAreRenewed`), and what is leased is in the hands of a worker
(`LeasesAreHeld`).  Then only receipts of deletions ever expire, so a recovery pass
raises no other attempt.  An early acknowledgement by the copy of W1 does not
break it: it removes a lease, and what is not leased is not recovered.
`NothingIsForgotten` and `DoneStaysDone` share `SoloInv`: what the consumer
claimed stays leased until it is acknowledged, and by then its row is terminal or
its receipt is back on the list (`InKeeping`); between its look at a row and the
write that rests on it nobody else finishes the job (`Fresh`), which is where the
single consumer is needed; a row is there from its first save on (`Rows`).  The
status the worker loaded with a row, to save it again, is part of the invariant: it
is never "done", and once the row was over it is terminal, unless a request of the
API has put an older status back (`stale`).  A handler of a failed push counts
as a submission under way until it has failed the row, whatever the receipt it may
have left behind has led to by then.

**BatchProofs** is about both kinds of batches, `PublicBatch` and `BatchQA`.
`SingleClaim` and `NoReplay` follow from `Types`, `LiveInv` (what a request believes to
have run out has run out, and one claim lives) and `ClaimInv` (a held item is not
pending, two pollers hold different items, an item that is pending or about to be asked
has not been asked).  `ShownIsTrueAndFinal` is an action property: on top of the types,
the counts in the batch's row never exceed the items', because every statement recounts
all items, and items that are finished stay so.

`AnswersStayInOrder`, of the batches of an account: however runs, polls and the
cancellation overwrite each other's rows, every copy of the row, saved or in flight, is
one the batch could have been in by itself (`CopiesInOrder`): its answers are those of
the first questions, and unless it is cancelled its position counts them.  So it does
not matter which copy is saved last.  A second poll may repeat questions (Q3); a
background thread, of which there is one (`OneThread`), does not.

**WorkspaceCacheProof.**  `IInv` is eight conjuncts: types; the counter of a
workspace is the number of its leases (`Counted`); a request leases exactly one
workspace in the stages in which it should (`Leases`); what a request works with
is cached and open (`Live`); what is to be finalised is open, not cached, and in
one hand (`Doomed`); everybody who waits for or holds the lock of a workspace
waits for the object in the dictionary (`OneLock`), which is the heart: the
dictionary entry may be remade, but only while the counter is zero; two users
of a workspace are one (`Exclusive`); and `ExactUsage`.  From it follow
`TypeCorrect`, `LeasedStaysLive`, `OneUserAtATime` and `UsageIsExact`.
`NoInstanceIsLost` adds the books (`Books`): without an interruption, what is
open is what is cached and what somebody has evicted and still has to finalise
(`Accounted`), and a cache beyond its limit has a request that is going to sweep
it (`Bounded`).

**BackfillProof.**  While the lock has not run out in the middle of a round, its
holder is the only replica in a round (`Alone`).  The jobs only their row knows are
those of the starts under way, but for starts cut short (`Counted`); a document
that is being indexed has its job in the queue or on its way (`IndexingIsCovered`),
and no job is queued before its row says so (`RowBeforeQueue`).  The heart is
`RoundIsWhole`: a round that has neither failed nor left documents over has in
its plan every document that nobody has started, whichever replicas work beside
it.  When its plan is empty there is none, and it may write "done" (`DoneIsWhole`).

**UploadIntakeProof.**  Three invariants, each of which says where the next step
for a job, a row or the pages will come from.  `Followed`: a live job has a receipt,
or a start that has still to queue it or to give it up, or the worker has it in hand,
or it is one of those a stopped request left behind or a handler put back (`stale`);
receipts of a job are no more than its starts whose push is over (`QueueBound`).
`Consistent`: as long as nothing was raced, reset, crashed, overtaken or deleted, one
start owns a job from its row to its receipt or to the end of its handler
(`OneOwner`), meanwhile no other job is live (`Alone`), the job's row says how far it
is (`Staged`), a document that differs from its job has somebody under way who will
write it (`Shown`), and the second marking of a callback says what the document says
already (`Remarked`).  A receipt whose push seemed to fail is in it, too: it stays
behind a job that is failed by the time the worker takes it.
`Emptied`: while a deletion is under way nobody starts anything, no receipt brings
new pages, and the pages that are there have their deletion scheduled or still to
be; it rests on `Cautious`, that before a deletion nothing is cancelled and a
document is marked before its job is queued, which is how the deletion
knows that there may be pages.

**EngineProofs.**  Of the classic graph.  `Refreshed`: what a refresh has read is what
the tables hold, and a copy declared good is, unless a commit came between (`missed`) or
the operation that will discard it has just committed.  `Removal`: in Neo4j whoever
mentions an entity wrote it last or shares it (`Mentioned`), and an edge's document has
both ends so, hence an entity nobody mentions any more goes with its edges, and what a
removed document leaves is shared; in the files what an operation has loaded is what
they hold, unless another has saved since (`Halfway`), and such a save is `lost`.
`Shares`: by backend, what a document's rows are, exactly: in PostgreSQL its nodes and
its edges; in the files its nodes but for those hidden behind another's, and one edge
for each pair; in Neo4j a mention of every entity and an edge for every link, whoever
wrote it last (`Kept`, and `Merging` for one under way).

Of a request to LightRAG.  `ToldIsTrue` says nothing of the events on the way, and
so is far from inductive; `RequestInv` adds them.  `InTurn`: the deltas a reader has
yet to receive count on from those it was shown, and the final event stands behind
the last part; `FinalIsLast`: once it is sent no part is generated.  Losing the end
of the queue with a broken connection keeps both, so whoever has read the final
event was shown every part (`CompleteIsWhole`), and only then is anything stored
(`StoredIsComplete`).  `Faultless`: as long as nothing has failed the connection
ends only where the engine ended it, with the final event on the way or read and
no space at work, so that neither a failure nor a lease is left unexplained.  The
evidence, the graphs and the items are opaque: the argument needs of the reads only
that they succeed or fail, and holds for any corpus.

**ChatPageProof.**  Two invariants.  `Sound` is about what is saved: every copy of
the session, saved or in the hands of a request, holds only exchanges that were
asked in it (`Written`), a request and its copy are of one session (`Matching`),
nothing is missing but for two overlapping answers (`LostOnlyByOverlap`), and
nothing is there twice (`Once`).  The session of a question that has none is there,
empty, once the service has begun with it (`Begun`), also if it fails later.
`Told` is about what is shown: a token of the gate
names one navigation of the page, the latest has the highest (`Tokens`), so a load
that still holds it was asked for the session that is active
(`LoadsFillTheirOwn`), and the input is locked only while a request of the page
that will unlock it is under way (`SpinnerIsTrue`).

**IndexPipelineProof.**  The invariant is a fence.  Once the row of the job, saved or
in the hands of anybody, is seen not to be active, the classic engine has been told
to stop or will never write again (`RowsFenced`), and a deletion is past its
cancellation only behind that fence (`ApiFenced`).  Within one process the flag is
the fence and nothing takes it down while an engine runs; between processes it is the
cancelled status, which a row loaded earlier may overwrite and another deletion drop:
that is the exception `GraphGone` makes with `overwritten`.  Behind the fence the
graph, once emptied, is written only by an engine that is about to look at the
cancellation once more and to undo its write (`GraphUndone`), and at rest there
is none.  An engine that fails there (`FailsOnGraph`) does not come to undo it: the
exception with `abandoned`.  A failure anywhere else, or of an engine that may still
write, leaves nothing that the deletion does not remove.

`EnginesApart` is the types of all variables, the healthy classic index beside a job
for LightRAG alone, and the verdict of a job nobody interferes with.  The types need
books (`Booked`: deletions waiting, plus the one a request may still add, are no more
than the requests) and a result for every thread that is over (`Collected`).  The
second part holds until a deletion is requested, also under cancellation: no step of
such a job or of its cancellation sets the classic state, in the row or in a copy of it
that is under way (`Healthy`), and none but a deletion clears the graph (`Classic`).
The third holds until somebody asks for anything (`Calm`).  Then at most one copy of
each row is under way, and it is what is saved (`Locks`): a lost update would need a
second process that writes, or two writers that do not exclude each other.  The update
after a failed pipeline takes no lock, but no engine runs beside it (`FailsAlone`).
So every stage can say
what it knows: an engine, whether its store is written and its rows are set
(`LegacyTrue`, `LightTrue`), the pipeline, which engines it has yet to collect and
what the rows say of the others (`MainJoins`, `MainFails`, `MainRetries`), hence that
its verdict is theirs (`MainTells`).  Cancelled rows, missing rows and the ways
back of an engine are unreachable in it, which is a step of the proof each time.

## 6. Disagreements

Where a comment, docstring, guide or test says one thing and the code does
another, or where a property has an exception because the code does not keep it.
P1 has a run whose counterexample TLC finds; the others were found the same way,
with a formula that now stands at the end of its module or a property without its
exception, and are told here.

**W1** The comment at `indexing_service.py:277` says renewed locks keep a document from
overlapping with a sibling job (`NoOverlap`).  A claim whose tenant is busy is
pushed back as the same text (`:1228`) and acknowledged afterwards (`:1254`).  Another consumer may have popped
that text in between; the ack removes its lease, its renewal thread ends, its lock
runs out while it indexes, and a sibling job starts.  It takes a second consumer,
which the deployment guide excludes for the worker but `/index/run-next` is, and
three jobs of a tenant, but no fault.
**W2** With two consumers the late `status="queued"` of a requeued claim
(`:1229`) can overwrite the final status the other consumer wrote: an orphan
(`NoOrphan`).
**W3** A recovery pass takes the last receipt out before it marks the row failed
(`:1176`); a crash between the two leaves an active row without a receipt.
`dropped` remembers those jobs.
**W4** `_run_pipeline` writes "parsing" after a checkpoint it passed earlier
(`:808`); a cancellation between them is overwritten (`CancelledIsFinal`).
**W5** The lock's value is the id of the job, not of the run (`queue_repository.py:63`,
`indexing_service.py:1248`).  A run that lost its renewals and goes on beside the
run of its own recovered receipt releases the lock of the newer one when it ends,
whose renewals then find no lock and stop: one fault costs two attempts.  With the
code's two recoveries "an index job has spent no more attempts than there were
faults" is false; `AttemptsCostFaults` says what holds, that none is spent before
the first fault.
**W6** After its status `cancel_job` writes the engines (`:1066`), each time loading
and saving the whole row (`:366`) under a lock that the worker's process does not
share.  A worker that started the job before may write "parsing" over the
cancellation, which a handler then loads; it may write "done" and acknowledge, and
the handler saves the older status.  With one consumer and no fault that is an active
row without a receipt (`NoOrphan`); `stale` remembers such jobs.
**W7** The push is a REST call (`queue_repository.py:268`): it may be carried out and
still raise.  The handler then marks the row failed (`indexing_service.py:213`) and
the user is told so, while a worker runs the job or has finished it; a worker that
finishes later writes "done" over "failed".  `DoneIsFinal` excepts a request that is
still to write.

**P1** (`pipeline_resurrect`).  `delete_document` keeps the rows of the jobs it
cancelled itself; a job cancelled before it, whose worker still runs, loses its
row (`document_service.py:508`), and with it the fence the worker looks at; and
because the engine's state is "cancelled" no deletion is scheduled.
**P2** A cancellation noticed while an artifact is saved after the graph was
published (`:604`) ends the engine as cancelled and leaves the graph
(`GraphFollowsState`).
**P3** A cancellation noticed while the parsed pages are saved (`:858`) is reported
as a failure (`FailsByFault`).
**P4** `cancel_job` decides with the row it read once: a parent that finished
meanwhile becomes cancelled (`:1053`), with one consumer and no fault, although a
comment (`:1047`) calls finished parents immutable (`CompletedIsImmutable`; `FinishedIsFinal` in
`IndexPipeline`).
**P5** `update_engine_index_status` saves a document row it loaded before the
deletion (`document_service.py:200`; `RowGone`).
**P6** A failure of a LightRAG-only job sets the document's own status to "failed"
while its classic index is healthy (`indexing_service.py:977`; `StatusFollowsClassic`).
**P7** An artifact uploaded while a deletion purges is entered in a row the deletion
has already emptied or dropped (`:430`); its blob stays (`BlobsGone`).
**P8** The upsert of a graph is many statements (`graph_repository.py:927`) or two
files (`file_store.py:213`), and what comes after it are saves that can fail
(`indexing_service.py:604`, `:612`), a look that can fail and a removal that can; the
`try` at `:607` handles a cancellation only.  The engine then ends as failed with its
graph, or a part of it, still answering (`GraphFollowsState`).  If a deletion has
emptied the graph before, nobody will remove it again; `abandoned` remembers that.

**Q1** A cancellation saved between the load (`qa_service.py:663`) and the save
(`:677`) around a question is lost, although `test_qa_batch.py:103` has
cancellations stop the batch.
**Q2** A poll whose batch another poll has just finished runs past the list of
questions (`:672`) and fails.
**Q3** Two polls ask the same question, and one can set a finished batch back to
running (`:671`, `:656`).
**Q4** Two polls that overlap for ever can undo each other for ever (`:656`).
**Q5** The background thread is a daemon (`:724`): after a restart the batch stays
"running".

**C0** `latest-request.ts:4` says every navigation advances the gate
(`LatestSelection`).  Leaving the page only clears the batch timer
(`QAChat.tsx:92`); the gate belongs to the page, the messages to the store, so a
load of the page that was left fills the view of the next.
**C1** Of two questions answered at a time in one session the later save drops the
other's messages (`qa_service.py:395`).
**C2** Signing in empties the view under an awaited question; a selection made by
the address bar then advances the gate without unlocking the input, which it does
only when something is in view (`QAChat.tsx:287`).
**C3** An answer saved with the visitor's id after the claim is dropped without an
error (`account_repository.py:178`, `app_repository.py:377`).
**C4** A failed or overtaken load leaves the new session active under the old
session's messages (`QAChat.tsx:508`).

**U1** A redelivered callback that finds no row of the visitor, because the first
has not saved it yet or the document was claimed since, saves a fresh row over it
(`document_service.py:402`, `app_repository.py:256`): index state and job are
forgotten, an account loses its document.
**U2** Two starts between their lists and their saves (`indexing_service.py:146`,
`:198`, `:203`): a parent the worker has finished is set back to queued, or the
document marked as indexing, and the second receipt is dropped or repeats the work.
**U3** The docstring at `document_service.py:127` calls a document's scope immutable
(`DeletedFromItsWorkspace`).  The tenant of a document is read off its owner
(`:138`), which the claim changes; its pages stay in the visitor's workspace.
**U4** A start under way when a deletion begins saves its parent after the
cancellation pass (`:479`); the worker may insert pages nothing will remove.
**U5** `update_engine_index_status` saves a row loaded before the claim and gives
the document back to the visitor (`:176`).

**U6** The erasure of an account works on the export it took
(`routers/account.py:111`).  A document saved or claimed afterwards loses its row
with the tenant's data, without its jobs being cancelled or its pages deleted; and
a request under way saves its session or batch again, whose statements insert what
is missing (`app_repository.py:377`).

**U7** A start whose push was carried out while its answer was lost has its handler
mark the parent failed (`indexing_service.py:213`), save it again for each engine with
the status it loads (`:223`), and mark the document (`:224`), each in a call of its
own, while the worker may run the job: the document of a job that is done may say
"failed", and the parent may be put back to a live status (`overtaken`, `stale`).  In a
callback the exception is handled once more, by marking whatever job the
document names by then.

**G1** The file store leaves out a node of a document when another document has
one of the same name and type (`file_store.py:193`), and keeps its edges; when the
other document is removed the node is gone for both (`hidden`).
**G2** The files are loaded and saved without a lock: a removal beside a
publication brings the removed document back or drops the published one (`lost`).
**G3** A refresh of the PostgreSQL copy reads nodes and edges in two queries; a
commit of the same process between or after them discards the copy before it is
declared good, and the API shows the old graph, or nodes of one and edges of the
other, for 30 seconds (`graph_repository.py:405`; `missed`).
**G4** The service specification (`docs/backend_service_specification-v1.0.md:699`)
has a deletion remove the document's nodes and edges from the graph
(`NothingOfItLeft`).  In Neo4j an entity two documents share carries the last
writer's name (`graph_repository.py:927`): removing the writer leaves the entity
under its name and its edges, removing it when the other is gone leaves it for
ever, indexing it again leaves the entities of the old parse, and a request that
may see the first document only is not shown the shared entity.
**G5** Neo4j's neighbours at three hops include the center, on a triangle: a trail
may come back. The other backends do not.
**G6** The sparse view takes a document of several pages with edges on one of them
only for a document of a single page, and hides edges the builder made
(`LayoutKeepsBuilt`).

**E1** The service specification (`docs/backend_service_specification-v1.0.md:1208`)
allows a history of ten exchanges (`OnlyFaultsFail`).  The plain call to a remote
engine sends the whole history (`adapters.py:2143`), the runtime takes eight
messages (`runtime.py:88`), and a conversation of more than four exchanges is told
that the engine is unavailable.  The streaming call shortens it.
**E2** The operations guide (`docs/lightrag-dual-engine-operations.md:78`) calls the
export a complete snapshot.  A walk that starts at a label skips the labels it has
met (`adapters.py:1809`), so an edge between two nodes at the rim of a walk is
never exported; a limit of no edges yields one; and `truncated` may say either
wrongly.
**E3** A connection that closes in the middle of a body is not among the errors the
remote adapter translates, and the reader is told of an internal error; the
use of a stream that is cancelled is recorded nowhere; when storing an answer
fails, the rows before stay; the work in other spaces runs on after one failed.

**B1** "A failure keeps the state retryable" (`lightrag_backfill_worker.py:143`).  A
document that could not be queued has its index marked failed, the next round
does not select it unless `LIGHTRAG_BACKFILL_INCLUDE_FAILED` is set, and the
release becomes done (`DoneMeansQueued`).  The card of the health page does say it.
**B2** A start that is cut short after it saved its job leaves a live job without a
receipt; later rounds take it for queued, and the release becomes done.  Cut short
before its row says so, the document is selected again in every round; as many of
those as a batch holds fill every batch for ever.
**B3** The state is read before the lock is taken (`:116`): a replica that read it
before another wrote "done" runs the release again and overwrites "done" with
"running"; two replicas can keep doing so.  The lock is not renewed, and its token
is the release's, so that a replica can release the other's.

Further hazards that no property is about: a cancelled public batch whose
second statement did not run keeps pending items that never run
(`public-batches.mjs:716`); a factory that keeps failing leaves lock entries behind
(`adapters.py:268`), an interrupted finalisation forgets the rest of what it
evicted (`:347`), and an instance may be opened while the evicted one is still
closing on the same stores (`:348`); the deletion of an account stops half-way
between artifacts and rows (`routers/account.py:120`); the bridge's loop is
announced as ready before it runs, so that a first submit or a close can find it
standing (`async_bridge.py:58`); two requests with one nonce look at the local
cache before either has written it (`security.py:170`); a poll of the batch shown
before may still be awaited when another is shown (`QAChat.tsx:311`); rounds of the
job poller overlap and an older one can come last (`store.tsx:513`);
`refreshDocuments` and its kin apply answers asked for under another identity
(`store.tsx:388`); the poll lease of the edge is released by batch and visitor, not
by acquisition (`d1.ts:64`); a refused request counts in both rate windows
(`d1.ts:158`).

## 7. What is only model-checked, and what is not modelled

Out of the prover's reach, and left to TLC: liveness under fairness
(`EverythingSettles`, `BatchEnds`, `PipelineEnds`, `IndexSettles`, `BatchSettles`,
`ThinkingEnds`, `Settles`, `BackfillEnds`), and anything by induction over data.  No
module declares a RECURSIVE operator.

Not proved: `EvidenceIsFair` and `ViewIsSound` of `EngineRequest`, and `ViewsAreTrue`
of `GraphStore`.  They are about what recursive functions and folds compute, which
is induction over data, and stay with TLC; `LightGone` is not true (P1).
`NoOtherOrphan` and `DoneIsFinal` are proved for one consumer only.

Partly modelled components, and what is missing of them, are listed with their
notes in `PROJECT.json`.  Not modelled and not planned: verification of tokens and
signatures (cryptography), parsing of file formats and prompts (data conversion),
the SQL inside the repositories (rows and transactions are taken as atomic),
rendering, logging, deployment and evaluation scripts.

Reductions that keep a hazard out of a model: in `IndexWorker` a job has one
cancellation at a time, and of the calls of the API only the push fails, while its
handlers may stop at any step, as nothing forces them to go on; in `IndexPipeline` the
calls of the API do not fail, nor do the pipeline's own saves after the engines have
started, those of the LightRAG retry included; in `UploadIntake` both engines are one
index, so that a handler has one engine to save.

## 8. Plan

Done: the queue with its consumers and the abstract lock, public batches, the
pipeline with cancellation and deletion, the adapter's cache, batches of an
account, the conversation page, the way from an upload to an index with the claim
and the erasure, the graph from its construction to its views, a request to the
LightRAG engine, the release backfill.

Next, in this order:

1. The heartbeat key joins `JobQueue`, with the readiness the gateway derives from
   it; `LocalRunner`, the thread per job of a deployment without Redis.
2. `AsyncBridge`: start, submit, close, fork; the promise that every caller gets an
   answer or an error, abstracted as a one-shot call and refined.
3. `BatchPanel` and `ClientStore`: the shown batch with its one timer, and the
   pollers of the store, with the latest request as the abstract specification.
4. `EdgeLimits` (windows, poll lease, dispatch lease) and `NonceReplay`, small
   modules around one shared key each.

Theorem worth having: the refinement of `AsyncBridge`.
