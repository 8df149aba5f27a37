# A verification of eletric_rag

eletric_rag is a question answering service over documents of the Chinese
electric power domain. PDFs are parsed by MinerU, cut into chunks, encoded and
stored; questions are answered from the chunks found again, and discussed on a
web page. This directory models the parts of it where state is spread over
several actors: how a document gets into MySQL, Qdrant, Elasticsearch and MinIO
and out of them again; the parse service and the router that parse it; the
lanes and caches a question goes through; and the page a conversation is held on.

The own code of the repository is `backend/app` (FastAPI, Celery), the scripts
of `backend`, and `src/frontend/src` (React). `src/MinerU` is a vendored project
that the backend calls over HTTP; its service and its router are modelled, its
models and converters, nine tenths of the repository, are not.

Paths below are relative to `src/backend` unless they start with `src/`.

## Inventory

### Ingestion of text PDFs (`app/core/ingestion_pipeline.py`, `app/tasks/document_tasks.py`)

* State: nothing of its own but one SQLAlchemy session per task; the document
  record, its rows, points, entries and objects.
* Operations: `ingest_document`, in steps: check `file_hash`; parse, classify,
  store the PDF and its Markdown; insert the record and commit; loop over the
  images (row, chunk row, point, entry for each); commit; insert the chunk rows
  under savepoints; write points; write entries; commit status and counters.
* Hard: the record is committed in the middle, so that a failure afterwards
  leaves it; image points are written before the rows they belong to are
  committed; the calls to Qdrant and Elasticsearch swallow their errors; the
  same file may be imported by two workers; the document may be deleted
  meanwhile; a worker that dies is not replaced, since Celery acknowledges a
  task before it runs.
* Correct when: one file has one document; rows have documents; a completed
  document has its points, and points have their rows, but for failures that
  can be named.

### Ingestion of scanned PDFs (`app/core/scan_processor/processor.py`, `app/tasks/scan_processor_tasks.py`)

* State: as above; the record exists before the task does, with
  `process_status` "pending" or "processing".
* Operations: `process_document`: parse with MinerU (with retries), load the
  record, store PDF and Markdown, the image loop, commit, chunk rows and
  commit, points, entries, status "completed"; every exception goes to two
  handlers, one of `process_document` and one of the task, that write "failed".
* Hard: a document may have two tasks, because
  `resubmit_pending_tasks.py` submits every pending document once more; a flush
  that raises leaves the session unusable and nobody rolls it back; chunk rows
  are committed before their points are written; the answer reads the record
  again after the last commit; payloads carry `document_id` where deletes look
  for `doc_id`; the handlers open a session and catch nothing, so that the outage
  that brought a task there can defeat them too.
* Correct when: a submitted document reaches a final status, or the one way it
  was left behind can be named; the counters of a
  completed one are right; rows have documents.

### Document and orphan endpoints (`app/api/v1/endpoints/document.py`, `admin.py`)

* State: the local variables of the running handler. Handlers are coroutines
  that call the stores synchronously, so that the event loop runs one at a
  time; workers run on between its calls.
* Operations: import (both paths), delete, batch delete (Qdrant,
  Elasticsearch, MinIO, then one MySQL commit), scan for and cleaning of
  orphans (ids of MySQL, ids of Qdrant, ids of Elasticsearch, deletes).
* Hard: four stores and no transaction over them; ids read at the start of a
  cleanup are used at its end; Elasticsearch deletes what it has refreshed;
  a delete waits for a worker's row lock and blocks the event loop.
* Correct when: what was deleted cleanly stays deleted; a handler ends; a
  cleanup takes nothing from a document that exists.

### Stores (`app/storage/*.py`, `app/db/models.py`)

MySQL (documents, chunks, images with unique keys and foreign keys), Qdrant,
Elasticsearch, MinIO, and Redis for caches. Clients catch exceptions and answer
`False`.

### MinerU client (`app/core/document_processor/mineru_client.py`, `parser.py`)

* State: a job on the parse service; per worker process, whether MinerU is
  believed to be up.
* Operations: `parse_with_retry` with its two modes: submit, poll, fetch; or
  submit and wait. Errors are retried after the text they contain.
* Hard: a retry submits again while the first job may still run; whether an error
  is retried is looked up in its text, and the text of a 409 or 503 holds ids and
  times in which a "500" may occur by chance; a health check is asked once and its
  answer kept; any answer may be lost, and the requests of mode "async" have no
  timeout (`mineru_client.py:189`, `206`, `222`).
* Correct when: a call returns or raises, unless such a request is never answered;
  a PDF is not parsed beside itself unless an answer was lost; the PDF library
  stands in only for a reason.

### MinerU parse service (`src/MinerU/mineru/cli/fast_api.py`)

* State: the tasks, the queue, a semaphore, one event per task, a wakeup of the
  manager, output directories.
* Operations: submit, dispatch, run, wait, build a result, clean up, shut down,
  start.
* Hard: all of it is coroutines of one loop and threads it awaits; waiters of
  the semaphore are woken before they run; the cleanup removes files that a
  thread is reading, or fails to and says nothing; a shutdown meets handlers that
  wait, and others that are writing uploads.
* Correct when: jobs run in order, once, within the limit; no slot is idle
  while a job waits; no handler waits for ever; files stay as long as their task,
  and a directory is forgotten only where its removal failed or was left out.

### MinerU router (`src/MinerU/mineru/cli/router.py`)

* State: a record per task, the health and the assignments of each service, the
  processes of the local ones.
* Operations: pass a submission to one service after the other, ask for a
  status, download, count errors, expire, check health, restart.
* Hard: an answer may be lost after the service has taken the job; an answer
  may be stored long after it was given; a monitor and the requests write the
  same health.
* Correct when: a request is answered; a record says what happened to its job;
  assignments are released; a service that failed is used again.

### Retrieval and caches (`app/core/retrieval/*.py`, `app/storage/cache.py`, `semantic_cache.py`)

* State: a running query; entries of Redis with an expiry; points of the
  semantic cache, without one.
* Operations: recall, relaxation of filters, rerank, a second round; read and
  write each level; clear them all.
* Hard: no level knows of documents that come or go, and none is emptied by an
  ingestion or a delete; entries are made of entries; failures are cached as
  results; the semantic cache looks at one point and then at its age; the visual
  recall searches without the filters it is given.
* Correct when: what is wrong in a cache dies out in bounded time; an entry
  answers only the filters it was made for.

### Query service (`app/services/query_service.py`, `endpoints/query.py`, `slow_lane.py`)

* State: a running query, the query log.
* Operations: load the history, prepare or ask back, choose a lane, retrieve,
  take an answer from a cache or generate one, keep it, log it; clear caches.
* Hard: every stage may fail and most failures become an answer; the history is
  read at the beginning and decides at the end which caches may be used.
* Correct when: a wrong answer is not given for ever; what is said in a
  conversation stays in it; an exact hit fits what was retrieved.

### Conversation page (`src/frontend/src/hooks/useConversation.ts`, `api/client.ts`)

* State: messages, the panel that asks for confirmation, the conversation on
  display, the call that may be cancelled; one refresh of the token that all
  calls share.
* Operations: send, confirm, cancel, load, start anew; a call is sent, refused,
  refreshed, sent again, read.
* Hard: closures keep the conversation they were made in; a cancelled call goes
  on when its headers have arrived; updates go to whatever message is last;
  waiting calls are not told that a refresh has failed.
* Correct when: a message shows the answer to its question, the list belongs to
  the conversation on display, the panel asks about the question it will send,
  and the page does not stay busy.

### The other parts

| Part | Why it is left out |
| --- | --- |
| Authentication (`app/api/deps.py`, `endpoints/auth.py`, `utils/security.py`) | signed tokens and a blacklist, no state that interleaves; a refresh is modelled from the side of the page |
| `useAuth.ts`, `useQuery.ts` | two tokens and a timer; a hook no page uses |
| Maintenance scripts (`delete_document.py`, `cleanup_*.py`, `ingest_*.py`) | run by hand, one at a time, over the stores the handlers use |
| Parsing, chunking, preprocessing, generation, models, pages, deployment | pure, numeric or rendering |
| MinerU's models, converters, Gradio page and command line | numeric inference, format conversion |

`PROJECT.json` lists every component with its status and the hazards of this
code at their lines.

## Modules

| Module | Models | State |
| --- | --- | --- |
| `DocumentStores` | the four stores and the calls made to them | `docs`, `rows`, `qdrant`, `es`, `esFresh`, `objects`, `faults`, `faulty` |
| `IngestTasks` | a Celery task, its session, the image loop both paths share, a crash | `task` |
| `TextIngestion` | `ingest_document`, one action per call that reads or changes a store | - |
| `ScanIngestion` | `process_document`, likewise | - |
| `DocumentApi` | import, delete, batch delete and cleanup handlers, both scripts | `api`, `purged`, `swept` |
| `DocumentLifecycle` | all of them together, the properties | - |
| `DocumentRegistry` | the abstract specification of the documents table | `status`, `fileOf`, `isScanned` |
| `DocumentClaims` | statements of docs, docstrings and messages that the code does not keep | - |
| `ParseJobs` | the abstract specification of a parse service | `phase`, `number` |
| `ParseService` | the task manager, its semaphore, its handlers, its end and its start | `status`, `queue`, `waiting`, `granted`, `holders`, `signalled`, `dirs`, `strays`, `manager`, `handler`, ... |
| `MinerUClient` | calls of the backend against that service | `client`, `believed`, `drops` |
| `ParseRouter` | the router, its monitor and the fate of jobs on its services | `running`, `job`, `server`, `record`, `request`, `monitor` |
| `AnswerCaches` | Redis with its expiry, the semantic cache, clearing both | `redis`, `semantic`, `collection` |
| `FastLane` | `FastLane.execute` over `AnswerCaches` and documents that come and go | `index`, `run` |
| `QueryService` | `execute_query` over `AnswerCaches`, with both lanes | `index`, `request`, `spoken` |
| `ApiClient` | calls of the page, cancelled, refused and sent again | `call`, `refreshing` |
| `Conversation` | the hook and the page over `ApiClient` | `shown`, `messages`, `state`, `original`, `panel`, `active` |
| `MC...` | constants and symmetry for TLC, one for each of the composed modules | - |
| `DocumentLifecycleProofs`, `DocumentRegistryProofs`, `ParseServiceProofs`, `MinerUClientProofs`, `ParseRouterProofs`, `FastLaneProofs`, `QueryServiceProofs`, `ConversationProofs` | theorems and their proofs | - |

`DocumentStores` is extended by `IngestTasks`, that one by the two paths and
the API, and all meet in `DocumentLifecycle`, which instantiates
`DocumentRegistry` under a refinement mapping. `MinerUClient` composes the
client with `ParseService`, which instantiates `ParseJobs` under a refinement
mapping. `FastLane` and `QueryService` both extend `AnswerCaches`; of the fast
lane `QueryService` keeps one step that gives any documents until the lane has
settled, and then some of those there are; that `FastLane` gives no others is the
theorem `RetrievalKeepsItsPromise`, so that the two are checked one after the
other.
`DocumentLifecycle` meets them as `IndexChanges`, a document that appears or
disappears. `Conversation` extends `ApiClient`.

### State and code

* `docs[d]` is a row of `documents`; "free" is an id AUTO_INCREMENT has not yet
  handed out, "deleted" one whose row is gone. `task` in the record is the
  upload that `file_path` names.
* `rows`, `qdrant` and `es` are sets of pairs of a document and a slot: the
  MySQL row, the Qdrant point and the Elasticsearch entry of one chunk. A slot
  is the image or the text part the chunk was made from. Images without a
  description have no chunk, no point and no entry, and are left out; table
  rows are written and committed with the images and are left out too.
* `esFresh` holds the entries no refresh has made visible; `EsRefresh` is the
  `refresh_interval` of the index.
* `task[t].pc` is the place in the pipeline, `pend` the rows its session has
  flushed and not committed, `todo` the rest of the image loop, `batch` the
  points to write, `broken` a session that needs a rollback nobody calls.
* `api` is the handler that runs, its `step` the store call that comes next.
* `faulty`, `purged`, `swept` and `api.clean` are history: no guard of the
  modelled code reads them. So are `quiet` and `events` of the retrieval
  modules, `lost` of a request to the router, `hit` and `jobs` of a client and
  `overtaken` of a call.
* A task ends as "done", "skipped", "failed", "lost" (a crash, or no broker) or
  "unmarked": both handlers failed to write the status. A "skipped" task of a
  scanned document is one the script was told not to submit.
* `dirs` are the output directories, `strays` those nobody will remove any more:
  `cleanup_file` failed on them, or they were made by an upload that the end of the
  manager cut off. What is left of a directory after a failed removal is not known,
  so that a result built from it may be full, empty or an error.
* `Pictured` are the documents with pages that look like the question to ColPali.
  `Hits` is what a search finds: the documents that pass the filters, and these,
  because `colpali_search` looks for `must`, `should` and `must_not` in filters
  that have `category` and `standard_no` (`visual_recall.py:98`,
  `vector_store.py:443`).
* `holders` are the processors a slot of `asyncio.Semaphore` is counted for, and
  `granted` those it has woken that have not run yet: a slot is taken when it
  is handed over, not when its owner runs.
* `handler[t]` is the POST that created the task `t`, so that a request and its
  task have one name. A task that is "removed" was forgotten by the cleanup,
  one that is "lost" by the end of the process.
* `record[r]` and `job[r][s]` are named after the request that made them: the
  router's record and the job on the service `s`.
* Time in `AnswerCaches` is a tick; an entry of Redis disappears when it is as
  old as its level allows, a point of the semantic cache only grows old.
* A call of the page is a record with the place it waits at; a coroutine of the
  hook is named by the call it waits for. A message carries the set of calls
  whose text and whose extras (citations, timings, related questions) it shows.

### Atomicity

An action stands for one call to one store, since between two calls anything
may happen. The flush of an image row and of its chunk row are one action: both
belong to one session and are visible to nobody before the commit. Flushes and
the commit that follows are one action where no other call is made between them
(`InsertScanChunks`). MySQL runs with REPEATABLE READ, so a delete handler reads
the image rows once, in `DeleteLoad`. A foreign key lets a delete wait for a
session with uncommitted rows of the document (`DocLocked`), and that wait ends
with the worker's commit or with the lock timeout (`DeleteRolledBack`).

The parse service, the router, the query service and the page are event loops:
an action is what happens between two awaits, or between an await and the thread
that answers it. The fast lane reads Redis, MySQL and the stores synchronously,
and an action ends where one of those calls may take time. React applies the
updates that are queued between two awaits at once; no other handler runs in
between.

### Failures

`FaultIf` counts failures up to `MaxFaults`, and `faulty` notes whose document
they hit. A call to Qdrant, Elasticsearch or MinIO may store any part of its
batch; MySQL, parsers, models and MinerU may raise (`TextRaises`,
`ScanRaises`); a worker may die (`WorkerCrash`: time limit, memory, restart),
and so may the API process (`ApiCrash`); the broker may be out of reach
(`ImportScanned`, `ScriptImport`). Where a task is to be marked as failed, the
database may be lost in the handlers as well (`MarkRaises`). That needs no further
failure from `MaxFaults` when one has hit the document already: most often it is
the same outage; nor when another session holds the lock of the record.

The parse service may be shut down or killed (`BeginShutdown`, `Crash`, up to
`MaxRestarts` times) and started again; parses may fail; an answer may be lost
between service and client (`Drop`, `MaxDrops`), and nobody may notice (`Hang`,
mode "async" only). The removal of a directory may fail (`RejectUpload`,
`CleanupExpired`), and an upload may meet the end of the manager (`LeaveUpload`).
Services behind the router may
end, refuse, answer 500 or take a job and lose the answer (`MaxFaults`). Stores,
models and caches fail in any call of a query, documents come and go
(`MaxEvents`). Calls of the page fail, are refused, or are answered after they
were cancelled.

## Properties

Invariants of `DocumentLifecycle`:

* `TypeOK`. The types of the other components are proved and not run: `CallsTyped` for
  the parse service and its clients, and the type part of `RouterInv`, `LaneInv`,
  `QueryInv` and `PageInv`.
* `RowsOwned`: a row, committed or in a session, has a document. The hazard is a
  delete between a worker's flush and its commit.
* `FileHashUnique`: two documents never hold one file; the check at the start of
  `ingest_document` does not ensure it, its commit in step 6 does.
* `CompletedCount`: `chunk_count` is the number of text rows, for a document
  with one task.
* `IndexLossExplained`: a row of a completed document is missing from an index
  only after a failure that hit this document, or a delete or cleanup that
  reached it. It relates three stores and the whole history. It does not say that
  a swallowed failure, a delete that is rolled back or a cleanup with old ids does
  no harm; it says that nothing else does, two tasks of one document included.
* `ScanAttended`: a scanned document that is neither completed nor failed has the
  task it was imported with at work on it, unless that task was left behind
  (`LeftBehind`) in one of three ways: a crash or the broker lost it; the script
  was told not to submit it (`ENABLE_SCANNED_PDF`); or both handlers failed to
  write the status. A second task for the same document, any other exception, a
  raise after the last commit, a status that cannot be written because the document
  is gone: none of it leaves a document behind. It is the safety half of
  `ScanSettles`. The text path has no such property (`claim_processing`).
* `PurgedStaysPurged`: after a clean delete of a text document no point of it
  is left and none comes back. Clean means: its task was over when the delete
  began, every call was answered, and Elasticsearch had refreshed.
* `OrphansExplained`: points of a document that exists, has one task and met no
  failure belong to rows committed or about to be. Points that a failure between
  the write and the commit leaves behind are its excuse.

Refinement: `ImplementsRegistry`. `DocumentRegistry` says what the rest of the
system may rely on: documents are registered, completed, marked failed and
removed one at a time; a text document is completed once and from "processing"
and never fails; a removed id never returns although workers still hold it; no
file is registered twice.

Liveness, under `FairSpec`: `ScanSettles`, a scanned document that was submitted
is completed, failed or deleted unless its worker dies or its failure cannot be
written; `HandlerEnds`, a handler ends.

Of the parse service and its client:

* `SlotsRespected`, `WorkConserving`: the semaphore gives away no slot too many
  and keeps none back; the hazard is the moment between a release and the run of
  the processor it has woken.
* `NoLostWakeup`: the task of a handler that waits is on its way, or an event is
  set. `SyncAnswered`, `JobsEnd`, `CallEnds` are the liveness of it.
* `DirsOwned`: files are there as long as somebody may ask for them and no longer.
  A task that is known has its directory, and nothing has removed a part of it; and
  a directory has somebody who will remove it, or had one when the process ended
  (nobody removes those of an earlier process), or is a stray.
* `ResultExplained`: a call that succeeds has the result of its own job, and an
  empty one only when the cleanup came first.
* `DisbeliefExplained`: the parser gives up MinerU for the rest of its process
  only after the service was down or an answer was lost.
* `OneLiveJob`: two jobs of one call are unfinished at once only after a lost answer
  or an end of the service, or while it ends: the answer 503 comes from a manager
  that stops, and shows the job it gives up. Like the 409 it may be retried by
  chance, and until the manager is down, which fails or drops every job, the call
  may have two.
* `CallEnds` excuses a call of mode "async" one of whose requests is never answered:
  it has no timeout, and `max_poll_time` is looked at between two polls only.
* `ImplementsJobs`: with its queue, semaphore and events the service is what its
  submitters see: jobs in order of submission, within the limit, each once.

Of the router: `AssignmentsBalanced` relates a counter to the requests on their
way; `DuplicateExplained` says that a document is parsed on two services only
after a lost answer; `RecordTruthful` and `TerminalStays` relate a record to the
life of its job and to late answers; `RequestAnswered` and `ServersRecover` are
the liveness of requests and of services that failed.

Of the caches: `RetrievalSettles` and `AnswersSettle` say that for a bounded time
after the last change and the last failure results may be wrong, and not longer;
the bounds (`RetrievalLag`, `AnswerLag`) follow from the lives of the entries
and the length of a query, and are exact: with either of them one tick lower, TLC
finds the property violated on the instances of the runs. Beyond it, results of
the fast lane are those the stores themselves would give: `Hits`, the pages that
pass any filter included. `FiltersKept` and `ExactAnswersFit` say that the
keys hold what they must: no entry brings a query a document its filters exclude,
other than those pages. `HistoryPrivate` says that no cache carries words out of a
conversation.

Of the page: `MessagesFit`, `ConversationFits` and `PanelFits` say what may be on
display and, where the code lets something stray in, which call did it: one that
was cancelled too late, or overtaken by a replaced list, or whose own message is
gone (`Homeless`). The last case takes five calls: a list is loaded and a question
executed; two related questions follow, each while the answer to the one before
it is being read, so that both go on although they are cancelled; both are
answered by a clarification, and each removes the last message, whosever it
is (`useConversation.ts:306`). The third question has lost its turn by then, and
what comes back for it is written into the message of another. `Settles`: the page does
not stay busy unless a call waits for a refresh that has failed. `BusyWaits` is the
safety half of it: a busy page waits for a call that is under way, that its cancel
would reach and that is of the kind the state says. An answer that comes late,
for a question that was cancelled, ends the state of busy or replaces it; it
never leaves the page waiting for nobody.

### Fairness

Documents: weak fairness of each worker's next step and of the running
handler's. A worker and a handler wait for nothing but row locks of MySQL, which
are released by a commit or time out, so that a step of theirs is always
enabled until they are done. Requests, failures and the refresh of
Elasticsearch get no fairness: nothing depends on them.

Parse service and client: weak fairness of what an event loop runs as soon as it
is ready, of the end of a parse and of a shutdown, and of each step of a client
whose request is answered or fails; that it is never answered is a step (`Hang`)
after which the client has none. Polling is bounded by a clock, read before each
poll, and the POST of mode "sync" by its timeout. A stopped service need not be
started again.

Router: weak fairness of handlers and of the monitor's store; strong fairness of
the check of each service, since the monitor goes round them all, and of the
deadline, which is looked at between two polls. Jobs need not end, and a remote
service need not come back.

Page: weak fairness of the end of a call and of a refresh. `executeQuery` and the
refresh set no timeout of their own, so that this rests on the browser, which ends
a connection that is lost. Users need not do anything. The retrieval modules have safety
properties only.

## Runs

| Run | Instance | Shows |
| --- | --- | --- |
| `text_lifecycle` | 2 documents, 2 tasks, 1 file, 1 image and 1 text slot, 1 failure; text import, delete (also in batches), cleanup | `TypeOK`, `RowsOwned`, `FileHashUnique`, `IndexLossExplained`, `PurgedStaysPurged`, `OrphansExplained`, `ImplementsRegistry` |
| `scan_lifecycle` | 1 document, 2 tasks, 2 failures; import by endpoint and script, resubmission, delete, cleanup | `CompletedCount`, `ScanAttended`, `IndexLossExplained`, `ImplementsRegistry` |
| `liveness` | 1 document, 2 tasks, 1 failure, no symmetry; script, resubmission, delete | `ScanSettles`, `HandlerEnds` |
| `parse_service` | 3 tasks, 2 clients, 1 slot, 1 restart, 2 attempts | `SlotsRespected`, `WorkConserving`, `NoLostWakeup`, `DirsOwned`, `ResultExplained`, `DisbeliefExplained`, `ImplementsJobs` |
| `parse_liveness` | 2 tasks, 1 client, 1 slot, 1 restart, 1 lost answer | `OneLiveJob`, `JobsEnd`, `SyncAnswered`, `CallEnds` |
| `parse_router` | 2 services, one of them local, 2 requests, 1 fault, 2 errors make a record failed | `AssignmentsBalanced`, `DuplicateExplained`, `RecordTruthful`, `TerminalStays` |
| `router_liveness` | the same services, 1 request, 3 faults, 2 failed checks restart | `RequestAnswered`, `ServersRecover` |
| `fast_lane` | 2 queries, 3 documents, 1 event, entries that live 2 and 1 ticks | `RetrievalSettles`, `FiltersKept` |
| `query_service` | 2 queries, 1 document, 1 conversation, 1 event, entries that live 1 tick | `AnswersSettle`, `ExactAnswersFit`, `HistoryPrivate` |
| `conversation` | 3 calls, 2 questions, 2 conversations | `MessagesFit`, `ConversationFits`, `PanelFits`, `BusyWaits`, `Settles` |
| `claim_delete` | 1 scanned document | `DeleteRemovesEverything` violated |
| `claim_processing` | 1 text document, 1 failure | `ProcessingEnds` violated |

### Bounds

Documents. Two tasks are enough for every race the code has, since it is always
about two sessions, or one session and one handler. Two documents let a file be
imported again after its first document is deleted, a batch delete have a rest,
and a cleanup see one valid and one orphaned id. One file is enough for the
race on `file_hash`. One image slot and one text slot tell the rows
committed after the image loop from those committed at the end, and a batch of
one is stored or lost; batches that are stored in part need more slots, and the
invariants that are proved hold for any number of them. One failure separates
what a failure explains from what happens without one; the scanned path gets
two, so that each of two tasks of one document can meet one.

Parse service. Three tasks and one slot let one job run while a second is woken
and a third waits or is still queued; two attempts are a first and a retry; one
restart has something before it and something after. Router. Two services are
one that fails and one to turn to, and a local and a remote one differ in who
restarts them; two requests are a submission and somebody who asks for it, or
two who ask at once.

Caches. Two queries are one that makes an entry and one that uses it. `MaxRun`
bounds the ticks a query takes, `TTL` those an entry lives; the lags are formulas
of both, and the recall level is given a longer life than the rerank level so
that entries of the second are made of old entries of the first. One document
is there or not; the fast lane gets three: one that passes the filter, one that
does not, and one that does not and is found by its pages all the same. Page. Three calls are a preparation, its
execution and one that comes in between; with four calls and one conversation
the safety properties hold as well. The case of `MessagesFit` that takes five
calls is beyond the run, and is where the theorem says more than the run does.

Symmetry is used in safety runs only, where documents, tasks, files, slots,
queries and requests are interchangeable. `MaxFaults`, `MaxRestarts`, `MaxDrops`,
`MaxEvents`, `MaxRun`, `MaxPoints` and `MaxCalls` are the bounds that are not
parameters of the code.

Deadlock is checked in every run but those whose configuration says
`CHECK_DEADLOCK FALSE`: there nothing is left to do once every task, request or
call that the bounds allow is over.

### Statements the code does not keep

Each of these runs checks one statement of a doc, a docstring or a message, and
TLC finds a behaviour that violates it. The findings in `PROJECT.json` quote the
lines.

| Run | Statement | What happens |
| --- | --- | --- |
| `claim_delete` | a delete removes all data of a document | points and entries of a scanned document carry `document_id`, the delete looks for `doc_id` |
| `claim_processing` | "processing" ends in "completed" or "failed" | the text path's handler leaves the status as it is |

Others were met while modelling and follow from the modelled steps; they have no
run of their own:

* a file is reported as indexed and skipped while its document is in progress
  or has failed (`app/core/ingestion_pipeline.py:106`, `CheckFileHash`);
* a document is completed although Qdrant or Elasticsearch refused its chunks
  (`ingestion_pipeline.py:866`, `UpsertChunks`; `IndexLossExplained` says when);
* a delete of a scanned document leaves its PDF in MinIO, under a key no column
  records (`processor.py:91`, `ScanPdf`);
* documents of one standard share image keys, so that deleting one takes the
  images of the other (`ingestion_pipeline.py:347`, `TextImage`);
* a completed document is marked failed by its second task
  (`resubmit_pending_tasks.py:47`, `MarkFailed`);
* one point without `doc_id` makes `int("None")` raise, and a scan for orphans
  finds none (`endpoints/admin.py:58`), and a cleanup takes the points of a
  document inserted after it has read the ids (`admin.py:30`);
* a scanned document stays pending or in processing for ever when the outage that
  failed its task also defeats the handlers that would say so (`processor.py:148`,
  `MarkRaises`), or when the script commits its record and then does not or can not
  submit it (`import_scanned_pdfs.py:57`, `ScriptImport`);
* the visual recall ignores the filters of a question, so that its results hold
  pages of documents the filters exclude
  (`app/core/retrieval/visual_recall.py:98`, `Hits`);
* `max_poll_time` does not bound a call: a poll without a timeout may wait for
  ever (`app/core/document_processor/mineru_client.py:206`, `Hang`);
* the removal of a directory may fail unseen, and an upload that meets a shutdown
  leaves its directory (`src/MinerU/mineru/cli/fast_api.py:351`, `883`, `strays`);
* an expired task is answered 200 with an empty Markdown while its files are
  read (`src/MinerU/mineru/cli/fast_api.py:456`, `Results`);
* clearing the semantic cache may fail and is reported as done
  (`semantic_cache.py:189`, `ClearCacheFails`);
* calls that wait for a refresh are left waiting when it fails
  (`src/frontend/src/api/client.ts:163`, `RefreshFails`).

## Proofs

TLAPS proves the following theorems for every value of the constants that the
named assumptions of the modules admit.

| Theorem | Module | Statement |
| --- | --- | --- |
| `Invariance` | `DocumentLifecycleProofs` | `Spec => []IInv` |
| `TypeCorrect` | `DocumentLifecycleProofs` | `Spec => []TypeOK` |
| `RowsAreOwned` | `DocumentLifecycleProofs` | `Spec => []RowsOwned` |
| `FilesAreUnique` | `DocumentLifecycleProofs` | `Spec => []FileHashUnique` |
| `PurgedStays` | `DocumentLifecycleProofs` | `Spec => []PurgedStaysPurged` |
| `LedgerInvariance` | `DocumentLifecycleProofs` | `Spec => []LInv` |
| `CountsAreRight` | `DocumentLifecycleProofs` | `Spec => []CompletedCount` |
| `LossesAreExplained` | `DocumentLifecycleProofs` | `Spec => []IndexLossExplained` |
| `OrphansAreExplained` | `DocumentLifecycleProofs` | `Spec => []OrphansExplained` |
| `NobodyIsLeftBehind` | `DocumentLifecycleProofs` | `Spec => []ScanAttended` |
| `RefinesRegistry` | `DocumentRegistryProofs` | `Spec => ImplementsRegistry` |
| `Invariance` | `ParseServiceProofs` | `ServiceSpec => []IInv` |
| `ServiceTyped` | `ParseServiceProofs` | `ServiceSpec => []ServiceTypeOK` |
| `SlotsAlwaysRespected` | `ParseServiceProofs` | `ServiceSpec => []SlotsRespected` |
| `AlwaysWorkConserving` | `ParseServiceProofs` | `ServiceSpec => []WorkConserving` |
| `NeverLostWakeup` | `ParseServiceProofs` | `ServiceSpec => []NoLostWakeup` |
| `DirsAlwaysOwned` | `ParseServiceProofs` | `ServiceSpec => []DirsOwned` |
| `ServiceImplementsJobs` | `ParseServiceProofs` | `ServiceSpec => ImplementsJobs` |
| `ClientsKeepService` | `MinerUClientProofs` | `Spec => ServiceSpec` |
| `CallInvariance` | `MinerUClientProofs` | `Spec => []CInv` |
| `CallsTyped` | `MinerUClientProofs` | `Spec => []TypeOK` |
| `ClientsImplementJobs` | `MinerUClientProofs` | `Spec => ImplementsJobs` |
| `AlwaysOneLiveJob` | `MinerUClientProofs` | `Spec => []OneLiveJob` |
| `ResultsExplained` | `MinerUClientProofs` | `Spec => []ResultExplained` |
| `DisbeliefsExplained` | `MinerUClientProofs` | `Spec => []DisbeliefExplained` |
| `RouterInvariance` | `ParseRouterProofs` | `Spec => []RouterInv` |
| `AssignmentsAlwaysBalanced` | `ParseRouterProofs` | `Spec => []AssignmentsBalanced` |
| `DuplicatesExplained` | `ParseRouterProofs` | `Spec => []DuplicateExplained` |
| `RecordsTruthful` | `ParseRouterProofs` | `Spec => []RecordTruthful` |
| `TerminalAlwaysStays` | `ParseRouterProofs` | `Spec => TerminalStays` |
| `LaneInvariance` | `FastLaneProofs` | `Spec => []LaneInv` |
| `FiltersAlwaysKept` | `FastLaneProofs` | `Spec => []FiltersKept` |
| `SettleInvariance` | `FastLaneProofs` | `Spec => []SettleInv` |
| `RetrievalAlwaysSettles` | `FastLaneProofs` | `Spec => RetrievalSettles` |
| `RetrievalKeepsItsPromise` | `FastLaneProofs` | what `FastLane(r)` of `QueryService` takes for granted |
| `QueryInvariance` | `QueryServiceProofs` | `Spec => []QueryInv` |
| `HistoryAlwaysPrivate` | `QueryServiceProofs` | `Spec => []HistoryPrivate` |
| `ExactAnswersAlwaysFit` | `QueryServiceProofs` | `Spec => ExactAnswersFit` |
| `SettleInvariance` | `QueryServiceProofs` | `Spec => []SettleInv` |
| `AnswersAlwaysSettle` | `QueryServiceProofs` | `Spec => AnswersSettle` |
| `PageInvariance` | `ConversationProofs` | `Spec => []PageInv` |
| `MessagesAlwaysFit` | `ConversationProofs` | `Spec => []MessagesFit` |
| `ConversationAlwaysFits` | `ConversationProofs` | `Spec => []ConversationFits` |
| `PanelAlwaysFits` | `ConversationProofs` | `Spec => []PanelFits` |
| `BusyAlwaysWaits` | `ConversationProofs` | `Spec => []BusyWaits` |

Every invariant and every action property that a run checks is the statement of
one of them, and so are both refinements; a run is left alone with liveness only.

The assumptions are those of the modules: slots of images and of texts are finite
and disjoint (`StoresAssumption`); limits, thresholds and bounds are natural
numbers and a "no value" constant is no value; tasks of the parse service and
requests to the router are finitely many, since they are counted
(`ServiceAssumption`, `RouterAssumption`); filters and documents
of a question are finite, every filter has its place in the relaxation, which is
a sequence of names, and the threshold below which filters are relaxed is not 0
(`FastLaneAssumption`; `fast_lane.py:96` has 3); the value that stands for no
conversation is neither a conversation nor the number of a call
(`ConversationAssumption`).

### Documents: the inductive invariant

`RowsOwned` and `FileHashUnique` are nearly inductive; `PurgedStaysPurged` is
not: nothing in it says why a worker should not write a point of a document
that is purged, or why a delete that turns out clean at its end has emptied both
indexes. `IInv` adds

* `TaskOK`: a text task has a document from step 6 on, that document names this
  task and no other (`OwnerOK`), and is "processing" as long as the task runs;
  a scanned task has a scanned document;
* `ApiOK`: while a delete has been clean so far, no task works on its document
  (`Quiet`) and the indexes it has gone through have no point of it;
* `PurgedOK`: a purged document is deleted, and if it is a text document then
  no task works on it and no index has a point of it.

A text document gets no second task, so `Quiet` lasts; that is why `PurgedOK`
and `ApiOK` are restricted to text documents, and `claim_delete` shows that the
restriction is needed.

### Documents: the argument

The first part of `DocumentLifecycleProofs` shows of each action of a task that it
`Writes`: it stores points of its own document only, and adds to `rows` only what
its session had flushed. The second sums up every step of a worker and its
failures as `WorkerEffect`, with the insertion of a document
as the one exception (`TextStepEffect`, `ScanStepEffect`, `FailureEffect`);
`WorkerPreserves` then needs one proof for all of them. New documents are
handled by `BindPreserves`: an id that was free is known to nobody. The steps of
a handler that leave MySQL alone go through `ApiFrame`; the commit of a delete,
`DeleteFromMySQLPreserves`, is the step where `DocLocked` is used. `NextInv`
combines them. `DocumentRegistryProofs` maps the same `WorkerEffect` to a
completion, a failure or a stutter of the registry.

### Documents: rows and points

`CompletedCount`, `IndexLossExplained` and `OrphansExplained` speak of documents
that are completed, but what they rest on is fixed steps earlier, when a batch
goes to Qdrant, to Elasticsearch and to MySQL in one order on the text path and
another on the scanned one. `LInv`, a second inductive invariant on top of
`IInv`, follows the batch. `Shape` says what a task holds at each step. For each
document, `Ledger` says

* `SoleFits`, if it has one task: where that task stands tells which rows are
  there, and without a failure every point is a point of a row or of one the
  task is about to commit;
* `TaskIndexed`, if nothing of it was lost: what a task has flushed is in both
  indexes, except the batch it is about to write;
* `RowsIndexed`, likewise: only chunk rows that a task of the scanned path is
  still indexing are missing from an index, and there is one such task at a
  time, however often the document was resubmitted. The proof of
  `ScanChunksLedger` is the reason: the first task commits every chunk, so that
  the flush of a second one finds them and raises;
* `Tasked`: a document without a task is one that was never submitted or whose
  submission failed, and nothing of it is stored; so a document that is resubmitted
  either has two tasks or starts from nothing.

A step of a task on its own document is an `OwnStep`, and `OwnStepPreserves`
reduces it to what happens to that task and that document; a document that a
step does not touch is `Unnoticed` (`LedgerFrame`). There is then one lemma per
kind of step: `ToQdrantLedger`, `ToEsLedger`, `CommitImagesLedger` and so on,
`LeavePreserves` for every way a task can end, `BindLedger` for new documents,
`ApiLedger` for the handlers.

### Documents: who attends to them

`ScanAttended` is nearly inductive. What it lacks (`AttendInv`) is that the task has
more to do than the reload after its last commit: from there it ends without
writing a status, and an open document would be left. `ScanStepAttends`
goes through the steps of a task: each leaves it at work
or writes a status; `FailureAttends` through its failures: a raise is caught by a
handler that will write one, and one that cannot leaves the task among the `Stray`.
`WorkerAttends` draws the conclusion from
`WorkerEffect` for all of them, and `SubmitAttends` for the tasks that are new.

### The parse service

Neither `SlotsRespected` nor the refinement is inductive: a slot is handed over
before its owner runs, and a job that starts has to be the first of those that
wait. `IInv` of `ParseServiceProofs` says that processors which were woken,
processors that wait for the semaphore and the queue are one line: the three
sequences hold exactly the pending tasks, each once, sorted by number, and every
woken processor stands before every waiting one, every waiting one before
the queue. Submission appends to the line, and everything else takes from its
head or moves the border between its parts; the lemmas on sequences at the
beginning of the module say what Append, Head, Tail and concatenation do to it.
The refinement follows: whoever starts is the least number of those that are
left (`DispatchStarts`, `BeginParseStarts`), and there is room for it
(`RoomForOne`). `Wakeful` is the part behind `NoLostWakeup`. `FilesInv` is the
part behind `DirsOwned`: whatever removes files has first made their task unknown,
and whatever makes a task known has a whole directory for it (`FilesStep`).

### The clients

`ClientsKeepService` shows that a step of the composition is a step of the
service or leaves it alone, so that the theorems above hold of it too. `CInv`
adds what an answer says of its job (`HandlerInv`) and what a call knows of its
jobs: unless it was hit by a loss or a restart, or the manager stops, every job of it
but the present one is over (`CallInv`). An answer "unavailable" is given by a manager
that stops, and one that stops has been told so and does nothing but end (`Stops`):
that is why the excuse of `OneLiveJob` does not outlast it.

### The router

`RouterInv` relates each handler to the record and the jobs it will touch when
its answer arrives: a request without a record has no job either, unless an
answer was lost; an answer that says "completed" or "failed" and has not been
stored yet still says so of its job, since what has ended can only be
forgotten. `SameWay`, `WayGrows` and `WayShrinks` carry the count of
assignments; `RecordChanges` shows that handlers which wait for an answer do not
mind what others store meanwhile.

### The caches

`FiltersKept` and `HistoryPrivate` speak of queries, but a query is made from
entries and an entry from queries. `LaneInv` and `QueryInv` speak of both: an
entry fits its key, whatever query wrote it, and stays so as it grows older
(`OlderFits`). How long it may be out of date is no part of either.

### The caches: how long they may be wrong

`RetrievalSettles` and `AnswersSettle` speak of the end of a query and of the time
since the last change. What is between them is in no variable: which moment an
entry rests on, when entries are made of entries and queries of both. No
variable is needed for it either: an age is enough. `SettleInv` of
`FastLaneProofs` gives each kind of thing the time after which it is right: a
search after the age of its query (`quiet > s.age`), since nothing has changed
since it began; an entry of a level after one more query and its own age; a query
that used such an entry after `Span + MaxRun` and its own age. `quiet` and the
ages grow together, so that a tick keeps the three (`TickSettles`); a change puts
`quiet` to 0, and nothing is claimed any more (`ChangeSettles`); and a query that
writes an entry is at most `MaxRun` old. What is left is arithmetic on `quiet` at
the end of a query, and it gave a lower bound than the one the model had: an entry
is gone once it is as old as its level allows, and the last tick of its life does
not count. TLC confirms both halves, that the lower bound holds and that the next
one does not.

`RunRight` says what right is in the middle of a query: how far the filters are
relaxed (`RelaxedTo`), what the first round found, what the second adds.
`Right(index)` names the first `k` that finds enough; the code drops the filters
one after the other, those that the question does not have among them.
`DroppedIsNext` shows that the two walk the same way, and `FirstIs` that they
stop at the same place. Both need the least number of a set, which `Least` takes
from the well-foundedness of `<` (`WFMin`). `RightFinds` then is about the
operators alone: what is right is there, and is something if anything is, because
the relaxation ends (`FirstEnds`) and the best document is among the best `n`
(`TopFinds`). `RetrievalKeepsItsPromise` follows.

`SettleInv` of `QueryServiceProofs` does the same one level up, from the promise
of the lane: a point of the semantic cache that is too old to be used is right
whatever it says, and an apology rests on no documents (`ApologyFits`), so that
it says of the stores that they are empty, and is wrong when they are not.

### The page

A list of messages, a panel and a number of coroutines each believe something of
the others, and nothing but `abortControllerRef` connects them. The reason why things
fit is that of the calls under way that prepare or execute a question at most one
is not cancelled, and that it is the one `active` names (`ActiveOK`). `PageInv`
adds to it

* of each message (`MessageOK`, `ShowsOK`): while it streams it shows nothing, and
  what it shows belongs to its own call, or to one that was cancelled, or to one
  whose message is gone;
* of each call that will write into a message (`PlaceOK`): its message is the
  last, or it was cancelled, overtaken, or has lost its message;
* of the panel (`QuestionOK`) and of the list (`ListOK`): they belong to the
  question and the conversation on display unless a trace of the contrary is
  found in `call`.

The traces stay: a call that was cancelled or overtaken remains so
(`Follows`, `Grows`, `TracesStay`), and a message that is gone does not come back.
So each step of the hook is a step of the calls that `Grows`, and one of five
things that happen to the list: nothing (`ListKept`), it is replaced
(`ListReplaced`), a turn is appended (`ListExtended`), the last message is updated
(`LastUpdated`) or withdrawn (`LastWithdrawn`). The last one broke the first version
of `MessagesFit`, which knew nothing of messages that are gone: in the proof of
`LastWithdrawn` a call that is neither cancelled nor overtaken loses its place, and
the behaviour of five calls described above was read off the case that could
not be closed.

`BusyWaits` adds to `PageInv` that the page, while it is busy, has such a call at all
(`BusyOK`), and that a call which refreshes the token does so under the flag
(`RefreshOK`). The user's steps and the answers either end the state of busy or send a new call
(`UserWaits`, `SettleWaits`); the network and the refresh keep a call under way
unless it is cancelled (`NetworkWaits`), which is where "not cancelled" is needed:
a cancelled call ends silently when the token is there.

## Model-checked only

* `ScanSettles`, `HandlerEnds`, `JobsEnd`, `SyncAnswered`, `CallEnds`,
  `RequestAnswered`, `ServersRecover`, `Settles`: liveness under fairness is
  beyond the prover.
* `DeleteRemovesEverything` and `ProcessingEnds`, which the code does not keep.

The theorems are about the actions as they stand in the modules; that those are
the code is a matter of reading, line by line (`map` in `PROJECT.json`). The
invariants above were checked by TLC on the instances of the runs before they
were proved.

## Not modelled

* Content: text, vectors, scores, formatting, logging, progress messages; the
  query rewriting, expansion and ranking that decide which documents a search
  finds. A search gives what the filters let pass and the pages they do not reach
  (`Hits`), or, when a store fails or is late, any part of it.
* List and status endpoints, which only read; `batch_process_scanned_pdfs`,
  which waits for tasks and counts them.
* ColPali points as stored: they share the image's step and fate. That they are
  searched without the filters is modelled (`Hits`).
* The embedding levels of the cache, which map a text to its vector and cannot
  be stale, and the methods of `cache.py` nobody calls.
* `useStreamQuery` and `useQuery.ts`, which no answer of the backend or no page
  reaches; `retryLastExecution`, which no page calls; leaving the page, and the
  double effects of React's StrictMode.
* Of the router: the load of a service beyond its assignments, staging of
  uploads, GPU discovery and the launch of local servers.
* Authentication, deployment, and the maintenance scripts.
* MinerU's models, converters and pages, which are nine tenths of the lines of
  the repository: numeric inference and format conversion of a vendored project.
  The backend sees of them whether a parse ends and whether it succeeds, and that
  is what `EndParse` models.

## Plan

1. An abstract specification of the router, of which `DuplicateExplained`,
   `RecordTruthful` and `TerminalStays` are consequences, and its refinement.
2. The safety half of the remaining liveness properties as invariants, as
   `ScanAttended` and `BusyWaits` are of `ScanSettles` and `Settles`: that a request
   to the router, a waiting POST or a call of the client which is not over is
   attended to by a job or a handler that can go on.
3. `delete_document.py` and `ingest_markdown.py` as further clients of
   `DocumentLifecycle`.
