# ODIRAG: a TLA+ verification project

ODIRAG crawls the web sites of public institutions, keeps what it finds as
versioned documents, has people and language models review them, indexes the
approved ones for vector and keyword search, and answers questions from the
index.  A FastAPI process, a pool of Celery workers, a Celery beat scheduler
and the deployment scripts share a PostgreSQL database, a Redis broker, a
Qdrant collection and an in-memory BM25 index.  Most of what can go wrong lies
between those processes, which is what this directory models.

Everything below refers to the source by path under `src/`; `backend/app/` is
abbreviated to `app/`.

## 1. Inventory

### Crawl tasks (`app/services/crawl.py`, `app/repositories/crawl.py`, `app/crawler/state.py`, `app/tasks/`)

*State.* One `crawl_tasks` row per task: `status` (twelve values), the attempt
counter `retry_count` that administrators and the recovery job share, progress
counters, the provider.  The broker holds `odirag.crawl.execute` messages.

*Operations.* Create (row committed, then either a message or an inline
execution), claim, the provider-specific execution (Coze: `calling_coze`,
`coze_running`, `normalizing`; local; the generic adapter used by tests), save,
retry, cancel, recovery of stale tasks and the re-sending of pending ones.

*Interaction.* The row is the only synchronisation: claims and the steps
before saving are conditional updates; the last step of every execution, the
failure handlers, retry and recovery are ORM writes `UPDATE ... WHERE id = ?`
that do not look at the status they overwrite.

*Hard.* Duplicate and lost messages (late acknowledgement, visibility timeout,
ambiguous send errors), workers killed at any point, workers that come back
from a fetch after the task was cancelled and retried, a scheduler reading rows
that change before it commits.

*Correct when.* A message executes a pending task at most once; two workers do
not save one task's results; results of a cancelled fetch are not saved;
completed and cancelled tasks stay so; a task waiting for a reviewer is not
crawled again; every task that was asked for comes to rest.

### Crawling a column (`app/crawler/`, `app/schemas/coze.py`, `app/services/crawl.py` 226-860)

*State.* The frontier of one crawl (pages visited, candidates, failures), the
batch it ends in, the documents and failure rows saved from it.
*Operations.* Fetch with redirects and retries, list pages and pagination, API
fallback, article pages, the request to Coze, validation of a batch, saving.
*Interacts with* the crawl task, whose step it is, the documents it refreshes
and the failed URLs it leaves.
*Hard.* The site decides about the control flow; every request and every save
may fail, and which handler catches it decides what is lost.
*Correct when.* Every hop is validated, limits hold, a crawl ends, nothing that
was found is lost, and counters and status tell what happened.

### Failed URLs (`app/services/crawl.py` 927-1092)

*State.* `crawl_task_failures` rows of a task, `failed_count` of the task.
*Operations.* Queue a retry, execute it in a worker (one provider call), record
the outcome, close the `partial_failed` task when nothing is unresolved.
*Hard.* The execution claims nothing: a message delivered twice runs twice; a
worker that dies leaves the row `retrying`, which every entry point refuses.
*Correct when.* A row that no request accepts has someone working on it, the
task's counter agrees with its failures, what was resolved stays so, the task
leaves `partial_failed` when all are resolved.

### Attachments (`app/services/attachment_download.py`, `app/services/parsing.py`, `app/attachments/detection.py`, `scripts/process_attachments.py`)

*State.* The `attachments` row (download status, hash, path, parse status, text,
parser), the file it names.
*Operations.* What a crawl leaves (upstream text, a file, or nothing), download
with the reuse of valid local bytes, parsing with its cache, text recognition,
the refusals, the audit of pending rows.
*Interacts with* the index, which takes up attachments that have text.
*Hard.* The file and the row are not changed together and a pass can die
between them; nothing keeps two passes apart, each of which writes only the
columns that it has changed.
*Correct when.* Indexed text belongs to the bytes the row names; a pass leaves
text or a reason; a forced pass repairs what others have left.

### Review (`app/services/review.py`, `app/repositories/reviews.py`, `app/api/routes/reviews.py`)

*State.* `documents.final_status` and the three review statuses behind it, the
lineage rows that link documents to crawl tasks, `pending_review_count`.
*Operations.* Automatic review (rule filter, then language model), manual
decision, reconciliation of the tasks that wait for the document.
*Interaction.* With the saving half of a crawl task, which counts pending
documents and then commits `waiting_review`; two reviewers of one task meet in
`SELECT ... FOR UPDATE`.  Sessions are created with `autoflush=False`
(`app/database/session.py` 34-39), so a query does not see what the same
session has assigned but not flushed.
*Correct when.* A task waits for review exactly as long as one of its documents
is undecided; its counters agree with its documents; a manual decision stands
until the content changes.

### Document versions (`app/services/versioning.py`, `app/repositories/documents.py`, `app/api/routes/documents.py`)

*State.* `documents.version`, content, `document_versions` history.
*Operations.* Metadata update, content refresh by a crawl, reparse, delete.
*Correct when.* The history has one entry per version, in order, and the newest
equals the document.

### Indexing and invalidation (`app/services/indexing.py`, `app/services/document_index.py`, `app/repositories/indexing.py`, `app/vector_store/store.py`, `app/bm25/`)

*State.* Chunks and their `vector_status`, `documents.index_status`, Qdrant
points (deterministic identifiers per document version and chunk), the BM25
index of one API process.
*Operations.* Index a document (embed, upsert, switch the chunks in the
database, delete the old points, mark indexed), invalidate a document, rebuild
BM25.
*Hard.* Two stores without a common transaction: a crash or an error between
any two steps; a document refreshed, rejected or indexed again while an
embedding request is outstanding.
*Correct when.* What a search may return is backed by an approved document of
the version that was indexed; an indexing run that failed leaves the previous
index usable.

### Source discovery (`app/services/source_discovery.py`, `app/repositories/source_discovery.py`, `app/tasks/source_discovery.py`)

*State.* Discovery runs (`pending`, `running`, `awaiting_approval`, `failed`,
`activated`, `no_gap`) and their counters, candidates (`discovered` to
`activated`, `rejected` or `failed`) with their columns, the sources that
activation creates.
*Operations.* Create, claim and execute a run, approve, reject and activate a
candidate, retry a failed run, the weekly scan.
*Hard.* Claims are conditional updates, but counters are read and written back,
and neither an execution nor an activation that dies is ever recovered.
*Correct when.* A candidate becomes a source once, only after an approval; a
run's counters agree with its candidates; no run or candidate is stuck.

### Tokens and sessions (`app/services/auth.py`, `app/repositories/users.py`, `app/security.py`)

*State.* `users.token_version`; the version inside each token.
*Operations.* Login, refresh (bumps the version), logout (bumps the version).
*Correct when.* A refresh token is accepted at most once, and nothing issued
before a logout is accepted after it.

### Rate limiting (`app/rate_limit.py`)

*State.* A counter per identity and window, in Redis or in memory.
*Correct when.* No window admits more than its limit; a counter without expiry
cannot lock an identity out; Redis failures fail closed.

### Release transaction (`deploy/production/scripts/deploy-release.sh`, `release-common.sh`, `rollback-release.sh`)

*State.* The `current` and `previous` links, the release state file and its
backup, the journal, the running containers.
*Operations.* Deploy, verify, commit, restore after failure, recover an
unfinished transaction on the next start.
*Hard.* The script can be killed between any two commands, in recovery too.
*Correct when.* After a recovery the links, the state file and the running
containers all belong to one release: the old one or the new one.

### Query embeddings (`app/embedding/cached.py`, `app/cache/embedding.py`)

*State.* The task registered for each query being embedded, the cached vectors.
*Operations.* Join or start the task of a query, await it under a shield, load
from the cache, call the provider, store, forget the task.
*Hard.* Requests for one query arrive, are cancelled and fail while its task is
in any state.
*Correct when.* A query is embedded once at a time, no caller ends the task for
the others, everyone who waits goes on.

### Retrieval and answering (`app/retrieval/`, `app/rag/`, `app/rerank/`, `app/llm/`, `app/router/`, `app/services/chat.py`)

*State.* What a request has found so far, and the query trace it stores.
*Operations.* Route, count, search by keywords and vectors, reciprocal rank
fusion, rerank, judge the evidence, ask a model, check what it wrote, store the
trace, answer; or return the hits.
*Interaction.* A request keeps the BM25 index it started with and meets the
administrator in the vector store.
*Hard.* Every provider may fail or return nonsense, each with a policy of its
own; scores change their scale on the way; the checks before and after the
model look at different sets of hits.
*Correct when.* A ranking is free of duplicates and respects both searches; an
answer cites only sound evidence that was retrieved for it, is covered by what
it cites and introduces no URL; what was deleted is not found; whoever has an
answer finds it in the trace; every request ends.

### Alerts and metrics (`app/services/observability.py`, `app/repositories/observability.py`, `app/metrics.py`)

*State.* Alert rows (`open`, `acknowledged`, `resolved`), metric snapshots.
*Correct when.* One open alert per rule; an alert resolves when its rule does.

### Evaluation, experiments, feedback, data quality, prompts, source configuration, backup and restore scripts, frontend

Request-sized read-modify-write operations and report generators with little
shared state; see `PROJECT.json` for why each is or is not modelled.

## 2. Modules

| module | models | refines / composes | theorems in |
|---|---|---|---|
| `CrawlTask` | one task row x workers x requests x recovery x broker | | `CrawlProofs` |
| `CrawlReview` | the saving half of crawl tasks x documents x reviewers | | `CrawlReviewProofs` |
| `FailedUrls` | the failed URLs of one task x requests x workers x a further crawl | | `FailedUrlsProofs` |
| `ReleaseSwitch` | what a release command promises | | |
| `ReleaseTransaction` | the release script, its exit handler and recoveries | refines `ReleaseSwitch` | `ReleaseTransactionProofs` |
| `DocumentIndex` | one document x its chunks, points, BM25 index x requests x crawl | | `DocumentIndexProofs` |
| `SourceDiscovery` | one discovery run and its candidates x workers x administrators | | `SourceDiscoveryProofs` |
| `ColumnCrawl` | one crawl of a column by either provider, from the first request to the task's rows | moves the status as `CrawlTask` allows | `CrawlProofs` |
| `Attachments` | one attachment and its files x passes of the scripts | | `AttachmentsProofs` |
| `QueryEmbedding` | the shared embedding of queries x callers x tasks | | `AnswerPipelineProofs` |
| `AnswerPipeline` | questions and searches x the stores x an administrator | extends and implements `QueryEmbedding` | `AnswerPipelineProofs` |
| `MC...` | constants and symmetries of `CrawlReview`, `FailedUrls`, `ReleaseTransaction`, `Attachments`, `AnswerPipeline` | | |

In every module a definition whose comment begins "Fault of ..." is a mutated
form of the definition after it.  It is used by nothing in the specification;
putting it in the place of the original must make TLC report the property that
`PROJECT.json` pairs it with.

What holds in all of them: an action is one committed transaction, or the read
or the write of a transaction that another session can come between.
Conditional updates are one action.  An ORM write is two: the read that loads
the row, and the write of the changed columns that ignores what has happened
since (`expire_on_commit=False`, `autoflush=False`, READ COMMITTED,
`app/database/session.py` 34-46).  Variables marked "history" are read by
properties only.

### `CrawlTask`

One task row and everything that writes it.  `status`, `retry_count` and
`provider` are columns; `messages` counts undelivered execute messages;
`pc[w]` and `view[w]` are a worker's position in `CrawlService.execute` and the
status its session holds; `api[r]` and `apiSeen[r]` the position of a create or
retry request and the counter it read; `recovery` and `recoverySeen` the same
for the recovery job.  `claims`, `saves`, `reopens`, `doomed` and `crossed` are
history.

Exceptions (provider errors, database errors, Celery's soft time limit) may hit
a worker at every step (`RaiseError`) and go to the handler the code has there;
the handlers are the steps `failing`, `fail_write`, `local_rescue*` and
`rescue*`.  `Crash` kills a worker, `SendErrors` says what may have become of a
message when `send_task` raises, `Lossy` lets the broker lose one.

Timestamps are replaced by the condition `Stale`: a row is stale once no worker
subject to a shorter hard limit is alive and every request has ended
(`celery_task_time_limit_seconds` = 1800 = `crawl_stale_after_seconds`,
`app/config.py` 81-86).  Inline executions have no limit and may outlive it, as
may the workers of a deployment that raises the hard limit, so the set of such
workers is the constant `Outliving`.  `MaxRecovery` is the code's bound;
`MaxMessages` (messages beyond it are merged) and `MaxReopens` (the
administrator stops retrying) are bounds of the model.

`crossed` becomes true when a retry is written, a row is recovered or a queue
failure is recorded while another actor is still inside the task.  Nothing in
the row identifies the execution that holds it, so after such a crossing an old
worker's conditional updates succeed again.  The properties that need one
execution at a time hold until then, and `crawl_cancelled_fetch` shows what
happens afterwards.

| run | shows |
|---|---|
| `crawl_faults` | all providers, an inline and a pool worker, two requests, crashes, exceptions, lost and duplicated messages: `OncePerRound` (a round, the time between two writes of `pending`, sees at most one claim and one entry into saving, crossed or not, and uncrossed workers exclude each other); uncrossed, a fetch outstanding at a cancel is not saved, `completed` is final and a waiting task is not recrawled; and under fairness every open task comes to rest |
| `crawl_cancelled_fetch` | **violated**: a retry while a cancelled fetch is outstanding lets the cancelled result be saved |

Two workers, two requests, a recovery and a reopening are enough for each of
the overlaps: an old and a new worker of one row, two administrators, a
recovery between them.  Deadlock is not checked because a task that has
completed is a legal end.

*Fairness.* Workers take their next step (weakly: nothing disables it),
messages are delivered to an idle worker (strongly: a worker may be busy in
between), requests and the every-minute recovery job finish.  A recovery pass
may be abandoned, so its write needs strong fairness.  Crashes and exceptions
are not fair, and nothing forces an administrator to act.

### `CrawlReview`

`task`, `pending` and `rounds` are the task rows (`pending` holds the documents
behind `pending_review_count`, so that a count that is right by accident is
still told apart), `doc` the review columns, `lineage` the link between them.
`saver`, `draft`, `renewed` and `tally` are the saving transaction of a task;
`reviewer`, `target`, `loaded`, `chosen`, `flushed`, `held` and `tallies` the
transaction of a reviewer.  `missed` is history: the tasks of a document that
was decided in a transaction whose count did not see the decision.

A saver rewrites its documents under their row locks (`SaveArticles`), counts
(`CountPending`) and commits (`FinishSave`).  A manual decision is flushed
before `reconcile_crawl_tasks` counts; the automatic review assigns
`final_status` after its last flush, so its count reads the old status
(`SeenRow`) and its decision is written at the commit.  `RowFree` and
`TaskFree` are the row locks; `LockTasks` takes the locks of `SELECT ... FOR
UPDATE` in one step, and a deadlock in the database is an `AbortReview`.

Abstractions: a document has one of the four final states and the manual mark;
the rule filter's verdict is a choice; the flush of the rule filter takes its
lock a little later than the code does, which allows more interleavings; the
generic adapter, which tests use, and the deletion of documents are left out.

| run | shows |
|---|---|
| `review_reviews` | two reviewers, a task of two documents, cancelled and crawled again: unless a decision was missed, a task waits exactly as long as one of its documents is undecided, its count names them, and it closes only when all are decided; a cancel survives a review in progress; a manual mark is only lost to a new text |
| `review_automatic` | **violated**: the automatic review of the last document leaves its task waiting for nobody |

`MaxAutomatic` and `MaxRounds` bound how often the automatic review and a new
crawl are started; one of each suffices because every started review already
overlaps with every other transaction.  Reviewers and documents are
interchangeable (symmetry; the run checks no liveness).  The four properties of
`review_reviews` are also proved for any numbers of everything.

### `FailedUrls`

`row` holds the rows of `crawl_task_failures`, `task` the status and
`failed_count` of their task, `messages` the undelivered messages of each row.
`request[r]` is `retry_failed_url` (`QueueRead`, `QueueWrite`, `SendOk`, or
`SendError` and `MarkQueueError`), `worker[w]` is `execute_failed_url` with what
it has loaded (`Load`, `MarkRetrying`, `Succeed`, `Fail`, and `Escape` for what
no handler catches), `crawl` a further crawl of the task that reports failures
of its own (`CrawlReads`, `CrawlSaves`).  A row is identified by URL and stage
(its place) together with its error code, under the table's unique constraint:
a retry that fails writes the new error's code and so changes the identity.
`Succeed` counts and commits in one action, because the count
(`count_unresolved_failures`) only decides what the same commit writes to the
task; a row that another session commits in between makes the same difference
to the task's status as one that is committed just after, and `failed_count` is
not compared any more once two executions overlap.  Workers may die, messages
may be lost, repeated or taken by a broker that reported an error.  Left out: the documents
the retry saves (`ColumnCrawl`, `CrawlReview`), backoff times (nothing reads
them), `retry_count` (it only sets them).

`lost` (rows that a fault left queued or retrying), `crossed` (rows at which
two have met), `counting` (no two executions and no crawl so far) and `crawls`
are history.

| run | shows |
|---|---|
| `failed_urls` | two rows of one place, two codes, two workers, a request, a further crawl: a row that no request accepts has a message, a worker or a request behind it unless a fault took them away; `failed_count` is the number of unresolved rows until executions overlap or the task is crawled again; a resolved failure stays resolved unless two were at its row |

Two rows of one place are what a change of identity can collide with; two
workers are the overlap at one row and at two; two messages per row
(`MaxMessages`) are the repeated one and a second retry; one further crawl
(`MaxCrawls`) may keep, reopen and add rows.  `VIEW Counted` leaves
`failed_count` and its copies out of the state once `counting` is false: no
guard reads them and no property does from then on.  No fairness is stated:
without a claim nothing makes a retry happen, and the known behaviours below
say what stays behind.

### `ReleaseTransaction` and `ReleaseSwitch`

`current` and `previous` are the links, `running` the release each service
runs, `record`, `backup` and `copying` the state file of every release and its
two copies, `journal` the transaction file; `pc`, `operation`, `target` and
`handling` the command that holds the lock.  One action per command of the
script that changes a file, a link or a service.  A step may fail or be
signalled (`HandleExit`, which the script turns into a restore), a service may
come up only in part (`UpPartly`), and the process may be killed anywhere, in
the exit handler and in a recovery too (`Stop`).  The next command finds the
journal and restores first.

The content of a state file is what it names and a stamp that tells two files
for one release apart, because the script compares checksums; `MaxStamp` = 5
state files allow the longest case in which copies of an earlier command are in
the way: legacy to A, to B, to A with a copy left behind, to B, to A.  Renames
take effect in the order they are issued: the scripts call no fsync, and a host
that loses power is outside the model.

`ReleaseSwitch` says what a command promises: it switches to another release in
one step or changes nothing.  Under the mapping `CommittedCurrent`,
`CommittedPrevious`, `CommittedRecord` the originals in the journal stand for
the links and the state file until the journal is removed; the removal is the
atomic switch, and everything else, crashes and recoveries included, stutters.

`release_switches` checks that whenever no journal is left the services run the
current release and its state file names the previous one, that what the
journal promises to bring back can be found, the refinement, and that a journal
is eventually consumed.

*Fairness.* `runbooks/release-deployment.md` 54-58 tells operators to run the
recovery until it succeeds: commands keep being issued and a running one goes
on, and failures, signals and kills stop after a while (`<>[][~Faults]_vars`).

### `DocumentIndex`

`row`, `history`, `chunks`, `searchable` (their `vector_status`) and `lineage`
are rows of PostgreSQL, `points` the document's points in Qdrant, `bm25` the
index in memory and `snapshot` its file.  `request[r]` is a handler of the one
API process: its next step and what it has read.  A text is identified by who
wrote it, a chunk id by version and place, which is what the code's
deterministic ids are computed from.

`Reindexing` is `index_document` with its exception handler, `Editing` is
update, reparse and deletion with their invalidation, `Rebuild` the BM25
rebuild at the end of each.  The crawl's refresh, the attachment script, the
reviewers and `scripts/rebuild_bm25.py` are steps beside them.  A failed vector
store call may have done any part of its work; a failed transaction is rolled
back (a commit whose outcome is unknown counts as rolled back); `Restart` is a
crash anywhere.  The document, its attachments and its chunks are read in one
step.

| run | shows |
|---|---|
| `index_retries` | one request at a time next to crawl, reviewers and scripts, with failures and restarts everywhere: indexed chunks have their points, the history is faithful, a point is lost track of only in the three ways `PointsStayKnown` lists, and retrying converges |
| `index_stale_mark` | **violated**: a crawl's refresh during an indexing is overwritten by `indexed`, with the chunks of the old text |

`Requests = {r1}` and `MaxVersion = 2` give 160 000 states with liveness; two
overlapping requests were checked for safety, and the theorems hold for any
number of requests and versions.

*Fairness.* Calls return; operators retry the reindexing of an approved
document and come to do one thing at a time; failures stop after a while.

### `SourceDiscovery`

`run` and `attempts` are the row of the discovery run, `status`, `columns` and
`sources` the rows of its candidates, of their columns and of the sources made
from them; `messages` counts undelivered run messages.  `worker[w]` is an
execution of `SourceDiscoveryService.execute`: its step, whether it is a retry,
the hits still to come, the candidate in hand and what its trial crawl has
counted.  `request[r]` is a create, retry or activation request.  `retries`,
`vetted`, `dropped`, `abandoned` and `crossed` are history: a candidate is
vetted while its columns are the ones an administrator approved, dropped once
an exception inside a transaction has expired it (the handler then raises while
it reads `candidate.id`, line 388), the run is abandoned once a process or a
message is lost and crossed once two workers have executed it at once.

Pages are reduced to what the code tells apart: `Homepages` and `Documents` are
the combinations of the tests of `_validate_official_status` and
`_classify_topic_relevance`, and the actions choose among their results.
`Passes` is the quality formula in ten-thousandths times the number of
documents, without the code's rounding to four digits.  A column row is
identified by its URL and by the worker that inserted it, so that a worker
whose column was deleted by the reset of another one fails as it does in the
code.  Left out: display counters, audit events, the cooldown between two
automatic runs of a topic; a commit whose outcome is unknown counts as rolled
back.

`discovery_rounds` has one site with one column, two workers, two requests, two
documents per trial and one retry: the smallest instance in which a stale retry
meets a second worker and an activation meets a retry.  Two columns or two
retries were checked for safety too (15 and 2.7 million states).  It shows that
a source is made only from evidence an administrator approved and agrees with
its candidate, that a retry leaves decisions alone, that whatever is put before
an administrator can be activated (for every threshold above one half, and the
default is 0.65), that handled errors leave no candidate half inspected, and
that whatever is not lost settles.

*Fairness.* Workers take their next step (weakly), messages reach a worker that
is idle again and again, requests end (strongly, as the inline execution of a
run has to wait for a worker that is idle).  Errors, deaths and administrators
are not fair.

### `ColumnCrawl`

What happens inside the one step that `CrawlTask` calls a provider's fetch, and
inside the saving that follows.  `fetch` is a call of `HttpFetcher.fetch`: the
URL asked for, the URL of the hop in hand, the one that was validated, hops and
attempts.  `scan` holds the local variables of `_discover_result` and
`_discover_api_fallback`, `candidates`, `seen` and `failures` are theirs by
name, `articles` and `claim` the batch (`claim` is what the batch says about
itself), `next` the index of the loop in hand and `task` the row with its
failures and the documents linked to it.

The generic crawler walks list pages (`ListPage`, `ListResponse`, `AddLink`),
takes a first page without links for an article or asks an API (`Fallback`,
`ApiPage`, `ApiResponse`, `AddItem`, `NextApiPage`) and chooses the next page
(`Turn`); the gov.cn adapter reads a feed (`FeedResponse`).  Then articles are
fetched (`FetchDetail`, `DetailResponse`) and a batch is made (`LocalBatch`).
Coze answers a request that may be repeated (`CozePost`, `CozeResponse`,
`CozeFails`).  Both batches are saved article by article.  Where the code
catches an exception depends on the purpose of the fetch (`ListError`,
`ApiError`, `DetailError`): the first page fails the crawl, a later one ends
the paging, a hint is skipped, an article becomes a failure.

URLs are list pages by number, articles, APIs, a page of another site and one
that is malformed.  A generated next page is a second spelling of a list page,
because `_replace_query` does not sort its parameters as `normalize_url` does.
Which links a page has, which look like articles, how they score and whether a
page can be parsed are choices of the site.  Requests to Coze carry no limit
that the answer is checked against, so none is stated.

| run | shows |
|---|---|
| `column_sites` | against every such site: no hop is requested that was not validated itself; `max_articles` and `max_pages` hold; the generic crawler takes no article twice (but for a direct candidate); a crawl that does not fail records every candidate, article and failed URL; success means that nothing failed; `failed_count` is the number of failure rows unless a URL was reported twice; every crawl ends |

Bounds: two articles, two APIs, list pages 0 to 2, two pages, one redirect and
two attempts per fetch, two API pages, a Coze answer of two articles and one
failed URL.  Each limit can be met and missed, a page can link back, forward
and to itself, and an API page can redirect to one that has answered.  The only
fairness is that a running crawl takes its next step; a provider that hangs is
ended by timeouts that the code sets on every request.

### `Attachments`

`row` is an attachment's row and `file` the bytes in the files it may have: the
crawl's, named after the URL's ending, which a sibling URL with the same ending
shares, and the two that a download names after what it detected.  A pass of
the scripts (`process_attachments.py` with or without `--force`, the audit)
loads all its rows first and works on one after the other, so `loaded[p]` is
the copy it started with and one row is enough.  `Flush` is the ORM's update:
it writes the columns that differ from those loaded.  The download is
`CheckLocal`, then `SaveFile` and `CommitDownload` (the pass may die between
them), `CommitUnsupported` or `CommitFailure`; the parsing is
`UseUpstreamText`, `RefuseUnread`, or `ReadFile` followed by `KeepCached`,
`RefuseLegacy` or `Parse`.

`Kind` says what detection and the parsers make of given bytes: text, pages to
be recognized, no text, an image, a legacy or another format, or an error.  Any
bytes may come with every download.  Left out: versions of parsers (there is
one of each), size limits of formats, the retryable mark and `processed_at`;
the scripts pass no recognition provider, so for them `OcrOutcomes` is
`{"unavailable"}`, and the others are those of a deployment that has one.

`alone` (no other pass since this one started), `muddled` (passes have
overlapped since the text was last redone by a forced pass of its own) and
`outcome` (the mode of the pass that ended last, if it ran alone) are history.

| run | shows |
|---|---|
| `attachments` | three passes, two at once: until passes overlap, and again after a forced pass that ran alone, indexed text is that of the bytes whose hash the row has, or the upstream text, wherever passes die; a pass that ran alone leaves no row pending and none without text or a reason, and a forced one that downloaded leaves the text of the file |

Bounds: two bytes with text (before and after a change), one of every other
kind, `MaxPasses` = 3 (two that overlap, and one that repairs), one download
error, since all take the same path with a code of their own.  The theorems
hold for any bytes, errors and passes.  No fairness is stated: passes are
commands that an operator runs.

### `QueryEmbedding`

`task` holds what every task of `_load_or_embed` awaits or ended with,
`inflight` is `_inflight`, `cache` the entry of every query and `caller` the
task that each request awaits.  `embed_query` joins the registered task or
begins one, `CancelCaller` is a cancellation that the shield keeps from the
task, `ClearInflight` is the cleanup that runs some time after the end.  An
identity in `Tasks` is used again once nothing refers to it.  Cache failures
count as misses, as in the code; a vector of the wrong length is a vector of
its own (`invalid`), because the provider's answer is stored and returned
unchecked, and only what is read from the cache is checked.

`QueryEmbedding` has no run of its own: `AnswerPipeline` extends it, and the
run `answers` checks its properties with the steps of whole requests.  A caller
that was cancelled leaves its task running and comes again, so that a task that
ended and is still awaited, or still runs for nobody, meets the one registered
after it.  Keys share nothing, so one query is enough; the theorems hold for
any number of callers, queries and tasks.

### `AnswerPipeline`

`request[r]` is a request of `ChatService.answer` (kinds `sql`, `rag`,
`composite`) or of `RetrievalEngine.search` (the four modes): its next await,
the BM25 index it captured, the rankings as long as later steps read them, the
final hits, the eligible and the citable ones, the answer and the stored trace.
`points`, `rows` and `bm25` are the stores, `admin` the request that deletes or
indexes a document between them (its failures and races are `DocumentIndex`).
`gone`, which properties only read, holds the chunks that were deleted before
the request came.

Everything between two awaits is one action: `Retrieve` searches BM25 and calls
`embed_query`, `VectorSearch` fuses, `Rerank` validates the ordering and goes
through threshold, evidence gate and grounding to the model or a refusal
(`Judged`), `Generate` checks the text (`Accept`).  Fusion is computed in exact
arithmetic: scores are whole numbers of 1/`Unit`-ths, where `Unit` is a common
multiple of the denominators `rrf_k + rank` (`ScoresAssumption`).  The code's
floating-point sums order chunks in the same way as long as the differences
between them, at least 1/(`rrf_k` + rank)^2, are far above its rounding.
`InOrder` is sorting by a strict total order and `Keep` the filtering of a
ranking; both are written as functions, because the library's `SortSeq` and
`SelectSeq` are recursive and nothing could be proved about them.
Rerank scores are low or high, and the threshold and the minimum score none or
in between, so that both sides of each test and the fused scores, which are all
far below a half, meet them.

What texts say is abstracted to `corpus`: for every chunk the terms of each
aspect it holds and the demands (relation, scope, exact values, form) it meets,
whether it is official, its policy and date; for the question, what each aspect
demands.  The composition of these facts by the gate (what one hit must state,
what several may state together, the fallback when no hit states both relation
and scope) is the code's.  A text of the model cites any of the context and
unknown ids, contains any one URL, and its claims are supported or not.  Left
out: the inference of filters, conflicting statuses (`policy_status` is written
by no indexer), the terms' weights, `minimum_hits` other than one.

`answers` has one request, because requests share only the embedding (checked
for itself) and the stores (whose other user is `admin`).  Ten corpora of three
chunks and two aspects contain a superseded version, evidence that only two
chunks give together, an unofficial chunk, an aspect nothing covers, one that
may not be answered, and titles without text; three deployments combine the
three kinds of models, rerank policies and minimum scores.  The final hits are
cut to two of three.

*Fairness.* Every call that a request or a task awaits returns or raises (the
caches, stores, providers and models are called with timeouts) and the event
loop runs what is ready.  Cancellations and failures are not fair.

| run | shows |
|---|---|
| `answers` | no duplicates, a fusion in which agreement of the searches counts, citations that are retrieved, official, not superseded among the eligible, and cover the question after a model wrote it; the URLs of an answer belong to what it cites; deleted chunks are not found; a query is embedded by one task at a time, which no caller ends for the others; every question and search ends |

## 3. Proofs

All theorems hold for every value of the constants that satisfies the
assumptions named next to their declaration.

`CrawlProofs`, of `CrawlTask`.  `Typing`.  `ClaimedOncePerRound` and
`SavedOncePerRound`: the counting form (`claims + Unclaimed <= 1`, where `Unclaimed` is 1 while the
row can still be claimed) is what makes them inductive, since a claim consumes
the permission.  `ExclusiveUnlessCrossed` and `CancelledFetchUnlessCrossed`
rest on an invariant saying that, uncrossed, a worker is active only while the
row is not open, that requests and recovery are not in between, and that a
doomed worker sees a cancelled, failed or recovered row.  `RoundIsOneExecution`
puts the first three together as `OncePerRound`.  `SettledStays` adds that,
uncrossed, whoever is about to write without looking at the status has loaded
one that is neither completed nor waiting for review (`KeptApart`).

`CrawlProofs`, of `ColumnCrawl`.  `LimitsHold`, `HopsAreValidated`,
`NothingIsLost`, `SuccessIsWhole`, for any site, any sets of articles and
endpoints and all limits.  The first two rest on `WalkInv`: the types, and the
facts that make the loops of the crawler safe.  Every page that was requested
has been counted (`PagesCounted`), wherever a candidate may be found there is
room for it (`RoomLeft`, which is what the test at the end of a link or item
loop is for), the hint and the article in hand exist (`HintInHand`,
`CandidateInHand`), and the generic crawler remembers what it has listed
(`Remembered`; the direct candidate is the exception that the property states).
The other two add `BookInv`.  While articles are fetched, every candidate
before the one in hand is an article or a failure (`DealtWith`); while a batch
is saved, its failed URLs and the articles before the one in hand are on record
(`OnRecord`); `failed_count` runs ahead of the failure rows by the failed
articles that are still to come (`Tally`), because the provider's count is
written before the rows are.  Neither invariant can do without the other's
`CandidateInHand`: an article that fails is a failure of the candidate it was
fetched for.  Since equal failures share a row, `Tally` needs that `RowsOf`
keeps one row of each identity, the last (`RowsOfAll`, by `GreatestIndex`), and
one for each failure if all are distinct (`RowsOfCount`).  `MovesAreAllowed`
connects the two modules: no step of a crawl moves the status of its task
otherwise than `transitions` of `CrawlTask` allows.

`CrawlReviewProofs`.  `Typing`, `WaitsForItsDocuments`, `ClosesReviewedTasks`,
`CancelStands` and `ManualMarksKept`.  Three invariants carry them.  `Core` says
who holds which row lock, and that a reviewer holds only waiting tasks of its
own document; it gives `CancelStands` directly, as a cancelled task is held by
nobody.  `Tallied` relates what a transaction has counted to what its commit
will leave: between counting and commit the locks keep the counted documents
and tasks as they are, for every task that missed no decision.  `Marks` says
that the drafts of a saver and the copies of a reviewer hold the manual marks
they found, unless the text was renewed.

`FailedUrlsProofs`.  `Typing` and `NothingIsStranded`.  A row that is queued or
being retried has a message, a worker or a request behind it: inductive once it
is known that whoever is at a row found it in the database and rows are never
removed, and that every action which takes a message or a worker away puts
something in its place or the row into `lost`.  `ResolvedStaysResolved` needs
what somebody at a row may rely on while nobody else was there (`AtOpen`): the
row is not resolved, so a write that is not a success does not undo one.
`FailedCountIsRight` relates the counter in the database and the copies that
executions have loaded to the unresolved rows (`CountKept`): while nothing
overlaps, a loaded copy is still the row's, and resolving one row takes one
element from a finite set.

`SourceDiscoveryProofs`.  `TypeCorrect`, `SourcesAreActivated`,
`ApprovableCanBeActivated`, `DecisionsAreKept` and `NoCandidateIsForgotten`.
The third is arithmetic about the weights: without a successful trial a score
does not reach any threshold above one half, whatever the other parts are; it
needs that a worker's tallies are within its trial and that the columns of a
candidate are finitely many.  The others rest on who may write a candidate
while no two workers have executed the run at once: a worker of a retry has
loaded what an administrator has not decided since, an activation in progress
holds the candidate it has claimed, and a candidate in an intermediate state is
in the hand of the worker that put it there.

`AnswerPipelineProofs`.  `TypeCorrect`, `FusionKeepsPreferences`,
`AnswersCiteSoundEvidence`, `AnswersAreCovered`, `DeletedStaysUnfound`,
`PipelineEmbeds` and `PipelineSharesTasks`, and about the provider by itself
`EmbeddingTyping`, `SharedOnce` and `TasksOutliveCallers`.  Requests touch each
other only through the stores and the shared tasks, so most of the invariant is
about one record (`Sound`): its rankings hold a chunk once and the fused one is
the fusion of the other two until it is used (`SearchSound`); nothing that was
deleted before the request came is in anything it holds (`GoneStays`), which is
inductive because every later ranking is cut out of the captured index and the
vector store; and before the judgement nothing may be cited, afterwards only
what is sourced, and what is stored covers the question (`EvidenceSound`).
`StoresAgree` says by which chunk the stores may differ while the administrator
is between two steps, so that a request arriving then sees no deleted chunk in
the index it captures.  The theorem about fusion needs no induction over the
rankings: `InOrderLists` shows by counting that `InOrder` lists a finite set in
its order, and two lemmas about products (`ShareFalls`, `SharesOutweigh`)
compare the reciprocal ranks: a better rank adds more, and two ranks up to
`rrf_k` add more than any one.  For the provider, typing and `OneCallPerQuery`
are inductive together: when no task is registered for a query none works on
it, so a new one is the only one, and what is cleared has ended.
`PipelineEmbeds` is the refinement: a request awaits a task exactly while it
embeds, so what it does is a step of `EmbeddingNext` or leaves the provider
alone.

`AttachmentsProofs`.  `Typing`, `TextIsOfItsBytes`, `OutcomeIsLeft`.  Both
properties speak of passes that ran alone, so the invariant says what such a
pass may rely on: its copy is the row (`Solitude`), while nothing is muddled
whoever runs does so alone, a forced pass that has come to parsing has stored
what it parses (`Redone`), and a row without a file has the upstream text or
none (`Bare`), also when overlapping passes mix their columns.  `FlushEnd`
reduces every step that ends a pass to facts about the row it writes.

`ReleaseTransactionProofs`.  `Typing`, `AlwaysServesCurrent`, `RecordAgrees`,
`NeverUnrecoverable`, and `CommandsAreAtomic`, the refinement.  The invariant
describes the state at every step of the script: what the journal holds
(`JournalOK`), which copies of the state file exist (`FilesOK`), how far the
links (`LinksOK`) and the services (`ServicesOK`) are, together with the
properties.  It is needed because each property speaks about the moments
without a journal only.

`DocumentIndexProofs`.  `Typing`.  `FaithfulHistory`: the history, the versions
that requests have loaded and a bound on versions are inductive together, since
an update writes what it has loaded.  `IndexedAlwaysHasPoints`: as long as
requests do not overlap, what a request has read as the existing chunks still
is what the database holds, so that a compensation removes only new points.
`PointsAreTracked`: an action property; every action either keeps the points
within what lineage and running requests name or is one of the exceptions.

What the assumptions on constants say: sets that are counted are finite
(`FailuresAssumption`, `ColumnsAssumption`, `ChunksAssumption`); limits,
thresholds and bounds are numbers in their ranges; identities that stand for
"none" are not among the real ones; a search ranks every chunk once
(`CorporaAssumption`); `Unit` is the common multiple named above.  TLC evaluates
them in every run.

Liveness under fairness (`EventuallySettled`, `JournalIsConsumed`,
`RetryConverges`, `EverythingSettles`, `CrawlEnds`, `EveryRequestEnds`) is out
of the prover's reach and checked by TLC only.  So are the violations, which
are counterexamples.  Every invariant and every action property of the passing
runs is a theorem.  The type invariants of the modules with proofs are proved
and not among the properties of a run, but for `AnswerPipeline`'s and, as a
part of `WithinLimits`, `ColumnCrawl`'s.

## 4. Known behaviours without a run of their own

* A cancel that arrives while the failure handler has loaded the row is
  overwritten by `failed` (`app/services/crawl.py` 220).
* `mark_queue_failure` writes over a task that a worker has completed when the
  send raised after the broker took the message (crawl.py 1094).
* Another crawl refreshes a document a task waits for (crawl.py 838), two
  crawls count each other's documents as undecided (crawl.py 533, 548), and two
  manual decisions of one document mix their columns (review.py 180).
* A compensation that fails after a rollback reads an expired attribute in its
  log call and leaves `indexing` (indexing.py 158-162).  The loser of two
  overlapping reindexings of one version deletes the winner's points.  An
  interrupted deletion leaves an indexed document without points.  Two saves of
  the BM25 snapshot share one temporary file.  Rejecting a document neither
  deletes its points nor rebuilds BM25.
* The runbook's list of recreated services leaves out Nginx, which is restarted
  when its configuration changes.
* Source discovery (`app/services/source_discovery.py`): two retries, or a queue
  failure that races the worker, start two workers on one run; the completion
  of the one writes over the `activated` or `failed` of the other.  A worker or
  a request that dies leaves `running` or `activating` for good.  Rejecting
  every candidate leaves the run `awaiting_approval`, which keeps the scheduler
  from starting another one for the topic.  Activation counts before its change
  is flushed, so that `approved_count` and `activated_count` miss it.
* A task that was marked `queued` and whose message is lost is neither pending
  nor stale: nothing sends it again (repositories/crawl.py 204).  The automatic
  review applies its decision to whatever version the document has by then
  (review.py 104).
* Crawling a column: an API endpoint that is configured as a relative URL and
  fails makes the batch invalid, and the crawl fails as a whole (generic.py
  533).  A validation that times out inside the API fallback is not caught
  (generic.py 530).  One malformed URL in the gov.cn feed, normalized outside
  of the `try`, discards all articles (adapters.py 104).  An error while an
  existing document is refreshed expires the task, so that the handler itself
  raises: the local crawl is rolled back, the Coze crawl is committed in part
  and `failed` (crawl.py 295, 513).  A host that cannot be resolved counts as
  unsafe and is not retried (urls.py 59).  Coze's answer is not checked against
  `max_articles`, and a request that timed out is sent again although the
  workflow may be running (providers.py 275).
* Answers (`app/services/chat.py`, `app/rag/grounding.py`): a refusal in the
  model's own words is returned as it is, with any URL in it (chat.py 372),
  though `ARCHITECTURE.md` 101 says that generated text cannot introduce one.
  Versions are compared among the hits that the gate found supporting, so an
  older one may be cited while a newer one is among the final hits.  An
  extractive answer drops superseded and further citations without being
  assessed again (chat.py 288-308).  Thresholds and minimum scores apply to
  rerank scores or, when reranking failed open, to fused ones of at most 2/61.
  A request that comes between the failure of a shared embedding and its
  cleanup gets that failure (cached.py 43).  A text with unknown citations is a
  refusal when the direct adapter finds them and an error without a trace when
  the service does (adapters.py 249, chat.py 390).
* Two refreshes with one token may both pass the version check and write the
  same next version (repositories/users.py 32); a deletion that fails after its
  points are gone leaves an indexed row (api/routes/documents.py 130).
* Failed URLs (crawl.py 927-1092).  A row whose worker dies after the first
  commit stays `retrying`, which every entry point refuses; the message that is
  given back is consumed without effect.  The retry that resolves the last
  failure counts before it flushes, finds its own row unresolved and leaves the
  task `partial_failed` (1049).  A message taken by a broker that reported an
  error may execute before the request marks its row `failed`, so that a
  success is overwritten (952).  A failed retry takes the new error's code: it
  may collide with another row, which no handler expects, and a later crawl
  adds a second row for the old code.  A row that succeeded hides a later
  failure of the same identity (repositories/crawl.py 371).  A further crawl
  sets `failed_count` to the number of failures it reports itself; rows from
  before stay unresolved, and resolving one lowers the new count.
* Attachments: of two overlapping passes one may commit the text of the bytes
  it has read and the other the hash of those it has downloaded; the cache then
  takes the text for current until a forced pass (parsing.py 224-248).  A
  download that fails takes an attachment that has only its upstream text out
  of the index (attachment_download.py 137-148).  A name that cannot be
  resolved is reported as `DOWNLOAD_SSRF_BLOCKED` when it fails in the
  validation and as a transport error when it fails in the connection.  Two
  attachments of a document whose URLs end alike share the crawl's file.

## 5. Not modelled

Evaluation, experiments and reports compute over finished data and are rerun
when they fail.  The frontend, the parsers of third-party formats, the backup
and audit scripts and the migrations have no state of their own that other
parts race with.  `PROJECT.json` gives the reason for each component.

## 6. Plan

Next is a deployment question of its own for `AnswerPipeline`: two processes,
each with its BM25 index.  The request path (tokens, rate limiting) comes after
it.
