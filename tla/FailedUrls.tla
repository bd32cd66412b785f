----------------------------- MODULE FailedUrls -----------------------------
(***************************************************************************)
(* The failed URLs of one crawl task: the requests that queue the retry of *)
(* one URL, the workers that execute it, and a second crawl of the task,   *)
(* which reports failures of its own.                                      *)
(*                                                                         *)
(* Nothing claims a row: a worker loads the row and its task, tests the    *)
(* status it has loaded, and writes "retrying"; the outcome is written     *)
(* later, into the row and into the task's counters as they were loaded.   *)
(* A place is a URL together with the stage in which it failed; a row is   *)
(* identified by its place and its error code.                             *)
(***************************************************************************)
EXTENDS Naturals, FiniteSets

CONSTANTS
    Failures,      \* rows that the task may get
    Places,        \* URLs with the stages in which they can fail
    Codes,         \* error codes
    Workers,       \* processes that execute retries
    Requests,      \* concurrent requests for a retry
    MaxMessages,   \* bound: undelivered messages for a row
    MaxCrawls      \* bound: further crawls of the task

ASSUME BoundsAssumption == /\ MaxMessages \in Nat \ {0}
                           /\ MaxCrawls \in Nat
ASSUME FailuresAssumption == IsFiniteSet(Failures)

VARIABLES
    row,        \* crawl_task_failures: place, code, status and retryable
    task,       \* crawl_tasks: status and failed_count
    messages,   \* undelivered retry messages of each row
    worker,     \* what a worker does next, and what it has loaded
    request,    \* what a request does next, and for which row
    crawl,      \* the running crawl: the rows it has loaded, what it reports
    (* history variables: read by the properties only *)
    lost,       \* rows left queued or retrying by a fault
    crossed,    \* rows that somebody is at who has met another one there
    counting,   \* TRUE: no two executions and nobody at one row have met, no crawl yet
    crawls      \* crawls begun since the first one

rowVars     == <<row, task, messages>>
historyVars == <<lost, crossed, counting, crawls>>
vars == <<rowVars, worker, request, crawl, historyVars>>

-----------------------------------------------------------------------------

RowStatus  == {"pending", "queued", "retrying", "succeeded", "failed"}
TaskStatus == {"crawling", "partial_failed", "closed", "failed"}  \* waiting_review or completed
Row  == [place : Places, code : Codes, status : RowStatus, retryable : BOOLEAN]
NoRow == [status |-> "absent"]
Identities == Places \X Codes

Present == {f \in Failures : row[f].status # "absent"}
Identity(f) == <<row[f].place, row[f].code>>
Unresolved  == {f \in Present : row[f].status # "succeeded"}

IdleWorker  == [pc |-> "idle"]
IdleRequest == [pc |-> "idle"]
NoCrawl     == [pc |-> "idle"]

WorkerState ==
    {IdleWorker} \cup
    [pc : {"loaded", "executing"}, row : Failures, failed : Nat, closes : BOOLEAN]
RequestState ==
    {IdleRequest} \cup [pc : {"queueing", "sending", "send_failed"}, row : Failures]
CrawlState ==
    {NoCrawl, [pc |-> "crawling"]} \cup
    [pc : {"saving"}, kept : SUBSET Failures, reopened : SUBSET Failures,
     added : SUBSET Identities, failed : Nat]

TypeOK ==
    /\ row \in [Failures -> Row \cup {NoRow}]
    /\ task \in [status : TaskStatus, failed : Nat]
    /\ messages \in [Failures -> 0 .. MaxMessages]
    /\ worker \in [Workers -> WorkerState]
    /\ request \in [Requests -> RequestState]
    /\ crawl \in CrawlState
    /\ lost \subseteq Failures /\ crossed \subseteq Failures
    /\ counting \in BOOLEAN /\ crawls \in Nat

(* The first crawl of the task has ended and reported its failures.        *)
Init ==
    /\ row \in [Failures -> {NoRow} \cup [place : Places, code : Codes,
                                          status : {"pending"}, retryable : BOOLEAN]]
    /\ Present # {}
    /\ \A f, g \in Present : Identity(f) = Identity(g) => f = g
    /\ task = [status |-> "partial_failed", failed |-> Cardinality(Present)]
    /\ messages = [f \in Failures |-> 0]
    /\ worker = [w \in Workers |-> IdleWorker]
    /\ request = [r \in Requests |-> IdleRequest]
    /\ crawl = NoCrawl
    /\ lost = {} /\ crossed = {} /\ counting = TRUE /\ crawls = 0

(* Who is at a row: between its reading and its last write.                *)
Executing(f)  == {w \in Workers : worker[w].pc # "idle" /\ worker[w].row = f}
Requesting(f) == {r \in Requests : request[r].pc # "idle" /\ request[r].row = f}
Attended(f) == Executing(f) # {} \/ Requesting(f) # {} \/ crawl.pc = "saving"
Meeting(f) ==
    \/ \E v, w \in Executing(f) : v # w
    \/ \E q, r \in Requesting(f) : q # r
    \/ Executing(f) # {} /\ Requesting(f) # {}
    \/ (Executing(f) # {} \/ Requesting(f) # {}) /\ crawl.pc = "saving"
Overlap == \E v, w \in Workers : v # w /\ worker[v].pc # "idle" /\ worker[w].pc # "idle"
Stuck(f) == row[f].status \in {"queued", "retrying"}

Loses(S) == lost' = {f \in lost \cup S : Stuck(f)'}
Sent(f)  == IF messages[f] < MaxMessages THEN messages[f] + 1 ELSE messages[f]

-----------------------------------------------------------------------------
(* A request for the retry of one URL.                                     *)

QueueRead(r, f) ==
    /\ request[r].pc = "idle"
    /\ f \in Present /\ row[f].retryable
    /\ row[f].status \notin {"queued", "retrying", "succeeded"}
    /\ request' = [request EXCEPT ![r] = [pc |-> "queueing", row |-> f]]
    /\ UNCHANGED <<rowVars, worker, crawl>>

(* queue_failure_retry commits what it has decided on the row it loaded.   *)
QueueWrite(r) ==
    /\ request[r].pc = "queueing"
    /\ row' = [row EXCEPT ![request[r].row].status = "queued"]
    /\ request' = [request EXCEPT ![r].pc = "sending"]
    /\ UNCHANGED <<task, messages, worker, crawl>>

SendOk(r) ==
    /\ request[r].pc = "sending"
    /\ LET f == request[r].row IN messages' = [messages EXCEPT ![f] = Sent(f)]
    /\ request' = [request EXCEPT ![r] = IdleRequest]
    /\ UNCHANGED <<row, task, worker, crawl>>

(* send_task raises; the broker may have taken the message all the same.   *)
SendError(r) ==
    /\ request[r].pc = "sending"
    /\ LET f == request[r].row IN
       messages' \in {messages, [messages EXCEPT ![f] = Sent(f)]}
    /\ request' = [request EXCEPT ![r].pc = "send_failed"]
    /\ UNCHANGED <<row, task, worker, crawl>>

(* Fault of MarkQueueError: the request answers without a mark.            *)
LeaveQueueError(r) ==
    /\ request[r].pc = "send_failed"
    /\ request' = [request EXCEPT ![r] = IdleRequest]
    /\ UNCHANGED <<rowVars, worker, crawl>>

(* The session still holds the row as queued, whatever has become of it.   *)
MarkQueueError(r) ==
    /\ request[r].pc = "send_failed"
    /\ row' = [row EXCEPT ![request[r].row].status = "failed"]
    /\ request' = [request EXCEPT ![r] = IdleRequest]
    /\ UNCHANGED <<task, messages, worker, crawl>>

AbandonRequest(r) ==
    /\ request[r].pc # "idle"
    /\ request' = [request EXCEPT ![r] = IdleRequest]
    /\ UNCHANGED <<rowVars, worker, crawl>>
    /\ Loses(IF request[r].pc = "queueing" THEN {} ELSE {request[r].row})

-----------------------------------------------------------------------------
(* A worker executes the retry of one URL.                                 *)

(* Fault of MayRun: a URL that has succeeded is fetched again.             *)
MayRunAgain(f) == row[f].status # "retrying" /\ row[f].retryable

MayRun(f) == row[f].status \in {"queued", "pending", "failed"} /\ row[f].retryable

Take(f) == messages' = [messages EXCEPT ![f] = @ - 1]

(* The message is consumed; a row that a crawl made final stays queued.    *)
Refuse(f) ==
    /\ messages[f] > 0
    /\ ~MayRun(f)
    /\ Take(f)
    /\ UNCHANGED <<row, task, worker, request, crawl>>
    /\ Loses(IF row[f].status = "queued" THEN {f} ELSE {})

Load(w, f) ==
    /\ worker[w].pc = "idle"
    /\ messages[f] > 0
    /\ MayRun(f)
    /\ Take(f)
    /\ worker' = [worker EXCEPT ![w] = [pc |-> "loaded", row |-> f, failed |-> task.failed,
                                        closes |-> task.status = "partial_failed"]]
    /\ UNCHANGED <<row, task, request, crawl>>

MarkRetrying(w) ==
    /\ worker[w].pc = "loaded"
    /\ row' = [row EXCEPT ![worker[w].row].status = "retrying"]
    /\ worker' = [worker EXCEPT ![w].pc = "executing"]
    /\ UNCHANGED <<task, messages, request, crawl>>

(* The provider failed, is not configured, or left the URL unresolved.  A  *)
(* row keeps its place but takes the code of the new error.                *)
Taken(f, c) == \E g \in Present \ {f} : Identity(g) = <<row[f].place, c>>

Fail(w) ==
    /\ worker[w].pc = "executing"
    /\ LET f == worker[w].row IN
       \E c \in Codes :
          /\ ~Taken(f, c)
          /\ row' = [row EXCEPT ![f].status = "failed", ![f].code = c]
    /\ worker' = [worker EXCEPT ![w] = IdleWorker]
    /\ UNCHANGED <<task, messages, request, crawl>>

(* The rows are counted before this one is flushed: it still counts as it  *)
(* is in the database.  Only what differs from what was loaded is written. *)
Succeed(w) ==
    /\ worker[w].pc = "executing"
    /\ row' = [row EXCEPT ![worker[w].row].status = "succeeded"]
    /\ task' = [status |-> IF worker[w].closes /\ Unresolved = {} THEN "closed" ELSE task.status,
                failed |-> IF worker[w].failed > 0 THEN worker[w].failed - 1 ELSE task.failed]
    /\ worker' = [worker EXCEPT ![w] = IdleWorker]
    /\ UNCHANGED <<messages, request, crawl>>

(* An error that no handler catches: before the try block, in a handler,   *)
(* or because another row has the identity that this one would take.       *)
Escape(w) ==
    /\ worker[w].pc # "idle"
    /\ worker' = [worker EXCEPT ![w] = IdleWorker]
    /\ UNCHANGED <<rowVars, request, crawl>>
    /\ Loses({worker[w].row})

(* acks_late and reject_on_worker_lost give the message back.              *)
Crash(w) ==
    /\ worker[w].pc # "idle"
    /\ LET f == worker[w].row IN messages' = [messages EXCEPT ![f] = Sent(f)]
    /\ worker' = [worker EXCEPT ![w] = IdleWorker]
    /\ UNCHANGED <<row, task, request, crawl>>
    /\ Loses(IF worker[w].pc = "loaded" THEN {} ELSE {worker[w].row})

(* The visibility timeout passes, or the acknowledgement will be lost.     *)
Redeliver(f) ==
    /\ Executing(f) # {} /\ messages[f] = 0
    /\ messages' = [messages EXCEPT ![f] = 1]
    /\ UNCHANGED <<row, task, worker, request, crawl>>
    /\ Loses({})

LoseMessage(f) ==
    /\ messages[f] > 0
    /\ Take(f)
    /\ UNCHANGED <<row, task, worker, request, crawl>>
    /\ Loses({f})

-----------------------------------------------------------------------------
(* The task is crawled again (CrawlTask has the whole of it).              *)

RetryTask ==
    /\ crawl.pc = "idle" /\ crawls < MaxCrawls /\ crawls' = crawls + 1
    /\ task.status \in {"partial_failed", "failed"}
    /\ task' = [status |-> "crawling", failed |-> 0]
    /\ crawl' = [pc |-> "crawling"]
    /\ UNCHANGED <<row, messages, worker, request>>

(* Fault of KeepsRow: what has succeeded is pending again.                 *)
KeepsUnresolved(f) == row[f].status \in {"retrying", "pending"}

(* What add_failure makes of a failure the batch reports: a row that has   *)
(* its identity is kept or reopened, another one is added.                 *)
KeepsRow(f) == row[f].status \in {"succeeded", "retrying", "pending"}

CrawlReads ==
    /\ crawl.pc = "crawling" /\ task.status = "crawling"
    /\ \E reported \in SUBSET Identities :
          LET found == {f \in Present : Identity(f) \in reported}
              kept  == {f \in found : KeepsRow(f)}
          IN  crawl' = [pc |-> "saving", kept |-> kept, reopened |-> found \ kept,
                        added |-> reported \ {Identity(f) : f \in found},
                        failed |-> task.failed]
    /\ UNCHANGED <<rowVars, worker, request>>

SavedRow(f, fresh, id, flag) ==
    IF f \in fresh
    THEN [place |-> id[f][1], code |-> id[f][2], status |-> "pending", retryable |-> flag[f]]
    ELSE IF f \in crawl.reopened
    THEN [row[f] EXCEPT !.retryable = flag[f], !.status = "pending"]
    ELSE IF f \in crawl.kept THEN [row[f] EXCEPT !.retryable = flag[f]] ELSE row[f]

Distinct(rows) ==
    \A f, g \in {h \in Failures : rows[h].status # "absent"} :
        rows[f].place = rows[g].place /\ rows[f].code = rows[g].code => f = g

(* The rows and the task are committed together, by a crawl that ends as   *)
(* planned or by the handler of a later error, which keeps the rows.       *)
CrawlSaves ==
    /\ crawl.pc = "saving"
    /\ \E fresh \in SUBSET (Failures \ Present) :
          /\ Cardinality(fresh) = Cardinality(crawl.added)
          /\ \E id \in [fresh -> crawl.added],
                flag \in [fresh \cup crawl.reopened \cup crawl.kept -> BOOLEAN] :
                row' = [f \in Failures |-> SavedRow(f, fresh, id, flag)]
          /\ Distinct(row')
    /\ LET n == Cardinality(crawl.kept \cup crawl.reopened) + Cardinality(crawl.added)
       IN task' \in {[status |-> IF n > 0 THEN "partial_failed" ELSE "closed",
                       failed |-> IF n = crawl.failed THEN task.failed ELSE n],
                      [status |-> "failed", failed |-> crawl.failed + 1]}
    /\ crawl' = NoCrawl
    /\ UNCHANGED <<messages, worker, request>>

(* The crawl fails without a batch; its handler counts that as a failure.  *)
CrawlFails ==
    /\ crawl.pc # "idle"
    /\ crawl' = NoCrawl
    /\ task' = [status |-> "failed", failed |-> task.failed + 1]
    /\ UNCHANGED <<row, messages, worker, request>>

(* A retry has closed the task meanwhile: the batch is discarded.          *)
CrawlDiscarded ==
    /\ crawl.pc = "crawling" /\ task.status # "crawling"
    /\ crawl' = NoCrawl
    /\ UNCHANGED <<rowVars, worker, request>>

-----------------------------------------------------------------------------

Request(r) ==
    \/ \E f \in Failures : QueueRead(r, f)
    \/ QueueWrite(r) \/ SendOk(r) \/ SendError(r) \/ MarkQueueError(r)

Worker(w) ==
    \/ \E f \in Failures : Load(w, f)
    \/ MarkRetrying(w) \/ Fail(w) \/ Succeed(w)

Crawl == CrawlReads \/ CrawlSaves \/ CrawlFails \/ CrawlDiscarded

Fault ==
    \/ \E r \in Requests : AbandonRequest(r)
    \/ \E f \in Failures : Refuse(f) \/ Redeliver(f) \/ LoseMessage(f)
    \/ \E w \in Workers : Escape(w) \/ Crash(w)

(* Who has met whom, for the properties.                                   *)
Meetings ==
    /\ crossed' = {f \in Failures : Attended(f)' /\ (f \in crossed \/ Meeting(f)')}
    /\ counting' = (counting /\ crawl'.pc = "idle" /\ ~Overlap' /\ crossed' = {})

Next ==
    /\ \/ /\ (\E r \in Requests : Request(r)) \/ (\E w \in Workers : Worker(w)) \/ Crawl
          /\ Loses({}) /\ UNCHANGED crawls
       \/ RetryTask /\ Loses({})
       \/ Fault /\ UNCHANGED crawls
    /\ Meetings

Spec == Init /\ [][Next]_vars

-----------------------------------------------------------------------------

(* A row that is queued or being retried, which no request accepts again,  *)
(* has a message, a worker or a request behind it, unless a fault took it  *)
(* away: no order of queueing, failing and crawling strands it             *)
(* (queue_failure_retry, mark_failure_queue_error, execute_failed_url).    *)
WorkIsAccounted ==
    \A f \in Failures \ lost :
        Stuck(f) =>
            \/ messages[f] > 0
            \/ Executing(f) # {}
            \/ \E r \in Requesting(f) : request[r].pc \in {"sending", "send_failed"}

(* Until the task is crawled again or two executions overlap, failed_count *)
(* is the number of failures that are not resolved, however often messages *)
(* are repeated and workers die (execute_failed_url, failed_count - 1).    *)
FailedCountAgrees ==
    counting => task.failed = Cardinality(Unresolved)

(* A failure that has been resolved stays resolved, unless two of them     *)
(* were at its row: neither a repeated message nor a crawl that reports it *)
(* again opens it (execute_failed_url, add_failure).                       *)
ResolvedIsFinal ==
    [][\A f \in Failures :
         (row[f].status = "succeeded" /\ f \notin crossed)
            => row'[f].status = "succeeded"]_vars
=============================================================================
