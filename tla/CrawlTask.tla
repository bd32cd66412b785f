----------------------------- MODULE CrawlTask -----------------------------
(***************************************************************************)
(* One crawl task: its database row, the broker messages that ask for its  *)
(* execution, the workers that claim and run it, the administrator's       *)
(* create / retry / cancel requests and the periodic stale-task recovery.  *)
(*                                                                         *)
(* The row is the only shared state.  A worker moves it with conditional   *)
(* updates (UPDATE ... WHERE status = expected) while it has results to    *)
(* fetch, and with unconditional ORM writes once it saves or fails.  Every *)
(* action below is one database transaction, or the reading half or the    *)
(* writing half of one where another session can commit in between.        *)
(***************************************************************************)
EXTENDS Naturals, FiniteSets

CONSTANTS
    Workers,        \* processes that can execute the task
    Inline,         \* API processes that execute it inside the create request
    Outliving,      \* workers that may still run when the row looks stale
    Requests,       \* concurrent create and retry requests
    Providers,      \* kinds of provider the task may be created with
    MaxRecovery,    \* crawl_max_recovery_attempts
    MaxMessages,    \* bound: undelivered execute messages
    MaxReopens,     \* bound: the administrator stops retrying at this point
    SendErrors,     \* what may have become of the message when send_task raises
    Lossy           \* TRUE: the broker may lose a message

ASSUME SetsAssumption == /\ Inline \subseteq Outliving
                         /\ Outliving \subseteq Workers
ASSUME BoundsAssumption == /\ MaxRecovery \in Nat
                           /\ MaxMessages \in Nat
                           /\ MaxReopens \in Nat
ASSUME ProvidersAssumption ==
    Providers \subseteq {"coze", "coze_unpublished", "local", "generic"}
ASSUME ModesAssumption == /\ Lossy \in BOOLEAN
                          /\ SendErrors \subseteq {"lost", "delivered"}

VARIABLES
    status,       \* crawl_tasks.status
    retry_count,  \* crawl_tasks.retry_count
    provider,     \* crawl_provider and whether its endpoint is configured
    messages,     \* execute messages the broker has not delivered
    pc,           \* what each worker does next
    view,         \* the status in a worker's session, while it matters
    api,          \* what each create or retry request does next
    apiSeen,      \* the retry_count a retry request has loaded
    recovery,     \* where the recovery pass stands
    recoverySeen, \* the retry_count it has loaded
    (* history variables: read by the properties only *)
    reopens,      \* writes that made the row pending again
    claims,       \* successful claims since the last of them
    saves,        \* entries into the saving phase since then
    doomed,       \* workers whose fetch was outstanding when the task was cancelled
    crossed       \* TRUE: a retry, a recovery or a failed send met another actor

rowVars      == <<status, retry_count, provider>>
workerVars   == <<pc, view>>
apiVars      == <<api, apiSeen>>
recoveryVars == <<recovery, recoverySeen>>
historyVars  == <<claims, saves, reopens, doomed, crossed>>
vars == <<rowVars, messages, workerVars, apiVars, recoveryVars, historyVars>>

-----------------------------------------------------------------------------
(* The state machine of crawl_tasks.status.                                *)

Open    == {"pending", "queued"}
Active  == {"running", "calling_coze", "coze_running", "normalizing", "saving_documents"}
Settled == {"waiting_review", "partial_failed", "completed", "failed", "cancelled"}
Status  == Open \cup Active \cup Settled

transitions(s) ==
    CASE s = "pending"          -> {"queued", "running", "failed", "cancelled"}
      [] s = "queued"           -> {"running", "calling_coze", "failed", "cancelled"}
      [] s = "running"          -> {"calling_coze", "saving_documents", "completed",
                                    "failed", "cancelled"}
      [] s = "calling_coze"     -> {"coze_running", "normalizing", "failed", "cancelled"}
      [] s = "coze_running"     -> {"normalizing", "failed", "cancelled"}
      [] s = "normalizing"      -> {"saving_documents", "failed", "cancelled"}
      [] s = "saving_documents" -> {"waiting_review", "completed", "partial_failed", "failed"}
      [] s = "waiting_review"   -> {"completed", "partial_failed", "failed", "cancelled"}
      [] s = "partial_failed"   -> {"pending", "waiting_review", "completed"}
      [] s = "failed"           -> {"pending"}
      [] s = "cancelled"        -> {"pending"}
      [] s = "completed"        -> {}

ProviderKinds == {"coze", "coze_unpublished", "local", "generic"}

WorkerStep == {"idle", "claimed", "refusing", "invoking", "fetching", "normalizing",
               "entered", "saving", "lost_early", "lost", "failing", "fail_write",
               "local_rescue", "local_rescue_write", "rescue", "rescue_write"}
RequestStep == {"idle", "created", "sent", "send_failed", "retry_read", "retried"}

RowsOK ==
    /\ status \in Status
    /\ retry_count \in Nat
    /\ provider \in ProviderKinds
    /\ messages \in 0 .. MaxMessages
    /\ pc \in [Workers -> WorkerStep]
    /\ view \in [Workers -> Status \cup {"none"}]
    /\ api \in [Requests -> RequestStep]
    /\ apiSeen \in [Requests -> Nat]
    /\ recovery \in {"idle", "stale_read", "resend"}
    /\ recoverySeen \in Nat
    /\ claims \in Nat /\ saves \in Nat /\ reopens \in Nat
    /\ doomed \subseteq Workers

TypeOK == RowsOK /\ crossed \in BOOLEAN

(* create_task has committed the row; its request goes on to send or run it. *)
Init ==
    /\ status = "pending"
    /\ retry_count = 0
    /\ provider \in Providers
    /\ messages = 0
    /\ pc = [w \in Workers |-> "idle"]
    /\ view = [w \in Workers |-> "none"]
    /\ \E r \in Requests : api = [q \in Requests |-> IF q = r THEN "created" ELSE "idle"]
    /\ apiSeen = [r \in Requests |-> 0]
    /\ recovery = "idle"
    /\ recoverySeen = 0
    /\ claims = 0 /\ saves = 0 /\ reopens = 0
    /\ doomed = {}
    /\ crossed = FALSE

-----------------------------------------------------------------------------
(* Helpers.                                                                *)

(* A worker goes to step s; leaving for "idle" ends its attempt.           *)
Goto(w, s) ==
    /\ pc' = [pc EXCEPT ![w] = s]
    /\ view' = [view EXCEPT ![w] = "none"]
    /\ doomed' = IF s = "idle" THEN doomed \ {w} ELSE doomed

(* Goto, keeping the status the session has just loaded.                   *)
GotoWith(w, s) ==
    /\ pc' = [pc EXCEPT ![w] = s]
    /\ view' = [view EXCEPT ![w] = status]
    /\ UNCHANGED doomed

(* One more undelivered message; duplicates beyond the bound are merged.   *)
Sent == IF messages < MaxMessages THEN messages + 1 ELSE messages

(* Faults of Advance: the WHERE clause is dropped; a cancelled row counts  *)
(* as the expected one.                                                    *)
AdvanceBlindly(w, expected, target, onwards, otherwise) ==
    status' = target /\ Goto(w, onwards)

AdvanceOverCancel(w, expected, target, onwards, otherwise) ==
    IF status \in {expected, "cancelled"}
    THEN status' = target /\ Goto(w, onwards)
    ELSE UNCHANGED status /\ Goto(w, otherwise)

(* advance_task_if_status: the conditional update, and where the worker    *)
(* goes when it hits no row.                                               *)
Advance(w, expected, target, onwards, otherwise) ==
    IF status = expected
    THEN status' = target /\ Goto(w, onwards)
    ELSE UNCHANGED status /\ Goto(w, otherwise)

(* The except clause around the provider-specific part of an execution.    *)
InnerHandler == CASE provider = "local"   -> "local_rescue"
                  [] provider = "generic" -> "rescue"
                  [] OTHER                -> "failing"

(* Where a failed conditional update leads: the generic adapter has no     *)
(* handler of its own.                                                     *)
LostInner == IF provider = "generic" THEN "lost_early" ELSE "lost"

NotRow == UNCHANGED <<retry_count, provider>>
NotOthers == UNCHANGED <<apiVars, recoveryVars, crossed>>
NotCounts == UNCHANGED <<claims, saves, reopens>>

-----------------------------------------------------------------------------
(* Worker: delivery and claim.                                             *)

(* claim_task: the update succeeds for exactly one caller per reopening.   *)
ClaimRow(w) ==
    /\ status \in Open
    /\ status' = "running"
    /\ Goto(w, "claimed")
    /\ claims' = claims + 1
    /\ UNCHANGED <<saves, reopens>>

(* TASK_ALREADY_CLAIMED: the caller leaves the row alone.                  *)
RefuseClaim == status \notin Open /\ UNCHANGED <<status, workerVars, historyVars>>

(* A pool worker takes a message; a duplicate is acknowledged unexecuted.  *)
Deliver(w) ==
    /\ w \in Workers \ Inline /\ pc[w] = "idle" /\ messages > 0
    /\ messages' = messages - 1
    /\ ClaimRow(w) \/ RefuseClaim
    /\ NotRow /\ NotOthers

(* execution_mode = "inline": the create request runs the task itself.     *)
ExecuteInline(w, r) ==
    /\ w \in Inline /\ pc[w] = "idle" /\ api[r] = "created"
    /\ api' = [api EXCEPT ![r] = "idle"]
    /\ ClaimRow(w) \/ RefuseClaim
    /\ NotRow /\ UNCHANGED <<messages, apiSeen, recoveryVars, crossed>>

-----------------------------------------------------------------------------
(* Worker: one execution.  Every step is one transaction on the row.       *)

Step(w, from) == pc[w] = from /\ UNCHANGED messages /\ NotRow /\ NotOthers

(* Coze disabled or its workflow unpublished: the row loaded after the     *)
(* claim is failed without looking at it again.                            *)
LoadUnpublished(w) ==
    /\ Step(w, "claimed") /\ provider = "coze_unpublished"
    /\ GotoWith(w, "refusing")
    /\ UNCHANGED status /\ NotCounts

RefuseUnpublished(w) ==
    /\ Step(w, "refusing")
    /\ IF "failed" \in transitions(view[w])
       THEN status' = "failed" /\ Goto(w, "idle")
       ELSE UNCHANGED status /\ Goto(w, "rescue")
    /\ NotCounts

StartCoze(w) ==
    /\ Step(w, "claimed") /\ provider = "coze"
    /\ Advance(w, "running", "calling_coze", "invoking", "lost_early")
    /\ NotCounts

InvokeCoze(w) ==
    /\ Step(w, "invoking")
    /\ Advance(w, "calling_coze", "coze_running", "fetching", "lost")
    /\ NotCounts

CozeResponded(w) ==
    /\ Step(w, "fetching") /\ provider = "coze"
    /\ Advance(w, "coze_running", "normalizing", "normalizing", "lost")
    /\ NotCounts

StartLocal(w) ==
    /\ Step(w, "claimed") /\ provider = "local"
    /\ Advance(w, "running", "running", "fetching", "lost_early")
    /\ NotCounts

StartGeneric(w) ==
    /\ Step(w, "claimed") /\ provider = "generic"
    /\ Goto(w, "fetching")
    /\ UNCHANGED status /\ NotCounts

(* The update that lets a worker save what it fetched.                     *)
EnterSaving(w, expected) ==
    /\ Advance(w, expected, "saving_documents", "entered", LostInner)
    /\ saves' = IF pc'[w] = "entered" THEN saves + 1 ELSE saves
    /\ UNCHANGED <<claims, reopens>>

CozeNormalized(w) == Step(w, "normalizing") /\ EnterSaving(w, "normalizing")

FetchReturned(w) ==
    /\ Step(w, "fetching") /\ provider \in {"local", "generic"}
    /\ EnterSaving(w, "running")

RefreshForSaving(w) ==
    /\ Step(w, "entered")
    /\ GotoWith(w, "saving")
    /\ UNCHANGED status /\ NotCounts

Outcomes == IF provider = "generic" THEN {"completed"}
            ELSE {"waiting_review", "partial_failed", "completed"}

(* The final commit: an unconditional write of the status that follows     *)
(* from the one loaded when saving began.                                  *)
FinishSaving(w) ==
    /\ Step(w, "saving")
    /\ \E outcome \in Outcomes :
          IF outcome \in transitions(view[w])
          THEN status' = outcome /\ Goto(w, "idle")
          ELSE UNCHANGED status /\ Goto(w, InnerHandler)
    /\ NotCounts

-----------------------------------------------------------------------------
(* Worker: what follows a failed update or an exception.                   *)

(* _finish_cancelled_provider_result: quiet after a cancel, otherwise      *)
(* TASK_STATE_CHANGED is raised to the enclosing handler.                  *)
FinishCancelled(w) ==
    /\ \/ Step(w, "lost_early") /\ Goto(w, IF status = "cancelled" THEN "idle" ELSE "rescue")
       \/ Step(w, "lost") /\ Goto(w, IF status = "cancelled" THEN "idle" ELSE InnerHandler)
    /\ UNCHANGED status /\ NotCounts

(* The two except clauses of _execute_coze: refresh, then fail the task    *)
(* unless it was cancelled or has ended.                                   *)
RefreshFailed(w) ==
    /\ Step(w, "failing")
    /\ Goto(w, CASE status = "cancelled" -> "lost_early"
                 [] status \in {"failed", "completed", "partial_failed"} -> "idle"
                 [] OTHER -> "fail_write")
    /\ UNCHANGED status /\ NotCounts

WriteFailed(w) ==
    /\ Step(w, "fail_write")
    /\ status' = "failed" /\ Goto(w, "idle")
    /\ NotCounts

(* The except clauses of _execute_local and of execute: roll back, read    *)
(* the row, fail it if it still looks claimed, and raise again.            *)
ReadRescue(w) ==
    /\ \/ /\ Step(w, "local_rescue")
          /\ Goto(w, IF status \in {"running", "saving_documents"}
                     THEN "local_rescue_write" ELSE "rescue")
       \/ /\ Step(w, "rescue")
          /\ Goto(w, IF status \in {"running", "saving_documents"}
                     THEN "rescue_write" ELSE "idle")
    /\ UNCHANGED status /\ NotCounts

WriteRescue(w) ==
    /\ \/ Step(w, "local_rescue_write") /\ Goto(w, "rescue")
       \/ Step(w, "rescue_write") /\ Goto(w, "idle")
    /\ status' = "failed" /\ NotCounts

Handlers(w) ==
    CASE pc[w] \in {"claimed", "refusing"} -> {"rescue"}
      [] pc[w] = "invoking" -> {"rescue", "failing"}
      [] pc[w] \in {"fetching", "normalizing", "entered", "saving"} -> {InnerHandler}
      [] OTHER -> {}

(* A provider error, a database error or the soft time limit.              *)
RaiseError(w) ==
    /\ Step(w, pc[w])
    /\ \E h \in Handlers(w) : Goto(w, h)
    /\ UNCHANGED status /\ NotCounts

(* The process dies.  The message of a lost pool worker is delivered       *)
(* again; that of one killed by the hard time limit is not.                *)
Crash(w) ==
    /\ pc[w] # "idle"
    /\ Goto(w, "idle")
    /\ messages' \in IF w \in Inline THEN {messages} ELSE {messages, Sent}
    /\ UNCHANGED rowVars /\ NotOthers /\ NotCounts

-----------------------------------------------------------------------------
(* Administrator: create, retry, cancel.                                   *)

ToRequest(r, s) == api' = [api EXCEPT ![r] = s]
NotWorkers == UNCHANGED <<workerVars, doomed>>

(* The row is made pending again: a new round of claim and save begins.    *)
NewRound == reopens' = reopens + 1 /\ claims' = 0 /\ saves' = 0

(* send_task: success, or an exception that says nothing of the message.   *)
SendOk == messages' = Sent
SendError == \/ "lost" \in SendErrors /\ UNCHANGED messages
             \/ "delivered" \in SendErrors /\ messages' = Sent

CreateSend(r) ==
    /\ api[r] = "created"
    /\ \/ SendOk /\ ToRequest(r, "sent")
       \/ SendError /\ ToRequest(r, "send_failed")
    /\ UNCHANGED <<rowVars, workerVars, apiSeen, recoveryVars, historyVars>>

MarkQueued(r) ==
    /\ api[r] = "sent"
    /\ ToRequest(r, "idle")
    /\ status' = IF status = "pending" THEN "queued" ELSE status
    /\ NotRow /\ UNCHANGED <<messages, workerVars, apiSeen, recoveryVars, historyVars>>

(* mark_queue_failure writes over the status it cached before sending,     *)
(* which crosses an execution when a message was delivered all the same.   *)
MarkQueueFailure(r) ==
    /\ api[r] = "send_failed"
    /\ ToRequest(r, "idle")
    /\ status' = "failed"
    /\ crossed' = IF status \in Open THEN crossed ELSE TRUE
    /\ NotRow /\ NotCounts /\ UNCHANGED <<messages, workerVars, apiSeen, recoveryVars, doomed>>

(* A retry crosses an execution, a recovery pass or another request.       *)
Quiet(r) == /\ recovery # "stale_read"
            /\ \A w \in Workers : pc[w] = "idle"
            /\ \A q \in Requests \ {r} : api[q] = "idle"
NoteRetry(r) == crossed' = IF Quiet(r) THEN crossed ELSE TRUE

RetryRead(r) ==
    /\ api[r] = "idle" /\ reopens < MaxReopens
    /\ "pending" \in transitions(status)
    /\ ToRequest(r, "retry_read")
    /\ apiSeen' = [apiSeen EXCEPT ![r] = retry_count]
    /\ NoteRetry(r) /\ NotCounts
    /\ UNCHANGED <<rowVars, messages, workerVars, recoveryVars, doomed>>

RetryWrite(r) ==
    /\ api[r] = "retry_read"
    /\ NoteRetry(r)
    /\ ToRequest(r, "retried")
    /\ apiSeen' = [apiSeen EXCEPT ![r] = 0]
    /\ status' = "pending"
    /\ retry_count' = apiSeen[r] + 1
    /\ NewRound
    /\ NotWorkers /\ UNCHANGED <<provider, messages, recoveryVars>>

(* save_task refreshed the row before the send.                            *)
RetrySend(r) ==
    /\ api[r] = "retried"
    /\ \/ SendOk /\ ToRequest(r, "idle")
       \/ SendError /\ ToRequest(r, IF status \in Open THEN "send_failed" ELSE "idle")
    /\ UNCHANGED <<rowVars, workerVars, apiSeen, recoveryVars, historyVars>>

(* The API process dies in the middle of a request.                        *)
AbandonRequest(r) ==
    /\ api[r] # "idle"
    /\ ToRequest(r, "idle")
    /\ apiSeen' = [apiSeen EXCEPT ![r] = 0]
    /\ UNCHANGED <<rowVars, messages, workerVars, recoveryVars, historyVars>>

(* The cancel request answers that what is being fetched is not saved.     *)
FetchInProgress == \/ status \in {"calling_coze", "coze_running", "normalizing"}
                   \/ status = "running" /\ provider = "local"

(* cancel: a conditional update on the observed status, tried again when   *)
(* the row has moved.                                                      *)
Cancel ==
    /\ "cancelled" \in transitions(status)
    /\ status' = "cancelled"
    /\ doomed' = IF FetchInProgress
                 THEN doomed \cup {w \in Workers : pc[w] = "fetching"} ELSE doomed
    /\ NotRow /\ NotOthers /\ NotCounts /\ UNCHANGED <<messages, workerVars>>

-----------------------------------------------------------------------------
(* Scheduler: recover_crawl_tasks, every minute.                           *)

(* Fault of Stale: tasks waiting for review count as stale.                *)
StaleReview ==
    /\ status \in Active \cup {"waiting_review"}
    /\ \A w \in Workers : pc[w] = "idle"

(* started_at is older than crawl_stale_after_seconds (30 minutes).  By    *)
(* then every worker under a shorter time limit is gone, and no request is *)
(* still between two of its transactions.                                  *)
Stale ==
    /\ status \in Active
    /\ \A w \in Workers \ Outliving : pc[w] = "idle"
    /\ \A r \in Requests : api[r] = "idle"

RecoverRead ==
    /\ recovery = "idle" /\ Stale
    /\ recovery' = "stale_read"
    /\ recoverySeen' = retry_count
    /\ crossed' = IF \A w \in Workers : pc[w] = "idle" THEN crossed ELSE TRUE
    /\ NotCounts /\ UNCHANGED <<rowVars, messages, workerVars, apiVars, doomed>>

RecoverWrite ==
    /\ recovery = "stale_read"
    /\ recovery' = "resend"
    /\ recoverySeen' = 0
    /\ IF recoverySeen >= MaxRecovery
       THEN status' = "failed" /\ UNCHANGED retry_count /\ NotCounts
       ELSE status' = "pending" /\ retry_count' = recoverySeen + 1 /\ NewRound
    /\ NotWorkers /\ UNCHANGED <<provider, messages, apiVars, crossed>>

(* Fault of Requeue: only the tasks recovered in this pass are sent.       *)
RequeueRecovered ==
    /\ recovery = "resend"
    /\ recovery' = "idle"
    /\ messages' = IF status = "pending" THEN Sent ELSE messages
    /\ UNCHANGED <<rowVars, workerVars, apiVars, recoverySeen, historyVars>>

(* Every pending task is sent again, recovered in this pass or not.        *)
Requeue ==
    /\ recovery = "resend" \/ (recovery = "idle" /\ status = "pending")
    /\ recovery' = "idle"
    /\ messages' = IF status = "pending" THEN Sent ELSE messages
    /\ UNCHANGED <<rowVars, workerVars, apiVars, recoverySeen, historyVars>>

AbandonRecovery ==
    /\ recovery # "idle"
    /\ recovery' = "idle" /\ recoverySeen' = 0
    /\ UNCHANGED <<rowVars, messages, workerVars, apiVars, historyVars>>

LoseMessage ==
    /\ Lossy /\ messages > 0
    /\ messages' = messages - 1
    /\ UNCHANGED <<rowVars, workerVars, apiVars, recoveryVars, historyVars>>

-----------------------------------------------------------------------------
Execute(w) ==
    \/ LoadUnpublished(w) \/ RefuseUnpublished(w)
    \/ StartCoze(w) \/ InvokeCoze(w) \/ CozeResponded(w) \/ CozeNormalized(w)
    \/ StartLocal(w) \/ StartGeneric(w) \/ FetchReturned(w)
    \/ RefreshForSaving(w) \/ FinishSaving(w)
    \/ FinishCancelled(w) \/ RefreshFailed(w) \/ WriteFailed(w)
    \/ ReadRescue(w) \/ WriteRescue(w)

Proceed(r) ==
    \/ CreateSend(r) \/ MarkQueued(r) \/ MarkQueueFailure(r)
    \/ RetryWrite(r) \/ RetrySend(r) \/ AbandonRequest(r)

Recover == RecoverRead \/ RecoverWrite \/ Requeue

Next ==
    \/ \E w \in Workers : Deliver(w) \/ Execute(w) \/ RaiseError(w) \/ Crash(w)
    \/ \E w \in Workers, r \in Requests : ExecuteInline(w, r)
    \/ \E r \in Requests : RetryRead(r) \/ Proceed(r)
    \/ Cancel
    \/ Recover \/ AbandonRecovery
    \/ LoseMessage

Spec == Init /\ [][Next]_vars

-----------------------------------------------------------------------------
(* Properties.                                                             *)

Unclaimed == IF status \in Open THEN 1 ELSE 0
Unsaved == IF status \in Open \cup (Active \ {"saving_documents"}) THEN 1 ELSE 0

(* Between two writes that make the row pending the task is claimed at     *)
(* most once, however often its message is delivered (claim_task).         *)
OneClaimPerRound == claims + Unclaimed <= 1

(* ... and at most one worker enters the saving phase, although several    *)
(* may be executing the task: after a cancel and a retry, or a recovery,   *)
(* the worker of an earlier round is still running and the conditional     *)
(* updates (advance_task_if_status) let only one of them through.          *)
OneSavePerRound == saves + Unsaved <= 1

(* Unless a retry or a recovery pass crossed an execution, two workers     *)
(* never hold the task at once (claim_task, recover_stale_tasks).          *)
AtMostOne == \A v, w \in Workers : pc[v] # "idle" /\ pc[w] # "idle" => v = w
Exclusive == ~crossed => AtMostOne

(* One round of a task is one execution: claimed once, saved once, and by  *)
(* one worker at a time unless requests crossed it (claim_task).           *)
OncePerRound == OneClaimPerRound /\ OneSavePerRound /\ Exclusive

(* "local normalization and document saving will be skipped": a worker     *)
(* whose fetch was outstanding when cancel succeeded never reaches the     *)
(* saving phase with it.                                                   *)
CancelledFetchNeverSaved == \A w \in doomed : pc[w] \notin {"entered", "saving"}

(* ... which holds unless a retry or a recovery pass crossed an execution. *)
CancelledFetchNotSaved == ~crossed => CancelledFetchNeverSaved

(* Unless requests crossed, what is settled stays so: no late write of a   *)
(* worker, of a request or of recovery reaches a completed task, and a     *)
(* task whose documents wait for review is not crawled again behind the    *)
(* reviewer's back.                                                        *)
SettledIsKept ==
    [][~crossed' => /\ status = "completed" => status' = "completed"
                    /\ status = "waiting_review" => status' # "pending"]_vars

(* Workers keep running, messages keep being delivered and the scheduler   *)
(* keeps running.  Fairness is that of the pool and of the process, not of  *)
(* one worker or request.                                                  *)
FairSpec ==
    /\ Spec
    /\ WF_vars(\E w \in Workers : Execute(w)) /\ SF_vars(\E w \in Workers : Deliver(w))
    /\ WF_vars(\E r \in Requests : Proceed(r))
    /\ WF_vars(RecoverRead) /\ SF_vars(RecoverWrite) /\ WF_vars(Requeue)

(* Every task that is waiting or being executed comes to rest, or is marked *)
(* queued and its message lost: recovery sends pending tasks again, but     *)
(* takes no queued one for stale (recover_stale_tasks, pending tasks only). *)
EventuallySettled ==
    (status \in Open \cup Active) ~> (status \in Settled \/ (status = "queued" /\ messages = 0))

=============================================================================
