---------------------------- MODULE CrawlProofs ----------------------------
(***************************************************************************)
(* Safety of a crawl, from outside and from inside.  First CrawlTask, for  *)
(* every set of workers and requests and every value of the bounds; then   *)
(* ColumnCrawl, the crawl that one of those workers performs, for every    *)
(* site and every limit; and that the one moves the status of the task as  *)
(* the other allows.                                                       *)
(***************************************************************************)
EXTENDS CrawlTask, ColumnCrawl, FiniteSetTheorems, WellFoundedInduction, TLAPS

(* The inductive invariant: the types, one claim and one entry into the    *)
(* saving phase in every round.                                            *)
IInv == TypeOK /\ OneClaimPerRound /\ OneSavePerRound

(* The part of TypeOK that the action groups leave alone or preserve.     *)
WorkersOK == /\ pc \in [Workers -> WorkerStep]
             /\ view \in [Workers -> Status \cup {"none"}]
             /\ doomed \subseteq Workers

(* Goto and GotoWith put the worker where they say (helpers of every step). *)
LEMMA GotoType ==
    ASSUME TypeOK, NEW w \in Workers, NEW s \in WorkerStep,
           Goto(w, s) \/ GotoWith(w, s)
    PROVE  WorkersOK' /\ pc'[w] = s
    BY DEF TypeOK, RowsOK, WorkersOK, Goto, GotoWith

(* The number of undelivered messages stays below its bound.               *)
LEMMA SentType == ASSUME TypeOK PROVE Sent \in 0 .. MaxMessages
    BY BoundsAssumption DEF TypeOK, RowsOK, Sent

(* The handlers of an execution are steps, and none of them is the entry   *)
(* into the saving phase.                                                  *)
LEMMA HandlersType ==
    ASSUME TypeOK, NEW w \in Workers
    PROVE  /\ InnerHandler \in WorkerStep \ {"entered"}
           /\ LostInner \in WorkerStep \ {"entered"}
           /\ Handlers(w) \subseteq WorkerStep \ {"entered"}
    BY DEF InnerHandler, LostInner, Handlers, WorkerStep

(* Every step of an execution: the row keeps its type, a claimed row stays *)
(* claimed, and entering the saving phase uses up the round's entry.       *)
StepEffect(w) ==
    /\ status' \in Status
    /\ status' \in Open => status' = status
    /\ WorkersOK'
    /\ UNCHANGED <<claims, reopens, crossed, retry_count, provider, messages,
                   apiVars, recoveryVars>>
    /\ \/ saves' = saves /\ Unsaved' <= Unsaved
       \/ saves' = saves + 1 /\ Unsaved = 1 /\ Unsaved' = 0

(* advance_task_if_status before the saving phase has that effect.         *)
LEMMA AdvanceEffect ==
    ASSUME TypeOK, NEW w \in Workers,
           NEW expected \in Active \ {"saving_documents"},
           NEW target \in Active \ {"saving_documents"},
           NEW onwards \in WorkerStep, NEW otherwise \in WorkerStep,
           NEW from, Step(w, from),
           Advance(w, expected, target, onwards, otherwise), NotCounts
    PROVE  StepEffect(w)
    BY GotoType DEF Advance, StepEffect, Step, NotRow, NotOthers, NotCounts,
       TypeOK, RowsOK, Unsaved, Open, Active, Settled, Status, apiVars, recoveryVars

(* So has the update that enters the saving phase, which uses the entry.   *)
LEMMA EnterSavingEffect ==
    ASSUME TypeOK, NEW w \in Workers,
           NEW expected \in Active \ {"saving_documents"},
           NEW from, Step(w, from), EnterSaving(w, expected)
    PROVE  StepEffect(w)
<1>1. "entered" \in WorkerStep /\ LostInner \in WorkerStep \ {"entered"}
    BY HandlersType DEF WorkerStep
<1>2. CASE status = expected
    BY <1>1, <1>2, GotoType DEF EnterSaving, Advance, StepEffect, Step, NotRow, NotOthers,
       TypeOK, RowsOK, Unsaved, Open, Active, Settled, Status, apiVars, recoveryVars
<1>3. CASE status # expected
    BY <1>1, <1>3, GotoType DEF EnterSaving, Advance, StepEffect, Step, NotRow, NotOthers,
       TypeOK, RowsOK, Unsaved, Open, Active, Settled, Status, apiVars, recoveryVars
<1>4. QED BY <1>2, <1>3

(* A step that leaves the row alone, or settles it.                        *)
LEMMA QuietEffect ==
    ASSUME TypeOK, NEW w \in Workers, NEW s \in WorkerStep,
           NEW from, Step(w, from),
           Goto(w, s) \/ GotoWith(w, s),
           status' = status \/ status' \in Settled, NotCounts
    PROVE  StepEffect(w)
    BY GotoType DEF StepEffect, Step, NotRow, NotOthers, NotCounts,
       TypeOK, RowsOK, Unsaved, Open, Active, Settled, Status, apiVars, recoveryVars

(* So have all steps of an execution, its failure handlers included.       *)
LEMMA ExecuteEffect ==
    ASSUME TypeOK, NEW w \in Workers, Execute(w) \/ RaiseError(w)
    PROVE  StepEffect(w)
<1> USE HandlersType DEF Settled, Status, WorkerStep
<1>1. CASE LoadUnpublished(w)
    BY <1>1, QuietEffect DEF LoadUnpublished
<1>2. CASE RefuseUnpublished(w)
    BY <1>2, QuietEffect DEF RefuseUnpublished
<1>3. CASE StartCoze(w)
    BY <1>3, AdvanceEffect DEF StartCoze, Active
<1>4. CASE InvokeCoze(w)
    BY <1>4, AdvanceEffect DEF InvokeCoze, Active
<1>5. CASE CozeResponded(w)
    BY <1>5, AdvanceEffect DEF CozeResponded, Active
<1>6. CASE CozeNormalized(w)
    BY <1>6, EnterSavingEffect DEF CozeNormalized, Active
<1>7. CASE StartLocal(w)
    BY <1>7, AdvanceEffect DEF StartLocal, Active
<1>8. CASE StartGeneric(w)
    BY <1>8, QuietEffect DEF StartGeneric
<1>9. CASE FetchReturned(w)
    BY <1>9, EnterSavingEffect DEF FetchReturned, Active
<1>10. CASE RefreshForSaving(w)
    BY <1>10, QuietEffect DEF RefreshForSaving
<1>11. CASE FinishSaving(w)
    BY <1>11, QuietEffect DEF FinishSaving, Outcomes
<1>12. CASE FinishCancelled(w)
    BY <1>12, QuietEffect DEF FinishCancelled
<1>13. CASE RefreshFailed(w)
    <2>1. CASE status = "cancelled"
        BY <1>13, <2>1, QuietEffect DEF RefreshFailed
    <2>2. CASE status \in {"failed", "completed", "partial_failed"}
        BY <1>13, <2>2, QuietEffect DEF RefreshFailed
    <2>3. CASE status \notin {"cancelled", "failed", "completed", "partial_failed"}
        BY <1>13, <2>3, QuietEffect DEF RefreshFailed
    <2>4. QED BY <2>1, <2>2, <2>3
<1>14. CASE WriteFailed(w)
    BY <1>14, QuietEffect DEF WriteFailed
<1>15. CASE ReadRescue(w)
    BY <1>15, QuietEffect DEF ReadRescue
<1>16. CASE WriteRescue(w)
    BY <1>16, QuietEffect DEF WriteRescue
<1>17. CASE RaiseError(w)
    BY <1>17, QuietEffect DEF RaiseError
<1>18. QED
    BY <1>1, <1>2, <1>3, <1>4, <1>5, <1>6, <1>7, <1>8, <1>9, <1>10, <1>11, <1>12, <1>13,
       <1>14, <1>15, <1>16, <1>17 DEF Execute

-----------------------------------------------------------------------------
(* create_task establishes the inductive invariant.                        *)
LEMMA InitIInv == Init => IInv
<1> SUFFICES ASSUME Init PROVE IInv
    OBVIOUS
<1>1. RowsOK
    BY BoundsAssumption, ProvidersAssumption
    DEF Init, RowsOK, ProviderKinds, Open, Active, Settled, Status, WorkerStep, RequestStep
<1>2. crossed \in BOOLEAN
    BY Zenon DEF Init
<1>3. OneClaimPerRound /\ OneSavePerRound
    BY DEF Init, OneClaimPerRound, OneSavePerRound, Unclaimed, Unsaved, Open, Active
<1>4. QED BY <1>1, <1>2, <1>3 DEF IInv, TypeOK

(* Every step of workers, requests, recovery and broker keeps it.          *)
LEMMA NextIInv == IInv /\ [Next]_vars => IInv'
<1> SUFFICES ASSUME IInv, [Next]_vars PROVE IInv'
    OBVIOUS
<1> USE SentType, BoundsAssumption
    DEF IInv, TypeOK, RowsOK, OneClaimPerRound, OneSavePerRound, Unclaimed, Unsaved,
        Open, Active, Settled, Status, RequestStep
<1>1. ASSUME NEW w \in Workers, Execute(w) \/ RaiseError(w)
      PROVE  IInv'
    <2>1. StepEffect(w)
        BY <1>1, ExecuteEffect
    <2>2. TypeOK'
        BY <2>1 DEF StepEffect, WorkersOK, apiVars, recoveryVars
    <2>3. OneClaimPerRound'
        BY <2>1 DEF StepEffect
    <2>4. OneSavePerRound'
        BY <2>1 DEF StepEffect
    <2>5. QED BY <2>2, <2>3, <2>4
<1>2. ASSUME NEW w \in Workers, ClaimRow(w) \/ RefuseClaim
      PROVE  /\ status' \in Status /\ WorkersOK' /\ claims' \in Nat
             /\ UNCHANGED <<saves, reopens>>
             /\ OneClaimPerRound' /\ OneSavePerRound'
    <2>1. CASE ClaimRow(w)
        BY <2>1, GotoType DEF ClaimRow, WorkerStep
    <2>2. CASE RefuseClaim
        BY <2>2 DEF RefuseClaim, workerVars, historyVars, WorkersOK
    <2>3. QED BY <1>2, <2>1, <2>2
<1>3. ASSUME NEW w \in Workers, Deliver(w)
      PROVE  IInv'
    BY <1>2, <1>3 DEF Deliver, NotRow, NotOthers, apiVars, recoveryVars, WorkersOK
<1>4. ASSUME NEW w \in Workers, NEW r \in Requests, ExecuteInline(w, r)
      PROVE  IInv'
    BY <1>2, <1>4 DEF ExecuteInline, NotRow, recoveryVars, WorkersOK
<1>5. ASSUME NEW w \in Workers, Crash(w)
      PROVE  IInv'
    BY <1>5, GotoType DEF Crash, rowVars, NotOthers, NotCounts, apiVars, recoveryVars,
       WorkersOK, WorkerStep
<1>6. ASSUME NEW r \in Requests, RetryRead(r) \/ Proceed(r)
      PROVE  IInv'
    <2> USE DEF ToRequest, rowVars, workerVars, recoveryVars, historyVars, NotRow, NotWorkers
    <2>1. CASE CreateSend(r)
        BY <2>1 DEF CreateSend, SendOk, SendError
    <2>2. CASE MarkQueued(r)
        BY <2>2 DEF MarkQueued
    <2>3. CASE MarkQueueFailure(r)
        <3>1. RowsOK' /\ OneClaimPerRound' /\ OneSavePerRound'
            BY <2>3 DEF MarkQueueFailure, NotCounts
        <3>2. crossed' \in BOOLEAN
            BY <2>3, Zenon DEF MarkQueueFailure
        <3>3. QED BY <3>1, <3>2
    <2>4. CASE RetryRead(r)
        <3>1. RowsOK' /\ OneClaimPerRound' /\ OneSavePerRound'
            BY <2>4 DEF RetryRead, NotCounts
        <3>2. crossed' \in BOOLEAN
            BY <2>4, Zenon DEF RetryRead, NoteRetry
        <3>3. QED BY <3>1, <3>2
    <2>5. CASE RetryWrite(r)
        <3>1. RowsOK' /\ OneClaimPerRound' /\ OneSavePerRound'
            BY <2>5 DEF RetryWrite, NewRound
        <3>2. crossed' \in BOOLEAN
            BY <2>5, Zenon DEF RetryWrite, NoteRetry
        <3>3. QED BY <3>1, <3>2
    <2>6. CASE RetrySend(r)
        BY <2>6 DEF RetrySend, SendOk, SendError
    <2>7. CASE AbandonRequest(r)
        BY <2>7 DEF AbandonRequest
    <2>8. QED
        BY <1>6, <2>1, <2>2, <2>3, <2>4, <2>5, <2>6, <2>7 DEF Proceed
<1>7. ASSUME Cancel PROVE IInv'
    BY <1>7 DEF Cancel, NotRow, NotOthers, NotCounts, workerVars, apiVars, recoveryVars
<1>8. ASSUME Recover \/ AbandonRecovery PROVE IInv'
    <2> USE DEF rowVars, workerVars, apiVars, historyVars
    <2>1. CASE RecoverRead
        <3>1. RowsOK' /\ OneClaimPerRound' /\ OneSavePerRound'
            BY <2>1 DEF RecoverRead, NotCounts
        <3>2. crossed' \in BOOLEAN
            BY <2>1, Zenon DEF RecoverRead
        <3>3. QED BY <3>1, <3>2
    <2>2. CASE RecoverWrite
        BY <2>2 DEF RecoverWrite, NotCounts, NewRound, NotWorkers
    <2>3. CASE Requeue
        BY <2>3 DEF Requeue
    <2>4. CASE AbandonRecovery
        BY <2>4 DEF AbandonRecovery
    <2>5. QED BY <1>8, <2>1, <2>2, <2>3, <2>4 DEF Recover
<1>9. ASSUME LoseMessage PROVE IInv'
    BY <1>9 DEF LoseMessage, rowVars, workerVars, apiVars, recoveryVars, historyVars
<1>10. ASSUME UNCHANGED vars PROVE IInv'
    BY <1>10 DEF vars, rowVars, workerVars, apiVars, recoveryVars, historyVars
<1>11. QED
    BY <1>1, <1>3, <1>4, <1>5, <1>6, <1>7, <1>8, <1>9, <1>10 DEF Next

(* Every variable of the model keeps its type, for any number of workers,  *)
(* requests and retries.                                                   *)
THEOREM Typing == Spec => []TypeOK
<1>1. IInv => TypeOK
    BY DEF IInv
<1>2. QED BY <1>1, InitIInv, NextIInv, PTL DEF Spec

(* claim_task lets a task be executed once per round, whatever the broker  *)
(* delivers and whichever worker dies.                                     *)
THEOREM ClaimedOncePerRound == Spec => []OneClaimPerRound
<1>1. IInv => OneClaimPerRound
    BY DEF IInv
<1>2. QED BY <1>1, InitIInv, NextIInv, PTL DEF Spec

(* advance_task_if_status lets one worker per round into the saving phase, *)
(* however many workers of earlier rounds are still running.               *)
THEOREM SavedOncePerRound == Spec => []OneSavePerRound
<1>1. IInv => OneSavePerRound
    BY DEF IInv
<1>2. QED BY <1>1, InitIInv, NextIInv, PTL DEF Spec

-----------------------------------------------------------------------------
(* As long as no retry, recovery pass or failed send has crossed another   *)
(* actor, a row that is open, or that recovery is about to write, belongs  *)
(* to no worker.                                                           *)

AllIdle == \A w \in Workers : pc[w] = "idle"

PastSaving == {"fetching", "lost", "lost_early", "failing", "fail_write",
               "local_rescue", "local_rescue_write", "rescue", "rescue_write"}

DoomedStopped ==
    \A w \in doomed : pc[w] \in PastSaving /\ status \in {"cancelled", "failed"}

Uncrossed ==
    /\ AtMostOne
    /\ status \in Open => AllIdle
    /\ recovery = "stale_read" => AllIdle /\ status \notin Open
    /\ DoomedStopped

QuietInv == ~crossed => Uncrossed

(* A worker that executes is the only one that holds the task, and leaves  *)
(* the row closed.                                                         *)
LEMMA ExecuteAlone ==
    ASSUME IInv, Uncrossed, NEW w \in Workers,
           pc[w] # "idle", pc' = [pc EXCEPT ![w] = pc'[w]],
           status' \notin Open, UNCHANGED recovery,
           doomed' \subseteq doomed,
           w \in doomed' => pc'[w] \in PastSaving /\ status' \in {"cancelled", "failed"}
    PROVE  Uncrossed'
<1>1. \A v \in Workers \ {w} : pc[v] = "idle" /\ pc'[v] = "idle"
    BY DEF Uncrossed, AtMostOne, IInv, TypeOK, RowsOK
<1>2. AtMostOne'
    BY <1>1 DEF AtMostOne
<1>3. doomed' \subseteq {w}
    BY <1>1 DEF Uncrossed, DoomedStopped, PastSaving, IInv, TypeOK, RowsOK
<1>4. DoomedStopped'
    BY <1>3 DEF DoomedStopped
<1>5. recovery # "stale_read"
    BY DEF Uncrossed, AllIdle
<1>6. QED
    BY <1>2, <1>4, <1>5 DEF Uncrossed

(* What one step of an execution does to a worker doomed by a cancel.      *)
LEMMA ExecuteMoves ==
    ASSUME IInv, Uncrossed, NEW w \in Workers, Execute(w) \/ RaiseError(w)
    PROVE  /\ pc[w] # "idle"
           /\ pc' = [pc EXCEPT ![w] = pc'[w]]
           /\ doomed' \subseteq doomed
           /\ w \in doomed' => pc'[w] \in PastSaving /\ status' \in {"cancelled", "failed"}
<1> USE DEF IInv, TypeOK, RowsOK, Uncrossed, DoomedStopped, PastSaving, Step, Goto,
           GotoWith, Advance
<1> USE HandlersType
<1>1. CASE LoadUnpublished(w) \/ RefuseUnpublished(w)
    BY <1>1 DEF LoadUnpublished, RefuseUnpublished
<1>2. CASE StartCoze(w) \/ InvokeCoze(w)
    BY <1>2 DEF StartCoze, InvokeCoze
<1>3. CASE CozeResponded(w) \/ CozeNormalized(w)
    BY <1>3 DEF CozeResponded, CozeNormalized, EnterSaving, LostInner
<1>4. CASE StartLocal(w) \/ StartGeneric(w)
    BY <1>4 DEF StartLocal, StartGeneric
<1>5. CASE FetchReturned(w)
    BY <1>5 DEF FetchReturned, EnterSaving, LostInner
<1>6. CASE RefreshForSaving(w) \/ FinishSaving(w)
    BY <1>6 DEF RefreshForSaving, FinishSaving
<1>7. CASE FinishCancelled(w)
    BY <1>7 DEF FinishCancelled, InnerHandler
<1>8. CASE RefreshFailed(w)
    <2>1. CASE status = "cancelled"
        BY <1>8, <2>1 DEF RefreshFailed
    <2>2. CASE status \in {"failed", "completed", "partial_failed"}
        BY <1>8, <2>2 DEF RefreshFailed
    <2>3. CASE status \notin {"cancelled", "failed", "completed", "partial_failed"}
        BY <1>8, <2>3 DEF RefreshFailed
    <2>4. QED BY <2>1, <2>2, <2>3
<1>9. CASE WriteFailed(w) \/ ReadRescue(w) \/ WriteRescue(w)
    BY <1>9 DEF WriteFailed, ReadRescue, WriteRescue
<1>10. CASE RaiseError(w)
    BY <1>10 DEF RaiseError, Handlers, InnerHandler
<1>11. QED
    BY <1>1, <1>2, <1>3, <1>4, <1>5, <1>6, <1>7, <1>8, <1>9, <1>10 DEF Execute

(* Nothing undoes a crossing.                                              *)
LEMMA CrossedStays == Next => (crossed => crossed')
<1> USE DEF NotOthers, historyVars
<1>1. ASSUME NEW w \in Workers, Execute(w) \/ RaiseError(w)
      PROVE  UNCHANGED crossed
    BY <1>1 DEF Execute, RaiseError, LoadUnpublished, RefuseUnpublished, StartCoze, InvokeCoze,
       CozeResponded, CozeNormalized, StartLocal, StartGeneric, FetchReturned,
       RefreshForSaving, FinishSaving, FinishCancelled, RefreshFailed, WriteFailed,
       ReadRescue, WriteRescue, Step
<1>2. ASSUME NEW w \in Workers, Deliver(w) \/ Crash(w) PROVE UNCHANGED crossed
    BY <1>2 DEF Deliver, Crash
<1>3. ASSUME NEW w \in Workers, NEW r \in Requests, ExecuteInline(w, r)
      PROVE  UNCHANGED crossed
    BY <1>3 DEF ExecuteInline
<1>4. ASSUME NEW r \in Requests, RetryRead(r) \/ Proceed(r)
      PROVE  crossed => crossed'
    BY <1>4 DEF RetryRead, Proceed, CreateSend, MarkQueued, MarkQueueFailure, RetryWrite,
       RetrySend, AbandonRequest, NoteRetry
<1>5. ASSUME Recover \/ AbandonRecovery PROVE crossed => crossed'
    BY <1>5 DEF Recover, RecoverRead, RecoverWrite, Requeue, AbandonRecovery
<1>6. ASSUME Cancel \/ LoseMessage PROVE UNCHANGED crossed
    BY <1>6 DEF Cancel, LoseMessage
<1>7. QED
    BY <1>1, <1>2, <1>3, <1>4, <1>5, <1>6 DEF Next

(* Every step that crosses nobody keeps Uncrossed.                         *)
LEMMA QuietNext == IInv /\ QuietInv /\ [Next]_vars => QuietInv'
<1> SUFFICES ASSUME IInv, QuietInv, [Next]_vars, ~crossed'
             PROVE  Uncrossed'
    BY DEF QuietInv
<1>0. Uncrossed /\ ~crossed
    <2>1. CASE UNCHANGED vars
        BY <2>1 DEF vars, historyVars, QuietInv
    <2>2. CASE Next
        <3>1. crossed => crossed'
            BY <2>2, CrossedStays
        <3>2. QED BY <3>1 DEF QuietInv
    <2>3. QED BY <2>1, <2>2
<1> USE <1>0 DEF IInv, TypeOK, RowsOK, Uncrossed, AtMostOne, AllIdle, DoomedStopped,
                PastSaving, Open
<1>1. ASSUME NEW w \in Workers, Execute(w) \/ RaiseError(w)
      PROVE  Uncrossed'
    <2>1. status \notin Open /\ StepEffect(w)
        BY <1>1, ExecuteEffect, ExecuteMoves
    <2>2. status' \notin Open /\ UNCHANGED recovery
        BY <2>1 DEF StepEffect, recoveryVars
    <2>3. QED BY <1>1, <2>2, ExecuteMoves, ExecuteAlone
<1>2. ASSUME NEW w \in Workers, Deliver(w)
      PROVE  Uncrossed'
    <2>1. CASE ClaimRow(w)
        BY <1>2, <2>1 DEF Deliver, ClaimRow, Goto, NotOthers, recoveryVars
    <2>2. CASE RefuseClaim
        BY <1>2, <2>2 DEF Deliver, RefuseClaim, workerVars, historyVars, NotOthers, recoveryVars
    <2>3. QED BY <1>2, <2>1, <2>2 DEF Deliver
<1>3. ASSUME NEW w \in Workers, NEW r \in Requests, ExecuteInline(w, r)
      PROVE  Uncrossed'
    <2>1. CASE ClaimRow(w)
        BY <1>3, <2>1 DEF ExecuteInline, ClaimRow, Goto, recoveryVars
    <2>2. CASE RefuseClaim
        BY <1>3, <2>2 DEF ExecuteInline, RefuseClaim, workerVars, historyVars, recoveryVars
    <2>3. QED BY <1>3, <2>1, <2>2 DEF ExecuteInline
<1>4. ASSUME NEW w \in Workers, Crash(w)
      PROVE  Uncrossed'
    BY <1>4 DEF Crash, Goto, rowVars, NotOthers, recoveryVars
<1>5. ASSUME NEW r \in Requests, RetryRead(r) \/ Proceed(r)
      PROVE  Uncrossed'
    <2> USE DEF rowVars, workerVars, recoveryVars, historyVars, NotWorkers
    <2>1. CASE CreateSend(r)
        BY <2>1 DEF CreateSend
    <2>2. CASE MarkQueued(r)
        BY <2>2 DEF MarkQueued
    <2>3. CASE MarkQueueFailure(r)
        BY <2>3 DEF MarkQueueFailure, NotCounts
    <2>4. CASE RetryRead(r)
        BY <2>4 DEF RetryRead, NotCounts
    <2>5. CASE RetryWrite(r)
        BY <2>5 DEF RetryWrite, NoteRetry, Quiet
    <2>6. CASE RetrySend(r)
        BY <2>6 DEF RetrySend
    <2>7. CASE AbandonRequest(r)
        BY <2>7 DEF AbandonRequest
    <2>8. QED
        BY <1>5, <2>1, <2>2, <2>3, <2>4, <2>5, <2>6, <2>7 DEF Proceed
<1>6. ASSUME Cancel PROVE Uncrossed'
    <2>1. status \notin {"cancelled", "failed"}
        BY <1>6 DEF Cancel, transitions
    <2>2. doomed = {}
        BY <2>1
    <2>3. \A w \in doomed' : pc[w] = "fetching"
        BY <1>6, <2>2 DEF Cancel
    <2>4. QED
        BY <1>6, <2>3 DEF Cancel, NotOthers, workerVars, recoveryVars
<1>7. ASSUME Recover \/ AbandonRecovery PROVE Uncrossed'
    <2> USE DEF rowVars, workerVars, historyVars, NotWorkers
    <2>1. CASE RecoverRead
        BY <2>1 DEF RecoverRead, Stale, Active
    <2>2. CASE RecoverWrite
        BY <2>2 DEF RecoverWrite
    <2>3. CASE Requeue
        BY <2>3 DEF Requeue
    <2>4. CASE AbandonRecovery
        BY <2>4 DEF AbandonRecovery
    <2>5. QED BY <1>7, <2>1, <2>2, <2>3, <2>4 DEF Recover
<1>8. ASSUME LoseMessage PROVE Uncrossed'
    BY <1>8 DEF LoseMessage, rowVars, workerVars, recoveryVars, historyVars
<1>9. ASSUME UNCHANGED vars PROVE Uncrossed'
    BY <1>9 DEF vars, rowVars, workerVars, recoveryVars, historyVars
<1>10. QED
    BY <1>1, <1>2, <1>3, <1>4, <1>5, <1>6, <1>7, <1>8, <1>9 DEF Next

(* Nobody works on a task that has just been created.                      *)
LEMMA QuietInit == Init => QuietInv
    BY DEF Init, QuietInv, Uncrossed, AtMostOne, AllIdle, DoomedStopped

(* Workers hold the task one at a time: claim_task and recovery need no    *)
(* owner column as long as nothing crosses an execution.                   *)
THEOREM ExclusiveUnlessCrossed == Spec => []Exclusive
<1>1. QuietInv => Exclusive
    BY DEF QuietInv, Uncrossed, Exclusive
<1>2. QED BY <1>1, InitIInv, NextIInv, QuietInit, QuietNext, PTL DEF Spec

(* The answer of the cancel request is true under the same condition:      *)
(* what was being fetched when it succeeded is never saved.                *)
THEOREM CancelledFetchUnlessCrossed == Spec => []CancelledFetchNotSaved
<1>1. QuietInv => CancelledFetchNotSaved
    BY DEF QuietInv, Uncrossed, DoomedStopped, PastSaving, CancelledFetchNotSaved,
       CancelledFetchNeverSaved
<1>2. QED BY <1>1, InitIInv, NextIInv, QuietInit, QuietNext, PTL DEF Spec

(* The three together: a round of a task is one execution.                 *)
THEOREM RoundIsOneExecution == Spec => []OncePerRound
<1>1. OneClaimPerRound /\ OneSavePerRound /\ Exclusive => OncePerRound
    BY DEF OncePerRound
<1>2. QED
    BY <1>1, ClaimedOncePerRound, SavedOncePerRound, ExclusiveUnlessCrossed, PTL

-----------------------------------------------------------------------------
(* Under the same condition a finished task has no worker left, recovery   *)
(* never holds a stale read of one, and a retry that has read the row      *)
(* still finds it as it was.                                               *)

Finished == {"completed", "waiting_review"}

KeptApart ==
    /\ status \in Finished => AllIdle
    /\ recovery = "stale_read" => status \notin Finished
    /\ \A r \in Requests : api[r] = "retry_read" =>
          AllIdle /\ recovery # "stale_read" /\ status \notin Finished \cup Open

KeptInv == ~crossed => KeptApart

(* What a step does to a finished task, at most: a review is cancelled.    *)
FinishedStands ==
    /\ status = "completed" => status' = "completed"
    /\ status = "waiting_review" => status' \in {"waiting_review", "cancelled"}

(* The only step of an execution that finishes the task is its last one    *)
(* (the commit at the end of saving).                                      *)
LEMMA FinishIsLast ==
    ASSUME IInv, NEW w \in Workers, Execute(w) \/ RaiseError(w),
           status \notin Finished, status' \in Finished
    PROVE  pc'[w] = "idle"
<1> USE DEF IInv, TypeOK, RowsOK, Finished, Step, Goto, GotoWith, Advance
<1>1. CASE LoadUnpublished(w) \/ RefuseUnpublished(w)
    BY <1>1 DEF LoadUnpublished, RefuseUnpublished
<1>2. CASE StartCoze(w) \/ InvokeCoze(w)
    BY <1>2 DEF StartCoze, InvokeCoze
<1>3. CASE CozeResponded(w) \/ CozeNormalized(w)
    BY <1>3 DEF CozeResponded, CozeNormalized, EnterSaving
<1>4. CASE StartLocal(w) \/ StartGeneric(w)
    BY <1>4 DEF StartLocal, StartGeneric
<1>5. CASE FetchReturned(w)
    BY <1>5 DEF FetchReturned, EnterSaving
<1>6. CASE RefreshForSaving(w) \/ FinishSaving(w)
    BY <1>6 DEF RefreshForSaving, FinishSaving
<1>7. CASE FinishCancelled(w)
    BY <1>7 DEF FinishCancelled
<1>8. CASE RefreshFailed(w)
    BY <1>8 DEF RefreshFailed
<1>9. CASE WriteFailed(w) \/ ReadRescue(w) \/ WriteRescue(w)
    BY <1>9 DEF WriteFailed, ReadRescue, WriteRescue
<1>10. CASE RaiseError(w)
    BY <1>10 DEF RaiseError
<1>11. QED
    BY <1>1, <1>2, <1>3, <1>4, <1>5, <1>6, <1>7, <1>8, <1>9, <1>10 DEF Execute

(* Every step that crosses nobody keeps the actors apart and what is       *)
(* finished as it is.                                                      *)
LEMMA KeptNext ==
    IInv /\ QuietInv /\ KeptInv /\ [Next]_vars /\ ~crossed' => KeptApart' /\ FinishedStands
<1> SUFFICES ASSUME IInv, QuietInv, KeptInv, [Next]_vars, ~crossed'
             PROVE  KeptApart' /\ FinishedStands
    OBVIOUS
<1>0. Uncrossed /\ KeptApart /\ ~crossed
    <2>1. CASE UNCHANGED vars
        BY <2>1 DEF vars, historyVars, QuietInv, KeptInv
    <2>2. CASE Next
        <3>1. crossed => crossed'
            BY <2>2, CrossedStays
        <3>2. QED BY <3>1 DEF QuietInv, KeptInv
    <2>3. QED BY <2>1, <2>2
<1> USE <1>0 DEF IInv, TypeOK, RowsOK, KeptApart, FinishedStands, Finished, AllIdle, Open
<1>1. ASSUME NEW w \in Workers, Execute(w) \/ RaiseError(w)
      PROVE  KeptApart' /\ FinishedStands
    <2>1. pc[w] # "idle" /\ pc' = [pc EXCEPT ![w] = pc'[w]] /\ StepEffect(w)
        BY <1>1, ExecuteEffect, ExecuteMoves
    <2>2. \A v \in Workers \ {w} : pc[v] = "idle" /\ pc'[v] = "idle"
        BY <2>1 DEF Uncrossed, AtMostOne
    <2>3. status \notin Finished
        BY <2>1
    <2>4. status' \in Finished => pc'[w] = "idle"
        BY <1>1, <2>3, FinishIsLast
    <2>5. status' \in Finished => AllIdle'
        BY <2>2, <2>4
    <2>6. recovery' # "stale_read" /\ \A r \in Requests : api'[r] # "retry_read"
        BY <2>1 DEF Uncrossed, StepEffect, recoveryVars, apiVars
    <2>7. QED BY <2>3, <2>5, <2>6
<1>2. ASSUME NEW w \in Workers, Deliver(w)
      PROVE  KeptApart' /\ FinishedStands
    <2>1. CASE ClaimRow(w)
        BY <1>2, <2>1 DEF Deliver, ClaimRow, Goto, NotOthers, recoveryVars, apiVars, Uncrossed
    <2>2. CASE RefuseClaim
        BY <1>2, <2>2 DEF Deliver, RefuseClaim, workerVars, NotOthers, recoveryVars, apiVars
    <2>3. QED BY <1>2, <2>1, <2>2 DEF Deliver
<1>3. ASSUME NEW w \in Workers, NEW r \in Requests, ExecuteInline(w, r)
      PROVE  KeptApart' /\ FinishedStands
    <2>1. CASE ClaimRow(w)
        BY <1>3, <2>1 DEF ExecuteInline, ClaimRow, Goto, recoveryVars, Uncrossed
    <2>2. CASE RefuseClaim
        BY <1>3, <2>2 DEF ExecuteInline, RefuseClaim, workerVars, recoveryVars
    <2>3. QED BY <1>3, <2>1, <2>2 DEF ExecuteInline
<1>4. ASSUME NEW w \in Workers, Crash(w)
      PROVE  KeptApart' /\ FinishedStands
    BY <1>4 DEF Crash, Goto, rowVars, NotOthers, recoveryVars, apiVars
<1>5. ASSUME NEW r \in Requests, RetryRead(r) \/ Proceed(r)
      PROVE  KeptApart' /\ FinishedStands
    <2> USE DEF ToRequest, rowVars, workerVars, recoveryVars, NotWorkers
    <2>1. CASE CreateSend(r)
        BY <2>1 DEF CreateSend
    <2>2. CASE MarkQueued(r)
        BY <2>2 DEF MarkQueued
    <2>3. CASE MarkQueueFailure(r)
        BY <2>3 DEF MarkQueueFailure
    <2>4. CASE RetryRead(r)
        <3>1. Quiet(r)
            BY <2>4 DEF RetryRead, NoteRetry
        <3>2. status \notin Finished \cup Open
            BY <2>4 DEF RetryRead, transitions
        <3>3. QED BY <2>4, <3>1, <3>2 DEF RetryRead, Quiet
    <2>5. CASE RetryWrite(r)
        <3>1. Quiet(r)
            BY <2>5 DEF RetryWrite, NoteRetry
        <3>2. QED BY <2>5, <3>1 DEF RetryWrite, Quiet
    <2>6. CASE RetrySend(r)
        BY <2>6 DEF RetrySend
    <2>7. CASE AbandonRequest(r)
        BY <2>7 DEF AbandonRequest
    <2>8. QED
        BY <1>5, <2>1, <2>2, <2>3, <2>4, <2>5, <2>6, <2>7 DEF Proceed
<1>6. ASSUME Cancel PROVE KeptApart' /\ FinishedStands
    BY <1>6 DEF Cancel, transitions, NotOthers, workerVars, recoveryVars, apiVars
<1>7. ASSUME Recover \/ AbandonRecovery PROVE KeptApart' /\ FinishedStands
    <2> USE DEF rowVars, workerVars, apiVars, NotWorkers
    <2>1. CASE RecoverRead
        BY <2>1 DEF RecoverRead, Stale, Active
    <2>2. CASE RecoverWrite
        BY <2>2 DEF RecoverWrite
    <2>3. CASE Requeue
        BY <2>3 DEF Requeue
    <2>4. CASE AbandonRecovery
        BY <2>4 DEF AbandonRecovery
    <2>5. QED BY <1>7, <2>1, <2>2, <2>3, <2>4 DEF Recover
<1>8. ASSUME LoseMessage PROVE KeptApart' /\ FinishedStands
    BY <1>8 DEF LoseMessage, rowVars, workerVars, recoveryVars, apiVars
<1>9. ASSUME UNCHANGED vars PROVE KeptApart' /\ FinishedStands
    BY <1>9 DEF vars, rowVars, workerVars, recoveryVars, apiVars
<1>10. QED
    BY <1>1, <1>2, <1>3, <1>4, <1>5, <1>6, <1>7, <1>8, <1>9 DEF Next

(* A task that has just been created is not finished.                      *)
LEMMA KeptInit == Init => KeptInv
    BY DEF Init, KeptInv, KeptApart, Finished

(* Unless requests crossed, a completed task stays completed and one that  *)
(* waits for review is not crawled again: the unconditional writes of      *)
(* saving, of the failure handlers, of retry_task and of                   *)
(* recover_stale_tasks never reach it.                                     *)
THEOREM SettledStays == Spec => SettledIsKept
<1>1. IInv /\ QuietInv /\ KeptInv /\ [Next]_vars => KeptInv'
    BY KeptNext DEF KeptInv
<1>2. IInv /\ QuietInv /\ KeptInv /\ [Next]_vars =>
          (~crossed' => /\ status = "completed" => status' = "completed"
                        /\ status = "waiting_review" => status' # "pending")
    BY KeptNext DEF FinishedStands
<1>3. QED
    BY <1>1, <1>2, InitIInv, NextIInv, QuietInit, QuietNext, KeptInit, PTL
    DEF Spec, SettledIsKept

-----------------------------------------------------------------------------
(* One crawl (ColumnCrawl).  What its variables hold.                      *)

Stages == {"pagination", "api", "detail", "article", "saving_documents"}
Codes ==
    {"PAGINATION_FAILED", "LIST_SCHEMA_UNKNOWN", "SPA_API_REQUEST_FAILED", "SOURCE_BLOCKED",
     "RATE_LIMITED", "ARTICLE_FETCH_FAILED", "DETAIL_SCHEMA_UNKNOWN", "PROVIDER",
     "ARTICLE_FAILED", "SAVE_FAILED"}
FetchRecord ==
    [for : {"none", "list", "api", "detail", "coze"}, url : Urls, to : Urls,
     checked : Urls, hop : 0 .. MaxRedirects, attempt : Nat]
ApiRecord ==
    [hints : Seq(ApiUrls), relative : BOOLEAN, hint : Nat \ {0}, url : Urls, page : 0 .. ApiPages]
ScanRecord ==
    [page : 0 .. MaxPages, current : Urls, at : Urls, visited : SUBSET Urls,
     answered : SUBSET Urls, links : SUBSET Urls, barren : 0 .. StopAfter, api : ApiRecord]
CandidateRecord == [url : Urls, content : BOOLEAN, direct : BOOLEAN]
FailureRecord == [url : Urls, stage : Stages, code : Codes, retryable : BOOLEAN]
ArticleRecord == [of : Urls, url : Urls, decision : Decisions]
ClaimRecord == [discovered : Nat, success : BOOLEAN, empty : BOOLEAN]
Documents == UNION {[D -> DocumentStates] : D \in SUBSET Urls}
TaskRecord ==
    [status : TaskStatus, failed : Nat, rows : SUBSET FailureRecord, docs : Documents]

DiscoveryTyped == scan \in ScanRecord /\ candidates \in Seq(CandidateRecord) /\ seen \subseteq Urls
BatchTyped ==
    failures \in Seq(FailureRecord) /\ articles \in Seq(ArticleRecord) /\ claim \in ClaimRecord
CrawlTyped ==
    /\ step \in Steps /\ job \in Jobs /\ next \in Nat \ {0}
    /\ fetch \in FetchRecord /\ task \in TaskRecord
    /\ DiscoveryTyped /\ BatchTyped

(* Where the crawl is.                                                     *)
Fetching(purpose) == step = "fetching" /\ fetch.for = purpose
AtApi == step \in {"api", "items"} \/ Fetching("api")
OnPage == Fetching("list") \/ step \in {"links", "turn"} \/ AtApi

(* Pages: each one that was requested has been counted.                    *)
PagesCounted ==
    /\ IsFiniteSet(scan.visited) /\ Cardinality(scan.visited) <= MaxPages
    /\ OnPage => scan.page < MaxPages /\ Cardinality(scan.visited) <= scan.page + 1
    /\ step \in {"start", "list"} => Cardinality(scan.visited) <= scan.page
    /\ step \in {"start", "list"} \/ Fetching("list") => scan.barren < StopAfter

(* There is room for a candidate wherever one may be found.                *)
RoomLeft ==
    /\ Len(candidates) <= job.limit
    /\ Fetching("list") \/ step = "api" \/ Fetching("api") => ~Full
    /\ step \in {"links", "items"} /\ scan.links # {} => ~Full

(* The hint in hand is one of the hints.                                   *)
HintInHand ==
    /\ AtApi => scan.api.hint <= Len(scan.api.hints)
    /\ step = "items" \/ Fetching("api") => scan.api.page < ApiPages

(* The article in hand is a candidate.                                     *)
CandidateInHand ==
    /\ step = "fetching" => fetch.for \in {"list", "api", "detail"}
    /\ Fetching("detail") => next <= Len(candidates) /\ fetch.url = candidates[next].url

(* What the generic crawler has listed it remembers, and only the first    *)
(* candidate may be the page itself.                                       *)
Remembered ==
    job.adapter = "generic" =>
        \A i \in 1 .. Len(candidates) :
            /\ candidates[i].direct => i = 1
            /\ ~candidates[i].direct => candidates[i].url \in seen
            /\ \A j \in 1 .. Len(candidates) :
                  i < j /\ candidates[i].url = candidates[j].url => candidates[i].direct

Paging == PagesCounted /\ RoomLeft /\ HintInHand /\ CandidateInHand /\ Remembered
WalkInv == CrawlTyped /\ Paging

-----------------------------------------------------------------------------
(* What the limits are, and what a URL can be.                             *)

LEMMA Limits ==
    /\ MaxPages \in Nat \ {0} /\ MaxArticles \in Nat \ {0} /\ StopAfter \in Nat \ {0}
    /\ ApiPages \in Nat \ {0} /\ MaxAttempts \in Nat \ {0}
    /\ LastPage \in Nat /\ MaxRedirects \in Nat /\ MaxRetries \in Nat /\ MaxHints \in Nat
BY LimitsAssumption

LEMMA JobFacts ==
    ASSUME job \in Jobs
    PROVE  /\ job.limit \in Nat \ {0}
           /\ job.provider \in {"local", "coze"}
           /\ job.provider = "local" <=> job.adapter \in {"generic", "govcn"}
           /\ job.provider = "coze" <=> job.adapter = "none"
BY Limits DEF Jobs

LEMMA NamedUrls ==
    /\ Column \in Urls /\ Foreign \in Urls /\ Malformed \in Urls /\ None \in Urls
    /\ ArticleUrls \subseteq Urls /\ ApiUrls \subseteq Urls /\ ListUrls \subseteq Urls
    /\ Generated \subseteq Urls /\ PageUrls \subseteq Urls /\ Fetchable \subseteq Urls
    /\ LinkUrls \subseteq Urls /\ FeedUrls \subseteq Urls
BY Limits DEF Urls, PageUrls, ListUrls, Generated, Fetchable, LinkUrls, FeedUrls,
              Column, Foreign, Malformed, None

LEMMA NormalizedUrl == \A u \in Urls : normalize_url(u) \in Urls
<1> SUFFICES ASSUME NEW u \in Urls PROVE normalize_url(u) \in Urls
  OBVIOUS
<1>1. CASE u[1] = "generated"
  <2>1. u \in Generated
    BY <1>1 DEF Urls, PageUrls, ListUrls, Generated, ArticleUrls, ApiUrls, Foreign, Malformed, None
  <2>2. u[2] \in 0 .. LastPage
    BY <2>1 DEF Generated
  <2>3. <<"list", u[2]>> \in ListUrls
    BY <2>2 DEF ListUrls
  <2>. QED BY <1>1, <2>3 DEF normalize_url, Urls, PageUrls
<1>2. CASE u[1] # "generated"
  BY <1>2 DEF normalize_url
<1>. QED BY <1>1, <1>2

LEMMA DocumentsOf ==
    /\ <<>> \in Documents
    /\ \A d \in Documents : \A u \in DOMAIN d : d[u] \in DocumentStates
    /\ \A d \in Documents : DOMAIN d \subseteq Urls
<1>1. <<>> \in [{} -> DocumentStates]
  OBVIOUS
<1>. QED BY <1>1 DEF Documents

LEMMA SetDocTyped ==
    ASSUME task.docs \in Documents, NEW u \in Urls, NEW state \in DocumentStates
    PROVE  /\ SetDoc(u, state) \in Documents
           /\ DOMAIN SetDoc(u, state) = DOMAIN task.docs \cup {u}
<1>1. \A v \in DOMAIN task.docs : task.docs[v] \in DocumentStates
  BY DocumentsOf
<1>2. SetDoc(u, state) \in [DOMAIN task.docs \cup {u} -> DocumentStates]
  BY <1>1 DEF SetDoc
<1>3. DOMAIN task.docs \cup {u} \subseteq Urls
  BY DocumentsOf
<1>. QED BY <1>2, <1>3 DEF Documents, SetDoc

(* The last of the equal ones: a set of indexes has a greatest element,    *)
(* because the index sets above its elements are ordered by inclusion.     *)
LEMMA GreatestIndex ==
    ASSUME NEW n \in Nat, NEW S \in SUBSET (1 .. n), S # {}
    PROVE  \E j \in S : \A k \in S : k <= j
<1> DEFINE I == 1 .. n
           T == {j + 1 .. n : j \in S}
<1>1. T # {} /\ T \subseteq SUBSET I
  <2>1. \A j \in S : j + 1 .. n \subseteq I
    OBVIOUS
  <2>. QED BY <2>1
<1>2. IsFiniteSet(I) /\ FiniteSubsetsOf(I) = SUBSET I
  BY FS_Interval, FS_FiniteSubsetsOfFinite
<1>3. IsWellFoundedOn(StrictSubsetOrdering(I), SUBSET I)
  BY <1>2, FS_StrictSubsetOrderingWellFounded
<1>4. PICK x \in T : \A y \in T : ~(<<y, x>> \in StrictSubsetOrdering(I))
  <2> HIDE DEF I, T
  <2>. QED BY <1>1, <1>3, WFMin
<1>5. PICK j \in S : x = j + 1 .. n
  OBVIOUS
<1>6. ASSUME NEW k \in S, k > j PROVE FALSE
  <2>1. k + 1 .. n \in T /\ k + 1 .. n \subseteq x
    BY <1>5, <1>6
  <2>2. k \in x /\ k \notin k + 1 .. n
    BY <1>5, <1>6
  <2>3. <<k + 1 .. n, x>> \in StrictSubsetOrdering(I)
    <3> HIDE DEF I
    <3>. QED BY <1>1, <2>1, <2>2 DEF StrictSubsetOrdering
  <2>. QED BY <1>4, <2>1, <2>3
<1>. QED BY <1>6

-----------------------------------------------------------------------------
(* Pieces of steps.                                                        *)

LEMMA ConstantsTyped ==
    /\ NoFetch \in FetchRecord /\ NoApi \in ApiRecord /\ NoScan \in ScanRecord
    /\ NoScan.visited = {} /\ NoScan.page = 0 /\ NoScan.links = {}
BY Limits, NamedUrls DEF NoFetch, NoApi, NoScan, FetchRecord, ApiRecord, ScanRecord

LEMMA FailureTyped ==
    ASSUME NEW u \in Urls, NEW stage \in Stages, NEW code \in Codes, NEW r \in BOOLEAN
    PROVE  Failure(u, stage, code, r) \in FailureRecord
BY DEF Failure, FailureRecord

LEMMA Appended ==
    ASSUME NEW S, NEW s \in Seq(S), NEW e \in S, NEW t, t = Append(s, e)
    PROVE  /\ t \in Seq(S) /\ Len(s) \in Nat /\ Len(t) = Len(s) + 1
           /\ t[Len(s) + 1] = e
           /\ \A i \in 1 .. Len(s) : i \in 1 .. Len(t) /\ t[i] = s[i]
           /\ \A i \in 1 .. Len(t) : i \in 1 .. Len(s) \/ i = Len(s) + 1
           /\ \A i \in 1 .. Len(t) : t[i] = e \/ (i \in 1 .. Len(s) /\ t[i] = s[i])
<1>1. /\ t \in Seq(S) /\ Len(s) \in Nat /\ Len(t) = Len(s) + 1 /\ t[Len(s) + 1] = e
      /\ \A i \in 1 .. Len(s) : i \in 1 .. Len(t) /\ t[i] = s[i]
      /\ \A i \in 1 .. Len(t) : i \in 1 .. Len(s) \/ i = Len(s) + 1
  OBVIOUS
<1>2. ASSUME NEW i \in 1 .. Len(t) PROVE t[i] = e \/ (i \in 1 .. Len(s) /\ t[i] = s[i])
  <2>1. CASE i \in 1 .. Len(s)
    BY <1>1, <2>1
  <2>2. CASE i = Len(s) + 1
    BY <1>1, <2>2
  <2>. QED BY <1>1, <2>1, <2>2
<1>. QED BY <1>1, <1>2

LEMMA FailKeepsTypes ==
    ASSUME failures \in Seq(FailureRecord), NEW f \in FailureRecord, Fail(f)
    PROVE  /\ failures' \in Seq(FailureRecord)
           /\ Len(failures') = Len(failures) + 1
           /\ failures'[Len(failures) + 1] = f
           /\ \A i \in 1 .. Len(failures) : failures'[i] = failures[i]
BY DEF Fail

LEMMA CodesTyped ==
    \A e : ErrorCode(e) \in Codes /\ retryable_exception(e) \in BOOLEAN
<1>1. \A e : retryable_exception(e) \in BOOLEAN
  BY Zenon DEF retryable_exception
<1>2. \A e : ErrorCode(e) \in Codes
  BY DEF ErrorCode, Codes
<1>. QED BY <1>1, <1>2

LEMMA TaskFields ==
    ASSUME task \in TaskRecord
    PROVE  /\ task.status \in TaskStatus /\ task.failed \in Nat
           /\ task.rows \subseteq FailureRecord /\ task.docs \in Documents
BY DEF TaskRecord

LEMMA ScanFields ==
    ASSUME scan \in ScanRecord
    PROVE  /\ scan.page \in 0 .. MaxPages /\ scan.current \in Urls /\ scan.at \in Urls
           /\ scan.visited \subseteq Urls /\ scan.answered \subseteq Urls
           /\ scan.links \subseteq Urls /\ scan.barren \in 0 .. StopAfter
           /\ scan.api \in ApiRecord
           /\ scan.api.hints \in Seq(ApiUrls) /\ scan.api.relative \in BOOLEAN
           /\ scan.api.hint \in Nat \ {0} /\ scan.api.url \in Urls
           /\ scan.api.page \in 0 .. ApiPages
BY DEF ScanRecord, ApiRecord

LEMMA FetchFields ==
    ASSUME fetch \in FetchRecord
    PROVE  /\ fetch.for \in {"none", "list", "api", "detail", "coze"}
           /\ fetch.url \in Urls /\ fetch.to \in Urls /\ fetch.checked \in Urls
           /\ fetch.hop \in 0 .. MaxRedirects /\ fetch.attempt \in Nat
BY DEF FetchRecord

LEMMA AbortKeepsTypes ==
    ASSUME task \in TaskRecord, Abort
    PROVE  /\ task' \in TaskRecord /\ step' = "done"
           /\ task'.status = "failed" /\ task'.rows = {}
BY DocumentsOf DEF Abort, TaskRecord, TaskStatus

LEMMA CozeAbortKeepsTypes ==
    ASSUME task \in TaskRecord, CozeAbort
    PROVE  task' \in TaskRecord /\ step' = "done" /\ task'.status = "failed"
<1> DEFINE n == task.failed + 1
<1>1. n \in Nat /\ task' = [task EXCEPT !.status = "failed", !.failed = n] /\ step' = "done"
  BY TaskFields DEF CozeAbort
<1> HIDE DEF n
<1>. QED BY <1>1 DEF TaskRecord, TaskStatus

(* A crawl that is over or past its discovery is within its limits if its  *)
(* candidates were.                                                        *)
LEMMA Beyond ==
    ASSUME WalkInv, step' \in {"detail", "coze", "save", "done"},
           scan' = scan \/ scan' = NoScan, UNCHANGED <<job, candidates, seen>>
    PROVE  PagesCounted' /\ RoomLeft' /\ HintInHand' /\ CandidateInHand' /\ Remembered'
<1>1. CandidateInHand' /\ HintInHand'
  BY DEF CandidateInHand, HintInHand, AtApi, Fetching
<1>2. RoomLeft' /\ Remembered'
  BY DEF WalkInv, Paging, RoomLeft, Remembered, Full, Fetching
<1>3. PagesCounted'
  <2>1. CASE scan' = scan
    BY <2>1 DEF WalkInv, Paging, PagesCounted, OnPage, AtApi, Fetching
  <2>2. CASE scan' = NoScan
    BY <2>2, ConstantsTyped, FS_EmptySet, Limits
       DEF PagesCounted, OnPage, AtApi, Fetching
  <2>. QED BY <2>1, <2>2
<1>. QED BY <1>1, <1>2, <1>3

-----------------------------------------------------------------------------
(* Hints.                                                                  *)

LEMMA HintFailureTyped ==
    ASSUME CrawlTyped, HintInHand, AtApi, NEW r \in BOOLEAN
    PROVE  HintFailure(r) \in FailureRecord
<1>1. scan.api.hints[scan.api.hint] \in Urls
  BY ScanFields, NamedUrls DEF CrawlTyped, DiscoveryTyped, HintInHand
<1> DEFINE u == IF scan.api.relative THEN Malformed ELSE scan.api.hints[scan.api.hint]
           code == IF scan.api.hint = 1 THEN "LIST_SCHEMA_UNKNOWN" ELSE "SPA_API_REQUEST_FAILED"
<1>2. u \in Urls
  BY <1>1, NamedUrls
<1>4. code \in Codes /\ "api" \in Stages
  BY DEF Stages, Codes
<1>3. HintFailure(r) = Failure(u, "api", code, r)
  BY DEF HintFailure
<1> HIDE DEF u, code
<1>. QED BY <1>2, <1>3, <1>4, FailureTyped

LEMMA NextHintKeeps ==
    ASSUME WalkInv, AtApi, ~Full, NEW answered \in SUBSET Urls, NextHint(answered),
           UNCHANGED <<job, candidates, seen>>
    PROVE  /\ step' \in {"turn", "api"} /\ scan' \in ScanRecord
           /\ PagesCounted' /\ RoomLeft' /\ HintInHand' /\ CandidateInHand' /\ Remembered'
<1> DEFINE i == scan.api.hint + 1
<1>1. /\ scan \in ScanRecord /\ scan.api \in ApiRecord /\ i \in Nat \ {0}
      /\ scan.api.hints \in Seq(ApiUrls)
  BY ScanFields DEF WalkInv, CrawlTyped, DiscoveryTyped
<1>2. CASE i > Len(scan.api.hints)
  <2>1. scan' = [scan EXCEPT !.api = NoApi, !.answered = answered] /\ step' = "turn"
    BY <1>2 DEF NextHint
  <2>2. scan' \in ScanRecord
    BY <1>1, <2>1, ConstantsTyped DEF ScanRecord
  <2>. QED
    BY <2>1, <2>2, <1>1 DEF WalkInv, Paging, PagesCounted, RoomLeft, HintInHand, CandidateInHand,
       Remembered, OnPage, AtApi, Fetching, Full, ScanRecord
<1>3. CASE i <= Len(scan.api.hints)
  <2>1. scan' = [scan EXCEPT !.api = TryHint(i), !.answered = answered] /\ step' = "api"
    BY <1>1, <1>3 DEF NextHint
  <2>2. scan.api.hints[i] \in Urls
    BY <1>1, <1>3, NamedUrls
  <2>3. TryHint(i) \in ApiRecord /\ TryHint(i).hint = i /\ TryHint(i).hints = scan.api.hints
    <3> DEFINE u == scan.api.hints[i]
    <3>1. TryHint(i) = [scan.api EXCEPT !.hint = i, !.url = u, !.page = 0]
      BY DEF TryHint
    <3>2. u \in Urls /\ 0 \in 0 .. ApiPages
      BY <2>2, Limits
    <3> HIDE DEF u, i
    <3>. QED BY <1>1, <3>1, <3>2 DEF ApiRecord
  <2>4. scan' \in ScanRecord
    BY <1>1, <2>1, <2>3 DEF ScanRecord
  <2>5. scan'.api = TryHint(i) /\ scan'.page = scan.page /\ scan'.visited = scan.visited
    BY <1>1, <2>1 DEF ScanRecord
  <2>. QED
    BY <2>1, <2>3, <2>4, <2>5, <1>3 DEF WalkInv, Paging, PagesCounted, RoomLeft, HintInHand,
       CandidateInHand, Remembered, OnPage, AtApi, Fetching, Full
<1>. QED BY <1>1, <1>2, <1>3

LEMMA HintDoneKeeps ==
    ASSUME WalkInv, AtApi, NEW answered \in SUBSET Urls, HintDone(answered),
           UNCHANGED <<job, candidates, seen>>
    PROVE  /\ step' \in {"turn", "api"} /\ scan' \in ScanRecord
           /\ PagesCounted' /\ RoomLeft' /\ HintInHand' /\ CandidateInHand' /\ Remembered'
<1>1. CASE candidates = <<>>
  <2>1. ~Full
    BY <1>1, JobFacts DEF Full, WalkInv, CrawlTyped
  <2>. QED BY <1>1, <2>1, NextHintKeeps DEF HintDone
<1>2. CASE candidates # <<>>
  <2>1. scan' = [scan EXCEPT !.api = NoApi, !.answered = answered] /\ step' = "turn"
    BY <1>2 DEF HintDone
  <2>2. scan \in ScanRecord
    BY DEF WalkInv, CrawlTyped, DiscoveryTyped
  <2>3. scan' \in ScanRecord
    BY <2>1, <2>2, ConstantsTyped DEF ScanRecord
  <2>. QED
    BY <2>1, <2>2, <2>3 DEF WalkInv, Paging, PagesCounted, RoomLeft, HintInHand, CandidateInHand,
       Remembered, OnPage, AtApi, Fetching, Full, ScanRecord
<1>. QED BY <1>1, <1>2

-----------------------------------------------------------------------------
(* HttpFetcher.                                                            *)

(* Variables that a step does not touch keep their types.                  *)
LEMMA HandleKeeps ==
    ASSUME WalkInv, step = "fetching", NEW e, Handle(e),
           UNCHANGED <<job, candidates, seen, articles, claim>>
    PROVE  WalkInv'
<1> USE DEF WalkInv, CrawlTyped, DiscoveryTyped, BatchTyped
<1>1. fetch' \in FetchRecord /\ fetch' = NoFetch /\ fetch.url \in Urls
  BY ConstantsTyped, FetchFields DEF Handle
<1>2. retryable_exception(e) \in BOOLEAN /\ ErrorCode(e) \in Codes
  BY CodesTyped
<1>3. fetch.for \in {"list", "api", "detail"}
  BY DEF Paging, CandidateInHand
<1>4. CASE Fetching("list")
  <2>1. ListError(e)
    BY <1>4 DEF Handle, Fetching
  <2>2. CASE scan.page = 0
    <3>1. Abort /\ UNCHANGED <<failures, scan, next>>
      BY <2>1, <2>2 DEF ListError
    <3>2. step' = "done" /\ task' \in TaskRecord
      BY <3>1, AbortKeepsTypes
    <3>3. Paging'
      BY <3>1, <3>2, Beyond DEF Paging
    <3>. QED BY <1>1, <3>1, <3>2, <3>3 DEF Steps
  <2>3. CASE scan.page # 0
    <3> DEFINE f == Failure(fetch.url, "pagination", "PAGINATION_FAILED", retryable_exception(e))
    <3>1. Fail(f) /\ EndDiscovery /\ UNCHANGED <<next, task>>
      BY <2>1, <2>3 DEF ListError
    <3>2. f \in FailureRecord
      BY <1>1, <1>2, FailureTyped DEF Stages, Codes
    <3> HIDE DEF f
    <3>3. failures' \in Seq(FailureRecord)
      BY <3>1, <3>2, FailKeepsTypes
    <3>4. step' = "detail" /\ scan' = NoScan /\ scan' \in ScanRecord
      BY <3>1, ConstantsTyped DEF EndDiscovery
    <3>5. Paging'
      BY <3>4, Beyond DEF Paging
    <3>. QED BY <1>1, <3>1, <3>3, <3>4, <3>5 DEF Steps
  <2>. QED BY <2>2, <2>3
<1>5. CASE Fetching("api")
  <2>1. ApiError(e)
    BY <1>5 DEF Handle, Fetching
  <2>2. CASE e = "slow"
    <3>1. Abort /\ UNCHANGED <<failures, scan, next>>
      BY <2>1, <2>2 DEF ApiError
    <3>2. step' = "done" /\ task' \in TaskRecord
      BY <3>1, AbortKeepsTypes
    <3>3. Paging'
      BY <3>1, <3>2, Beyond DEF Paging
    <3>. QED BY <1>1, <3>1, <3>2, <3>3 DEF Steps
  <2>3. CASE e # "slow"
    <3> DEFINE f == HintFailure(retryable_exception(e))
    <3>1. Fail(f) /\ NextHint(scan.answered) /\ UNCHANGED <<next, task>>
      BY <2>1, <2>3 DEF ApiError
    <3>2. AtApi /\ ~Full /\ HintInHand
      BY <1>5 DEF AtApi, Paging, RoomLeft
    <3>3. f \in FailureRecord
      BY <1>2, <3>2, HintFailureTyped
    <3> HIDE DEF f
    <3>4. failures' \in Seq(FailureRecord)
      BY <3>1, <3>3, FailKeepsTypes
    <3>5. scan.answered \in SUBSET Urls
      BY ScanFields
    <3>6. step' \in {"turn", "api"} /\ scan' \in ScanRecord /\ Paging'
      BY <3>1, <3>2, <3>5, NextHintKeeps DEF Paging
    <3>. QED BY <1>1, <3>1, <3>4, <3>6 DEF Steps
  <2>. QED BY <2>2, <2>3
<1>6. CASE Fetching("detail")
  <2> DEFINE f == Failure(fetch.url, "detail", ErrorCode(e), retryable_exception(e))
  <2>1. Fail(f) /\ step' = "detail" /\ next' = next + 1 /\ UNCHANGED <<scan, task>>
    BY <1>6 DEF Handle, Fetching, DetailError
  <2>2. f \in FailureRecord
    BY <1>1, <1>2, FailureTyped DEF Stages
  <2> HIDE DEF f
  <2>3. failures' \in Seq(FailureRecord)
    BY <2>1, <2>2, FailKeepsTypes
  <2>4. Paging'
    BY <2>1, Beyond DEF Paging
  <2>. QED BY <1>1, <2>1, <2>3, <2>4 DEF Steps
<1>. QED BY <1>3, <1>4, <1>5, <1>6 DEF Fetching

(* The fetch goes on, for the same purpose and the same URL.               *)
LEMMA FetchGoesOn ==
    ASSUME WalkInv, fetch' \in FetchRecord, fetch'.for = fetch.for, fetch'.url = fetch.url,
           UNCHANGED <<step, failures, scan, next, task, job, candidates, seen, articles, claim>>
    PROVE  WalkInv'
<1> USE DEF WalkInv, CrawlTyped, DiscoveryTyped, BatchTyped
<1>1. Paging'
  BY DEF Paging, PagesCounted, RoomLeft, HintInHand, CandidateInHand, Remembered,
     OnPage, AtApi, Fetching, Full
<1>. QED BY <1>1

LEMMA RaiseKeeps ==
    ASSUME WalkInv, step = "fetching", NEW e, Raise(e),
           UNCHANGED <<job, candidates, seen, articles, claim>>
    PROVE  WalkInv'
<1>1. CASE e \in {"connect", "timeout"} /\ fetch.attempt < MaxAttempts
  <2> DEFINE n == fetch.attempt + 1
             u == fetch.url
  <2>1. /\ fetch' = [fetch EXCEPT !.to = u, !.checked = None, !.hop = 0, !.attempt = n]
        /\ UNCHANGED <<step, failures, scan, next, task>>
    BY <1>1 DEF Raise
  <2>2. u \in Urls /\ n \in Nat /\ 0 \in 0 .. MaxRedirects /\ None \in Urls /\ fetch \in FetchRecord
    BY FetchFields, NamedUrls, Limits DEF WalkInv, CrawlTyped
  <2> HIDE DEF n, u
  <2>3. fetch' \in FetchRecord /\ fetch'.for = fetch.for /\ fetch'.url = fetch.url
    BY <2>1, <2>2 DEF FetchRecord
  <2>. QED BY <2>1, <2>3, FetchGoesOn
<1>2. CASE ~(e \in {"connect", "timeout"} /\ fetch.attempt < MaxAttempts)
  <2>1. Handle(e)
    BY <1>2 DEF Raise
  <2>. QED BY <2>1, HandleKeeps
<1>. QED BY <1>1, <1>2

LEMMA CheckHopKeeps == WalkInv /\ CheckHop => WalkInv'
<1> SUFFICES ASSUME WalkInv, CheckHop PROVE WalkInv'
  OBVIOUS
<1>1. CASE /\ fetch' = [fetch EXCEPT !.checked = fetch.to]
           /\ UNCHANGED <<step, failures, scan, next, task>>
  <2> DEFINE u == fetch.to
  <2>1. u \in Urls /\ fetch \in FetchRecord /\ fetch' = [fetch EXCEPT !.checked = u]
    BY <1>1, FetchFields DEF WalkInv, CrawlTyped
  <2> HIDE DEF u
  <2>2. fetch' \in FetchRecord /\ fetch'.for = fetch.for /\ fetch'.url = fetch.url
    BY <2>1 DEF FetchRecord
  <2>. QED BY <1>1, <2>2, FetchGoesOn DEF CheckHop
<1>2. CASE \E e \in CheckErrors : Raise(e)
  BY <1>2, RaiseKeeps DEF CheckHop
<1>. QED BY <1>1, <1>2 DEF CheckHop

LEMMA RequestKeeps == WalkInv /\ Request => WalkInv'
<1> SUFFICES ASSUME WalkInv, Request PROVE WalkInv'
  OBVIOUS
<1>1. ASSUME NEW u \in {v \in Fetchable : v[1] = fetch.url[1]} \cup {Foreign}, Redirect(u)
      PROVE  WalkInv'
  <2>1. CASE fetch.hop >= MaxRedirects
    BY <1>1, <2>1, RaiseKeeps DEF Redirect, Request
  <2>2. CASE ~(fetch.hop >= MaxRedirects)
    <3> DEFINE n == fetch.hop + 1
    <3>1. /\ fetch' = [fetch EXCEPT !.to = u, !.checked = None, !.hop = n]
          /\ UNCHANGED <<step, failures, scan, next, task>>
      BY <1>1, <2>2 DEF Redirect
    <3>2. u \in Urls /\ None \in Urls /\ fetch \in FetchRecord
      BY NamedUrls DEF WalkInv, CrawlTyped
    <3>3. n \in 0 .. MaxRedirects
      BY <2>2, <3>2, FetchFields, Limits
    <3> HIDE DEF n
    <3>4. fetch' \in FetchRecord /\ fetch'.for = fetch.for /\ fetch'.url = fetch.url
      BY <3>1, <3>2, <3>3 DEF FetchRecord
    <3>. QED BY <3>1, <3>4, FetchGoesOn DEF Request
  <2>. QED BY <2>1, <2>2
<1>2. CASE \E e \in RequestErrors : Raise(e)
  BY <1>2, RaiseKeeps DEF Request
<1>. QED BY <1>1, <1>2 DEF Request

-----------------------------------------------------------------------------
(* The list pages.                                                         *)

LEMMA StartKeeps == WalkInv /\ Start => WalkInv'
<1> SUFFICES ASSUME WalkInv, Start PROVE WalkInv'
  OBVIOUS
<1> USE DEF WalkInv, CrawlTyped, DiscoveryTyped, BatchTyped
<1>1. UNCHANGED <<job, fetch, scan, candidates, seen, failures, articles, claim, next>>
  BY DEF Start, discoveryVars, batchVars
<1>2. CASE step' = "coze" /\ UNCHANGED task
  BY <1>1, <1>2, Beyond DEF Paging, Steps
<1>3. CASE Abort
  BY <1>1, <1>3, AbortKeepsTypes, Beyond DEF Paging, Steps
<1>4. CASE step = "start" /\ step' = "list" /\ UNCHANGED task
  <2>1. Paging'
    BY <1>1, <1>4 DEF Paging, PagesCounted, RoomLeft, HintInHand, CandidateInHand, Remembered,
       OnPage, AtApi, Fetching, Full
  <2>. QED BY <1>1, <1>4, <2>1 DEF Steps
<1>. QED BY <1>2, <1>3, <1>4 DEF Start

LEMMA BeginFetchTyped ==
    ASSUME NEW purpose \in {"list", "api", "detail"}, NEW u \in Urls, BeginFetch(purpose, u)
    PROVE  /\ fetch' \in FetchRecord /\ fetch'.for = purpose /\ fetch'.url = u
           /\ step' = "fetching"
<1>1. 0 \in 0 .. MaxRedirects /\ None \in Urls
  BY Limits, NamedUrls
<1>. QED BY <1>1 DEF BeginFetch, FetchRecord

LEMMA ListPageKeeps == WalkInv /\ ListPage => WalkInv'
<1> SUFFICES ASSUME WalkInv, ListPage PROVE WalkInv'
  OBVIOUS
<1> USE DEF WalkInv, CrawlTyped, DiscoveryTyped, BatchTyped
<1>1. step = "list" /\ UNCHANGED <<job, candidates, seen, failures, articles, claim, next, task>>
  BY DEF ListPage, batchVars
<1>2. CASE scan.page = MaxPages \/ scan.current \in scan.visited \/ Full
  <2>1. step' = "detail" /\ scan' = NoScan /\ UNCHANGED fetch
    BY <1>2 DEF ListPage, EndDiscovery
  <2>. QED BY <1>1, <2>1, ConstantsTyped, Beyond DEF Paging, Steps
<1>3. CASE ~(scan.page = MaxPages \/ scan.current \in scan.visited \/ Full)
  <2> DEFINE seenPages == scan.visited \cup {scan.current}
  <2>1. BeginFetch("list", scan.current) /\ scan' = [scan EXCEPT !.visited = seenPages]
    BY <1>3 DEF ListPage
  <2>2. scan.current \in Urls /\ scan.page \in 0 .. MaxPages /\ scan.visited \subseteq Urls
    BY ScanFields
  <2>3. fetch' \in FetchRecord /\ step' = "fetching" /\ fetch'.for = "list"
    BY <2>1, <2>2, BeginFetchTyped
  <2>4. seenPages \subseteq Urls
    BY <2>2
  <2>5. IsFiniteSet(seenPages) /\ Cardinality(seenPages) <= scan.page + 1
    <3>1. IsFiniteSet(scan.visited) /\ Cardinality(scan.visited) <= scan.page
      BY <1>1 DEF Paging, PagesCounted
    <3>2. Cardinality(scan.visited) \in Nat
      BY <3>1, FS_CardinalityType
    <3>3. /\ IsFiniteSet(seenPages)
          /\ Cardinality(seenPages) = IF scan.current \in scan.visited
                                      THEN Cardinality(scan.visited)
                                      ELSE Cardinality(scan.visited) + 1
      BY <3>1, FS_AddElement
    <3> HIDE DEF seenPages
    <3>. QED BY <2>2, <3>1, <3>2, <3>3
  <2> HIDE DEF seenPages
  <2>6. /\ scan' \in ScanRecord /\ scan'.visited = seenPages
        /\ scan'.page = scan.page /\ scan'.barren = scan.barren
    BY <2>1, <2>4 DEF ScanRecord
  <2>7. scan'.page < MaxPages /\ Cardinality(seenPages) <= MaxPages
    <3>1. scan.page < MaxPages
      BY <1>3, <2>2, Limits
    <3>2. Cardinality(seenPages) \in Nat
      BY <2>5, FS_CardinalityType
    <3>. QED BY <2>2, <2>5, <2>6, <3>1, <3>2, Limits
  <2>8. scan'.barren < StopAfter
    BY <1>1, <2>6 DEF Paging, PagesCounted
  <2>9. PagesCounted'
    BY <2>3, <2>5, <2>6, <2>7, <2>8 DEF PagesCounted, OnPage, AtApi, Fetching
  <2>10. RoomLeft' /\ HintInHand' /\ CandidateInHand' /\ Remembered'
    BY <1>1, <1>3, <2>3 DEF Paging, RoomLeft, HintInHand, CandidateInHand, Remembered,
       OnPage, AtApi, Fetching, Full
  <2>. QED BY <1>1, <2>3, <2>6, <2>9, <2>10 DEF Paging, Steps
<1>. QED BY <1>2, <1>3

LEMMA ListResponseKeeps == WalkInv /\ ListResponse => WalkInv'
<1> SUFFICES ASSUME WalkInv, ListResponse PROVE WalkInv'
  OBVIOUS
<1> USE DEF WalkInv, CrawlTyped, DiscoveryTyped, BatchTyped
<1>1. /\ Fetching("list") /\ fetch' = NoFetch /\ fetch' \in FetchRecord
      /\ UNCHANGED <<job, candidates, seen, failures, articles, claim, next>>
  BY ConstantsTyped DEF ListResponse, Responds, Fetching, batchVars
<1>2. CASE Abort /\ UNCHANGED scan
  BY <1>1, <1>2, AbortKeepsTypes, Beyond DEF Paging, Steps
<1>3. ASSUME NEW links \in SUBSET LinkUrls,
             LET new == {u \in links : IsCandidate(u)} IN
             scan' = [scan EXCEPT !.links = new, !.answered = @ \cup {normalize_url(fetch.to)},
                                  !.barren = IF new \subseteq seen THEN @ + 1 ELSE 0,
                                  !.at = fetch.to],
             step' = "links", UNCHANGED task
      PROVE  WalkInv'
  <2> DEFINE new == {u \in links : IsCandidate(u)}
             read == scan.answered \cup {normalize_url(fetch.to)}
             barren == IF new \subseteq seen THEN scan.barren + 1 ELSE 0
             at == fetch.to
  <2>1. scan' = [scan EXCEPT !.links = new, !.answered = read, !.barren = barren, !.at = at]
    BY <1>3
  <2>2. new \subseteq Urls
    BY NamedUrls
  <2>3. at \in Urls /\ read \subseteq Urls
    BY FetchFields, ScanFields, NormalizedUrl
  <2>4. barren \in 0 .. StopAfter
    BY <1>1, ScanFields, Limits DEF Paging, PagesCounted
  <2> HIDE DEF new, read, barren, at
  <2>5. scan' \in ScanRecord /\ scan'.page = scan.page /\ scan'.visited = scan.visited
    BY <2>1, <2>2, <2>3, <2>4 DEF ScanRecord
  <2>6. PagesCounted' /\ HintInHand' /\ CandidateInHand' /\ Remembered'
    BY <1>1, <1>3, <2>5 DEF Paging, PagesCounted, HintInHand, CandidateInHand, Remembered,
       OnPage, AtApi, Fetching
  <2>7. RoomLeft'
    BY <1>1, <1>3 DEF Paging, RoomLeft, Fetching, Full
  <2>. QED BY <1>1, <1>3, <2>5, <2>6, <2>7 DEF Paging, Steps
<1>. QED BY <1>2, <1>3 DEF ListResponse

(* A link or an item becomes a candidate.                                  *)
LEMMA ListedKeeps ==
    ASSUME WalkInv, step \in {"links", "items"}, NEW u \in scan.links,
           u \notin seen, NEW c \in CandidateRecord, c.url = u, ~c.direct,
           candidates' = Append(candidates, c),
           seen' = seen \cup {u},
           scan' = [scan EXCEPT !.links = IF Len(candidates) + 1 >= job.limit THEN {} ELSE @ \ {u}],
           UNCHANGED <<step, job, fetch, failures, articles, claim, next, task>>
    PROVE  WalkInv'
<1> USE DEF WalkInv, CrawlTyped, DiscoveryTyped, BatchTyped
<1> DEFINE left == IF Len(candidates) + 1 >= job.limit THEN {} ELSE scan.links \ {u}
<1>1. u \in Urls /\ left \subseteq Urls /\ scan' = [scan EXCEPT !.links = left]
  BY ScanFields
<1>2. c.url = u /\ ~c.direct
  OBVIOUS
<1>3. Len(candidates) + 1 <= job.limit /\ (left # {} => ~(Len(candidates) + 1 >= job.limit))
  BY JobFacts DEF Paging, RoomLeft, Full
<1>10. candidates' = Append(candidates, c) /\ candidates \in Seq(CandidateRecord)
  OBVIOUS
<1> HIDE DEF left
<1>4. /\ candidates' \in Seq(CandidateRecord) /\ Len(candidates') = Len(candidates) + 1
      /\ Len(candidates) \in Nat /\ candidates'[Len(candidates) + 1] = c
      /\ \A i \in 1 .. Len(candidates) : candidates'[i] = candidates[i]
      /\ \A i \in 1 .. Len(candidates') : i \in 1 .. Len(candidates) \/ i = Len(candidates) + 1
  <2> HIDE DEF WalkInv, CrawlTyped, DiscoveryTyped, BatchTyped
  <2>. QED BY <1>10
<1>5. /\ scan' \in ScanRecord /\ scan'.links = left /\ scan'.page = scan.page
      /\ scan'.visited = scan.visited /\ scan'.api = scan.api /\ scan'.barren = scan.barren
  BY <1>1 DEF ScanRecord
<1>6. PagesCounted' /\ HintInHand' /\ CandidateInHand'
  BY <1>5 DEF Paging, PagesCounted, HintInHand, CandidateInHand, OnPage, AtApi, Fetching
<1>7. RoomLeft'
  BY <1>3, <1>4, <1>5, JobFacts DEF RoomLeft, Fetching, Full
<1>8. Remembered'
  <2> SUFFICES ASSUME job.adapter = "generic", NEW i \in 1 .. Len(candidates')
               PROVE  /\ candidates'[i].direct => i = 1
                      /\ ~candidates'[i].direct => candidates'[i].url \in seen'
                      /\ \A j \in 1 .. Len(candidates') :
                            i < j /\ candidates'[i].url = candidates'[j].url
                                => candidates'[i].direct
    BY DEF Remembered
  <2> DEFINE n == Len(candidates)
  <2>3. n \in Nat /\ Len(candidates') = n + 1 /\ candidates'[n + 1] = c
    BY <1>4
  <2> HIDE DEF WalkInv, CrawlTyped, DiscoveryTyped, BatchTyped, n
  <2>1. CASE i = n + 1
    <3>1. candidates'[i] = c
      BY <2>3, <2>1
    <3>2. \A j \in 1 .. Len(candidates') : ~(i < j)
      BY <2>3, <2>1
    <3>. QED BY <1>2, <3>1, <3>2
  <2>2. CASE i # n + 1
    <3>1. i \in 1 .. Len(candidates) /\ candidates'[i] = candidates[i]
      BY <1>4, <2>2 DEF n
    <3>2. /\ candidates[i].direct => i = 1
          /\ ~candidates[i].direct => candidates[i].url \in seen
          /\ \A j \in 1 .. Len(candidates) :
                i < j /\ candidates[i].url = candidates[j].url => candidates[i].direct
      BY <3>1 DEF Paging, Remembered, WalkInv
    <3>3. candidates[i].url = u => candidates[i].direct
      BY <3>2
    <3>4. ASSUME NEW j \in 1 .. Len(candidates'), i < j, candidates[i].url = candidates'[j].url
          PROVE  candidates[i].direct
      <4>1. CASE j = n + 1
        BY <1>2, <2>3, <3>3, <3>4, <4>1
      <4>2. CASE j # n + 1
        <5>1. j \in 1 .. Len(candidates) /\ candidates'[j] = candidates[j]
          BY <1>4, <4>2 DEF n
        <5>. QED BY <3>2, <3>4, <5>1
      <4>. QED BY <4>1, <4>2
    <3>. QED BY <3>1, <3>2, <3>4
  <2>. QED BY <2>1, <2>2
<1>9. seen' \subseteq Urls
  BY <1>1
<1>. QED BY <1>4, <1>5, <1>6, <1>7, <1>8, <1>9 DEF Paging

(* A link or an item is passed over.                                       *)
LEMMA PassedKeeps ==
    ASSUME WalkInv, step \in {"links", "items"}, NEW u \in scan.links,
           scan' = [scan EXCEPT !.links = @ \ {u}],
           UNCHANGED <<step, job, fetch, candidates, seen, failures, articles, claim, next, task>>
    PROVE  WalkInv'
<1> USE DEF WalkInv, CrawlTyped, DiscoveryTyped, BatchTyped
<1> DEFINE left == scan.links \ {u}
<1>1. left \subseteq Urls /\ scan' = [scan EXCEPT !.links = left] /\ scan.links # {}
  BY ScanFields
<1> HIDE DEF left
<1>2. /\ scan' \in ScanRecord /\ scan'.page = scan.page /\ scan'.visited = scan.visited
      /\ scan'.api = scan.api /\ scan'.barren = scan.barren
  BY <1>1 DEF ScanRecord
<1>3. PagesCounted' /\ HintInHand' /\ CandidateInHand' /\ Remembered'
  BY <1>2 DEF Paging, PagesCounted, HintInHand, CandidateInHand, Remembered,
     OnPage, AtApi, Fetching
<1>4. RoomLeft'
  BY <1>1 DEF Paging, RoomLeft, Fetching, Full
<1>. QED BY <1>2, <1>3, <1>4 DEF Paging

LEMMA AddLinkKeeps == WalkInv /\ AddLink => WalkInv'
<1> SUFFICES ASSUME WalkInv, AddLink PROVE WalkInv'
  OBVIOUS
<1>1. step = "links" /\ UNCHANGED <<step, job, fetch, failures, articles, claim, next, task>>
  BY DEF AddLink, batchVars
<1>2. PICK u \in scan.links :
         IF u \in seen
         THEN scan' = [scan EXCEPT !.links = @ \ {u}] /\ UNCHANGED <<candidates, seen>>
         ELSE /\ candidates' = Append(candidates, Candidate(u, FALSE, FALSE))
              /\ seen' = seen \cup {u}
              /\ scan' = [scan EXCEPT !.links =
                              IF Len(candidates) + 1 >= job.limit THEN {} ELSE @ \ {u}]
  BY DEF AddLink
<1>3. CASE u \in seen
  BY <1>1, <1>2, <1>3, PassedKeeps
<1>4. CASE u \notin seen
  <2>1. u \in Urls
    BY ScanFields DEF WalkInv, CrawlTyped, DiscoveryTyped
  <2>2. Candidate(u, FALSE, FALSE) \in CandidateRecord
    BY <2>1 DEF Candidate, CandidateRecord
  <2>3. Candidate(u, FALSE, FALSE).url = u /\ ~Candidate(u, FALSE, FALSE).direct
    BY DEF Candidate
  <2>. QED BY <1>1, <1>2, <1>4, <2>2, <2>3, ListedKeeps
<1>. QED BY <1>3, <1>4

LEMMA AddItemKeeps == WalkInv /\ AddItem => WalkInv'
<1> SUFFICES ASSUME WalkInv, AddItem PROVE WalkInv'
  OBVIOUS
<1>1. step = "items" /\ UNCHANGED <<step, job, fetch, failures, articles, claim, next, task>>
  BY DEF AddItem, batchVars
<1>2. PICK u \in scan.links, content \in BOOLEAN :
         IF u \in seen \/ ~SameSite(u)
         THEN scan' = [scan EXCEPT !.links = @ \ {u}] /\ UNCHANGED <<candidates, seen>>
         ELSE /\ candidates' = Append(candidates, Candidate(u, content, FALSE))
              /\ seen' = seen \cup {u}
              /\ scan' = [scan EXCEPT !.links =
                              IF Len(candidates) + 1 >= job.limit THEN {} ELSE @ \ {u}]
  BY DEF AddItem
<1>3. CASE u \in seen \/ ~SameSite(u)
  BY <1>1, <1>2, <1>3, PassedKeeps
<1>4. CASE ~(u \in seen \/ ~SameSite(u))
  <2>1. u \in Urls
    BY ScanFields DEF WalkInv, CrawlTyped, DiscoveryTyped
  <2>2. Candidate(u, content, FALSE) \in CandidateRecord
    BY <2>1 DEF Candidate, CandidateRecord
  <2>3. Candidate(u, content, FALSE).url = u /\ ~Candidate(u, content, FALSE).direct
    BY DEF Candidate
  <2>. QED BY <1>1, <1>2, <1>4, <2>2, <2>3, ListedKeeps
<1>. QED BY <1>3, <1>4

-----------------------------------------------------------------------------
(* The fallback: a direct candidate, or an API.                            *)

LEMMA FallbackKeeps == WalkInv /\ Fallback => WalkInv'
<1> SUFFICES ASSUME WalkInv, Fallback PROVE WalkInv'
  OBVIOUS
<1> USE DEF WalkInv, CrawlTyped, DiscoveryTyped, BatchTyped
<1>1. step = "links" /\ UNCHANGED <<job, fetch, seen, failures, articles, claim, next, task>>
  BY DEF Fallback, batchVars
<1>2. CASE step' = "turn" /\ UNCHANGED <<scan, candidates>>
  <2>1. Paging'
    BY <1>1, <1>2 DEF Paging, PagesCounted, RoomLeft, HintInHand, CandidateInHand, Remembered,
       OnPage, AtApi, Fetching, Full
  <2>. QED BY <1>1, <1>2, <2>1 DEF Steps
<1>3. CASE /\ candidates' = <<Candidate(normalize_url(scan.at), FALSE, TRUE)>>
           /\ step' = "turn" /\ UNCHANGED scan
  <2> DEFINE c == Candidate(normalize_url(scan.at), FALSE, TRUE)
  <2>1. c \in CandidateRecord /\ c.direct
    BY ScanFields, NormalizedUrl DEF Candidate, CandidateRecord
  <2>2. candidates' = <<c>>
    BY <1>3
  <2> HIDE DEF c
  <2>3. candidates' \in Seq(CandidateRecord) /\ Len(candidates') = 1 /\ candidates'[1] = c
    BY <2>1, <2>2
  <2>4. Remembered'
    BY <2>1, <2>3 DEF Remembered
  <2>5. PagesCounted' /\ RoomLeft' /\ HintInHand' /\ CandidateInHand'
    BY <1>1, <1>3, <2>3, JobFacts DEF Paging, PagesCounted, RoomLeft, HintInHand, CandidateInHand,
       OnPage, AtApi, Fetching
  <2>. QED BY <1>1, <1>3, <2>3, <2>4, <2>5 DEF Paging, Steps
<1>4. ASSUME candidates = <<>>, NEW hints \in Hints, NEW relative \in BOOLEAN,
             scan' = [scan EXCEPT !.api = [hints |-> hints, relative |-> relative, hint |-> 1,
                                           url |-> hints[1], page |-> 0]],
             step' = "api", UNCHANGED candidates
      PROVE  WalkInv'
  <2> DEFINE asked == [hints |-> hints, relative |-> relative, hint |-> 1,
                       url |-> hints[1], page |-> 0]
  <2>1. hints \in Seq(ApiUrls) /\ Len(hints) >= 1 /\ hints[1] \in ApiUrls
    BY DEF Hints
  <2>2. hints[1] \in Urls /\ 0 \in 0 .. ApiPages
    BY <2>1, NamedUrls, Limits
  <2>3. asked \in ApiRecord /\ asked.hint = 1 /\ asked.hints = hints
    BY <2>1, <2>2 DEF ApiRecord
  <2>4. scan' = [scan EXCEPT !.api = asked]
    BY <1>4
  <2> HIDE DEF asked
  <2>5. /\ scan' \in ScanRecord /\ scan'.api = asked /\ scan'.page = scan.page
        /\ scan'.visited = scan.visited
    BY <2>3, <2>4 DEF ScanRecord
  <2>6. ~Full /\ Len(candidates) <= job.limit
    BY <1>4, JobFacts DEF Full
  <2>7. PagesCounted' /\ RoomLeft' /\ HintInHand' /\ CandidateInHand' /\ Remembered'
    BY <1>1, <1>4, <2>1, <2>3, <2>5, <2>6 DEF Paging, PagesCounted, RoomLeft, HintInHand,
       CandidateInHand, Remembered, OnPage, AtApi, Fetching, Full
  <2>. QED BY <1>1, <1>4, <2>5, <2>7 DEF Paging, Steps
<1>. QED BY <1>2, <1>3, <1>4 DEF Fallback

LEMMA ApiPageKeeps == WalkInv /\ ApiPage => WalkInv'
<1> SUFFICES ASSUME WalkInv, ApiPage PROVE WalkInv'
  OBVIOUS
<1> USE DEF WalkInv, CrawlTyped, DiscoveryTyped, BatchTyped
<1>1. step = "api" /\ UNCHANGED <<job, candidates, seen, failures, articles, claim, next, task>>
  BY DEF ApiPage, batchVars
<1>2. CASE scan.api.page = ApiPages \/ scan.api.url \in scan.answered
  <2>1. HintDone(scan.answered) /\ UNCHANGED fetch
    BY <1>2 DEF ApiPage
  <2>2. scan.answered \in SUBSET Urls /\ AtApi
    BY <1>1, ScanFields DEF AtApi
  <2>3. step' \in {"turn", "api"} /\ scan' \in ScanRecord /\ Paging'
    BY <1>1, <2>1, <2>2, HintDoneKeeps DEF Paging
  <2>. QED BY <1>1, <2>1, <2>3 DEF Steps
<1>3. CASE ~(scan.api.page = ApiPages \/ scan.api.url \in scan.answered)
  <2>1. BeginFetch("api", scan.api.url) /\ UNCHANGED scan
    BY <1>3 DEF ApiPage
  <2>2. fetch' \in FetchRecord /\ step' = "fetching" /\ fetch'.for = "api"
    BY <2>1, ScanFields, BeginFetchTyped
  <2>3. scan.api.page < ApiPages
    BY <1>3, ScanFields, Limits
  <2>4. Paging'
    BY <1>1, <2>1, <2>2, <2>3 DEF Paging, PagesCounted, RoomLeft, HintInHand, CandidateInHand,
       Remembered, OnPage, AtApi, Fetching, Full
  <2>. QED BY <1>1, <2>1, <2>2, <2>4 DEF Steps
<1>. QED BY <1>2, <1>3

LEMMA ApiResponseKeeps == WalkInv /\ ApiResponse => WalkInv'
<1> SUFFICES ASSUME WalkInv, ApiResponse PROVE WalkInv'
  OBVIOUS
<1> USE DEF WalkInv, CrawlTyped, DiscoveryTyped, BatchTyped
<1> DEFINE answered == scan.answered \cup {normalize_url(fetch.to)}
<1>1. /\ Fetching("api") /\ fetch' = NoFetch /\ fetch' \in FetchRecord
      /\ UNCHANGED <<job, candidates, seen, articles, claim, next, task>>
  BY ConstantsTyped DEF ApiResponse, Responds, Fetching
<1>2. answered \in SUBSET Urls
  BY FetchFields, ScanFields, NormalizedUrl
<1>3. AtApi /\ ~Full /\ HintInHand
  BY <1>1 DEF AtApi, Paging, RoomLeft
<1>4. \/ Fail(HintFailure(FALSE)) /\ NextHint(answered)
      \/ HintDone(answered) /\ UNCHANGED failures
      \/ \E items \in SUBSET LinkUrls \ {{}} :
            /\ scan' = [scan EXCEPT !.answered = answered, !.links = items]
            /\ step' = "items" /\ UNCHANGED failures
  BY DEF ApiResponse
<1> HIDE DEF answered
<1>5. CASE Fail(HintFailure(FALSE)) /\ NextHint(answered)
  <2>1. HintFailure(FALSE) \in FailureRecord
    BY <1>3, HintFailureTyped
  <2>2. failures' \in Seq(FailureRecord)
    BY <1>5, <2>1, FailKeepsTypes
  <2>3. step' \in {"turn", "api"} /\ scan' \in ScanRecord /\ Paging'
    BY <1>1, <1>2, <1>3, <1>5, NextHintKeeps DEF Paging
  <2>. QED BY <1>1, <2>2, <2>3 DEF Steps
<1>6. CASE HintDone(answered) /\ UNCHANGED failures
  <2>1. step' \in {"turn", "api"} /\ scan' \in ScanRecord /\ Paging'
    BY <1>1, <1>2, <1>3, <1>6, HintDoneKeeps DEF Paging
  <2>. QED BY <1>1, <1>6, <2>1 DEF Steps
<1>7. ASSUME NEW items \in SUBSET LinkUrls,
             scan' = [scan EXCEPT !.answered = answered, !.links = items],
             step' = "items", UNCHANGED failures
      PROVE  WalkInv'
  <2>1. items \subseteq Urls
    BY NamedUrls
  <2>2. /\ scan' \in ScanRecord /\ scan'.page = scan.page /\ scan'.visited = scan.visited
        /\ scan'.api = scan.api
    BY <1>2, <1>7, <2>1 DEF ScanRecord
  <2>3. Paging'
    BY <1>1, <1>3, <1>7, <2>2 DEF Paging, PagesCounted, RoomLeft, HintInHand, CandidateInHand,
       Remembered, OnPage, AtApi, Fetching, Full
  <2>. QED BY <1>1, <1>7, <2>2, <2>3 DEF Steps
<1>. QED BY <1>4, <1>5, <1>6, <1>7

LEMMA NextApiPageKeeps == WalkInv /\ NextApiPage => WalkInv'
<1> SUFFICES ASSUME WalkInv, NextApiPage PROVE WalkInv'
  OBVIOUS
<1> USE DEF WalkInv, CrawlTyped, DiscoveryTyped, BatchTyped
<1>1. /\ step = "items"
      /\ UNCHANGED <<job, fetch, candidates, seen, failures, articles, claim, next, task>>
  BY DEF NextApiPage, batchVars
<1>2. PICK u \in ApiUrls \cup {None} :
         IF Full \/ u = None \/ u \in scan.answered
         THEN HintDone(scan.answered)
         ELSE scan' = [scan EXCEPT !.api.url = u, !.api.page = @ + 1] /\ step' = "api"
  BY DEF NextApiPage
<1>3. CASE Full \/ u = None \/ u \in scan.answered
  <2>1. scan.answered \in SUBSET Urls /\ AtApi
    BY <1>1, ScanFields DEF AtApi
  <2>2. step' \in {"turn", "api"} /\ scan' \in ScanRecord /\ Paging'
    BY <1>1, <1>2, <1>3, <2>1, HintDoneKeeps DEF Paging
  <2>. QED BY <1>1, <2>2 DEF Steps
<1>4. CASE ~(Full \/ u = None \/ u \in scan.answered)
  <2> DEFINE n == scan.api.page + 1
             asked == [scan.api EXCEPT !.url = u, !.page = n]
  <2>1. n \in 0 .. ApiPages /\ u \in Urls /\ scan.api \in ApiRecord
    BY <1>1, ScanFields, Limits, NamedUrls DEF Paging, HintInHand
  <2>2. scan' = [scan EXCEPT !.api = asked] /\ step' = "api"
    BY <1>2, <1>4 DEF ScanRecord, ApiRecord
  <2> HIDE DEF n
  <2>3. asked \in ApiRecord /\ asked.hint = scan.api.hint /\ asked.hints = scan.api.hints
    BY <2>1 DEF ApiRecord
  <2> HIDE DEF asked
  <2>4. /\ scan' \in ScanRecord /\ scan'.page = scan.page /\ scan'.visited = scan.visited
        /\ scan'.api = asked
    BY <2>2, <2>3 DEF ScanRecord
  <2>5. Paging'
    BY <1>1, <1>4, <2>2, <2>3, <2>4 DEF Paging, PagesCounted, RoomLeft, HintInHand,
       CandidateInHand, Remembered, OnPage, AtApi, Fetching, Full
  <2>. QED BY <1>1, <2>2, <2>4, <2>5 DEF Steps
<1>. QED BY <1>3, <1>4

-----------------------------------------------------------------------------
(* The next page, and the feed.                                            *)

LEMMA NextPageTyped ==
    ASSUME NEW rel \in PageUrls \cup {None}, NEW labelled \in PageUrls \cup {None},
           NEW numbered \in ListUrls \cup {None}, NEW param \in BOOLEAN,
           NEW u \in NextPages(rel, labelled, numbered, param), scan.at \in Urls
    PROVE  u \in Urls
<1> DEFINE n == PageNumber(scan.at)
           successor == (IF n = -1 THEN 1 ELSE n) + 1
<1>1. n \in Int /\ (n # -1 => n > 0)
  BY Limits DEF PageNumber, Urls, PageUrls, ListUrls, Generated, ArticleUrls, ApiUrls,
     Foreign, Malformed, None
<1>2. CASE u \in {"list", "generated"} \X {successor} /\ successor <= LastPage
  <2>1. successor \in 0 .. LastPage
    BY <1>1, <1>2, Limits
  <2> HIDE DEF successor
  <2>. QED BY <1>2, <2>1 DEF Urls, PageUrls, ListUrls, Generated
<1>3. CASE u \in {rel, labelled, numbered, None}
  BY <1>3, NamedUrls
<1> HIDE DEF n, successor
<1>4. \/ u \in {"list", "generated"} \X {successor} /\ successor <= LastPage
      \/ u \in {rel, labelled, numbered, None}
  BY DEF NextPages, n, successor
<1>. QED BY <1>2, <1>3, <1>4

LEMMA TurnKeeps == WalkInv /\ Turn => WalkInv'
<1> SUFFICES ASSUME WalkInv, Turn PROVE WalkInv'
  OBVIOUS
<1> USE DEF WalkInv, CrawlTyped, DiscoveryTyped, BatchTyped
<1>1. /\ step = "turn"
      /\ UNCHANGED <<job, fetch, candidates, seen, failures, articles, claim, next, task>>
  BY DEF Turn, batchVars
<1>2. CASE EndDiscovery
  BY <1>1, <1>2, ConstantsTyped, Beyond DEF EndDiscovery, Paging, Steps
<1>3. ASSUME NEW u \in Urls, scan' = [scan EXCEPT !.current = u, !.page = @ + 1], step' = "list",
             ~(Full \/ scan.barren >= StopAfter)
      PROVE  WalkInv'
  <2> DEFINE n == scan.page + 1
  <2>1. n \in 0 .. MaxPages /\ scan' = [scan EXCEPT !.current = u, !.page = n]
    <3>1. scan.page \in 0 .. MaxPages /\ scan.page < MaxPages
      BY <1>1, ScanFields DEF Paging, PagesCounted, OnPage
    <3>. QED BY <1>3, <3>1, Limits
  <2>2. Cardinality(scan.visited) <= n
    BY <1>1 DEF Paging, PagesCounted, OnPage
  <2> HIDE DEF n
  <2>3. /\ scan' \in ScanRecord /\ scan'.page = n /\ scan'.visited = scan.visited
        /\ scan'.barren = scan.barren
    BY <1>3, <2>1 DEF ScanRecord
  <2>4. scan'.barren < StopAfter
    BY <1>3, <2>3, ScanFields, Limits
  <2>5. PagesCounted'
    BY <1>1, <1>3, <2>2, <2>3, <2>4 DEF Paging, PagesCounted, OnPage, AtApi, Fetching
  <2>6. RoomLeft' /\ HintInHand' /\ CandidateInHand' /\ Remembered'
    BY <1>1, <1>3 DEF Paging, RoomLeft, HintInHand, CandidateInHand, Remembered,
       OnPage, AtApi, Fetching, Full
  <2>. QED BY <1>1, <1>3, <2>3, <2>5, <2>6 DEF Paging, Steps
<1>4. CASE ~(Full \/ scan.barren >= StopAfter)
  <2>1. PICK rel \in PageUrls \cup {None}, labelled \in (PageUrls \ scan.visited) \cup {None},
             numbered \in {u \in ListUrls : PageNumber(u) > PageNumber(scan.at)} \cup {None},
             param \in BOOLEAN : \E u \in NextPages(rel, labelled, numbered, param) :
               IF u = None THEN EndDiscovery
               ELSE scan' = [scan EXCEPT !.current = u, !.page = @ + 1] /\ step' = "list"
    BY <1>4 DEF Turn
  <2>2. PICK u \in NextPages(rel, labelled, numbered, param) :
               IF u = None THEN EndDiscovery
               ELSE scan' = [scan EXCEPT !.current = u, !.page = @ + 1] /\ step' = "list"
    BY <2>1
  <2>3. u \in Urls
    <3>1. labelled \in PageUrls \cup {None} /\ numbered \in ListUrls \cup {None} /\ scan.at \in Urls
      BY ScanFields
    <3>. QED BY <3>1, NextPageTyped
  <2>. QED BY <1>2, <1>3, <1>4, <2>2, <2>3
<1>. QED BY <1>2, <1>4 DEF Turn

LEMMA FeedResponseKeeps == WalkInv /\ FeedResponse => WalkInv'
<1> SUFFICES ASSUME WalkInv, FeedResponse PROVE WalkInv'
  OBVIOUS
<1> USE DEF WalkInv, CrawlTyped, DiscoveryTyped, BatchTyped
<1>1. /\ job.adapter = "govcn" /\ fetch' = NoFetch /\ fetch' \in FetchRecord
      /\ UNCHANGED <<job, seen, failures, articles, claim, next>>
  BY ConstantsTyped DEF FeedResponse, batchVars
<1>2. CASE Abort /\ UNCHANGED <<scan, candidates>>
  BY <1>1, <1>2, AbortKeepsTypes, Beyond DEF Paging, Steps
<1>3. ASSUME NEW n \in 0 .. job.limit, NEW feed \in [1 .. n -> FeedUrls],
             candidates' = [i \in 1 .. n |-> Candidate(feed[i], FALSE, FALSE)],
             EndDiscovery, UNCHANGED task
      PROVE  WalkInv'
  <2>1. n \in Nat /\ n <= job.limit
    BY JobFacts
  <2>2. \A i \in 1 .. n : Candidate(feed[i], FALSE, FALSE) \in CandidateRecord
    BY NamedUrls DEF Candidate, CandidateRecord
  <2> DEFINE cands == [i \in 1 .. n |-> Candidate(feed[i], FALSE, FALSE)]
  <2>7. cands \in [1 .. n -> CandidateRecord]
    BY <2>2
  <2>8. candidates' = cands
    BY <1>3
  <2> HIDE DEF cands
  <2>3. candidates' \in Seq(CandidateRecord) /\ Len(candidates') = n
    BY <2>1, <2>7, <2>8
  <2>4. step' = "detail" /\ scan' = NoScan /\ scan' \in ScanRecord
    BY <1>3, ConstantsTyped DEF EndDiscovery
  <2>5. PagesCounted'
    BY <2>4, ConstantsTyped, FS_EmptySet, Limits DEF PagesCounted, OnPage, AtApi, Fetching
  <2>6. RoomLeft' /\ HintInHand' /\ CandidateInHand' /\ Remembered'
    BY <1>1, <2>1, <2>3, <2>4 DEF RoomLeft, HintInHand, CandidateInHand, Remembered,
       AtApi, Fetching
  <2>. QED BY <1>1, <1>3, <2>3, <2>4, <2>5, <2>6 DEF Paging, Steps
<1>. QED BY <1>2, <1>3 DEF FeedResponse

-----------------------------------------------------------------------------
(* The articles, the batches and what is saved.                            *)

LEMMA Restarted ==
    ASSUME WalkInv, step' \in {"detail", "coze", "save", "done"},
           scan' = scan, UNCHANGED <<job, candidates, seen>>,
           next' \in Nat \ {0}, fetch' \in FetchRecord, task' \in TaskRecord, BatchTyped'
    PROVE  WalkInv'
<1>1. Paging'
  BY Beyond DEF Paging
<1>. QED BY <1>1 DEF WalkInv, CrawlTyped, DiscoveryTyped, Steps

LEMMA AddArticleTyped ==
    ASSUME BatchTyped, NEW of \in Urls, NEW u \in Urls, AddArticle(of, u),
           UNCHANGED <<failures, claim>>
    PROVE  BatchTyped'
<1> DEFINE a == [of |-> of, url |-> u, decision |-> "pending_review"]
<1>1. a \in ArticleRecord /\ articles' = Append(articles, a)
  BY DEF AddArticle, ArticleRecord, Decisions
<1> HIDE DEF a
<1>. QED BY <1>1 DEF BatchTyped

LEMMA FetchDetailKeeps == WalkInv /\ FetchDetail => WalkInv'
<1> SUFFICES ASSUME WalkInv, FetchDetail PROVE WalkInv'
  OBVIOUS
<1> DEFINE c == candidates[next]
<1>1. /\ step = "detail" /\ next <= Len(candidates)
      /\ UNCHANGED <<job, scan, candidates, seen, failures, claim>>
  BY DEF FetchDetail, discoveryVars
<1>2. /\ next \in 1 .. Len(candidates) /\ candidates \in Seq(CandidateRecord)
      /\ task \in TaskRecord /\ fetch \in FetchRecord /\ next \in Nat \ {0} /\ BatchTyped
  BY <1>1 DEF WalkInv, CrawlTyped, DiscoveryTyped
<1>3. c \in CandidateRecord /\ c.url \in Urls
  <2>1. c \in CandidateRecord
    BY <1>2
  <2> HIDE DEF c
  <2>. QED BY <2>1 DEF CandidateRecord
<1>4. \/ Abort /\ UNCHANGED <<fetch, articles, next>>
      \/ AddArticle(c.url, c.url) /\ next' = next + 1 /\ UNCHANGED <<step, fetch, task>>
      \/ BeginFetch("detail", c.url) /\ UNCHANGED <<articles, next, task>>
  BY DEF FetchDetail
<1> HIDE DEF c
<1>5. CASE Abort /\ UNCHANGED <<fetch, articles, next>>
  <2>1. BatchTyped'
    BY <1>1, <1>2, <1>5 DEF BatchTyped
  <2>. QED BY <1>1, <1>2, <1>5, <2>1, AbortKeepsTypes, Restarted
<1>6. CASE AddArticle(c.url, c.url) /\ next' = next + 1 /\ UNCHANGED <<step, fetch, task>>
  <2>1. BatchTyped'
    BY <1>1, <1>2, <1>3, <1>6, AddArticleTyped
  <2>. QED BY <1>1, <1>2, <1>6, <2>1, Restarted
<1>7. CASE BeginFetch("detail", c.url) /\ UNCHANGED <<articles, next, task>>
  <2>1. /\ fetch' \in FetchRecord /\ step' = "fetching" /\ fetch'.for = "detail"
        /\ fetch'.url = c.url
    BY <1>3, <1>7, BeginFetchTyped
  <2>2. BatchTyped'
    BY <1>1, <1>2, <1>7 DEF BatchTyped
  <2>3. Paging'
    BY <1>1, <1>7, <2>1 DEF WalkInv, Paging, PagesCounted, RoomLeft, HintInHand, CandidateInHand,
       Remembered, OnPage, AtApi, Fetching, Full, c
  <2>. QED BY <1>1, <1>7, <2>1, <2>2, <2>3 DEF WalkInv, CrawlTyped, DiscoveryTyped, Steps
<1>. QED BY <1>4, <1>5, <1>6, <1>7

LEMMA DetailResponseKeeps == WalkInv /\ DetailResponse => WalkInv'
<1> SUFFICES ASSUME WalkInv, DetailResponse PROVE WalkInv'
  OBVIOUS
<1>1. /\ fetch' = NoFetch /\ fetch' \in FetchRecord /\ step' = "detail" /\ next' = next + 1
      /\ UNCHANGED <<job, scan, candidates, seen, claim, task>>
  BY ConstantsTyped DEF DetailResponse, discoveryVars
<1>2. /\ BatchTyped /\ next' \in Nat \ {0} /\ task' \in TaskRecord
      /\ fetch.url \in Urls /\ normalize_url(fetch.to) \in Urls
  BY <1>1, FetchFields, NormalizedUrl DEF WalkInv, CrawlTyped
<1>3. CASE AddArticle(fetch.url, normalize_url(fetch.to)) /\ UNCHANGED failures
  <2>1. BatchTyped'
    BY <1>1, <1>2, <1>3, AddArticleTyped
  <2>. QED BY <1>1, <1>2, <2>1, Restarted
<1>4. ASSUME NEW code \in SchemaCodes, Fail(Failure(fetch.url, "detail", code, FALSE)),
             UNCHANGED articles
      PROVE  WalkInv'
  <2> DEFINE f == Failure(fetch.url, "detail", code, FALSE)
  <2>1. f \in FailureRecord
    BY <1>2, FailureTyped DEF SchemaCodes, Codes, Stages
  <2>2. Fail(f)
    BY <1>4
  <2> HIDE DEF f
  <2>3. BatchTyped'
    BY <1>1, <1>2, <1>4, <2>1, <2>2, FailKeepsTypes DEF BatchTyped
  <2>. QED BY <1>1, <1>2, <2>3, Restarted
<1>. QED BY <1>3, <1>4 DEF DetailResponse

(* The rows of a batch are among its failures.                             *)
LEMMA RowsTyped ==
    ASSUME NEW s \in Seq(FailureRecord)
    PROVE  RowsOf(s) \subseteq FailureRecord
BY DEF RowsOf

LEMMA BeginSaveTyped ==
    ASSUME task \in TaskRecord, NEW n \in Nat, NEW s \in Seq(FailureRecord), BeginSave(n, s)
    PROVE  /\ task' \in TaskRecord /\ step' = "save" /\ next' = 1
           /\ task'.status = "saving_documents" /\ task'.failed = n
           /\ task'.rows = RowsOf(s) /\ task'.docs = task.docs
<1> DEFINE rows == RowsOf(s)
<1>1. rows \subseteq FailureRecord
  BY RowsTyped
<1>2. /\ task' = [task EXCEPT !.status = "saving_documents", !.failed = n, !.rows = rows]
      /\ step' = "save" /\ next' = 1
  BY DEF BeginSave
<1> HIDE DEF rows
<1>3. /\ task' \in TaskRecord /\ step' = "save" /\ next' = 1
      /\ task'.status = "saving_documents" /\ task'.failed = n
      /\ task'.rows = rows /\ task'.docs = task.docs
  BY <1>1, <1>2 DEF TaskRecord, TaskStatus
<1>. QED BY <1>3 DEF rows

LEMMA LocalBatchKeeps == WalkInv /\ LocalBatch => WalkInv'
<1> SUFFICES ASSUME WalkInv, LocalBatch PROVE WalkInv'
  OBVIOUS
<1>1. UNCHANGED <<job, fetch, scan, candidates, seen, failures, articles>>
  BY DEF LocalBatch, discoveryVars
<1>2. /\ BatchTyped /\ task \in TaskRecord /\ fetch' \in FetchRecord /\ next \in Nat \ {0}
      /\ candidates \in Seq(CandidateRecord) /\ failures \in Seq(FailureRecord)
  BY <1>1 DEF WalkInv, CrawlTyped, DiscoveryTyped, BatchTyped
<1>3. CASE Abort /\ UNCHANGED <<claim, next>>
  <2>1. BatchTyped'
    BY <1>1, <1>2, <1>3 DEF BatchTyped
  <2>. QED BY <1>1, <1>2, <1>3, <2>1, AbortKeepsTypes, Restarted
<1>4. CASE /\ claim' = [discovered |-> Len(candidates), success |-> failures = <<>>,
                        empty |-> articles = <<>> /\ failures = <<>>]
           /\ BeginSave(Len(failures), failures)
  <2>1. task' \in TaskRecord /\ step' = "save" /\ next' = 1
    BY <1>2, <1>4, BeginSaveTyped
  <2>2. claim' \in ClaimRecord
    <3>1. Len(candidates) \in Nat
      BY <1>2
    <3>. QED BY <1>4, <3>1 DEF ClaimRecord
  <2>3. BatchTyped'
    BY <1>1, <1>2, <2>2 DEF BatchTyped
  <2>. QED BY <1>1, <1>2, <2>1, <2>3, Restarted
<1>. QED BY <1>3, <1>4 DEF LocalBatch

LEMMA CozeKeeps == WalkInv /\ (CozePost \/ CozeFails) => WalkInv'
<1> SUFFICES ASSUME WalkInv, CozePost \/ CozeFails PROVE WalkInv'
  OBVIOUS
<1>1. UNCHANGED <<job, scan, candidates, seen, failures, articles, claim, next>>
  BY DEF CozePost, CozeFails, discoveryVars, batchVars
<1>2. task \in TaskRecord /\ fetch \in FetchRecord /\ next' \in Nat \ {0} /\ BatchTyped'
  BY <1>1 DEF WalkInv, CrawlTyped, BatchTyped
<1>3. CASE CozePost
  <2> DEFINE n == fetch.attempt + 1
  <2>1. n \in Nat /\ fetch' = [fetch EXCEPT !.for = "coze", !.attempt = n]
    BY <1>2, <1>3, FetchFields DEF CozePost
  <2> HIDE DEF n
  <2>2. fetch' \in FetchRecord
    BY <1>2, <2>1 DEF FetchRecord
  <2>. QED BY <1>1, <1>2, <1>3, <2>2, Restarted DEF CozePost
<1>4. CASE CozeFails
  <2>1. step' = "done" /\ task' \in TaskRecord /\ fetch' \in FetchRecord
    BY <1>2, <1>4, CozeAbortKeepsTypes, ConstantsTyped DEF CozeFails
  <2>. QED BY <1>1, <1>2, <2>1, Restarted
<1>. QED BY <1>3, <1>4

LEMMA AnswerTyped ==
    /\ BatchArticles \subseteq Seq(ArticleRecord)
    /\ BatchFailedUrls \subseteq Seq(FailureRecord)
<1>1. ASSUME NEW n \in 0 .. 2,
             NEW s \in [1 .. n -> [of : {None}, url : ArticleUrls, decision : Decisions]]
      PROVE  s \in Seq(ArticleRecord)
  <2>1. \A i \in 1 .. n : s[i] \in ArticleRecord
    BY NamedUrls DEF ArticleRecord
  <2>. QED BY <2>1
<1>2. ASSUME NEW u \in ArticleUrls
      PROVE  <<Failure(u, "detail", "PROVIDER", TRUE)>> \in Seq(FailureRecord)
  <2> DEFINE f == Failure(u, "detail", "PROVIDER", TRUE)
  <2>1. f \in FailureRecord
    BY NamedUrls, FailureTyped DEF Stages, Codes
  <2> HIDE DEF f
  <2>2. <<f>> \in Seq(FailureRecord)
    BY <2>1
  <2>. QED BY <2>2 DEF f
<1>3. <<>> \in Seq(FailureRecord)
  OBVIOUS
<1>. QED BY <1>1, <1>2, <1>3 DEF BatchArticles, BatchFailedUrls

LEMMA CozeResponseKeeps == WalkInv /\ CozeResponse => WalkInv'
<1> SUFFICES ASSUME WalkInv, CozeResponse PROVE WalkInv'
  OBVIOUS
<1>1. UNCHANGED <<job, scan, candidates, seen>> /\ fetch' \in FetchRecord
  BY ConstantsTyped DEF CozeResponse, discoveryVars
<1>2. task \in TaskRecord /\ next \in Nat \ {0} /\ BatchTyped
  BY DEF WalkInv, CrawlTyped
<1>3. ASSUME CozeAbort, UNCHANGED <<batchVars, next>>
      PROVE  WalkInv'
  <2>1. BatchTyped' /\ next' \in Nat \ {0}
    BY <1>2, <1>3 DEF BatchTyped, batchVars
  <2>. QED BY <1>1, <1>2, <1>3, <2>1, CozeAbortKeepsTypes, Restarted
<1>4. ASSUME NEW s \in BatchArticles, NEW f \in BatchFailedUrls, NEW reported \in 0 .. 3,
             articles' = s, failures' = f,
             claim' \in [discovered : {0, 1}, success : BOOLEAN, empty : BOOLEAN],
             BeginSave(reported, f)
      PROVE  WalkInv'
  <2>1. s \in Seq(ArticleRecord) /\ f \in Seq(FailureRecord) /\ reported \in Nat
    BY AnswerTyped
  <2>2. task' \in TaskRecord /\ step' = "save" /\ next' = 1
    BY <1>2, <1>4, <2>1, BeginSaveTyped
  <2>3. BatchTyped'
    BY <1>4, <2>1 DEF BatchTyped, ClaimRecord
  <2>. QED BY <1>1, <2>2, <2>3, Restarted
<1>. QED BY <1>3, <1>4 DEF CozeResponse

LEMMA AddRowTyped ==
    ASSUME NEW rows \in SUBSET FailureRecord, NEW f \in FailureRecord
    PROVE  AddRow(rows, f) \subseteq FailureRecord
BY DEF AddRow

LEMMA ArticleInHand ==
    ASSUME WalkInv, Saving
    PROVE  /\ next \in 1 .. Len(articles)
           /\ articles[next] \in ArticleRecord /\ articles[next].url \in Urls
<1>1. next \in 1 .. Len(articles) /\ articles \in Seq(ArticleRecord)
  BY DEF WalkInv, CrawlTyped, BatchTyped, Saving
<1>2. articles[next] \in ArticleRecord
  BY <1>1
<1>. QED BY <1>1, <1>2 DEF ArticleRecord

(* What a step of saving may do to the task.                               *)
LEMMA PersistFailedEffect ==
    ASSUME WalkInv, PersistFailedArticle
    PROVE  /\ task' \in TaskRecord /\ task'.status = task.status /\ task'.failed = task.failed
           /\ task'.docs = task.docs
           /\ task'.rows = AddRow(task.rows,
                 Failure(articles[next].url, "article", "ARTICLE_FAILED", TRUE))
           /\ next' = next + 1 /\ UNCHANGED <<step, job, fetch, discoveryVars, batchVars>>
<1> DEFINE f == Failure(articles[next].url, "article", "ARTICLE_FAILED", TRUE)
           rows == AddRow(task.rows, f)
<1>1. f \in FailureRecord /\ task \in TaskRecord /\ task.rows \subseteq FailureRecord
  <2>1. articles[next].url \in Urls
    BY ArticleInHand DEF PersistFailedArticle
  <2>2. f \in FailureRecord
    BY <2>1, FailureTyped DEF Stages, Codes
  <2>. QED BY <2>2, TaskFields DEF WalkInv, CrawlTyped
<1>2. task' = [task EXCEPT !.rows = rows]
  BY DEF PersistFailedArticle
<1> HIDE DEF f
<1>3. rows \subseteq FailureRecord
  BY <1>1, AddRowTyped
<1> HIDE DEF rows
<1>4. /\ task' \in TaskRecord /\ task'.status = task.status /\ task'.failed = task.failed
      /\ task'.docs = task.docs /\ task'.rows = rows
  BY <1>1, <1>2, <1>3 DEF TaskRecord
<1>. QED BY <1>4 DEF rows, f, PersistFailedArticle, discoveryVars, batchVars

LEMMA ReviewedTyped ==
    \A known, changed, decision : Reviewed(known, changed, decision) \in DocumentStates
BY DEF Reviewed, DocumentStates

LEMMA KnownTyped ==
    ASSUME task \in TaskRecord, NEW u
    PROVE  Known(u) \subseteq DocumentStates \cup {"none"}
BY TaskFields, DocumentsOf DEF Known

LEMMA SaveArticleEffect ==
    ASSUME WalkInv, SaveArticle
    PROVE  /\ task' \in TaskRecord /\ task'.status = task.status /\ task'.failed = task.failed
           /\ task'.rows = task.rows
           /\ DOMAIN task'.docs = DOMAIN task.docs \cup {articles[next].url}
           /\ next' = next + 1 /\ UNCHANGED <<step, job, fetch, discoveryVars, batchVars>>
<1> DEFINE u == articles[next].url
<1>1. u \in Urls /\ task \in TaskRecord /\ task.docs \in Documents
  BY ArticleInHand, TaskFields DEF SaveArticle, WalkInv, CrawlTyped
<1>2. PICK state \in DocumentStates : task' = [task EXCEPT !.docs = SetDoc(u, state)]
  <2>1. PICK known \in Known(u), changed \in BOOLEAN :
           \/ task' = [task EXCEPT !.docs =
                         SetDoc(u, Reviewed(known, changed, articles[next].decision))]
           \/ known # "none" /\ task' = [task EXCEPT !.docs = SetDoc(u, known)]
    BY DEF SaveArticle
  <2>2. known # "none" => known \in DocumentStates
    BY <1>1, KnownTyped
  <2>. QED BY <2>1, <2>2, ReviewedTyped
<1> DEFINE docs == SetDoc(u, state)
<1>3. docs \in Documents /\ DOMAIN docs = DOMAIN task.docs \cup {u}
  <2> HIDE DEF u
  <2>. QED BY <1>1, SetDocTyped
<1> HIDE DEF docs
<1>4. /\ task' \in TaskRecord /\ task'.status = task.status /\ task'.failed = task.failed
      /\ task'.rows = task.rows /\ task'.docs = docs
  BY <1>1, <1>2, <1>3 DEF TaskRecord, docs
<1>. QED BY <1>3, <1>4 DEF SaveArticle, discoveryVars, batchVars

LEMMA SaveFailsEffect ==
    ASSUME WalkInv, SaveFails
    PROVE  /\ task' \in TaskRecord
           /\ UNCHANGED <<job, fetch, scan, candidates, seen, failures, articles, claim>>
           /\ \/ /\ task'.status = task.status /\ task'.failed = task.failed + 1
                 /\ task'.docs = task.docs
                 /\ task'.rows = AddRow(task.rows,
                       Failure(articles[next].url, "saving_documents", "SAVE_FAILED", TRUE))
                 /\ next' = next + 1 /\ UNCHANGED step
              \/ task'.status = "failed" /\ step' = "done" /\ UNCHANGED next
<1> DEFINE f == Failure(articles[next].url, "saving_documents", "SAVE_FAILED", TRUE)
           rows == AddRow(task.rows, f)
           n == task.failed + 1
<1>1. /\ f \in FailureRecord /\ task \in TaskRecord /\ task.rows \subseteq FailureRecord
      /\ n \in Nat
  <2>1. articles[next].url \in Urls
    BY ArticleInHand DEF SaveFails
  <2>2. f \in FailureRecord
    BY <2>1, FailureTyped DEF Stages, Codes
  <2>3. task \in TaskRecord
    BY DEF WalkInv, CrawlTyped
  <2>4. n \in Nat /\ task.rows \subseteq FailureRecord
    BY <2>3, TaskFields
  <2>. QED BY <2>2, <2>3, <2>4
<1>2. UNCHANGED <<job, fetch, scan, candidates, seen, failures, articles, claim>>
  BY DEF SaveFails, discoveryVars, batchVars
<1>3. \/ task' = [task EXCEPT !.rows = rows, !.failed = n] /\ next' = next + 1 /\ UNCHANGED step
      \/ (Abort \/ CozeAbort) /\ UNCHANGED next
  BY DEF SaveFails
<1> HIDE DEF f, n
<1>4. rows \subseteq FailureRecord
  BY <1>1, AddRowTyped
<1> HIDE DEF rows
<1>5. CASE task' = [task EXCEPT !.rows = rows, !.failed = n] /\ next' = next + 1 /\ UNCHANGED step
  <2>1. /\ task' \in TaskRecord /\ task'.status = task.status /\ task'.failed = n
        /\ task'.docs = task.docs /\ task'.rows = rows
    BY <1>1, <1>4, <1>5 DEF TaskRecord
  <2>. QED BY <1>2, <1>5, <2>1 DEF rows, f, n
<1>6. CASE (Abort \/ CozeAbort) /\ UNCHANGED next
  BY <1>1, <1>2, <1>6, AbortKeepsTypes, CozeAbortKeepsTypes
<1>. QED BY <1>3, <1>5, <1>6

LEMMA FinishEffect ==
    ASSUME WalkInv, Finish
    PROVE  /\ task' \in TaskRecord /\ task'.status = FinalStatus /\ FinalStatus \in Ended
           /\ task'.failed = task.failed /\ task'.rows = task.rows /\ task'.docs = task.docs
           /\ step' = "done"
           /\ UNCHANGED <<job, fetch, scan, candidates, seen, failures, articles, claim, next>>
<1> DEFINE final == FinalStatus
<1>1. final \in Ended
  BY DEF FinalStatus, Ended
<1>2. task' = [task EXCEPT !.status = final] /\ task \in TaskRecord
  BY DEF Finish, WalkInv, CrawlTyped
<1> HIDE DEF final
<1>3. /\ task' \in TaskRecord /\ task'.status = final
      /\ task'.failed = task.failed /\ task'.rows = task.rows /\ task'.docs = task.docs
  BY <1>1, <1>2 DEF TaskRecord, TaskStatus
<1>. QED BY <1>1, <1>3 DEF Finish, discoveryVars, batchVars, final

LEMMA SaveKeeps == WalkInv /\ Save => WalkInv'
<1> SUFFICES ASSUME WalkInv, Save PROVE WalkInv'
  OBVIOUS
<1>1. /\ step = "save" /\ next \in Nat \ {0} /\ fetch \in FetchRecord /\ BatchTyped
  BY DEF Save, PersistFailedArticle, SaveArticle, SaveFails, Saving, Finish, WalkInv, CrawlTyped
<1>2. /\ task' \in TaskRecord
      /\ UNCHANGED <<job, fetch, scan, candidates, seen, failures, articles, claim>>
      /\ next' \in {next, next + 1} /\ step' \in {step, "done"}
  BY PersistFailedEffect, SaveArticleEffect, SaveFailsEffect, FinishEffect
     DEF Save, discoveryVars, batchVars
<1>3. BatchTyped'
  BY <1>1, <1>2 DEF BatchTyped
<1>. QED BY <1>1, <1>2, <1>3, Restarted

-----------------------------------------------------------------------------
(* Types and limits.                                                       *)

LEMMA WalkInit == ColumnInit => WalkInv
<1> SUFFICES ASSUME ColumnInit PROVE WalkInv
  OBVIOUS
<1> USE DEF ColumnInit
<1>1. CrawlTyped
  <2>1. task \in TaskRecord
    BY DocumentsOf DEF TaskRecord, TaskStatus
  <2>2. BatchTyped
    BY DEF BatchTyped, ClaimRecord
  <2>3. DiscoveryTyped
    BY ConstantsTyped DEF DiscoveryTyped
  <2>. QED BY <2>1, <2>2, <2>3, ConstantsTyped DEF CrawlTyped, Steps
<1>2. PagesCounted
  <2>1. NoScan.barren = 0
    BY DEF NoScan
  <2>. QED BY <2>1, ConstantsTyped, FS_EmptySet, Limits DEF PagesCounted, OnPage, AtApi, Fetching
<1>3. RoomLeft /\ HintInHand /\ CandidateInHand /\ Remembered
  BY JobFacts DEF RoomLeft, HintInHand, CandidateInHand, Remembered, AtApi, Fetching
<1>. QED BY <1>1, <1>2, <1>3 DEF WalkInv, Paging

LEMMA WalkStutters == WalkInv /\ UNCHANGED columnVars => WalkInv'
BY DEF WalkInv, CrawlTyped, DiscoveryTyped, BatchTyped, Paging, PagesCounted, RoomLeft, HintInHand,
   CandidateInHand, Remembered, OnPage, AtApi, Fetching, Full, columnVars, discoveryVars, batchVars

LEMMA WalkNext == WalkInv /\ [ColumnNext]_columnVars => WalkInv'
<1> SUFFICES ASSUME WalkInv, [ColumnNext]_columnVars PROVE WalkInv'
  OBVIOUS
<1>1. CASE Discover
  BY <1>1, ListPageKeeps, ListResponseKeeps, AddLinkKeeps, FallbackKeeps, ApiPageKeeps,
     ApiResponseKeeps, AddItemKeeps, NextApiPageKeeps, TurnKeeps, FeedResponseKeeps DEF Discover
<1>. QED
  BY <1>1, StartKeeps, CheckHopKeeps, RequestKeeps, FetchDetailKeeps, DetailResponseKeeps,
     LocalBatchKeeps, CozeKeeps, CozeResponseKeeps, SaveKeeps, WalkStutters DEF ColumnNext

(* The types and the limits are inductive together.                        *)
LEMMA WalkAlways == ColumnSpec => []WalkInv
BY WalkInit, WalkNext, PTL DEF ColumnSpec

(* Links, APIs and the direct candidate together respect max_articles, the *)
(* pages max_pages, and nothing is listed twice, whatever the site         *)
(* (GenericCrawler._discover_result, _discover_api_fallback).              *)
THEOREM LimitsHold == ColumnSpec => []WithinLimits
<1>1. WalkInv => WithinLimits
  <2> SUFFICES ASSUME WalkInv PROVE WithinLimits
    OBVIOUS
  <2> USE DEF WalkInv, CrawlTyped, DiscoveryTyped, BatchTyped
  <2>1. ColumnTypeOK
    <3>1. \A i \in 1 .. Len(candidates) : candidates[i].url \in Urls
      <4>1. \A i \in 1 .. Len(candidates) : candidates[i] \in CandidateRecord
        OBVIOUS
      <4>. QED BY <4>1 DEF CandidateRecord
    <3>2. /\ task.status \in TaskStatus /\ task.failed \in Nat
          /\ \A u \in DOMAIN task.docs : task.docs[u] \in DocumentStates
      BY TaskFields, DocumentsOf
    <3>3. /\ scan.page \in 0 .. MaxPages /\ scan.current \in Urls /\ scan.barren \in 0 .. StopAfter
          /\ scan.visited \cup scan.answered \cup scan.links \subseteq Urls
          /\ scan.api.page \in 0 .. ApiPages
      BY ScanFields
    <3>. QED BY <3>1, <3>2, <3>3 DEF ColumnTypeOK, FetchRecord
  <2>2. Len(candidates) <= job.limit /\ Cardinality(scan.visited) <= MaxPages
    BY DEF Paging, RoomLeft, PagesCounted
  <2>3. job.adapter = "generic" =>
          \A i, j \in 1 .. Len(candidates) :
            i < j /\ candidates[i].url = candidates[j].url => candidates[i].direct
    BY DEF Paging, Remembered
  <2>. QED BY <2>1, <2>2, <2>3 DEF WithinLimits
<1>. QED BY <1>1, WalkAlways, PTL

(* What was validated is what is asked for next: a redirect and a further  *)
(* attempt are validated anew (HttpFetcher.fetch).                         *)
LEMMA HopsNext == WalkInv /\ EveryHopValidated /\ [ColumnNext]_columnVars => EveryHopValidated'
<1> SUFFICES ASSUME WalkInv, EveryHopValidated, [ColumnNext]_columnVars PROVE EveryHopValidated'
  OBVIOUS
<1> USE DEF EveryHopValidated
<1>1. fetch \in FetchRecord
  BY DEF WalkInv, CrawlTyped
<1>2. ASSUME fetch' \in {fetch, NoFetch} PROVE EveryHopValidated'
  BY <1>2 DEF NoFetch
<1>3. ASSUME NEW purpose, NEW u, BeginFetch(purpose, u) PROVE EveryHopValidated'
  BY <1>3 DEF BeginFetch
<1>4. ASSUME NEW e, Raise(e) PROVE EveryHopValidated'
  BY <1>1, <1>2, <1>4 DEF Raise, Handle, FetchRecord
<1>5. CASE CheckHop
  <2>1. CASE fetch' = [fetch EXCEPT !.checked = fetch.to]
    BY <1>1, <2>1 DEF FetchRecord
  <2>. QED BY <1>4, <1>5, <2>1 DEF CheckHop
<1>6. CASE Request
  <2>1. ASSUME NEW u, Redirect(u) PROVE EveryHopValidated'
    BY <1>1, <1>4, <2>1 DEF Redirect, FetchRecord
  <2>. QED BY <1>4, <1>6, <2>1 DEF Request
<1>7. CASE Discover
  <2>1. CASE ListPage
    BY <1>2, <1>3, <2>1 DEF ListPage
  <2>2. CASE ApiPage
    BY <1>2, <1>3, <2>2 DEF ApiPage
  <2>3. CASE ListResponse \/ ApiResponse \/ FeedResponse
    BY <1>2, <2>3 DEF ListResponse, ApiResponse, FeedResponse
  <2>4. CASE AddLink \/ AddItem \/ Fallback \/ NextApiPage \/ Turn
    BY <1>2, <2>4 DEF AddLink, AddItem, Fallback, NextApiPage, Turn
  <2>. QED BY <1>7, <2>1, <2>2, <2>3, <2>4 DEF Discover
<1>8. CASE FetchDetail
  BY <1>2, <1>3, <1>8 DEF FetchDetail
<1>9. CASE CozePost
  BY <1>1, <1>9 DEF CozePost, FetchRecord
<1>10. CASE Start \/ DetailResponse \/ LocalBatch \/ CozeFails \/ CozeResponse
  BY <1>2, <1>10 DEF Start, DetailResponse, LocalBatch, CozeFails, CozeResponse
<1>11. CASE Save
  BY <1>2, <1>11 DEF Save, PersistFailedArticle, SaveArticle, SaveFails, Finish
<1>12. CASE UNCHANGED columnVars
  BY <1>2, <1>12 DEF columnVars
<1>. QED
  BY <1>5, <1>6, <1>7, <1>8, <1>9, <1>10, <1>11, <1>12 DEF ColumnNext

THEOREM HopsAreValidated == ColumnSpec => []EveryHopValidated
<1>1. ColumnInit => EveryHopValidated
  BY DEF ColumnInit, EveryHopValidated, NoFetch
<1>. QED BY <1>1, HopsNext, WalkAlways, PTL DEF ColumnSpec

-----------------------------------------------------------------------------
(* Bookkeeping.  The status follows the crawl.                             *)

StatusFollows ==
    /\ step \notin {"save", "done"} =>
          task.status = "running" /\ task.rows = {} /\ DOMAIN task.docs = {}
    /\ step = "save" => task.status = "saving_documents"
    /\ step = "done" => task.status \in Ended \cup {"failed"}

(* The provider decides about the steps, and about who judges an article.  *)
Discovering ==
    \/ step \in {"start", "list", "links", "api", "items", "turn", "coze"}
    \/ Fetching("list") \/ Fetching("api")
Detailing == step = "detail" \/ Fetching("detail")

ByProvider ==
    /\ step = "coze" => job.provider = "coze"
    /\ job.provider = "coze" => step \in {"start", "coze", "save", "done"} /\ candidates = <<>>
    /\ job.provider = "local" =>
          \A i \in 1 .. Len(articles) : articles[i].decision = "pending_review"
    /\ \A i \in 1 .. Len(failures) : failures[i].stage \in {"pagination", "api", "detail"}

(* Every candidate that was dealt with is an article or a failure.         *)
Covered(u) ==
    \/ \E i \in 1 .. Len(failures) : failures[i].url = u
    \/ \E i \in 1 .. Len(articles) : articles[i].of = u
DealtWith ==
    /\ Discovering => articles = <<>> /\ next = 1
    /\ Detailing => \A i \in 1 .. Len(candidates) : i < next => Covered(candidates[i].url)

(* While the batch is saved and afterwards, unless the crawl failed:       *)
(* whatever has been in hand is on record,                                 *)
BatchKept == step = "save" \/ task.status \in Ended
OnRecord ==
    BatchKept =>
        /\ \A i \in 1 .. Len(failures) : Recorded(failures[i].url)
        /\ \A i \in 1 .. Len(articles) : i < next => Recorded(articles[i].url)
        /\ \A i \in 1 .. Len(candidates) :
              \/ Recorded(candidates[i].url)
              \/ \E j \in 1 .. Len(articles) : articles[j].of = candidates[i].url

(* and the counter runs ahead of the rows by the articles that the         *)
(* provider has judged failed and that are still to come.                  *)
StillFailed == {i \in 1 .. Len(articles) : i >= next /\ articles[i].decision = "failed"}
Tally ==
    BatchKept =>
        /\ IsFiniteSet(task.rows)
        /\ task.rows # {} => task.failed > 0
        /\ (\E i \in 1 .. Len(articles) : articles[i].decision = "failed") => task.failed > 0
        /\ \A r \in task.rows : r.stage \in {"article", "saving_documents"} =>
              \E i \in 1 .. Len(articles) : i < next /\ articles[i].url = r.url
        /\ Distinct(failures) /\ Distinct(articles) =>
              task.failed = Cardinality(task.rows) + Cardinality(StillFailed)

(* A crawl that has ended has dealt with every article.                    *)
Closed ==
    /\ task.status \in Ended => next > Len(articles)
    /\ task.status \in {"completed", "waiting_review"} =>
          task.rows = {} /\ (claim.success \/ claim.empty)

BookInv == StatusFollows /\ ByProvider /\ DealtWith /\ OnRecord /\ Tally /\ Closed
Books == WalkInv /\ BookInv

FailureStagesKept ==
    (\A i \in 1 .. Len(failures) : failures[i].stage \in {"pagination", "api", "detail"})
        => (\A i \in 1 .. Len(failures') : failures'[i].stage \in {"pagination", "api", "detail"})

LEMMA FailKeepsStages ==
    ASSUME failures \in Seq(FailureRecord), NEW f \in FailureRecord,
           f.stage \in {"pagination", "api", "detail"}, Fail(f)
    PROVE  FailureStagesKept
<1>1. /\ Len(failures') = Len(failures) + 1 /\ Len(failures) \in Nat
      /\ failures'[Len(failures) + 1] = f
      /\ \A i \in 1 .. Len(failures) : failures'[i] = failures[i]
  BY FailKeepsTypes
<1>. QED BY <1>1 DEF FailureStagesKept

(* A crawl that fails has nothing more to answer for.                      *)
LEMMA FailedBook ==
    ASSUME Books, step' = "done", task'.status = "failed", FailureStagesKept,
           UNCHANGED <<job, candidates, articles>>
    PROVE  BookInv'
BY DEF Books, BookInv, StatusFollows, ByProvider, DealtWith, OnRecord, Tally, Closed, BatchKept,
   Discovering, Detailing, Fetching, Ended, FailureStagesKept

(* Discovery goes on or ends.                                              *)
OnCourse ==
    \/ step \in {"list", "links", "api", "items", "turn", "detail"}
    \/ Fetching("list") \/ Fetching("api")

LEMMA DiscoveryBook ==
    ASSUME Books, Discovering, job.provider = "local", step \notin {"save", "done", "coze"},
           OnCourse', FailureStagesKept, UNCHANGED <<job, articles, claim, next, task>>
    PROVE  BookInv'
<1> USE DEF Books, BookInv
<1>1. /\ task.status = "running" /\ task.rows = {} /\ DOMAIN task.docs = {}
      /\ articles = <<>> /\ next = 1
  BY DEF StatusFollows, DealtWith
<1>2. StatusFollows'
  BY <1>1 DEF StatusFollows, OnCourse, Fetching
<1>3. ByProvider'
  BY DEF ByProvider, FailureStagesKept, OnCourse, Fetching
<1>4. DealtWith'
  BY <1>1 DEF DealtWith, OnCourse, Fetching, Detailing
<1>5. ~BatchKept' /\ task'.status \notin Ended
  BY <1>1 DEF BatchKept, Ended, OnCourse, Fetching
<1>6. OnRecord' /\ Tally' /\ Closed'
  BY <1>5 DEF OnRecord, Tally, Closed, Ended
<1>. QED BY <1>2, <1>3, <1>4, <1>6

(* So do the articles.                                                     *)
LEMMA DetailBook ==
    ASSUME Books, Detailing, Detailing', job.provider = "local", FailureStagesKept,
           UNCHANGED <<job, candidates, claim, task>>,
           \A i \in 1 .. Len(articles') : articles'[i].decision = "pending_review",
           \A u : Covered(u) => Covered(u)',
           \A i \in 1 .. Len(candidates) :
              i < next' => i < next \/ Covered(candidates[i].url)'
    PROVE  BookInv'
<1> USE DEF Books, BookInv
<1>1. step \notin {"save", "done"}
  BY DEF Detailing, Fetching
<1>2. task.status = "running" /\ task.rows = {} /\ DOMAIN task.docs = {}
  BY <1>1 DEF StatusFollows
<1>3. StatusFollows'
  BY <1>2 DEF StatusFollows, Detailing, Fetching
<1>4. ByProvider'
  BY DEF ByProvider, FailureStagesKept, Detailing, Fetching
<1>5. DealtWith'
  BY DEF DealtWith, Discovering, Detailing, Fetching
<1>6. ~BatchKept' /\ task'.status \notin Ended
  BY <1>2 DEF BatchKept, Ended, Detailing, Fetching
<1>7. OnRecord' /\ Tally' /\ Closed'
  BY <1>6 DEF OnRecord, Tally, Closed, Ended
<1>. QED BY <1>3, <1>4, <1>5, <1>7

-----------------------------------------------------------------------------
(* The steps of a discovery.                                               *)

LEMMA BookFacts ==
    ASSUME Books
    PROVE  /\ job \in Jobs /\ next \in Nat \ {0} /\ task \in TaskRecord
           /\ fetch \in FetchRecord /\ scan \in ScanRecord
           /\ candidates \in Seq(CandidateRecord) /\ failures \in Seq(FailureRecord)
           /\ articles \in Seq(ArticleRecord)
           /\ job.provider \in {"local", "coze"}
           /\ step \notin {"start", "coze", "save", "done"} => job.provider = "local"
           /\ step = "coze" => job.provider = "coze"
<1>1. CrawlTyped /\ ByProvider
  BY DEF Books, WalkInv, BookInv
<1>2. job.provider \in {"local", "coze"}
  BY <1>1, JobFacts DEF CrawlTyped
<1>. QED BY <1>1, <1>2 DEF CrawlTyped, DiscoveryTyped, BatchTyped, ByProvider

LEMMA HintStep ==
    ASSUME NEW read, NextHint(read) \/ HintDone(read)
    PROVE  step' \in {"turn", "api"}
BY DEF NextHint, HintDone

(* A failure covers its URL.                                               *)
LEMMA FailCovers ==
    ASSUME failures \in Seq(FailureRecord), NEW f \in FailureRecord, Fail(f), UNCHANGED articles
    PROVE  Covered(f.url)' /\ \A u : Covered(u) => Covered(u)'
<1>1. /\ Len(failures') = Len(failures) + 1 /\ Len(failures) \in Nat
      /\ failures'[Len(failures) + 1] = f
      /\ \A i \in 1 .. Len(failures) : failures'[i] = failures[i]
  BY FailKeepsTypes
<1>2. \A i \in 1 .. Len(failures) : i \in 1 .. Len(failures')
  BY <1>1
<1>3. Len(failures) + 1 \in 1 .. Len(failures')
  BY <1>1
<1>. QED BY <1>1, <1>2, <1>3 DEF Covered

LEMMA HandleBook ==
    ASSUME Books, step = "fetching", NEW e, Handle(e),
           UNCHANGED <<job, candidates, seen, articles, claim>>
    PROVE  BookInv'
<1>1. /\ failures \in Seq(FailureRecord) /\ fetch.url \in Urls /\ job.provider = "local"
      /\ retryable_exception(e) \in BOOLEAN /\ ErrorCode(e) \in Codes
      /\ fetch.for \in {"list", "api", "detail"}
  BY BookFacts, FetchFields, CodesTyped DEF Books, WalkInv, Paging, CandidateInHand
<1>2. ASSUME Abort, UNCHANGED failures PROVE BookInv'
  BY <1>2, FailedBook DEF Abort, FailureStagesKept, Books, WalkInv, CrawlTyped, TaskRecord
<1>3. CASE Fetching("list")
  <2>1. ListError(e) /\ Discovering
    BY <1>3 DEF Handle, Fetching, Discovering
  <2>2. CASE scan.page = 0
    BY <1>2, <2>1, <2>2 DEF ListError
  <2>3. CASE scan.page # 0
    <3> DEFINE f == Failure(fetch.url, "pagination", "PAGINATION_FAILED", retryable_exception(e))
    <3>1. Fail(f) /\ step' = "detail" /\ UNCHANGED <<next, task>>
      BY <2>1, <2>3 DEF ListError, EndDiscovery
    <3>2. f \in FailureRecord /\ f.stage = "pagination"
      BY <1>1, FailureTyped DEF Stages, Codes, Failure
    <3> HIDE DEF f
    <3>3. FailureStagesKept
      BY <1>1, <3>1, <3>2, FailKeepsStages
    <3>4. OnCourse'
      BY <3>1 DEF OnCourse
    <3>. QED BY <1>1, <2>1, <3>1, <3>3, <3>4, DiscoveryBook
  <2>. QED BY <2>2, <2>3
<1>4. CASE Fetching("api")
  <2>1. ApiError(e) /\ Discovering
    BY <1>4 DEF Handle, Fetching, Discovering
  <2>2. CASE e = "slow"
    BY <1>2, <2>1, <2>2 DEF ApiError
  <2>3. CASE e # "slow"
    <3> DEFINE f == HintFailure(retryable_exception(e))
    <3>1. Fail(f) /\ NextHint(scan.answered) /\ UNCHANGED <<next, task>>
      BY <2>1, <2>3 DEF ApiError
    <3>2. f \in FailureRecord /\ f.stage = "api"
      <4>1. CrawlTyped /\ HintInHand /\ AtApi
        BY <1>4 DEF Books, WalkInv, Paging, AtApi
      <4>2. f.stage = "api"
        BY DEF HintFailure, Failure
      <4>. QED BY <1>1, <4>1, <4>2, HintFailureTyped
    <3> HIDE DEF f
    <3>3. FailureStagesKept
      BY <1>1, <3>1, <3>2, FailKeepsStages
    <3>4. OnCourse'
      BY <3>1, HintStep DEF OnCourse
    <3>. QED BY <1>1, <2>1, <3>1, <3>3, <3>4, DiscoveryBook
  <2>. QED BY <2>2, <2>3
<1>5. CASE Fetching("detail")
  <2>1. /\ Fail(Failure(fetch.url, "detail", ErrorCode(e), retryable_exception(e)))
        /\ step' = "detail" /\ next' = next + 1 /\ UNCHANGED task
    BY <1>5 DEF Handle, Fetching, DetailError
  <2>2. PICK f \in FailureRecord : Fail(f) /\ f.stage = "detail" /\ f.url = fetch.url
    BY <1>1, <2>1, FailureTyped DEF Stages, Failure
  <2>3. Covered(f.url)' /\ (\A u : Covered(u) => Covered(u)') /\ FailureStagesKept
    BY <1>1, <2>2, FailCovers, FailKeepsStages
  <2>4. fetch.url = candidates[next].url /\ next \in Nat \ {0} /\ candidates' = candidates
    BY <1>5, BookFacts DEF Books, WalkInv, Paging, CandidateInHand
  <2>5. \A i \in 1 .. Len(candidates) : i < next' => i < next \/ Covered(candidates[i].url)'
    <3> SUFFICES ASSUME NEW i \in 1 .. Len(candidates), i < next', ~(i < next)
                 PROVE  Covered(candidates[i].url)'
      OBVIOUS
    <3>1. candidates'[i].url = f.url
      BY <2>1, <2>2, <2>4
    <3>. QED BY <2>3, <3>1
  <2>6. \A i \in 1 .. Len(articles') : articles'[i].decision = "pending_review"
    BY <1>1 DEF Books, BookInv, ByProvider
  <2>7. Detailing /\ Detailing'
    BY <1>5, <2>1 DEF Detailing
  <2>. QED BY <1>1, <2>1, <2>3, <2>5, <2>6, <2>7, DetailBook
<1>. QED BY <1>1, <1>3, <1>4, <1>5 DEF Fetching

LEMMA FetchBook ==
    ASSUME Books, step = "fetching", fetch'.for = fetch.for,
           UNCHANGED <<step, job, candidates, failures, articles, claim, next, task>>
    PROVE  BookInv'
<1> USE DEF Books, BookInv
<1>1. StatusFollows' /\ ByProvider' /\ Closed'
  BY DEF StatusFollows, ByProvider, Closed
<1>2. DealtWith'
  BY DEF DealtWith, Discovering, Detailing, Fetching, Covered
<1>3. ~BatchKept'
  BY DEF StatusFollows, BatchKept, Ended
<1>. QED BY <1>1, <1>2, <1>3 DEF OnRecord, Tally

LEMMA RaiseBook ==
    ASSUME Books, step = "fetching", NEW e, Raise(e),
           UNCHANGED <<job, candidates, seen, articles, claim>>
    PROVE  BookInv'
<1>1. CASE e \in {"connect", "timeout"} /\ fetch.attempt < MaxAttempts
  <2>1. fetch'.for = fetch.for /\ UNCHANGED <<step, failures, scan, next, task>>
    BY <1>1, BookFacts DEF Raise, FetchRecord
  <2>. QED BY <2>1, FetchBook
<1>2. CASE ~(e \in {"connect", "timeout"} /\ fetch.attempt < MaxAttempts)
  BY <1>2, HandleBook DEF Raise
<1>. QED BY <1>1, <1>2

LEMMA CheckHopBook == Books /\ CheckHop => BookInv'
<1> SUFFICES ASSUME Books, CheckHop PROVE BookInv'
  OBVIOUS
<1>1. CASE \E e \in CheckErrors : Raise(e)
  BY <1>1, RaiseBook DEF CheckHop
<1>2. CASE fetch' = [fetch EXCEPT !.checked = fetch.to]
           /\ UNCHANGED <<step, failures, scan, next, task>>
  <2>1. fetch'.for = fetch.for
    BY <1>2, BookFacts DEF FetchRecord
  <2>. QED BY <1>2, <2>1, FetchBook DEF CheckHop
<1>. QED BY <1>1, <1>2 DEF CheckHop

LEMMA RequestBook == Books /\ Request => BookInv'
<1> SUFFICES ASSUME Books, Request PROVE BookInv'
  OBVIOUS
<1>1. ASSUME NEW u, Redirect(u) PROVE BookInv'
  <2>1. CASE fetch.hop >= MaxRedirects
    BY <1>1, <2>1, RaiseBook DEF Redirect, Request
  <2>2. CASE ~(fetch.hop >= MaxRedirects)
    <3>1. fetch'.for = fetch.for /\ UNCHANGED <<step, failures, scan, next, task>>
      BY <1>1, <2>2, BookFacts DEF Redirect, FetchRecord
    <3>. QED BY <3>1, FetchBook DEF Request
  <2>. QED BY <2>1, <2>2
<1>2. CASE \E e \in RequestErrors : Raise(e)
  BY <1>2, RaiseBook DEF Request
<1>. QED BY <1>1, <1>2 DEF Request

LEMMA StartBook == Books /\ Start => BookInv'
<1> SUFFICES ASSUME Books, Start PROVE BookInv'
  OBVIOUS
<1>1. step = "start" /\ UNCHANGED <<job, fetch, candidates, failures, articles, claim, next>>
  BY DEF Start, discoveryVars, batchVars
<1>2. FailureStagesKept /\ Discovering
  BY <1>1 DEF FailureStagesKept, Discovering
<1>3. CASE job.provider = "coze" /\ step' = "coze" /\ UNCHANGED task
  <2> USE DEF Books, BookInv
  <2>1. task.status = "running" /\ task.rows = {} /\ DOMAIN task.docs = {}
    BY <1>1 DEF StatusFollows
  <2>2. StatusFollows' /\ ~BatchKept' /\ task'.status \notin Ended
    BY <1>3, <2>1 DEF StatusFollows, BatchKept, Ended
  <2>3. ByProvider'
    BY <1>1, <1>3 DEF ByProvider
  <2>4. DealtWith'
    BY <1>1, <1>2, <1>3 DEF DealtWith, Detailing, Fetching
  <2>5. OnRecord' /\ Tally' /\ Closed'
    BY <2>2 DEF OnRecord, Tally, Closed, Ended
  <2>. QED BY <2>2, <2>3, <2>4, <2>5
<1>4. CASE job.provider = "local" /\ step' = "list" /\ UNCHANGED task
  <2>1. OnCourse'
    BY <1>4 DEF OnCourse
  <2>. QED BY <1>1, <1>2, <1>4, <2>1, DiscoveryBook
<1>5. CASE Abort
  BY <1>1, <1>2, <1>5, BookFacts, FailedBook DEF Abort, TaskRecord
<1>. QED BY <1>3, <1>4, <1>5 DEF Start

LEMMA DiscoverBook == Books /\ Discover => BookInv'
<1> SUFFICES ASSUME Books, Discover PROVE BookInv'
  OBVIOUS
<1>1. /\ Discovering /\ job.provider = "local" /\ step \notin {"save", "done", "coze"}
      /\ UNCHANGED <<job, articles, claim, next>> /\ failures \in Seq(FailureRecord)
  <2>1. Discovering /\ step \notin {"start", "coze", "save", "done"}
    BY DEF Discover, ListPage, ListResponse, AddLink, Fallback, ApiPage, ApiResponse, AddItem,
       NextApiPage, Turn, FeedResponse, Responds, Discovering, Fetching
  <2>2. UNCHANGED <<job, articles, claim, next>>
    BY DEF Discover, ListPage, ListResponse, AddLink, Fallback, ApiPage, ApiResponse, AddItem,
       NextApiPage, Turn, FeedResponse, batchVars
  <2>. QED BY <2>1, <2>2, BookFacts
<1>2. FailureStagesKept
  <2>1. CASE UNCHANGED failures
    BY <2>1 DEF FailureStagesKept
  <2>2. CASE ApiResponse /\ Fail(HintFailure(FALSE))
    <3> DEFINE f == HintFailure(FALSE)
    <3>1. f.stage = "api"
      BY DEF HintFailure, Failure
    <3>2. f \in FailureRecord
      BY <2>2, HintFailureTyped DEF Books, WalkInv, Paging, AtApi, ApiResponse, Responds, Fetching
    <3>3. Fail(f)
      BY <2>2
    <3> HIDE DEF f
    <3>. QED BY <1>1, <3>1, <3>2, <3>3, FailKeepsStages
  <2>. QED BY <2>1, <2>2
       DEF Discover, ListPage, ListResponse, AddLink, Fallback, ApiPage, ApiResponse, AddItem,
           NextApiPage, Turn, FeedResponse, batchVars
<1>3. CASE UNCHANGED task /\ OnCourse'
  BY <1>1, <1>2, <1>3, DiscoveryBook
<1>5. CASE Abort /\ UNCHANGED candidates
  BY <1>1, <1>2, <1>5, BookFacts, FailedBook DEF Abort, TaskRecord
<1>6. ASSUME UNCHANGED task, step' \in {"list", "links", "api", "items", "turn", "detail"}
      PROVE  BookInv'
  BY <1>3, <1>6 DEF OnCourse
<1>7. ASSUME UNCHANGED task, NEW purpose \in {"list", "api"}, NEW u, BeginFetch(purpose, u)
      PROVE  BookInv'
  BY <1>3, <1>7 DEF OnCourse, Fetching, BeginFetch
<1>8. CASE ListPage \/ ApiPage
  BY <1>6, <1>7, <1>8, HintStep DEF ListPage, ApiPage, EndDiscovery
<1>9. CASE ListResponse \/ FeedResponse
  BY <1>5, <1>6, <1>9 DEF ListResponse, FeedResponse, EndDiscovery
<1>10. CASE AddLink \/ AddItem
  BY <1>6, <1>10 DEF AddLink, AddItem
<1>11. CASE Fallback \/ Turn
  BY <1>6, <1>11 DEF Fallback, Turn, EndDiscovery
<1>12. CASE ApiResponse \/ NextApiPage
  BY <1>6, <1>12, HintStep DEF ApiResponse, NextApiPage
<1>. QED BY <1>8, <1>9, <1>10, <1>11, <1>12 DEF Discover

-----------------------------------------------------------------------------
(* The articles.                                                           *)

LEMMA ArticleCovers ==
    ASSUME articles \in Seq(ArticleRecord), NEW a \in ArticleRecord,
           articles' = Append(articles, a), UNCHANGED failures
    PROVE  /\ Covered(a.of)' /\ \A u : Covered(u) => Covered(u)'
           /\ \A i \in 1 .. Len(articles') :
                 articles'[i] = a \/ (i \in 1 .. Len(articles) /\ articles'[i] = articles[i])
<1>1. /\ Len(articles') = Len(articles) + 1 /\ Len(articles) \in Nat
      /\ articles'[Len(articles) + 1] = a
      /\ \A i \in 1 .. Len(articles) : i \in 1 .. Len(articles') /\ articles'[i] = articles[i]
      /\ \A i \in 1 .. Len(articles') : i \in 1 .. Len(articles) \/ i = Len(articles) + 1
  BY Appended
<1>2. Len(articles) + 1 \in 1 .. Len(articles')
  BY <1>1
<1>3. Covered(a.of)'
  BY <1>1, <1>2 DEF Covered
<1>4. \A u : Covered(u) => Covered(u)'
  BY <1>1 DEF Covered
<1>5. \A i \in 1 .. Len(articles') :
         articles'[i] = a \/ (i \in 1 .. Len(articles) /\ articles'[i] = articles[i])
  BY Appended
<1>. QED BY <1>3, <1>4, <1>5

(* An article is added for the candidate in hand.                          *)
LEMMA AddArticleBook ==
    ASSUME Books, Detailing, Detailing', NEW of \in Urls, NEW u \in Urls,
           AddArticle(of, u), of = candidates[next].url, next' = next + 1,
           UNCHANGED <<job, candidates, failures, claim, task>>
    PROVE  BookInv'
<1> DEFINE a == [of |-> of, url |-> u, decision |-> "pending_review"]
<1>1. /\ a \in ArticleRecord /\ a.of = of /\ a.decision = "pending_review"
      /\ articles' = Append(articles, a)
  BY DEF AddArticle, ArticleRecord, Decisions
<1> HIDE DEF a
<1>2. articles \in Seq(ArticleRecord) /\ next \in Nat \ {0} /\ job.provider = "local"
  BY BookFacts DEF Detailing, Fetching
<1>3. /\ Covered(a.of)' /\ \A v : Covered(v) => Covered(v)'
      /\ \A i \in 1 .. Len(articles') :
            articles'[i] = a \/ (i \in 1 .. Len(articles) /\ articles'[i] = articles[i])
  BY <1>1, <1>2, ArticleCovers
<1>4. \A i \in 1 .. Len(articles') : articles'[i].decision = "pending_review"
  BY <1>1, <1>2, <1>3 DEF Books, BookInv, ByProvider
<1>5. \A i \in 1 .. Len(candidates) : i < next' => i < next \/ Covered(candidates[i].url)'
  <2> SUFFICES ASSUME NEW i \in 1 .. Len(candidates), i < next', ~(i < next)
               PROVE  Covered(candidates[i].url)'
    OBVIOUS
  <2>1. candidates'[i].url = a.of
    BY <1>1, <1>2
  <2>. QED BY <1>3, <2>1
<1>6. FailureStagesKept
  BY DEF FailureStagesKept
<1>. QED BY <1>2, <1>3, <1>4, <1>5, <1>6, DetailBook

LEMMA FetchDetailBook == Books /\ FetchDetail => BookInv'
<1> SUFFICES ASSUME Books, FetchDetail PROVE BookInv'
  OBVIOUS
<1>1. /\ step = "detail" /\ next \in 1 .. Len(candidates) /\ Detailing
      /\ UNCHANGED <<job, candidates, failures, claim>>
  BY BookFacts DEF FetchDetail, discoveryVars, Detailing
<1>2. FailureStagesKept /\ job.provider = "local" /\ candidates \in Seq(CandidateRecord)
  BY <1>1, BookFacts DEF FailureStagesKept
<1>3. PICK u : u = candidates[next].url
  OBVIOUS
<1>4. u \in Urls
  <2>1. candidates[next] \in CandidateRecord
    BY <1>1, <1>2
  <2>. QED BY <1>3, <2>1 DEF CandidateRecord
<1>5. \/ Abort /\ UNCHANGED articles
      \/ AddArticle(u, u) /\ next' = next + 1 /\ UNCHANGED <<step, fetch, task>>
      \/ BeginFetch("detail", u) /\ UNCHANGED <<articles, next, task>>
  BY <1>3 DEF FetchDetail
<1>6. CASE Abort /\ UNCHANGED articles
  BY <1>1, <1>2, <1>6, BookFacts, FailedBook DEF Abort, TaskRecord
<1>7. CASE AddArticle(u, u) /\ next' = next + 1 /\ UNCHANGED <<step, fetch, task>>
  <2>1. Detailing'
    BY <1>1, <1>7 DEF Detailing
  <2>. QED BY <1>1, <1>3, <1>4, <1>7, <2>1, AddArticleBook
<1>8. CASE BeginFetch("detail", u) /\ UNCHANGED <<articles, next, task>>
  <2>1. Detailing'
    BY <1>8 DEF BeginFetch, Detailing, Fetching
  <2>2. \A v : Covered(v) => Covered(v)'
    BY <1>1, <1>8 DEF Covered
  <2>3. \A i \in 1 .. Len(articles') : articles'[i].decision = "pending_review"
    BY <1>2, <1>8 DEF Books, BookInv, ByProvider
  <2>. QED BY <1>1, <1>2, <1>8, <2>1, <2>2, <2>3, DetailBook
<1>. QED BY <1>5, <1>6, <1>7, <1>8

LEMMA DetailResponseBook == Books /\ DetailResponse => BookInv'
<1> SUFFICES ASSUME Books, DetailResponse PROVE BookInv'
  OBVIOUS
<1>1. /\ Fetching("detail") /\ next' = next + 1 /\ step' = "detail"
      /\ UNCHANGED <<job, candidates, claim, task>>
  BY DEF DetailResponse, Responds, Fetching, discoveryVars
<1>2. /\ Detailing /\ Detailing' /\ job.provider = "local" /\ failures \in Seq(FailureRecord)
      /\ next \in Nat \ {0}
  BY <1>1, BookFacts DEF Detailing, Fetching
<1>3. /\ fetch.url \in Urls /\ normalize_url(fetch.to) \in Urls
      /\ fetch.url = candidates[next].url
  BY <1>1, BookFacts, FetchFields, NormalizedUrl DEF Books, WalkInv, Paging, CandidateInHand
<1>4. CASE AddArticle(fetch.url, normalize_url(fetch.to)) /\ UNCHANGED failures
  BY <1>1, <1>2, <1>3, <1>4, AddArticleBook
<1>5. ASSUME NEW code \in SchemaCodes, Fail(Failure(fetch.url, "detail", code, FALSE)),
             UNCHANGED articles
      PROVE  BookInv'
  <2>1. PICK f \in FailureRecord : Fail(f) /\ f.stage = "detail" /\ f.url = fetch.url
    BY <1>3, <1>5, FailureTyped DEF SchemaCodes, Codes, Stages, Failure
  <2>2. Covered(f.url)' /\ (\A v : Covered(v) => Covered(v)') /\ FailureStagesKept
    BY <1>2, <1>5, <2>1, FailCovers, FailKeepsStages
  <2>3. \A i \in 1 .. Len(candidates) : i < next' => i < next \/ Covered(candidates[i].url)'
    <3> SUFFICES ASSUME NEW i \in 1 .. Len(candidates), i < next', ~(i < next)
                 PROVE  Covered(candidates[i].url)'
      OBVIOUS
    <3>1. candidates'[i].url = f.url
      BY <1>1, <1>2, <1>3, <2>1
    <3>. QED BY <2>2, <3>1
  <2>4. \A i \in 1 .. Len(articles') : articles'[i].decision = "pending_review"
    BY <1>2, <1>5 DEF Books, BookInv, ByProvider
  <2>. QED BY <1>1, <1>2, <2>2, <2>3, <2>4, DetailBook
<1>. QED BY <1>4, <1>5 DEF DetailResponse

-----------------------------------------------------------------------------
(* The batch.  Its rows: one for each identity, the last of the equal ones *)
(* (_persist_batch_failures).                                              *)

LEMMA RowsOfAll ==
    ASSUME NEW s \in Seq(FailureRecord), NEW i \in 1 .. Len(s)
    PROVE  \E r \in RowsOf(s) : r.url = s[i].url
<1> DEFINE n == Len(s)
           S == {k \in 1 .. n : Identity(s[k]) = Identity(s[i])}
<1>1. n \in Nat /\ i \in S /\ S \subseteq 1 .. n
  OBVIOUS
<1>2. PICK j \in S : \A k \in S : k <= j
  <2> HIDE DEF S, n
  <2>. QED BY <1>1, GreatestIndex
<1>3. j \in 1 .. Len(s) /\ Identity(s[j]) = Identity(s[i])
  BY <1>2
<1>4. \A k \in j + 1 .. Len(s) : Identity(s[k]) # Identity(s[j])
  <2> SUFFICES ASSUME NEW k \in j + 1 .. Len(s), Identity(s[k]) = Identity(s[j]) PROVE FALSE
    OBVIOUS
  <2>1. k \in S
    BY <1>1, <1>3
  <2>. QED BY <1>2, <1>3, <2>1
<1>5. s[j] \in RowsOf(s)
  BY <1>3, <1>4 DEF RowsOf
<1>6. s[j].url = s[i].url
  BY <1>3 DEF Identity
<1>. QED BY <1>5, <1>6

LEMMA RowsOfCount ==
    ASSUME NEW s \in Seq(FailureRecord)
    PROVE  /\ IsFiniteSet(RowsOf(s))
           /\ RowsOf(s) # {} => Len(s) > 0
           /\ \A r \in RowsOf(s) : \E i \in 1 .. Len(s) : r = s[i]
           /\ Distinct(s) => Cardinality(RowsOf(s)) = Len(s)
<1> DEFINE n == Len(s)
           T == {s[i] : i \in 1 .. n}
           g == [i \in 1 .. n |-> s[i]]
<1>1. n \in Nat /\ IsFiniteSet(1 .. n) /\ Cardinality(1 .. n) = n
  <2>1. n \in Nat
    OBVIOUS
  <2> HIDE DEF n
  <2>. QED BY <2>1, FS_Interval
<1>2. g \in [1 .. n -> T] /\ \A t \in T : \E i \in 1 .. n : g[i] = t
  OBVIOUS
<1>3. g \in Surjection(1 .. n, T)
  BY <1>2 DEF Surjection
<1>4. /\ IsFiniteSet(T)
      /\ Cardinality(T) = Cardinality(1 .. n) <=> g \in Injection(1 .. n, T)
  <2> HIDE DEF g, T, n
  <2>. QED BY <1>1, <1>3, FS_Surjection
<1>5. RowsOf(s) \subseteq T
  BY DEF RowsOf
<1>6. IsFiniteSet(RowsOf(s))
  <2> HIDE DEF T
  <2>. QED BY <1>4, <1>5, FS_Subset
<1>7. ASSUME Distinct(s) PROVE Cardinality(RowsOf(s)) = n
  <2>1. \A i, j \in 1 .. n : i # j => Identity(s[i]) # Identity(s[j])
    BY <1>7 DEF Distinct, Identity
  <2>2. T \subseteq RowsOf(s)
    BY <1>1, <2>1 DEF RowsOf
  <2>3. g \in Injection(1 .. n, T)
    <3>1. \A i, j \in 1 .. n : g[i] = g[j] => i = j
      BY <2>1
    <3> HIDE DEF T, n
    <3>. QED BY <1>2, <3>1 DEF Injection, IsInjective
  <2>4. RowsOf(s) = T
    BY <1>5, <2>2
  <2> HIDE DEF T, g, n
  <2>. QED BY <1>1, <1>4, <2>3, <2>4
<1>. QED BY <1>1, <1>5, <1>6, <1>7

(* What the provider has judged failed is counted.                         *)
LEMMA FailedCount ==
    ASSUME NEW s \in Seq(ArticleRecord)
    PROVE  /\ FailedIn(s) \in Nat
           /\ (\E i \in 1 .. Len(s) : s[i].decision = "failed") => FailedIn(s) > 0
           /\ (\A i \in 1 .. Len(s) : s[i].decision # "failed") => FailedIn(s) = 0
<1> DEFINE S == {i \in 1 .. Len(s) : s[i].decision = "failed"}
<1>1. IsFiniteSet(1 .. Len(s)) /\ S \in SUBSET (1 .. Len(s))
  BY FS_Interval
<1>2. FailedIn(s) = Cardinality(S)
  BY DEF FailedIn
<1>3. /\ (\E i \in 1 .. Len(s) : s[i].decision = "failed") => S # {}
      /\ (\A i \in 1 .. Len(s) : s[i].decision # "failed") => S = {}
  OBVIOUS
<1> HIDE DEF S
<1>4. IsFiniteSet(S)
  BY <1>1, FS_Subset
<1>5. Cardinality(S) \in Nat /\ (S = {} <=> Cardinality(S) = 0)
  BY <1>4, FS_CardinalityType, FS_EmptySet
<1>. QED BY <1>2, <1>3, <1>5

(* A batch that is about to be saved: nothing of it is lost so far.        *)
LEMMA BatchBook ==
    ASSUME Books, NEW s \in Seq(ArticleRecord), NEW f \in Seq(FailureRecord),
           articles' = s, failures' = f,
           \A i \in 1 .. Len(f) : f[i].stage \in {"pagination", "api", "detail"},
           job.provider = "local" => \A i \in 1 .. Len(s) : s[i].decision = "pending_review",
           \A i \in 1 .. Len(candidates) : Covered(candidates[i].url)',
           step' = "save", next' = 1, task'.status = "saving_documents",
           task'.failed = FailedIn(s) + Len(f), task'.rows = RowsOf(f),
           UNCHANGED <<job, candidates>>,
           job.provider = "coze" => candidates = <<>>
    PROVE  BookInv'
<1>1. StatusFollows' /\ DealtWith'
  BY DEF StatusFollows, DealtWith, Discovering, Detailing, Fetching
<1>2. ByProvider'
  BY DEF ByProvider
<1>3. /\ IsFiniteSet(RowsOf(f)) /\ (RowsOf(f) # {} => Len(f) > 0)
      /\ \A r \in RowsOf(f) : \E i \in 1 .. Len(f) : r = f[i]
      /\ Distinct(f) => Cardinality(RowsOf(f)) = Len(f)
  BY RowsOfCount
<1>4. /\ FailedIn(s) \in Nat /\ Len(f) \in Nat /\ Len(s) \in Nat
      /\ (\E i \in 1 .. Len(s) : s[i].decision = "failed") => FailedIn(s) > 0
  BY FailedCount
<1>5. OnRecord'
  <2>1. \A i \in 1 .. Len(failures') : Recorded(failures[i].url)'
    BY RowsOfAll DEF Recorded
  <2>2. \A i \in 1 .. Len(candidates') :
           \/ Recorded(candidates[i].url)'
           \/ \E j \in 1 .. Len(articles') : articles'[j].of = candidates'[i].url
    BY <2>1 DEF Covered
  <2>3. \A i \in 1 .. Len(articles') : ~(i < next')
    BY <1>4
  <2>. QED BY <2>1, <2>2, <2>3 DEF OnRecord
<1>6. Tally'
  <2>1. StillFailed' = {i \in 1 .. Len(s) : s[i].decision = "failed"}
    BY <1>4 DEF StillFailed
  <2>2. Cardinality(StillFailed') = FailedIn(s)
    BY <2>1 DEF FailedIn
  <2>3. IsFiniteSet(task'.rows) /\ (task'.rows # {} => task'.failed > 0)
    BY <1>3, <1>4
  <2>4. (\E i \in 1 .. Len(s) : s[i].decision = "failed") => task'.failed > 0
    BY <1>4
  <2>5. \A r \in task'.rows : r.stage \notin {"article", "saving_documents"}
    BY <1>3
  <2>6. Distinct(f) => task'.failed = Cardinality(task'.rows) + Cardinality(StillFailed')
    BY <1>3, <1>4, <2>2
  <2>. QED BY <2>3, <2>4, <2>5, <2>6 DEF Tally
<1>7. Closed'
  BY DEF Closed, Ended
<1>. QED BY <1>1, <1>2, <1>5, <1>6, <1>7 DEF BookInv

LEMMA LocalBatchBook == Books /\ LocalBatch => BookInv'
<1> SUFFICES ASSUME Books, LocalBatch PROVE BookInv'
  OBVIOUS
<1>1. /\ step = "detail" /\ next > Len(candidates)
      /\ UNCHANGED <<job, candidates, failures, articles>>
  BY DEF LocalBatch, discoveryVars
<1>2. /\ job.provider = "local" /\ next \in Nat \ {0} /\ task \in TaskRecord
      /\ candidates \in Seq(CandidateRecord) /\ failures \in Seq(FailureRecord)
      /\ articles \in Seq(ArticleRecord)
  BY <1>1, BookFacts
<1>3. CASE Abort
  BY <1>1, <1>2, <1>3, FailedBook DEF Abort, TaskRecord, FailureStagesKept
<1>4. CASE BeginSave(Len(failures), failures)
  <2>1. /\ \A i \in 1 .. Len(articles) : articles[i].decision = "pending_review"
        /\ \A i \in 1 .. Len(failures) : failures[i].stage \in {"pagination", "api", "detail"}
    BY <1>2 DEF Books, BookInv, ByProvider
  <2>2. \A i \in 1 .. Len(candidates) : Covered(candidates[i].url)
    <3>1. \A i \in 1 .. Len(candidates) : i < next
      BY <1>1, <1>2
    <3>. QED BY <1>1, <3>1 DEF Books, BookInv, DealtWith, Detailing
  <2>3. \A i \in 1 .. Len(candidates) : Covered(candidates[i].url)'
    BY <1>1, <2>2 DEF Covered
  <2>4. FailedIn(articles) = 0 /\ Len(failures) \in Nat
    BY <1>2, <2>1, FailedCount
  <2>5. /\ step' = "save" /\ next' = 1 /\ task'.status = "saving_documents"
        /\ task'.failed = Len(failures) /\ task'.rows = RowsOf(failures)
    BY <1>2, <1>4, <2>4, BeginSaveTyped
  <2>. QED BY <1>1, <1>2, <2>1, <2>3, <2>4, <2>5, BatchBook
<1>. QED BY <1>3, <1>4 DEF LocalBatch

LEMMA CozeBook == Books /\ (CozePost \/ CozeFails) => BookInv'
<1> SUFFICES ASSUME Books, CozePost \/ CozeFails PROVE BookInv'
  OBVIOUS
<1>1. /\ step = "coze" /\ UNCHANGED <<job, candidates, failures, articles, claim, next>>
      /\ FailureStagesKept
  BY DEF CozePost, CozeFails, discoveryVars, batchVars, FailureStagesKept
<1>2. CASE CozeFails
  BY <1>1, <1>2, BookFacts, CozeAbortKeepsTypes, FailedBook DEF CozeFails
<1>3. CASE CozePost
  <2> USE DEF Books, BookInv
  <2>1. step' = step /\ task' = task /\ ~BatchKept'
    BY <1>1, <1>3 DEF CozePost, StatusFollows, BatchKept, Ended
  <2>2. StatusFollows' /\ ByProvider' /\ Closed'
    BY <1>1, <2>1 DEF StatusFollows, ByProvider, Closed
  <2>3. DealtWith'
    BY <1>1, <2>1 DEF DealtWith, Discovering, Detailing, Fetching
  <2>. QED BY <2>1, <2>2, <2>3 DEF OnRecord, Tally
<1>. QED BY <1>2, <1>3

LEMMA CozeResponseBook == Books /\ CozeResponse => BookInv'
<1> SUFFICES ASSUME Books, CozeResponse PROVE BookInv'
  OBVIOUS
<1>1. /\ step = "coze" /\ job.provider = "coze" /\ candidates = <<>> /\ task \in TaskRecord
      /\ UNCHANGED <<job, candidates>>
  <2>1. step = "coze" /\ UNCHANGED <<job, candidates>>
    BY DEF CozeResponse, discoveryVars
  <2>. QED BY <2>1, BookFacts DEF Books, BookInv, ByProvider
<1>2. ASSUME CozeAbort, UNCHANGED batchVars PROVE BookInv'
  BY <1>1, <1>2, CozeAbortKeepsTypes, FailedBook DEF FailureStagesKept, batchVars
<1>3. ASSUME NEW s \in BatchArticles, NEW f \in BatchFailedUrls, NEW reported \in 0 .. 3,
             reported = FailedIn(s) + Len(f), articles' = s, failures' = f, BeginSave(reported, f)
      PROVE  BookInv'
  <2>1. s \in Seq(ArticleRecord) /\ f \in Seq(FailureRecord) /\ reported \in Nat
    BY AnswerTyped
  <2>2. \A i \in 1 .. Len(f) : f[i].stage \in {"pagination", "api", "detail"}
    <3>1. CASE f = <<>>
      BY <3>1
    <3>2. ASSUME NEW u \in ArticleUrls, f = <<Failure(u, "detail", "PROVIDER", TRUE)>>
          PROVE  \A i \in 1 .. Len(f) : f[i].stage \in {"pagination", "api", "detail"}
      BY <3>2 DEF Failure
    <3>. QED BY <3>1, <3>2 DEF BatchFailedUrls
  <2>3. /\ step' = "save" /\ next' = 1 /\ task'.status = "saving_documents"
        /\ task'.failed = reported /\ task'.rows = RowsOf(f)
    BY <1>1, <1>3, <2>1, BeginSaveTyped
  <2>4. \A i \in 1 .. Len(candidates) : Covered(candidates[i].url)'
    BY <1>1
  <2>. QED BY <1>1, <1>3, <2>1, <2>2, <2>3, <2>4, BatchBook
<1>. QED BY <1>2, <1>3 DEF CozeResponse, Conforms

-----------------------------------------------------------------------------
(* Saving.                                                                 *)

LEMMA AddRowKeeps ==
    ASSUME NEW rows, IsFiniteSet(rows), NEW f
    PROVE  /\ IsFiniteSet(AddRow(rows, f)) /\ f \in AddRow(rows, f)
           /\ \A r \in rows : \E q \in AddRow(rows, f) : q.url = r.url
           /\ \A q \in AddRow(rows, f) : q = f \/ q \in rows
           /\ (\A r \in rows : Identity(r) # Identity(f)) =>
                 Cardinality(AddRow(rows, f)) = Cardinality(rows) + 1
<1> DEFINE others == {r \in rows : Identity(r) # Identity(f)}
<1>1. AddRow(rows, f) = others \cup {f} /\ others \in SUBSET rows /\ f \notin others
  BY DEF AddRow
<1>2. (\A r \in rows : Identity(r) # Identity(f)) => others = rows
  OBVIOUS
<1>3. \A r \in rows : \E q \in AddRow(rows, f) : q.url = r.url
  <2> SUFFICES ASSUME NEW r \in rows PROVE \E q \in AddRow(rows, f) : q.url = r.url
    OBVIOUS
  <2>1. CASE Identity(r) = Identity(f)
    BY <1>1, <2>1 DEF Identity
  <2>2. CASE Identity(r) # Identity(f)
    BY <1>1, <2>2
  <2>. QED BY <2>1, <2>2
<1> HIDE DEF others
<1>4. IsFiniteSet(others)
  BY <1>1, FS_Subset
<1>5. /\ IsFiniteSet(others \cup {f})
      /\ Cardinality(others \cup {f}) = Cardinality(others) + 1
  BY <1>1, <1>4, FS_AddElement
<1>. QED BY <1>1, <1>2, <1>3, <1>5

(* An article that is dealt with is no longer to come.                     *)
LEMMA StillFailedStep ==
    ASSUME articles \in Seq(ArticleRecord), next \in 1 .. Len(articles),
           next' = next + 1, UNCHANGED articles
    PROVE  /\ Cardinality(StillFailed) \in Nat /\ Cardinality(StillFailed') \in Nat
           /\ articles[next].decision = "failed" =>
                 Cardinality(StillFailed) = Cardinality(StillFailed') + 1
           /\ articles[next].decision # "failed" => StillFailed' = StillFailed
<1>1. StillFailed \in SUBSET (1 .. Len(articles)) /\ IsFiniteSet(1 .. Len(articles))
  BY FS_Interval DEF StillFailed
<1>2. IsFiniteSet(StillFailed)
  BY <1>1, FS_Subset
<1>3. StillFailed' = StillFailed \ {next}
  BY DEF StillFailed
<1>4. next \in StillFailed <=> articles[next].decision = "failed"
  BY DEF StillFailed
<1>5. IsFiniteSet(StillFailed \ {next})
  BY <1>2, FS_RemoveElement
<1>6. Cardinality(StillFailed) \in Nat /\ Cardinality(StillFailed \ {next}) \in Nat
  BY <1>2, <1>5, FS_CardinalityType
<1>7. next \in StillFailed => Cardinality(StillFailed \ {next}) = Cardinality(StillFailed) - 1
  BY <1>2, FS_RemoveElement
<1>. QED BY <1>3, <1>4, <1>6, <1>7

(* One article of the batch is dealt with.                                 *)
LEMMA SavedBook ==
    ASSUME Books, Saving, next' = next + 1, task'.status = task.status,
           UNCHANGED <<step, job, candidates, failures, articles, claim>>,
           \A u : Recorded(u) => Recorded(u)',
           \E u : u = articles[next].url /\ Recorded(u)',
           Tally'
    PROVE  BookInv'
<1> USE DEF Books, BookInv
<1>1. step = "save" /\ task.status = "saving_documents" /\ BatchKept /\ next \in Nat \ {0}
  BY BookFacts DEF Saving, StatusFollows, BatchKept
<1>2. StatusFollows' /\ ByProvider' /\ Closed'
  BY <1>1 DEF StatusFollows, ByProvider, Closed, Ended
<1>3. DealtWith'
  BY <1>1 DEF DealtWith, Discovering, Detailing, Fetching
<1>4. OnRecord'
  <2>1. \A i \in 1 .. Len(articles) : i < next' => i < next \/ i = next
    BY <1>1
  <2>2. \A i \in 1 .. Len(failures') : Recorded(failures[i].url)'
    BY <1>1 DEF OnRecord
  <2>3. \A i \in 1 .. Len(articles') : i < next' => Recorded(articles[i].url)'
    BY <1>1, <2>1 DEF OnRecord
  <2>4. \A i \in 1 .. Len(candidates') :
           \/ Recorded(candidates[i].url)'
           \/ \E j \in 1 .. Len(articles') : articles'[j].of = candidates'[i].url
    BY <1>1 DEF OnRecord
  <2>. QED BY <2>2, <2>3, <2>4 DEF OnRecord
<1>. QED BY <1>2, <1>3, <1>4

(* A failure is recorded for it; the failed articles have been counted     *)
(* already.                                                                *)
LEMMA RowBook ==
    ASSUME Books, Saving, NEW f \in FailureRecord, f.url = articles[next].url,
           f.stage \in {"article", "saving_documents"},
           task'.rows = AddRow(task.rows, f), task'.docs = task.docs,
           articles[next].decision = "failed" => task'.failed = task.failed,
           articles[next].decision # "failed" => task'.failed = task.failed + 1,
           next' = next + 1, task'.status = task.status,
           UNCHANGED <<step, job, candidates, failures, articles, claim>>
    PROVE  BookInv'
<1>1. /\ BatchKept /\ Tally /\ task.failed \in Nat
      /\ next \in 1 .. Len(articles) /\ articles \in Seq(ArticleRecord)
  BY BookFacts, TaskFields, ArticleInHand DEF Books, BookInv, Saving, BatchKept
<1>2. IsFiniteSet(task.rows)
  BY <1>1 DEF Tally
<1>3. /\ IsFiniteSet(task'.rows) /\ f \in task'.rows
      /\ \A r \in task.rows : \E q \in task'.rows : q.url = r.url
      /\ \A q \in task'.rows : q = f \/ q \in task.rows
      /\ (\A r \in task.rows : Identity(r) # Identity(f)) =>
            Cardinality(task'.rows) = Cardinality(task.rows) + 1
  BY <1>2, AddRowKeeps
<1>4. \A u : Recorded(u) => Recorded(u)'
  BY <1>3 DEF Recorded
<1>5. \E u : u = articles[next].url /\ Recorded(u)'
  BY <1>3 DEF Recorded
<1>6. task'.failed > 0
  BY <1>1 DEF Tally
<1>7. \A r \in task'.rows : r.stage \in {"article", "saving_documents"} =>
         \E i \in 1 .. Len(articles) : i < next' /\ articles[i].url = r.url
  <2> SUFFICES ASSUME NEW r \in task'.rows, r.stage \in {"article", "saving_documents"}
               PROVE  \E i \in 1 .. Len(articles) : i < next' /\ articles[i].url = r.url
    OBVIOUS
  <2>1. CASE r = f
    BY <1>1, <2>1
  <2>2. CASE r \in task.rows
    <3>1. PICK i \in 1 .. Len(articles) : i < next /\ articles[i].url = r.url
      BY <1>1, <2>2 DEF Tally
    <3>. QED BY <1>1, <3>1
  <2>. QED BY <1>3, <2>1, <2>2
<1>8. ASSUME Distinct(failures), Distinct(articles)
      PROVE  task'.failed = Cardinality(task'.rows) + Cardinality(StillFailed')
  <2>1. \A r \in task.rows : Identity(r) # Identity(f)
    <3> SUFFICES ASSUME NEW r \in task.rows, Identity(r) = Identity(f) PROVE FALSE
      OBVIOUS
    <3>1. r.url = articles[next].url /\ r.stage \in {"article", "saving_documents"}
      BY DEF Identity
    <3>2. PICK i \in 1 .. Len(articles) : i < next /\ articles[i].url = r.url
      BY <1>1, <3>1 DEF Tally
    <3>. QED BY <1>1, <1>8, <3>1, <3>2 DEF Distinct
  <2>2. Cardinality(task'.rows) = Cardinality(task.rows) + 1
    BY <1>3, <2>1
  <2>3. task.failed = Cardinality(task.rows) + Cardinality(StillFailed)
    BY <1>1, <1>8 DEF Tally
  <2>4. Cardinality(task.rows) \in Nat
    BY <1>2, FS_CardinalityType
  <2>5. /\ Cardinality(StillFailed) \in Nat /\ Cardinality(StillFailed') \in Nat
        /\ articles[next].decision = "failed" =>
              Cardinality(StillFailed) = Cardinality(StillFailed') + 1
        /\ articles[next].decision # "failed" => StillFailed' = StillFailed
    BY <1>1, StillFailedStep
  <2>6. CASE articles[next].decision = "failed"
    BY <2>2, <2>3, <2>4, <2>5, <2>6
  <2>7. CASE articles[next].decision # "failed"
    BY <2>2, <2>3, <2>4, <2>5, <2>7
  <2>. QED BY <2>6, <2>7
<1>9. Tally'
  <2>1. Distinct(failures)' /\ Distinct(articles)' => Distinct(failures) /\ Distinct(articles)
    BY DEF Distinct
  <2>. QED BY <1>3, <1>6, <1>7, <1>8, <2>1 DEF Tally
<1>. QED BY <1>4, <1>5, <1>9, SavedBook

LEMMA SaveArticleBook == Books /\ SaveArticle => BookInv'
<1> SUFFICES ASSUME Books, SaveArticle PROVE BookInv'
  OBVIOUS
<1>1. /\ Saving /\ articles[next].decision # "failed"
      /\ task'.status = task.status /\ task'.failed = task.failed /\ task'.rows = task.rows
      /\ DOMAIN task'.docs = DOMAIN task.docs \cup {articles[next].url}
      /\ next' = next + 1 /\ UNCHANGED <<step, job, candidates, failures, articles, claim>>
  BY SaveArticleEffect DEF Books, SaveArticle, discoveryVars, batchVars
<1>2. /\ Tally /\ BatchKept
      /\ next \in 1 .. Len(articles) /\ articles \in Seq(ArticleRecord)
  BY <1>1, BookFacts, ArticleInHand DEF Books, BookInv, Saving, BatchKept
<1>3. \A u : Recorded(u) => Recorded(u)'
  BY <1>1 DEF Recorded
<1>4. \E u : u = articles[next].url /\ Recorded(u)'
  BY <1>1 DEF Recorded
<1>5. Tally'
  <2>1. StillFailed' = StillFailed
    BY <1>1, <1>2, StillFailedStep
  <2>2. \A i \in 1 .. Len(articles) : i < next => i < next'
    BY <1>1, <1>2
  <2>3. Distinct(failures)' /\ Distinct(articles)' => Distinct(failures) /\ Distinct(articles)
    BY <1>1 DEF Distinct
  <2>. QED BY <1>1, <1>2, <2>1, <2>2, <2>3 DEF Tally
<1>. QED BY <1>1, <1>3, <1>4, <1>5, SavedBook

LEMMA PersistFailedBook == Books /\ PersistFailedArticle => BookInv'
<1> SUFFICES ASSUME Books, PersistFailedArticle PROVE BookInv'
  OBVIOUS
<1> DEFINE f == Failure(articles[next].url, "article", "ARTICLE_FAILED", TRUE)
<1>1. /\ Saving /\ articles[next].decision = "failed"
      /\ task'.status = task.status /\ task'.failed = task.failed /\ task'.docs = task.docs
      /\ task'.rows = AddRow(task.rows, f)
      /\ next' = next + 1 /\ UNCHANGED <<step, job, candidates, failures, articles, claim>>
  BY PersistFailedEffect DEF Books, PersistFailedArticle, discoveryVars, batchVars
<1>2. f \in FailureRecord /\ f.url = articles[next].url /\ f.stage = "article"
  <2>1. articles[next].url \in Urls
    BY <1>1, ArticleInHand DEF Books
  <2>. QED BY <2>1, FailureTyped DEF Stages, Codes, Failure
<1> HIDE DEF f
<1>. QED BY <1>1, <1>2, RowBook

LEMMA SaveFailsBook == Books /\ SaveFails => BookInv'
<1> SUFFICES ASSUME Books, SaveFails PROVE BookInv'
  OBVIOUS
<1> DEFINE f == Failure(articles[next].url, "saving_documents", "SAVE_FAILED", TRUE)
<1>1. /\ Saving /\ articles[next].decision # "failed"
      /\ UNCHANGED <<job, candidates, failures, articles, claim>>
      /\ \/ /\ task'.status = task.status /\ task'.failed = task.failed + 1
            /\ task'.docs = task.docs /\ task'.rows = AddRow(task.rows, f)
            /\ next' = next + 1 /\ UNCHANGED step
         \/ task'.status = "failed" /\ step' = "done"
  BY SaveFailsEffect DEF Books, SaveFails
<1>2. f \in FailureRecord /\ f.url = articles[next].url /\ f.stage = "saving_documents"
  <2>1. articles[next].url \in Urls
    BY <1>1, ArticleInHand DEF Books
  <2>. QED BY <2>1, FailureTyped DEF Stages, Codes, Failure
<1> HIDE DEF f
<1>3. CASE /\ task'.status = task.status /\ task'.failed = task.failed + 1
           /\ task'.docs = task.docs /\ task'.rows = AddRow(task.rows, f)
           /\ next' = next + 1 /\ UNCHANGED step
  BY <1>1, <1>2, <1>3, RowBook
<1>4. CASE task'.status = "failed" /\ step' = "done"
  BY <1>1, <1>4, FailedBook DEF FailureStagesKept
<1>. QED BY <1>1, <1>3, <1>4

LEMMA FinishBook == Books /\ Finish => BookInv'
<1> SUFFICES ASSUME Books, Finish PROVE BookInv'
  OBVIOUS
<1> USE DEF Books, BookInv
<1>1. /\ step = "save" /\ next > Len(articles) /\ step' = "done"
      /\ task'.status = FinalStatus /\ FinalStatus \in Ended
      /\ task'.failed = task.failed /\ task'.rows = task.rows /\ task'.docs = task.docs
      /\ UNCHANGED <<job, candidates, failures, articles, claim, next>>
  BY FinishEffect DEF Finish
<1>2. BatchKept /\ task.failed \in Nat
  BY <1>1, BookFacts, TaskFields DEF BatchKept
<1>3. StatusFollows' /\ ByProvider' /\ DealtWith'
  BY <1>1 DEF StatusFollows, ByProvider, DealtWith, Discovering, Detailing, Fetching
<1>4. OnRecord'
  BY <1>1, <1>2 DEF OnRecord, Recorded
<1>5. Tally'
  <2>1. StillFailed' = StillFailed /\ (Distinct(failures)' <=> Distinct(failures))
        /\ (Distinct(articles)' <=> Distinct(articles))
    BY <1>1 DEF StillFailed, Distinct
  <2>. QED BY <1>1, <1>2, <2>1 DEF Tally
<1>6. Closed'
  <2>1. FinalStatus # "partial_failed" =>
          task.failed = 0 /\ (claim.success \/ claim.empty)
    BY <1>2 DEF FinalStatus
  <2>2. task.failed = 0 => task.rows = {}
    BY <1>2 DEF Tally
  <2>. QED BY <1>1, <2>1, <2>2 DEF Closed
<1>. QED BY <1>3, <1>4, <1>5, <1>6

-----------------------------------------------------------------------------
(* Nothing is lost.                                                        *)

LEMMA BookInit == ColumnInit => BookInv
<1> SUFFICES ASSUME ColumnInit PROVE BookInv
  OBVIOUS
<1> USE DEF ColumnInit
<1>1. StatusFollows /\ DealtWith
  BY DEF StatusFollows, DealtWith, Detailing, Fetching
<1>2. ByProvider
  BY DEF ByProvider
<1>3. ~BatchKept /\ task.status \notin Ended
  BY DEF BatchKept, Ended
<1>. QED BY <1>1, <1>2, <1>3 DEF BookInv, OnRecord, Tally, Closed, Ended

LEMMA BookStutters == Books /\ UNCHANGED columnVars => BookInv'
BY DEF Books, BookInv, StatusFollows, ByProvider, DealtWith, OnRecord, Tally, Closed, BatchKept,
   Discovering, Detailing, Fetching, Covered, StillFailed, Distinct, Recorded,
   columnVars, discoveryVars, batchVars

LEMMA BookNext == Books /\ [ColumnNext]_columnVars => Books'
<1> SUFFICES ASSUME Books, [ColumnNext]_columnVars PROVE Books'
  OBVIOUS
<1>1. WalkInv'
  BY WalkNext DEF Books
<1>2. ASSUME Save PROVE BookInv'
  BY <1>2, PersistFailedBook, SaveArticleBook, SaveFailsBook, FinishBook DEF Save
<1>3. BookInv'
  BY <1>2, StartBook, CheckHopBook, RequestBook, DiscoverBook, FetchDetailBook,
     DetailResponseBook, LocalBatchBook, CozeBook, CozeResponseBook, BookStutters DEF ColumnNext
<1>. QED BY <1>1, <1>3 DEF Books

(* The types, the limits and the books are inductive together.             *)
LEMMA BooksAlways == ColumnSpec => []Books
<1>1. ColumnInit => Books
  BY WalkInit, BookInit DEF Books
<1>. QED BY <1>1, BookNext, PTL DEF ColumnSpec

(* A crawl that ends without failing has made a document or a recorded     *)
(* failure of every candidate, article and failed URL, however discovery,  *)
(* fetches and savepoints went (LocalCrawlProvider, CozeCrawlProvider,     *)
(* CrawlService._persist_batch_failures).                                  *)
THEOREM NothingIsLost == ColumnSpec => []NothingLost
<1>1. Books => NothingLost
  <2> SUFFICES ASSUME Books, task.status \in Ended
               PROVE  /\ \A i \in 1 .. Len(failures) : Recorded(failures[i].url)
                      /\ \A i \in 1 .. Len(articles) : Recorded(articles[i].url)
                      /\ \A i \in 1 .. Len(candidates) :
                            \/ Recorded(candidates[i].url)
                            \/ \E j \in 1 .. Len(articles) : articles[j].of = candidates[i].url
    BY DEF NothingLost
  <2>1. BatchKept /\ OnRecord /\ next > Len(articles) /\ next \in Nat
    BY BookFacts DEF Books, BookInv, BatchKept, Closed
  <2>2. articles \in Seq(ArticleRecord)
    BY BookFacts
  <2>3. \A i \in 1 .. Len(articles) : i < next
    BY <2>1, <2>2
  <2>. QED BY <2>1, <2>3 DEF OnRecord
<1>. QED BY <1>1, BooksAlways, PTL

(* The final status is earned, and failed_count is the number of failures  *)
(* on record (CrawlService, when the batch has been saved).                *)
THEOREM SuccessIsWhole == ColumnSpec => []SuccessIsComplete
<1>1. Books => SuccessIsComplete
  <2> SUFFICES ASSUME Books PROVE SuccessIsComplete
    OBVIOUS
  <2>1. Closed /\ Tally
    BY DEF Books, BookInv
  <2>2. ASSUME task.status \in Ended, Distinct(failures), Distinct(articles)
        PROVE  task.failed = Cardinality(task.rows)
    <3>1. next > Len(articles) /\ next \in Nat /\ articles \in Seq(ArticleRecord)
      BY <2>1, <2>2, BookFacts DEF Closed
    <3>2. StillFailed = {}
      BY <3>1 DEF StillFailed
    <3>3. /\ IsFiniteSet(task.rows)
          /\ task.failed = Cardinality(task.rows) + Cardinality(StillFailed)
      BY <2>1, <2>2 DEF Tally, BatchKept
    <3>4. Cardinality(StillFailed) = 0 /\ Cardinality(task.rows) \in Nat
      BY <3>2, <3>3, FS_EmptySet, FS_CardinalityType
    <3>. QED BY <3>3, <3>4
  <2>. QED BY <2>1, <2>2 DEF SuccessIsComplete, Closed
<1>. QED BY <1>1, BooksAlways, PTL

-----------------------------------------------------------------------------
(* From inside to outside.                                                 *)

(* Before the batch there is one way to be done: to fail.                  *)
LEMMA DoneEarly ==
    ASSUME Books, ColumnNext, ~Save, step' = "done"
    PROVE  task'.status = "failed"
<1>1. task \in TaskRecord
  BY BookFacts
<1>2. ASSUME Abort \/ CozeAbort PROVE task'.status = "failed"
  BY <1>1, <1>2 DEF Abort, CozeAbort, TaskRecord
<1>3. ASSUME step = "fetching", NEW e, Raise(e) PROVE task'.status = "failed"
  <2>1. Handle(e)
    BY <1>3 DEF Raise
  <2>2. fetch.for \in {"list", "api", "detail"}
    BY <1>3 DEF Books, WalkInv, Paging, CandidateInHand
  <2>3. CASE ListError(e)
    BY <1>2, <2>3 DEF ListError, EndDiscovery
  <2>4. CASE ApiError(e)
    BY <1>2, <2>4, HintStep DEF ApiError
  <2>5. ~DetailError(e)
    BY DEF DetailError
  <2>. QED BY <2>1, <2>2, <2>3, <2>4, <2>5 DEF Handle
<1>4. CASE CheckHop
  BY <1>3, <1>4 DEF CheckHop
<1>5. CASE Request
  BY <1>3, <1>5 DEF Request, Redirect
<1>6. CASE Discover
  <2>1. ~ListPage /\ ~ApiPage
    BY HintStep DEF ListPage, ApiPage, EndDiscovery, BeginFetch
  <2>2. ~AddLink /\ ~AddItem /\ ~Fallback /\ ~Turn
    BY DEF AddLink, AddItem, Fallback, Turn, EndDiscovery
  <2>3. ~ApiResponse /\ ~NextApiPage
    BY HintStep DEF ApiResponse, NextApiPage
  <2>4. Abort
    BY <1>6, <2>1, <2>2, <2>3 DEF Discover, ListResponse, FeedResponse, EndDiscovery
  <2>. QED BY <1>2, <2>4
<1>7. CASE Start \/ FetchDetail \/ DetailResponse \/ LocalBatch
  BY <1>2, <1>7 DEF Start, FetchDetail, BeginFetch, DetailResponse, LocalBatch, BeginSave
<1>8. CASE CozePost \/ CozeFails \/ CozeResponse
  BY <1>2, <1>8 DEF CozePost, CozeFails, CozeResponse, BeginSave
<1>. QED BY <1>4, <1>5, <1>6, <1>7, <1>8 DEF ColumnNext

(* A crawl that is over stays as it is.                                    *)
LEMMA DoneStays ==
    ASSUME Books, [ColumnNext]_columnVars, step = "done"
    PROVE  UNCHANGED task
<1>1. ~Discover
  BY DEF Discover, ListPage, ListResponse, AddLink, Fallback, ApiPage, ApiResponse, AddItem,
     NextApiPage, Turn, FeedResponse, Responds
<1>2. ~Save
  BY DEF Save, PersistFailedArticle, SaveArticle, SaveFails, Saving, Finish
<1>3. /\ ~Start /\ ~CheckHop /\ ~Request /\ ~FetchDetail /\ ~DetailResponse /\ ~LocalBatch
      /\ ~CozePost /\ ~CozeFails /\ ~CozeResponse
  BY DEF Start, CheckHop, Request, FetchDetail, DetailResponse, Responds, LocalBatch, CozePost,
     CozeFails, CozeResponse
<1>. QED BY <1>1, <1>2, <1>3 DEF ColumnNext, columnVars

(* The crawl moves the status of its task only as the state machine of     *)
(* crawl_tasks allows (CrawlTask.transitions): the two models agree about  *)
(* the variable that they share.                                           *)
THEOREM MovesAreAllowed ==
    ColumnSpec => [][task'.status # task.status
                        => task'.status \in transitions(task.status)]_columnVars
<1>1. ASSUME Books, Books', [ColumnNext]_columnVars, task'.status # task.status
      PROVE  task'.status \in transitions(task.status)
  <2>1. StatusFollows /\ StatusFollows'
    BY <1>1 DEF Books, BookInv
  <2>2. step # "done"
    BY <1>1, DoneStays
  <2>3. CASE step = "save"
    <3>1. task.status = "saving_documents"
      BY <2>1, <2>3 DEF StatusFollows
    <3>2. step' \in {"save", "done"}
      <4>1. Save \/ UNCHANGED columnVars
        BY <1>1, <2>3 DEF ColumnNext, Start, CheckHop, Request, Discover, ListPage, ListResponse,
           AddLink, Fallback, ApiPage, ApiResponse, AddItem, NextApiPage, Turn, FeedResponse,
           Responds, FetchDetail, DetailResponse, LocalBatch, CozePost, CozeFails, CozeResponse
      <4>2. WalkInv
        BY <1>1 DEF Books
      <4>. QED
        BY <2>3, <4>1, <4>2, PersistFailedEffect, SaveArticleEffect, SaveFailsEffect, FinishEffect
           DEF Save, columnVars
    <3>3. task'.status \in Ended \cup {"failed"}
      BY <1>1, <2>1, <3>1, <3>2 DEF StatusFollows
    <3>. QED BY <3>1, <3>3 DEF transitions, Ended
  <2>4. CASE step # "save"
    <3>1. task.status = "running"
      BY <2>1, <2>2, <2>4 DEF StatusFollows
    <3>2. ColumnNext /\ ~Save
      BY <1>1, <2>4 DEF columnVars, Save, PersistFailedArticle, SaveArticle, SaveFails, Saving,
         Finish
    <3>3. task'.status \in {"running", "saving_documents", "failed"}
      BY <1>1, <2>1, <3>2, DoneEarly DEF StatusFollows
    <3>. QED BY <1>1, <3>1, <3>3 DEF transitions
  <2>. QED BY <2>3, <2>4
<1>. QED BY <1>1, BooksAlways, PTL DEF ColumnSpec
=============================================================================
