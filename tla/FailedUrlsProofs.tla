-------------------------- MODULE FailedUrlsProofs --------------------------
(***************************************************************************)
(* FailedUrls keeps its types and leaves no row behind, for any number of  *)
(* rows, workers, requests and further crawls.                             *)
(***************************************************************************)
EXTENDS FailedUrls, FiniteSetTheorems, TLAPS

(* The columns, the broker and the sessions.                               *)
RowsTyped ==
    /\ row \in [Failures -> Row \cup {NoRow}]
    /\ task \in [status : TaskStatus, failed : Nat]
    /\ messages \in [Failures -> 0 .. MaxMessages]
    /\ worker \in [Workers -> WorkerState]
    /\ request \in [Requests -> RequestState]
    /\ crawl \in CrawlState

(* Whoever is at a row has found it in the database, and rows stay there.  *)
AtRows ==
    /\ \A w \in Workers : worker[w].pc # "idle" => row[worker[w].row].status # "absent"
    /\ \A r \in Requests : request[r].pc # "idle" => row[request[r].row].status # "absent"
    /\ crawl.pc = "saving" =>
          \A f \in crawl.kept \cup crawl.reopened : row[f].status # "absent"

HistoryTyped ==
    /\ lost \subseteq Failures /\ crossed \subseteq Failures
    /\ counting \in BOOLEAN /\ crawls \in Nat

Kept == \A f \in Failures : row[f].status # "absent" => row'[f].status # "absent"

-----------------------------------------------------------------------------

LEMMA PresentIsRow ==
    ASSUME row \in [Failures -> Row \cup {NoRow}], NEW f \in Failures,
           row[f].status # "absent"
    PROVE  row[f] \in Row
BY DEF Row, NoRow

LEMMA BusyWorker ==
    ASSUME worker \in [Workers -> WorkerState], NEW w \in Workers, worker[w].pc # "idle"
    PROVE  /\ worker[w] \in [pc : {"loaded", "executing"}, row : Failures,
                             failed : Nat, closes : BOOLEAN]
           /\ worker[w].row \in Failures /\ worker[w].failed \in Nat
           /\ worker[w].closes \in BOOLEAN
BY DEF WorkerState, IdleWorker

LEMMA BusyRequest ==
    ASSUME request \in [Requests -> RequestState], NEW r \in Requests, request[r].pc # "idle"
    PROVE  /\ request[r] \in [pc : {"queueing", "sending", "send_failed"}, row : Failures]
           /\ request[r].row \in Failures
BY DEF RequestState, IdleRequest

LEMMA SavingCrawl ==
    ASSUME crawl \in CrawlState, crawl.pc = "saving"
    PROVE  /\ crawl.kept \subseteq Failures /\ crawl.reopened \subseteq Failures
           /\ crawl.added \subseteq Identities /\ crawl.failed \in Nat
BY DEF CrawlState, NoCrawl

LEMMA SentTyped ==
    ASSUME messages \in [Failures -> 0 .. MaxMessages], NEW f \in Failures
    PROVE  /\ [messages EXCEPT ![f] = Sent(f)] \in [Failures -> 0 .. MaxMessages]
           /\ [messages EXCEPT ![f] = Sent(f)][f] > 0
BY BoundsAssumption DEF Sent

LEMMA TakenTyped ==
    ASSUME messages \in [Failures -> 0 .. MaxMessages], NEW f \in Failures, messages[f] > 0
    PROVE  [messages EXCEPT ![f] = @ - 1] \in [Failures -> 0 .. MaxMessages]
BY BoundsAssumption

(* A write of the status alone.                                            *)
LEMMA StatusWrite ==
    ASSUME row \in [Failures -> Row \cup {NoRow}], NEW f \in Failures,
           row[f].status # "absent", NEW s \in RowStatus,
           row' = [row EXCEPT ![f].status = s]
    PROVE  /\ row' \in [Failures -> Row \cup {NoRow}]
           /\ row'[f].status = s
           /\ \A g \in Failures \ {f} : row'[g] = row[g]
           /\ Kept
<1>1. row[f] \in Row
  BY PresentIsRow
<1>2. row'[f] = [row[f] EXCEPT !.status = s]
  OBVIOUS
<1>3. row'[f] \in Row /\ row'[f].status = s
  BY <1>1, <1>2 DEF Row
<1>4. s # "absent"
  BY DEF RowStatus
<1> QED BY <1>3, <1>4 DEF Kept

-----------------------------------------------------------------------------
(* What every action does to the rows, which is all that the rest needs.   *)

RowsStep == RowsTyped' /\ AtRows' /\ Kept

LEMMA RequestRows ==
    ASSUME RowsTyped, AtRows, NEW r \in Requests, Request(r)
    PROVE  RowsStep
<1> USE DEF RowsTyped, rowVars
<1>1. ASSUME NEW f \in Failures, QueueRead(r, f)  PROVE RowsStep
  <2>1. request' \in [Requests -> RequestState]
    BY <1>1 DEF QueueRead, RequestState
  <2>2. AtRows'
    BY <1>1 DEF QueueRead, Present, AtRows
  <2> QED BY <1>1, <2>1, <2>2 DEF QueueRead, RowsStep, Kept
<1>2. CASE QueueWrite(r)
  <2>1. request[r] \in [pc : {"queueing", "sending", "send_failed"}, row : Failures]
        /\ request[r].row \in Failures /\ row[request[r].row].status # "absent"
    BY <1>2, BusyRequest DEF QueueWrite, AtRows
  <2>2. row' \in [Failures -> Row \cup {NoRow}] /\ Kept
    BY <1>2, <2>1, StatusWrite DEF QueueWrite, RowStatus
  <2>3. request' \in [Requests -> RequestState]
    BY <1>2, <2>1 DEF QueueWrite, RequestState
  <2>4. AtRows'
    BY <1>2, <2>1, <2>2, BusyWorker, BusyRequest, SavingCrawl DEF QueueWrite, AtRows, Kept
  <2> QED BY <1>2, <2>2, <2>3, <2>4 DEF QueueWrite, RowsStep
<1>3. CASE SendOk(r)
  BY <1>3, BusyRequest, SentTyped DEF SendOk, RequestState, IdleRequest, RowsStep, AtRows, Kept
<1>4. CASE SendError(r)
  <2>1. request[r] \in [pc : {"queueing", "sending", "send_failed"}, row : Failures]
        /\ request[r].row \in Failures
    BY <1>4, BusyRequest DEF SendError
  <2>2. messages' \in [Failures -> 0 .. MaxMessages]
    BY <1>4, <2>1, SentTyped DEF SendError
  <2>3. request' \in [Requests -> RequestState] /\ AtRows'
    BY <1>4, <2>1 DEF SendError, RequestState, AtRows
  <2> QED BY <1>4, <2>2, <2>3 DEF SendError, RowsStep, Kept
<1>5. CASE MarkQueueError(r)
  <2>1. request[r].row \in Failures /\ row[request[r].row].status # "absent"
    BY <1>5, BusyRequest DEF MarkQueueError, AtRows
  <2>2. row' \in [Failures -> Row \cup {NoRow}] /\ Kept
    BY <1>5, <2>1, StatusWrite DEF MarkQueueError, RowStatus
  <2>3. request' \in [Requests -> RequestState]
    BY <1>5 DEF MarkQueueError, RequestState
  <2>4. AtRows'
    BY <1>5, <2>2, BusyWorker, BusyRequest, SavingCrawl
    DEF MarkQueueError, AtRows, Kept, IdleRequest
  <2> QED BY <1>5, <2>2, <2>3, <2>4 DEF MarkQueueError, RowsStep
<1> QED BY <1>1, <1>2, <1>3, <1>4, <1>5 DEF Request

LEMMA WorkerRows ==
    ASSUME RowsTyped, AtRows, NEW w \in Workers, Worker(w)
    PROVE  RowsStep
<1> USE DEF RowsTyped, rowVars
<1>1. ASSUME NEW f \in Failures, Load(w, f)  PROVE RowsStep
  <2>1. row[f].status # "absent"
    BY <1>1 DEF Load, MayRun
  <2>2. messages' \in [Failures -> 0 .. MaxMessages]
    BY <1>1, TakenTyped DEF Load, Take
  <2>3. worker' \in [Workers -> WorkerState]
    BY <1>1 DEF Load, WorkerState
  <2>4. AtRows'
    BY <1>1, <2>1 DEF Load, AtRows
  <2> QED BY <1>1, <2>2, <2>3, <2>4 DEF Load, RowsStep, Kept
<1>2. CASE MarkRetrying(w)
  <2>1. /\ worker[w] \in [pc : {"loaded", "executing"}, row : Failures,
                          failed : Nat, closes : BOOLEAN]
        /\ worker[w].row \in Failures /\ row[worker[w].row].status # "absent"
    BY <1>2, BusyWorker DEF MarkRetrying, AtRows
  <2>2. row' \in [Failures -> Row \cup {NoRow}] /\ Kept
    BY <1>2, <2>1, StatusWrite DEF MarkRetrying, RowStatus
  <2>3. worker' \in [Workers -> WorkerState]
    BY <1>2, <2>1 DEF MarkRetrying, WorkerState
  <2>4. AtRows'
    BY <1>2, <2>1, <2>2, BusyWorker, BusyRequest, SavingCrawl DEF MarkRetrying, AtRows, Kept
  <2> QED BY <1>2, <2>2, <2>3, <2>4 DEF MarkRetrying, RowsStep
<1>3. CASE Fail(w)
  <2>1. worker[w].row \in Failures /\ row[worker[w].row].status # "absent"
    BY <1>3, BusyWorker DEF Fail, AtRows
  <2>2. PICK c \in Codes : row' = [row EXCEPT ![worker[w].row].status = "failed",
                                             ![worker[w].row].code = c]
    BY <1>3 DEF Fail
  <2>3. row[worker[w].row] \in Row
    BY <2>1, PresentIsRow
  <2>4. row'[worker[w].row] = [row[worker[w].row] EXCEPT !.status = "failed", !.code = c]
    BY <2>1, <2>2
  <2>5. row'[worker[w].row] \in Row
    BY <2>3, <2>4 DEF Row, RowStatus
  <2>6. \A g \in Failures \ {worker[w].row} : row'[g] = row[g]
    BY <2>2
  <2>7. row' \in [Failures -> Row \cup {NoRow}] /\ Kept
    BY <2>2, <2>4, <2>5, <2>6 DEF Kept, Row, RowStatus
  <2>8. worker' \in [Workers -> WorkerState]
    BY <1>3 DEF Fail, WorkerState
  <2>9. AtRows'
    BY <1>3, <2>7, BusyWorker, BusyRequest, SavingCrawl DEF Fail, AtRows, Kept, IdleWorker
  <2> QED BY <1>3, <2>7, <2>8, <2>9 DEF Fail, RowsStep
<1>4. CASE Succeed(w)
  <2>1. /\ worker[w].row \in Failures /\ row[worker[w].row].status # "absent"
        /\ worker[w].failed \in Nat
    BY <1>4, BusyWorker DEF Succeed, AtRows
  <2>2. row' \in [Failures -> Row \cup {NoRow}] /\ Kept
    BY <1>4, <2>1, StatusWrite DEF Succeed, RowStatus
  <2>3. task' \in [status : TaskStatus, failed : Nat]
    BY <1>4, <2>1 DEF Succeed, TaskStatus
  <2>4. worker' \in [Workers -> WorkerState]
    BY <1>4 DEF Succeed, WorkerState
  <2>5. AtRows'
    BY <1>4, <2>2, BusyWorker, BusyRequest, SavingCrawl DEF Succeed, AtRows, Kept, IdleWorker
  <2> QED BY <1>4, <2>2, <2>3, <2>4, <2>5 DEF Succeed, RowsStep
<1> QED BY <1>1, <1>2, <1>3, <1>4 DEF Worker

LEMMA CrawlRows ==
    ASSUME RowsTyped, AtRows, Crawl
    PROVE  RowsStep
<1> USE DEF RowsTyped, rowVars
<1>1. CASE CrawlReads
  <2>1. PICK reported \in SUBSET Identities :
          LET found == {f \in Present : Identity(f) \in reported}
              kept  == {f \in found : KeepsRow(f)}
          IN  crawl' = [pc |-> "saving", kept |-> kept, reopened |-> found \ kept,
                        added |-> reported \ {Identity(f) : f \in found},
                        failed |-> task.failed]
    BY <1>1 DEF CrawlReads
  <2> DEFINE found == {f \in Present : Identity(f) \in reported}
             kept  == {f \in found : KeepsRow(f)}
             new   == reported \ {Identity(f) : f \in found}
  <2>2. kept \subseteq Present /\ found \ kept \subseteq Present /\ new \subseteq Identities
    OBVIOUS
  <2>3. crawl' = [pc |-> "saving", kept |-> kept, reopened |-> found \ kept,
                  added |-> new, failed |-> task.failed]
    BY <2>1
  <2> HIDE DEF found, kept, new
  <2>4. crawl' \in CrawlState
    BY <2>2, <2>3 DEF CrawlState, Present
  <2>5. AtRows'
    BY <1>1, <2>2, <2>3 DEF CrawlReads, AtRows, Present
  <2> QED BY <1>1, <2>4, <2>5 DEF CrawlReads, RowsStep, Kept
<1>2. CASE CrawlSaves
  <2>1. /\ crawl.kept \subseteq Failures /\ crawl.reopened \subseteq Failures
        /\ crawl.added \subseteq Identities /\ crawl.failed \in Nat
    BY <1>2, SavingCrawl DEF CrawlSaves
  <2>2. PICK fresh \in SUBSET (Failures \ Present) :
          \E id \in [fresh -> crawl.added],
             flag \in [fresh \cup crawl.reopened \cup crawl.kept -> BOOLEAN] :
             row' = [f \in Failures |-> SavedRow(f, fresh, id, flag)]
    BY <1>2 DEF CrawlSaves
  <2>3. PICK id \in [fresh -> crawl.added],
             flag \in [fresh \cup crawl.reopened \cup crawl.kept -> BOOLEAN] :
          row' = [f \in Failures |-> SavedRow(f, fresh, id, flag)]
    BY <2>2
  <2>4. ASSUME NEW f \in Failures
        PROVE  /\ row'[f] \in Row \cup {NoRow}
               /\ row[f].status # "absent" => row'[f].status # "absent"
    <3>1. CASE f \in fresh
      <4>1. id[f] \in Places \X Codes
        BY <2>1, <3>1 DEF Identities
      <4>2. row'[f] = [place |-> id[f][1], code |-> id[f][2],
                       status |-> "pending", retryable |-> flag[f]]
        BY <2>3, <3>1 DEF SavedRow
      <4>3. id[f][1] \in Places /\ id[f][2] \in Codes /\ flag[f] \in BOOLEAN
        BY <4>1, <3>1
      <4> QED BY <4>2, <4>3 DEF Row, RowStatus
    <3>2. CASE f \notin fresh /\ f \in crawl.reopened
      <4>1. row[f] \in Row
        BY <1>2, <3>2, PresentIsRow DEF AtRows, CrawlSaves
      <4>2. row'[f] = [row[f] EXCEPT !.retryable = flag[f], !.status = "pending"]
        BY <2>3, <3>2 DEF SavedRow
      <4>3. flag[f] \in BOOLEAN
        BY <3>2
      <4> QED BY <4>1, <4>2, <4>3 DEF Row, RowStatus
    <3>3. CASE f \notin fresh /\ f \notin crawl.reopened /\ f \in crawl.kept
      <4>1. row[f] \in Row
        BY <1>2, <3>3, PresentIsRow DEF AtRows, CrawlSaves
      <4>2. row'[f] = [row[f] EXCEPT !.retryable = flag[f]]
        BY <2>3, <3>3 DEF SavedRow
      <4>3. flag[f] \in BOOLEAN
        BY <3>3
      <4> QED BY <4>1, <4>2, <4>3 DEF Row, RowStatus
    <3>4. CASE f \notin fresh /\ f \notin crawl.reopened /\ f \notin crawl.kept
      <4>1. row'[f] = row[f]
        BY <2>3, <3>4 DEF SavedRow
      <4> QED BY <4>1
    <3> QED BY <3>1, <3>2, <3>3, <3>4
  <2>5. row' \in [Failures -> Row \cup {NoRow}] /\ Kept
    <3>1. row' = [f \in Failures |-> row'[f]]
      BY <2>3
    <3> QED BY <3>1, <2>4 DEF Kept
  <2>6. task' \in [status : TaskStatus, failed : Nat]
    <3> DEFINE n == Cardinality(crawl.kept \cup crawl.reopened) + Cardinality(crawl.added)
    <3>2. PICK new \in SUBSET (Failures \ Present) : Cardinality(new) = Cardinality(crawl.added)
      BY <1>2 DEF CrawlSaves
    <3>3. Cardinality(new) \in Nat /\ Cardinality(crawl.kept \cup crawl.reopened) \in Nat
      BY <2>1, FailuresAssumption, FS_Subset, FS_CardinalityType
    <3>4. n \in Nat
      BY <3>2, <3>3
    <3> HIDE DEF n
    <3>5. task' \in {[status |-> IF n > 0 THEN "partial_failed" ELSE "closed",
                      failed |-> IF n = crawl.failed THEN task.failed ELSE n],
                     [status |-> "failed", failed |-> crawl.failed + 1]}
      BY <1>2 DEF CrawlSaves, n
    <3> QED BY <2>1, <3>4, <3>5 DEF TaskStatus
  <2>7. AtRows'
    BY <1>2, <2>5, BusyWorker, BusyRequest DEF CrawlSaves, AtRows, Kept, NoCrawl
  <2> QED BY <1>2, <2>5, <2>6, <2>7 DEF CrawlSaves, RowsStep, CrawlState
<1>3. CASE CrawlFails
  <2>1. task' \in [status : TaskStatus, failed : Nat] /\ crawl' \in CrawlState
    BY <1>3 DEF CrawlFails, TaskStatus, CrawlState
  <2>2. AtRows'
    BY <1>3 DEF CrawlFails, AtRows, NoCrawl
  <2> QED BY <1>3, <2>1, <2>2 DEF CrawlFails, RowsStep, Kept
<1>4. CASE CrawlDiscarded
  BY <1>4 DEF CrawlDiscarded, RowsStep, Kept, AtRows, CrawlState, NoCrawl
<1> QED BY <1>1, <1>2, <1>3, <1>4 DEF Crawl

LEMMA RetryRows ==
    ASSUME RowsTyped, AtRows, RetryTask
    PROVE  RowsStep
<1>1. task' \in [status : TaskStatus, failed : Nat] /\ crawl' \in CrawlState
  BY DEF RetryTask, TaskStatus, CrawlState
<1>2. AtRows'
  BY DEF RetryTask, AtRows
<1> QED BY <1>1, <1>2 DEF RetryTask, RowsTyped, RowsStep, Kept

LEMMA FaultRows ==
    ASSUME RowsTyped, AtRows, Fault
    PROVE  RowsStep
<1> USE DEF RowsTyped, rowVars
<1>1. ASSUME NEW r \in Requests, AbandonRequest(r)  PROVE RowsStep
  BY <1>1 DEF AbandonRequest, RequestState, IdleRequest, RowsStep, AtRows, Kept
<1>2. ASSUME NEW f \in Failures, Refuse(f)  PROVE RowsStep
  BY <1>2, TakenTyped DEF Refuse, Take, RowsStep, AtRows, Kept
<1>3. ASSUME NEW f \in Failures, Redeliver(f)  PROVE RowsStep
  BY <1>3, BoundsAssumption DEF Redeliver, RowsStep, AtRows, Kept
<1>4. ASSUME NEW f \in Failures, LoseMessage(f)  PROVE RowsStep
  BY <1>4, TakenTyped DEF LoseMessage, Take, RowsStep, AtRows, Kept
<1>5. ASSUME NEW w \in Workers, Escape(w)  PROVE RowsStep
  BY <1>5 DEF Escape, WorkerState, IdleWorker, RowsStep, AtRows, Kept
<1>6. ASSUME NEW w \in Workers, Crash(w)  PROVE RowsStep
  <2>1. messages' \in [Failures -> 0 .. MaxMessages]
    BY <1>6, BusyWorker, SentTyped DEF Crash
  <2> QED BY <1>6, <2>1 DEF Crash, WorkerState, IdleWorker, RowsStep, AtRows, Kept
<1> QED BY <1>1, <1>2, <1>3, <1>4, <1>5, <1>6 DEF Fault

LEMMA NextRows ==
    ASSUME RowsTyped, AtRows, [Next]_vars
    PROVE  RowsStep
<1>1. CASE Next
  BY <1>1, RequestRows, WorkerRows, CrawlRows, RetryRows, FaultRows DEF Next
<1>2. CASE UNCHANGED vars
  BY <1>2 DEF vars, rowVars, RowsTyped, AtRows, Kept, RowsStep
<1> QED BY <1>1, <1>2

-----------------------------------------------------------------------------

LEMMA InitRows == Init => RowsTyped /\ AtRows /\ HistoryTyped
<1> SUFFICES ASSUME Init PROVE RowsTyped /\ AtRows /\ HistoryTyped
  OBVIOUS
<1>1. row \in [Failures -> Row \cup {NoRow}]
  BY DEF Init, Row, RowStatus
<1>2. Cardinality(Present) \in Nat
  BY FailuresAssumption, FS_Subset, FS_CardinalityType DEF Present
<1>3. RowsTyped
  BY <1>1, <1>2, BoundsAssumption
  DEF Init, RowsTyped, TaskStatus, WorkerState, RequestState, CrawlState
<1> QED BY <1>3 DEF Init, AtRows, IdleWorker, IdleRequest, NoCrawl, HistoryTyped

LEMMA FaultLoses ==
    ASSUME RowsTyped, Fault
    PROVE  \E S \in SUBSET Failures : Loses(S)
<1> USE DEF RowsTyped
<1>1. ASSUME NEW r \in Requests, AbandonRequest(r)  PROVE \E S \in SUBSET Failures : Loses(S)
  <2>1. request[r].row \in Failures
    BY <1>1, BusyRequest DEF AbandonRequest
  <2> QED BY <1>1, <2>1 DEF AbandonRequest
<1>2. ASSUME NEW f \in Failures, Refuse(f)  PROVE \E S \in SUBSET Failures : Loses(S)
  BY <1>2 DEF Refuse
<1>3. ASSUME NEW f \in Failures, Redeliver(f)  PROVE \E S \in SUBSET Failures : Loses(S)
  BY <1>3 DEF Redeliver
<1>4. ASSUME NEW f \in Failures, LoseMessage(f)  PROVE \E S \in SUBSET Failures : Loses(S)
  BY <1>4 DEF LoseMessage
<1>5. ASSUME NEW w \in Workers, Escape(w) \/ Crash(w)
      PROVE  \E S \in SUBSET Failures : Loses(S)
  <2>1. worker[w].row \in Failures
    BY <1>5, BusyWorker DEF Escape, Crash
  <2> QED BY <1>5, <2>1 DEF Escape, Crash
<1> QED BY <1>1, <1>2, <1>3, <1>4, <1>5 DEF Fault

LEMMA HistoryStep ==
    ASSUME RowsTyped, HistoryTyped, [Next]_vars
    PROVE  HistoryTyped'
<1>1. CASE UNCHANGED vars
  BY <1>1 DEF vars, historyVars, HistoryTyped
<1>2. CASE Next
  <2>1. crossed' \subseteq Failures /\ counting' \in BOOLEAN
    BY <1>2 DEF Next, Meetings, HistoryTyped
  <2>2. crawls' \in Nat
    BY <1>2 DEF Next, RetryTask, HistoryTyped
  <2>3. \E S \in SUBSET Failures : Loses(S)
    BY <1>2, FaultLoses DEF Next
  <2>4. lost' \subseteq Failures
    BY <2>3 DEF Loses, HistoryTyped
  <2> QED BY <2>1, <2>2, <2>4 DEF HistoryTyped
<1> QED BY <1>1, <1>2

LEMMA TypesInvariant == Spec => [](RowsTyped /\ AtRows /\ HistoryTyped)
<1>1. RowsTyped /\ AtRows /\ HistoryTyped /\ [Next]_vars
        => (RowsTyped /\ AtRows /\ HistoryTyped)'
  BY NextRows, HistoryStep DEF RowsStep
<1> QED BY InitRows, <1>1, PTL DEF Spec

(* The tables, the broker's queue and the sessions keep their types.       *)
THEOREM Typing == Spec => []TypeOK
<1>1. RowsTyped /\ AtRows /\ HistoryTyped => TypeOK
  BY DEF RowsTyped, HistoryTyped, TypeOK
<1> QED BY TypesInvariant, <1>1, PTL

-----------------------------------------------------------------------------
(* What stands behind a stuck row.  A message in the queue is not enough   *)
(* for one that is being retried, since the worker that gets it refuses.   *)

Behind(f) ==
    \/ messages[f] > 0
    \/ Executing(f) # {}
    \/ \E r \in Requesting(f) : request[r].pc \in {"sending", "send_failed"}
Retried(f) == \E w \in Workers : worker[w].pc = "executing" /\ worker[w].row = f

Accounted(f) ==
    /\ row[f].status = "queued" => Behind(f)
    /\ row[f].status = "retrying" => Retried(f)

AllAccounted == \A f \in Failures \ lost : Accounted(f)

LEMMA InitAccounted == Init => AllAccounted
<1> SUFFICES ASSUME Init, NEW f \in Failures PROVE Accounted(f)
  BY DEF AllAccounted
<1>1. row[f].status \in {"pending", "absent"}
  BY DEF Init, NoRow
<1> QED BY <1>1 DEF Accounted

(* A row that is stuck after the step and not lost was not lost before.    *)
LEMMA StillLost ==
    ASSUME NEW S, Loses(S), NEW f \in Failures \ lost', Stuck(f)'
    PROVE  f \notin lost /\ f \notin S
BY DEF Loses

(* An action that leaves the row and all who are at it alone.              *)
LEMMA Untouched ==
    ASSUME NEW f, Accounted(f), row'[f] = row[f], worker' = worker, request' = request,
           messages[f] > 0 => messages'[f] > 0
    PROVE  Accounted(f)'
BY DEF Accounted, Behind, Retried, Executing, Requesting

LEMMA AccountedByRequest ==
    ASSUME RowsTyped, AtRows, NEW r \in Requests, Request(r), NEW f \in Failures, Accounted(f)
    PROVE  Accounted(f)'
<1> USE DEF rowVars
<1>1. ASSUME NEW g \in Failures, QueueRead(r, g)  PROVE Accounted(f)'
  BY <1>1 DEF QueueRead, Accounted, Behind, Retried, Executing, Requesting, RowsTyped
<1>2. CASE QueueWrite(r)
  <2>1. request[r].row \in Failures
    BY <1>2, BusyRequest DEF QueueWrite, RowsTyped
  <2>2. CASE f = request[r].row
    <3>1. request'[r].pc = "sending" /\ request'[r].row = f
      BY <1>2, <2>2, BusyRequest DEF QueueWrite, RowsTyped
    <3>2. row'[f].status = "queued"
      BY <1>2, <2>1, <2>2, StatusWrite DEF QueueWrite, RowsTyped, AtRows, RowStatus
    <3> QED BY <3>1, <3>2 DEF Accounted, Behind, Requesting
  <2>3. CASE f # request[r].row
    BY <1>2, <2>3 DEF QueueWrite, Accounted, Behind, Retried, Executing, Requesting, RowsTyped
  <2> QED BY <2>2, <2>3
<1>3. CASE SendOk(r)
  <2>1. request[r].row \in Failures
    BY <1>3, BusyRequest DEF SendOk, RowsTyped
  <2>2. messages[f] > 0 => messages'[f] > 0
    BY <1>3, <2>1, SentTyped DEF SendOk, RowsTyped
  <2>3. f = request[r].row => messages'[f] > 0
    BY <1>3, <2>1, SentTyped DEF SendOk, RowsTyped
  <2> QED BY <1>3, <2>2, <2>3
      DEF SendOk, Accounted, Behind, Retried, Executing, Requesting, RowsTyped
<1>4. CASE SendError(r)
  <2>1. request[r].row \in Failures
    BY <1>4, BusyRequest DEF SendError, RowsTyped
  <2>2. messages[f] > 0 => messages'[f] > 0
    BY <1>4, <2>1, SentTyped DEF SendError, RowsTyped
  <2>3. /\ \A q \in Requests : request[q].pc # "idle"
               => request'[q].pc # "idle" /\ request'[q].row = request[q].row
        /\ \A q \in Requests : request[q].pc \in {"sending", "send_failed"}
               => request'[q].pc \in {"sending", "send_failed"}
    BY <1>4, BusyRequest DEF SendError, RowsTyped
  <2> QED BY <1>4, <2>2, <2>3 DEF SendError, Accounted, Behind, Retried, Executing, Requesting
<1>5. CASE MarkQueueError(r)
  <2>1. request[r].row \in Failures
    BY <1>5, BusyRequest DEF MarkQueueError, RowsTyped
  <2>2. CASE f = request[r].row
    <3>1. row'[f].status = "failed"
      BY <1>5, <2>1, <2>2, StatusWrite DEF MarkQueueError, RowsTyped, AtRows, RowStatus
    <3> QED BY <3>1 DEF Accounted
  <2>3. CASE f # request[r].row
    BY <1>5, <2>3 DEF MarkQueueError, Accounted, Behind, Retried, Executing, Requesting, RowsTyped
  <2> QED BY <2>2, <2>3
<1> QED BY <1>1, <1>2, <1>3, <1>4, <1>5 DEF Request

LEMMA AccountedByWorker ==
    ASSUME RowsTyped, AtRows, NEW w \in Workers, Worker(w), NEW f \in Failures, Accounted(f)
    PROVE  Accounted(f)'
<1> USE DEF RowsTyped, rowVars
<1>1. ASSUME NEW g \in Failures, Load(w, g)  PROVE Accounted(f)'
  <2>1. /\ row' = row /\ request' = request
        /\ \A v \in Workers \ {w} : worker'[v] = worker[v]
        /\ worker[w].pc = "idle" /\ worker'[w].pc = "loaded" /\ worker'[w].row = g
    BY <1>1 DEF Load
  <2>2. CASE f = g
    <3>1. row'[f].status # "retrying"
      BY <1>1, <2>1, <2>2 DEF Load, MayRun
    <3> QED BY <2>1, <2>2, <3>1 DEF Accounted, Behind, Executing
  <2>3. CASE f # g
    <3>1. messages'[f] = messages[f]
      BY <1>1, <2>3 DEF Load, Take
    <3> QED BY <2>1, <2>3, <3>1 DEF Accounted, Behind, Retried, Executing, Requesting
  <2> QED BY <2>2, <2>3
<1>2. CASE MarkRetrying(w)
  <2>1. /\ worker[w].row \in Failures /\ row[worker[w].row].status # "absent"
        /\ worker'[w].pc = "executing" /\ worker'[w].row = worker[w].row
        /\ \A v \in Workers \ {w} : worker'[v] = worker[v]
        /\ messages' = messages /\ request' = request
    BY <1>2, BusyWorker DEF MarkRetrying, AtRows
  <2>2. CASE f = worker[w].row
    <3>1. row'[f].status = "retrying"
      BY <1>2, <2>1, <2>2, StatusWrite DEF MarkRetrying, RowStatus
    <3> QED BY <2>1, <2>2, <3>1 DEF Accounted, Retried
  <2>3. CASE f # worker[w].row
    <3>1. row'[f] = row[f]
      BY <1>2, <2>3 DEF MarkRetrying
    <3> QED BY <2>1, <2>3, <3>1 DEF Accounted, Behind, Retried, Executing, Requesting
  <2> QED BY <2>2, <2>3
<1>3. CASE Fail(w) \/ Succeed(w)
  <2>1. /\ worker[w].row \in Failures /\ row[worker[w].row].status # "absent"
        /\ \A v \in Workers \ {w} : worker'[v] = worker[v]
        /\ messages' = messages /\ request' = request
    BY <1>3, BusyWorker DEF Fail, Succeed, AtRows
  <2>2. CASE f = worker[w].row
    <3>1. row[f] \in Row
      BY <2>1, <2>2, PresentIsRow
    <3>2. CASE Succeed(w)
      <4>1. row'[f].status = "succeeded"
        BY <2>1, <2>2, <3>2, StatusWrite DEF Succeed, RowStatus
      <4> QED BY <4>1 DEF Accounted
    <3>3. CASE Fail(w)
      <4>1. PICK c \in Codes : row' = [row EXCEPT ![f].status = "failed", ![f].code = c]
        BY <2>2, <3>3 DEF Fail
      <4>2. row'[f] = [row[f] EXCEPT !.status = "failed", !.code = c]
        BY <2>1, <2>2, <4>1
      <4>3. row'[f].status = "failed"
        BY <3>1, <4>2 DEF Row
      <4> QED BY <4>3 DEF Accounted
    <3> QED BY <1>3, <3>2, <3>3
  <2>3. CASE f # worker[w].row
    <3>1. row'[f] = row[f]
      BY <1>3, <2>3 DEF Fail, Succeed
    <3> QED BY <2>1, <2>3, <3>1 DEF Accounted, Behind, Retried, Executing, Requesting
  <2> QED BY <2>2, <2>3
<1> QED BY <1>1, <1>2, <1>3 DEF Worker

LEMMA AccountedByCrawl ==
    ASSUME RowsTyped, AtRows, Crawl \/ RetryTask, NEW f \in Failures, Accounted(f)
    PROVE  Accounted(f)'
<1> USE DEF RowsTyped, rowVars
<1>1. CASE CrawlReads \/ CrawlFails \/ CrawlDiscarded \/ RetryTask
  BY <1>1, Untouched DEF CrawlReads, CrawlFails, CrawlDiscarded, RetryTask
<1>2. CASE CrawlSaves
  <2>1. PICK fresh \in SUBSET (Failures \ Present) :
          \E id \in [fresh -> crawl.added],
             flag \in [fresh \cup crawl.reopened \cup crawl.kept -> BOOLEAN] :
             row' = [g \in Failures |-> SavedRow(g, fresh, id, flag)]
    BY <1>2 DEF CrawlSaves
  <2>2. PICK id, flag : row' = [g \in Failures |-> SavedRow(g, fresh, id, flag)]
    BY <2>1
  <2>3. row'[f] = SavedRow(f, fresh, id, flag)
    BY <2>2
  <2>4. f \in crawl.reopened \cup crawl.kept => row[f] \in Row
    BY <1>2, PresentIsRow DEF CrawlSaves, AtRows
  <2>5. row'[f].status \in {"pending", row[f].status}
    BY <2>3, <2>4 DEF SavedRow, Row
  <2>6. worker' = worker /\ request' = request /\ messages' = messages
    BY <1>2 DEF CrawlSaves
  <2> QED BY <2>5, <2>6 DEF Accounted, Behind, Retried, Executing, Requesting
<1> QED BY <1>1, <1>2 DEF Crawl

LEMMA AccountedByFault ==
    ASSUME RowsTyped, AtRows, Fault, NEW f \in Failures \ lost', Stuck(f)', Accounted(f)
    PROVE  Accounted(f)'
<1> USE DEF RowsTyped, rowVars
<1>1. ASSUME NEW r \in Requests, AbandonRequest(r)  PROVE Accounted(f)'
  <2>1. request[r].row = f => request[r].pc \notin {"sending", "send_failed"}
    BY <1>1 DEF AbandonRequest, Loses
  <2>2. /\ row' = row /\ worker' = worker /\ messages' = messages
        /\ \A q \in Requests \ {r} : request'[q] = request[q]
    BY <1>1 DEF AbandonRequest
  <2> QED BY <2>1, <2>2 DEF Accounted, Behind, Retried, Executing, Requesting
<1>2. ASSUME NEW g \in Failures, Refuse(g)  PROVE Accounted(f)'
  <2>1. row' = row /\ worker' = worker /\ request' = request
    BY <1>2 DEF Refuse
  <2>2. CASE f = g
    <3>1. row[f].status # "queued"
      BY <1>2, <2>1, <2>2 DEF Refuse, Loses, Stuck
    <3> QED BY <2>1, <3>1 DEF Accounted, Retried
  <2>3. CASE f # g
    BY <1>2, <2>1, <2>3, Untouched DEF Refuse, Take
  <2> QED BY <2>2, <2>3
<1>3. ASSUME NEW g \in Failures, Redeliver(g)  PROVE Accounted(f)'
  BY <1>3, Untouched DEF Redeliver
<1>4. ASSUME NEW g \in Failures, LoseMessage(g)  PROVE Accounted(f)'
  <2>1. f # g
    BY <1>4 DEF LoseMessage, Loses
  <2> QED BY <1>4, <2>1, Untouched DEF LoseMessage, Take
<1>5. ASSUME NEW w \in Workers, Escape(w)  PROVE Accounted(f)'
  <2>1. f # worker[w].row
    BY <1>5 DEF Escape, Loses
  <2>2. /\ row' = row /\ request' = request /\ messages' = messages
        /\ \A v \in Workers \ {w} : worker'[v] = worker[v]
    BY <1>5 DEF Escape
  <2> QED BY <2>1, <2>2 DEF Accounted, Behind, Retried, Executing, Requesting
<1>6. ASSUME NEW w \in Workers, Crash(w)  PROVE Accounted(f)'
  <2>1. worker[w].row \in Failures
    BY <1>6, BusyWorker DEF Crash
  <2>2. /\ row' = row /\ request' = request
        /\ messages[f] > 0 => messages'[f] > 0
        /\ f = worker[w].row => messages'[f] > 0
        /\ \A v \in Workers \ {w} : worker'[v] = worker[v]
    BY <1>6, <2>1, SentTyped DEF Crash
  <2>3. f = worker[w].row => worker[w].pc = "loaded"
    BY <1>6 DEF Crash, Loses
  <2> QED BY <2>2, <2>3 DEF Accounted, Behind, Retried, Executing, Requesting
<1> QED BY <1>1, <1>2, <1>3, <1>4, <1>5, <1>6 DEF Fault

LEMMA AccountedStep ==
    ASSUME RowsTyped, AtRows, AllAccounted, [Next]_vars
    PROVE  AllAccounted'
<1> SUFFICES ASSUME NEW f \in Failures \ lost'  PROVE Accounted(f)'
  BY DEF AllAccounted
<1>1. CASE ~Stuck(f)'
  BY <1>1 DEF Stuck, Accounted
<1>2. CASE Stuck(f)' /\ UNCHANGED vars
  <2>1. f \notin lost
    BY <1>2 DEF vars, historyVars
  <2> QED BY <1>2, <2>1, Untouched DEF AllAccounted, vars, rowVars
<1>3. CASE Stuck(f)' /\ Next
  <2>1. \E S \in SUBSET Failures : Loses(S)
    BY <1>3, FaultLoses DEF Next
  <2>2. Accounted(f)
    BY <1>3, <2>1, StillLost DEF AllAccounted
  <2> QED BY <1>3, <2>2, AccountedByRequest, AccountedByWorker, AccountedByCrawl,
             AccountedByFault DEF Next
<1> QED BY <1>1, <1>2, <1>3

(* Nothing strands a row but a fault that takes its message or its         *)
(* execution away, for any number of administrators, workers and crawls.   *)
THEOREM NothingIsStranded == Spec => []WorkIsAccounted
<1>1. AllAccounted => WorkIsAccounted
  BY DEF AllAccounted, Accounted, Behind, Retried, Executing, Stuck, WorkIsAccounted
<1>2. RowsTyped /\ AtRows /\ AllAccounted /\ [Next]_vars => AllAccounted'
  BY AccountedStep
<1>3. Spec => [](RowsTyped /\ AtRows)
  BY TypesInvariant, PTL
<1> QED BY InitAccounted, <1>1, <1>2, <1>3, PTL DEF Spec

-----------------------------------------------------------------------------
(* Resolved rows.  As long as nobody has met anybody at a row, whoever is  *)
(* at it has found it unresolved, and nobody else can have resolved it.    *)

AtWork(f) ==
    \/ Executing(f) # {} \/ Requesting(f) # {}
    \/ crawl.pc = "saving" /\ f \in crawl.reopened

AtOpen == \A f \in Failures \ crossed :
              ~Meeting(f) /\ (AtWork(f) => row[f].status # "succeeded")

Step == \/ \E r \in Requests : Request(r)
        \/ \E w \in Workers : Worker(w)
        \/ Crawl \/ RetryTask \/ Fault

LEMMA NextIsStep == Next => Step /\ Meetings
BY DEF Next, Step

(* Everything but these leaves the rows alone.                             *)
LEMMA RowWriters ==
    ASSUME RowsTyped, AtRows, Step, row' # row
    PROVE  \/ \E r \in Requests : QueueWrite(r) \/ MarkQueueError(r)
           \/ \E w \in Workers : MarkRetrying(w) \/ Fail(w) \/ Succeed(w)
           \/ CrawlSaves
BY DEF Step, Request, QueueRead, SendOk, SendError, Worker, Load, Crawl, CrawlReads, CrawlFails,
       CrawlDiscarded, RetryTask, Fault, AbandonRequest, Refuse, Redeliver, LoseMessage, Escape,
       Crash, rowVars

(* A write of one row by somebody who is at it.                            *)
LEMMA OwnWrite ==
    ASSUME RowsTyped, AtRows, NEW f \in Failures,
           \/ \E r \in Requests : QueueWrite(r) \/ MarkQueueError(r)
           \/ \E w \in Workers : MarkRetrying(w) \/ Fail(w) \/ Succeed(w),
           row'[f] # row[f]
    PROVE  /\ row[f].status # "absent" /\ AtWork(f)
           /\ \/ row'[f].status \in {"queued", "retrying", "failed"}
              \/ \E w \in Workers : Succeed(w) /\ worker[w].row = f /\ row'[f].status = "succeeded"
<1> USE DEF RowsTyped
<1>1. ASSUME NEW r \in Requests, QueueWrite(r) \/ MarkQueueError(r)
      PROVE  /\ row[f].status # "absent" /\ AtWork(f)
             /\ row'[f].status \in {"queued", "failed"}
  <2>1. request[r].pc # "idle" /\ request[r].row \in Failures /\ row[request[r].row].status # "absent"
    BY <1>1, BusyRequest DEF QueueWrite, MarkQueueError, AtRows
  <2>2. PICK s \in {"queued", "failed"} : row' = [row EXCEPT ![request[r].row].status = s]
    BY <1>1 DEF QueueWrite, MarkQueueError
  <2>3. request[r].row = f
    BY <2>2
  <2>4. row'[f].status = s
    BY <2>1, <2>2, <2>3, StatusWrite DEF RowStatus
  <2> QED BY <2>1, <2>3, <2>4 DEF AtWork, Requesting
<1>2. ASSUME NEW w \in Workers, MarkRetrying(w) \/ Fail(w) \/ Succeed(w)
      PROVE  /\ row[f].status # "absent" /\ AtWork(f) /\ worker[w].row = f
             /\ row'[f].status \in {"retrying", "failed"} \/ (Succeed(w) /\ row'[f].status = "succeeded")
  <2>1. worker[w].pc # "idle" /\ worker[w].row \in Failures /\ row[worker[w].row].status # "absent"
    BY <1>2, BusyWorker DEF MarkRetrying, Fail, Succeed, AtRows
  <2>2. worker[w].row = f
    BY <1>2 DEF MarkRetrying, Fail, Succeed
  <2>3. CASE MarkRetrying(w)
    BY <2>1, <2>2, <2>3, StatusWrite DEF MarkRetrying, RowStatus, AtWork, Executing
  <2>4. CASE Succeed(w)
    BY <2>1, <2>2, <2>4, StatusWrite DEF Succeed, RowStatus, AtWork, Executing
  <2>5. CASE Fail(w)
    <3>1. PICK c \in Codes : row' = [row EXCEPT ![f].status = "failed", ![f].code = c]
      BY <2>2, <2>5 DEF Fail
    <3>2. row'[f] = [row[f] EXCEPT !.status = "failed", !.code = c] /\ row[f] \in Row
      BY <2>1, <2>2, <3>1, PresentIsRow
    <3>3. row'[f].status = "failed"
      BY <3>2 DEF Row
    <3> QED BY <2>1, <2>2, <3>3 DEF AtWork, Executing
  <2> QED BY <1>2, <2>3, <2>4, <2>5
<1> QED BY <1>1, <1>2

(* A crawl writes pending into the rows it adds and reopens.               *)
LEMMA CrawlWrite ==
    ASSUME RowsTyped, AtRows, CrawlSaves, NEW f \in Failures
    PROVE  \/ row'[f].status = row[f].status
           \/ row[f].status = "absent" /\ row'[f].status = "pending"
           \/ AtWork(f) /\ row'[f].status = "pending"
<1>1. PICK fresh \in SUBSET (Failures \ Present) :
        \E id \in [fresh -> crawl.added],
           flag \in [fresh \cup crawl.reopened \cup crawl.kept -> BOOLEAN] :
           row' = [g \in Failures |-> SavedRow(g, fresh, id, flag)]
  BY DEF CrawlSaves
<1>2. PICK id, flag : row' = [g \in Failures |-> SavedRow(g, fresh, id, flag)]
  BY <1>1
<1>3. row'[f] = SavedRow(f, fresh, id, flag)
  BY <1>2
<1>4. f \in crawl.reopened \cup crawl.kept => row[f] \in Row
  BY PresentIsRow DEF CrawlSaves, AtRows, RowsTyped
<1>5. CASE f \in fresh
  BY <1>3, <1>5 DEF SavedRow, Present
<1>6. CASE f \notin fresh /\ f \in crawl.reopened
  BY <1>3, <1>4, <1>6 DEF SavedRow, Row, AtWork, CrawlSaves
<1>7. CASE f \notin fresh /\ f \notin crawl.reopened
  BY <1>3, <1>4, <1>7 DEF SavedRow, Row
<1> QED BY <1>5, <1>6, <1>7

LEMMA ResolvedWrites ==
    ASSUME RowsTyped, AtRows, Step, NEW f \in Failures
    PROVE  /\ row[f].status = "succeeded" /\ row'[f].status # "succeeded" => AtWork(f)
           /\ row[f].status # "succeeded" /\ row'[f].status = "succeeded"
                 => \E w \in Workers : Succeed(w) /\ worker[w].row = f
BY RowWriters, OwnWrite, CrawlWrite

(* Who comes to a row has found it unresolved.                             *)
LEMMA Arrives ==
    ASSUME RowsTyped, AtRows, Step, NEW f \in Failures, AtWork(f)', ~AtWork(f)
    PROVE  row[f].status # "succeeded"
<1> USE DEF RowsTyped
<1>1. ASSUME NEW r \in Requests, Request(r)  PROVE row[f].status # "succeeded"
  <2>1. ASSUME NEW g \in Failures, QueueRead(r, g)  PROVE row[f].status # "succeeded"
    BY <2>1 DEF QueueRead, AtWork, Executing, Requesting
  <2>2. CASE QueueWrite(r) \/ SendError(r)
    <3>1. /\ request[r].pc # "idle" /\ request'[r].row = request[r].row
          /\ \A q \in Requests \ {r} : request'[q] = request[q]
          /\ worker' = worker /\ crawl' = crawl
      BY <2>2, BusyRequest DEF QueueWrite, SendError
    <3> QED BY <3>1 DEF AtWork, Executing, Requesting
  <2>3. CASE SendOk(r) \/ MarkQueueError(r)
    BY <2>3 DEF SendOk, MarkQueueError, AtWork, Executing, Requesting, IdleRequest
  <2> QED BY <1>1, <2>1, <2>2, <2>3 DEF Request
<1>2. ASSUME NEW w \in Workers, Worker(w)  PROVE row[f].status # "succeeded"
  <2>1. ASSUME NEW g \in Failures, Load(w, g)  PROVE row[f].status # "succeeded"
    BY <2>1 DEF Load, MayRun, AtWork, Executing, Requesting
  <2>2. CASE MarkRetrying(w)
    <3>1. /\ worker[w].pc # "idle" /\ worker'[w].row = worker[w].row
          /\ \A v \in Workers \ {w} : worker'[v] = worker[v]
          /\ request' = request /\ crawl' = crawl
      BY <2>2, BusyWorker DEF MarkRetrying
    <3> QED BY <3>1 DEF AtWork, Executing, Requesting
  <2>3. CASE Fail(w) \/ Succeed(w)
    BY <2>3 DEF Fail, Succeed, AtWork, Executing, Requesting, IdleWorker
  <2> QED BY <1>2, <2>1, <2>2, <2>3 DEF Worker
<1>3. CASE CrawlReads
  <2>1. crawl'.reopened \subseteq {g \in Failures : ~KeepsRow(g)}
    BY <1>3 DEF CrawlReads, Present
  <2> QED BY <1>3, <2>1 DEF CrawlReads, KeepsRow, AtWork, Executing, Requesting
<1>4. CASE CrawlSaves \/ CrawlFails \/ CrawlDiscarded \/ RetryTask
  BY <1>4 DEF CrawlSaves, CrawlFails, CrawlDiscarded, RetryTask, NoCrawl, AtWork, Executing, Requesting
<1>5. ASSUME NEW r \in Requests, AbandonRequest(r)  PROVE row[f].status # "succeeded"
  BY <1>5 DEF AbandonRequest, AtWork, Executing, Requesting, IdleRequest
<1>6. ASSUME NEW g \in Failures, Refuse(g) \/ Redeliver(g) \/ LoseMessage(g)
      PROVE  row[f].status # "succeeded"
  BY <1>6 DEF Refuse, Redeliver, LoseMessage, AtWork, Executing, Requesting
<1>7. ASSUME NEW w \in Workers, Escape(w) \/ Crash(w)  PROVE row[f].status # "succeeded"
  BY <1>7 DEF Escape, Crash, AtWork, Executing, Requesting, IdleWorker
<1> QED BY <1>1, <1>2, <1>3, <1>4, <1>5, <1>6, <1>7 DEF Step, Crawl, Fault

(* Who resolves a row alone leaves nobody at it.                           *)
LEMMA Leaves ==
    ASSUME RowsTyped, NEW f \in Failures, ~Meeting(f),
           NEW w \in Workers, Succeed(w), worker[w].row = f
    PROVE  ~AtWork(f)'
<1>1. w \in Executing(f)
  BY DEF Succeed, Executing
<1>2. Executing(f) = {w} /\ Requesting(f) = {} /\ crawl.pc # "saving"
  BY <1>1 DEF Meeting
<1>3. /\ worker'[w].pc = "idle" /\ request' = request /\ crawl' = crawl
      /\ \A v \in Workers \ {w} : worker'[v] = worker[v]
  BY DEF Succeed, RowsTyped, IdleWorker
<1> QED BY <1>2, <1>3 DEF AtWork, Executing, Requesting

LEMMA MeetingIsAttended ==
    ASSUME NEW f, Meeting(f) \/ AtWork(f)
    PROVE  Attended(f)
BY DEF Meeting, AtWork, Attended

LEMMA OpenStep == RowsTyped /\ AtRows /\ AtOpen /\ [Next]_vars => AtOpen'
<1> SUFFICES ASSUME RowsTyped, AtRows, AtOpen, [Next]_vars PROVE AtOpen'
  OBVIOUS
<1>1. CASE UNCHANGED vars
  BY <1>1 DEF vars, rowVars, historyVars, AtOpen, Meeting, AtWork, Executing, Requesting
<1>2. CASE Next
  <2> SUFFICES ASSUME NEW f \in Failures \ crossed'
               PROVE  ~Meeting(f)' /\ (AtWork(f)' => row'[f].status # "succeeded")
    BY DEF AtOpen
  <2>1. Step /\ Meetings
    BY <1>2, NextIsStep
  <2>2. Attended(f)' => f \notin crossed /\ ~Meeting(f)'
    BY <2>1 DEF Meetings
  <2>3. CASE ~Attended(f)'
    BY <2>3, MeetingIsAttended DEF Meeting, AtWork, Attended
  <2>4. CASE Attended(f)'
    <3>1. ~Meeting(f) /\ (AtWork(f) => row[f].status # "succeeded")
      BY <2>2, <2>4 DEF AtOpen
    <3>2. ASSUME AtWork(f)', row'[f].status = "succeeded"  PROVE FALSE
      <4>1. row[f].status # "succeeded"
        BY <2>1, <3>1, <3>2, Arrives
      <4>2. PICK w \in Workers : Succeed(w) /\ worker[w].row = f
        BY <2>1, <3>2, <4>1, ResolvedWrites
      <4> QED BY <3>1, <3>2, <4>2, Leaves
    <3> QED BY <2>2, <2>4, <3>2
  <2> QED BY <2>3, <2>4
<1> QED BY <1>1, <1>2

LEMMA OpenInit == Init => AtOpen
BY DEF Init, AtOpen, Meeting, AtWork, Executing, Requesting, IdleWorker, IdleRequest, NoCrawl

LEMMA OpenInvariant == Spec => [](RowsTyped /\ AtRows /\ AtOpen)
<1>1. Spec => [](RowsTyped /\ AtRows)
  BY TypesInvariant, PTL
<1> QED BY <1>1, OpenInit, OpenStep, PTL DEF Spec

(* A row that has been resolved stays resolved unless two met at it: the   *)
(* executions, requests and crawls that write other statuses have found it *)
(* unresolved (execute_failed_url, add_failure).                           *)
THEOREM ResolvedStaysResolved == Spec => ResolvedIsFinal
<1>1. RowsTyped /\ AtRows /\ AtOpen /\ [Next]_vars =>
        [\A f \in Failures :
           (row[f].status = "succeeded" /\ f \notin crossed)
              => row'[f].status = "succeeded"]_vars
  BY NextIsStep, ResolvedWrites DEF AtOpen
<1> QED BY <1>1, OpenInvariant, PTL DEF Spec, ResolvedIsFinal

-----------------------------------------------------------------------------
(* The count.  A worker that has the task to itself has loaded the count   *)
(* that it writes back.                                                    *)

CountKept ==
    counting =>
        /\ crawl.pc = "idle" /\ crossed = {} /\ ~Overlap
        /\ task.failed = Cardinality(Unresolved)
        /\ \A w \in Workers : worker[w].pc # "idle" => worker[w].failed = task.failed

LEMMA UnresolvedFinite ==
    IsFiniteSet(Unresolved) /\ Cardinality(Unresolved) \in Nat
BY FailuresAssumption, FS_Subset, FS_CardinalityType DEF Unresolved, Present

LEMMA CountInit == Init => CountKept
<1> SUFFICES ASSUME Init PROVE CountKept
  OBVIOUS
<1>1. Unresolved = Present
  BY DEF Init, Unresolved, Present, NoRow
<1>2. ~Overlap /\ \A w \in Workers : worker[w].pc = "idle"
  BY DEF Init, Overlap, IdleWorker
<1>3. crawl.pc = "idle" /\ crossed = {} /\ task.failed = Cardinality(Present)
  BY DEF Init, NoCrawl
<1> QED BY <1>1, <1>2, <1>3 DEF CountKept

(* Without a crawl the rows that are there stay the same.                  *)
LEMMA SamePresent ==
    ASSUME RowsTyped, AtRows, AtOpen, crossed = {}, Step, ~CrawlSaves,
           \A w \in Workers : ~Succeed(w)
    PROVE  Unresolved' = Unresolved
<1>1. ASSUME NEW f \in Failures
      PROVE  row'[f].status \notin {"absent", "succeeded"} <=> row[f].status \notin {"absent", "succeeded"}
  <2>1. CASE row'[f] = row[f]
    BY <2>1
  <2>2. CASE row'[f] # row[f]
    <3>1. row[f].status # "absent" /\ AtWork(f) /\ row'[f].status \in {"queued", "retrying", "failed"}
      BY <2>2, RowWriters, OwnWrite
    <3> QED BY <3>1 DEF AtOpen
  <2> QED BY <2>1, <2>2
<1> QED BY <1>1 DEF Unresolved, Present

LEMMA CountStep == RowsTyped /\ AtRows /\ AtOpen /\ CountKept /\ [Next]_vars => CountKept'
<1> SUFFICES ASSUME RowsTyped, AtRows, AtOpen, CountKept, [Next]_vars, counting'
             PROVE  CountKept'
  BY DEF CountKept
<1>1. CASE UNCHANGED vars
  <2>1. /\ counting /\ row' = row /\ task' = task /\ crawl' = crawl /\ worker' = worker
        /\ crossed' = crossed
    BY <1>1 DEF vars, rowVars, historyVars
  <2>2. Unresolved' = Unresolved /\ Overlap' = Overlap
    BY <2>1 DEF Unresolved, Present, Overlap
  <2> QED BY <2>1, <2>2 DEF CountKept
<1>2. CASE Next
  <2>1. Step /\ counting /\ crawl'.pc = "idle" /\ ~Overlap' /\ crossed' = {}
    BY <1>2, NextIsStep DEF Meetings
  <2>2. /\ crawl.pc = "idle" /\ crossed = {} /\ ~Overlap /\ task.failed = Cardinality(Unresolved)
        /\ \A w \in Workers : worker[w].pc # "idle" => worker[w].failed = task.failed
    BY <2>1 DEF CountKept
  <2>3. ~CrawlSaves /\ ~Crawl /\ ~RetryTask
    BY <2>1, <2>2 DEF Crawl, CrawlReads, CrawlSaves, CrawlFails, CrawlDiscarded, RetryTask
  <2>4. CASE \A w \in Workers : ~Succeed(w)
    <3>1. Unresolved' = Unresolved
      BY <2>1, <2>2, <2>3, <2>4, SamePresent
    <3>2. /\ task' = task
          /\ \A w \in Workers : worker'[w].pc # "idle" => worker'[w].failed = task.failed
      <4>1. ASSUME NEW r \in Requests, Request(r)  PROVE task' = task /\ worker' = worker
        BY <4>1 DEF Request, QueueRead, QueueWrite, SendOk, SendError, MarkQueueError, rowVars
      <4>2. CASE Fault
        <5>1. /\ task' = task
              /\ worker' = worker \/ \E w \in Workers : worker' = [worker EXCEPT ![w] = IdleWorker]
          BY <4>2 DEF Fault, AbandonRequest, Refuse, Redeliver, LoseMessage, Escape, Crash, rowVars
        <5> QED BY <2>2, <5>1 DEF IdleWorker, RowsTyped
      <4>3. ASSUME NEW w \in Workers, Worker(w)
            PROVE  /\ task' = task
                   /\ \A v \in Workers : worker'[v].pc # "idle" => worker'[v].failed = task.failed
        <5>1. ASSUME NEW f \in Failures, Load(w, f)
              PROVE  /\ task' = task
                     /\ \A v \in Workers : worker'[v].pc # "idle" => worker'[v].failed = task.failed
          BY <2>2, <5>1 DEF Load, RowsTyped
        <5>2. CASE MarkRetrying(w)
          <6>1. worker[w].pc # "idle" /\ worker'[w].failed = worker[w].failed
            BY <5>2, BusyWorker DEF MarkRetrying, RowsTyped
          <6> QED BY <2>2, <5>2, <6>1 DEF MarkRetrying
        <5>3. CASE Fail(w)
          BY <2>2, <5>3 DEF Fail, IdleWorker, RowsTyped
        <5> QED BY <2>4, <4>3, <5>1, <5>2, <5>3 DEF Worker
      <4> QED BY <2>1, <2>2, <2>3, <4>1, <4>2, <4>3 DEF Step
    <3> QED BY <2>1, <2>2, <3>1, <3>2 DEF CountKept
  <2>5. ASSUME NEW w \in Workers, Succeed(w)  PROVE CountKept'
    <3> DEFINE f == worker[w].row
    <3>1. /\ worker[w].pc # "idle" /\ f \in Failures /\ row[f].status # "absent"
          /\ worker[w].failed \in Nat /\ worker[w].failed = task.failed
      BY <2>2, <2>5, BusyWorker DEF Succeed, AtRows, RowsTyped
    <3>2. row[f].status # "succeeded"
      BY <2>2, <3>1 DEF AtOpen, AtWork, Executing
    <3>3. /\ row'[f].status = "succeeded" /\ \A g \in Failures \ {f} : row'[g] = row[g]
      BY <2>5, <3>1, StatusWrite DEF Succeed, RowsTyped, RowStatus
    <3>4. Unresolved' = Unresolved \ {f} /\ f \in Unresolved
      BY <3>1, <3>2, <3>3 DEF Unresolved, Present
    <3>5. Cardinality(Unresolved') = Cardinality(Unresolved) - 1 /\ Cardinality(Unresolved') \in Nat
      BY <3>4, UnresolvedFinite, FS_RemoveElement, FS_CardinalityType
    <3>6. task'.failed = worker[w].failed - 1
      BY <2>2, <2>5, <3>1, <3>5, UnresolvedFinite DEF Succeed
    <3>7. \A v \in Workers : worker'[v].pc = "idle"
      BY <2>2, <2>5, <3>1 DEF Overlap, Succeed, IdleWorker, RowsTyped
    <3> QED BY <2>1, <2>2, <3>1, <3>5, <3>6, <3>7 DEF CountKept
  <2> QED BY <2>4, <2>5
<1> QED BY <1>1, <1>2

(* failed_count is the number of unresolved failures until the task is     *)
(* crawled again or two executions overlap, for any number of rows and     *)
(* workers and whatever is repeated, lost or abandoned                     *)
(* (execute_failed_url).                                                   *)
THEOREM FailedCountIsRight == Spec => []FailedCountAgrees
<1>1. CountKept => FailedCountAgrees
  BY DEF CountKept, FailedCountAgrees
<1> QED BY <1>1, OpenInvariant, CountInit, CountStep, PTL DEF Spec
=============================================================================
