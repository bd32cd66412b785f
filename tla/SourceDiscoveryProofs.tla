----------------------- MODULE SourceDiscoveryProofs ------------------------
(***************************************************************************)
(* SourceDiscovery keeps its types, the decisions of administrators and    *)
(* the agreement of sources and candidates, for any sites, columns,        *)
(* workers, requests, trial limit and threshold.                           *)
(***************************************************************************)
EXTENDS SourceDiscovery, FiniteSetTheorems, TLAPS

Activations == {"read_columns", "materialize", "compensate"}
Visiting == {"create", "reset"} \cup Processing

(* The rows.  Every row of columns is a table of its own.                  *)
RowsTyped ==
    /\ run \in RunStatus /\ attempts \in Nat /\ messages \in Nat
    /\ status \in [Sites -> CandidateStatus]
    /\ columns = [s \in Sites |-> columns[s]]
    /\ \A s \in Sites : /\ DOMAIN columns[s] \subseteq Columns
                        /\ \A k \in DOMAIN columns[s] : columns[s][k] \in ColumnRows
    /\ sources \subseteq Sites

(* The local variables; whoever works on a candidate knows which one.      *)
LocalsTyped ==
    /\ worker \in [Workers -> WorkerStates]
    /\ request \in [Requests -> RequestStates]
    /\ \A w \in Workers : worker[w].pc \in Visiting => worker[w].site \in Sites
    /\ \A r \in Requests : request[r].pc \in Activations => request[r].site \in Sites

HistoryTyped ==
    /\ retries \in 0 .. MaxRetries /\ vetted \subseteq Sites /\ dropped \subseteq Sites
    /\ abandoned \in BOOLEAN /\ crossed \in BOOLEAN

Typed == RowsTyped /\ LocalsTyped /\ HistoryTyped

-----------------------------------------------------------------------------
(* The helpers.                                                            *)

LEMMA WorkerFields ==
    ASSUME NEW v \in WorkerStates
    PROVE  /\ v.pc \in WorkerSteps /\ v.retrying \in BOOLEAN /\ v.hits \subseteq Sites
           /\ v.site \in Sites \cup {NoSite} /\ v.official \in {0, 85, 100}
           /\ v.todo \subseteq Columns /\ v.listed \in Nat /\ v.found \in Nat
           /\ v.success \in Nat /\ v.verdict \in {"none", "awaiting_approval", "failed"}
BY DEF WorkerStates

LEMMA IdleTyped == IdleWorker \in WorkerStates /\ IdleRequest \in RequestStates
BY DEF IdleWorker, WorkerStates, WorkerSteps, IdleRequest, RequestStates, RequestSteps

LEMMA GotoTyped ==
    ASSUME LocalsTyped, NEW w \in Workers, NEW pc \in WorkerSteps \ Visiting, Goto(w, pc)
    PROVE  /\ worker' \in [Workers -> WorkerStates]
           /\ \A v \in Workers : worker'[v].pc \in Visiting => worker'[v].site \in Sites
<1>1. [worker[w] EXCEPT !.pc = pc] \in WorkerStates
  BY DEF LocalsTyped, WorkerStates
<1>2. worker' = [worker EXCEPT ![w] = [worker[w] EXCEPT !.pc = pc]]
  BY DEF Goto
<1>3. worker'[w].pc \notin Visiting
  BY <1>1, <1>2 DEF LocalsTyped, WorkerStates
<1> QED BY <1>1, <1>2, <1>3 DEF LocalsTyped

LEMMA EndWorkerTyped ==
    ASSUME LocalsTyped, NEW w \in Workers, EndWorker(w)
    PROVE  /\ worker' \in [Workers -> WorkerStates]
           /\ \A v \in Workers : worker'[v].pc \in Visiting => worker'[v].site \in Sites
<1>1. IdleWorker.pc \notin Visiting
  BY DEF IdleWorker, Visiting, Processing
<1> QED BY <1>1, IdleTyped DEF LocalsTyped, EndWorker

LEMMA LeaveTyped ==
    ASSUME LocalsTyped, NEW w \in Workers, Leave(w)
    PROVE  /\ worker' \in [Workers -> WorkerStates]
           /\ \A v \in Workers : worker'[v].pc \in Visiting => worker'[v].site \in Sites
           /\ worker'[w].pc = "next" /\ worker'[w].success = 0
           /\ \A v \in Workers \ {w} : worker'[v] = worker[v]
<1> DEFINE left == [IdleWorker EXCEPT !.pc = "next", !.hits = worker[w].hits,
                                      !.retrying = worker[w].retrying]
<1>1. worker[w].hits \subseteq Sites /\ worker[w].retrying \in BOOLEAN
  BY WorkerFields DEF LocalsTyped
<1>2. left \in WorkerStates /\ left.pc = "next" /\ left.success = 0
  BY <1>1 DEF IdleWorker, WorkerStates, WorkerSteps
<1>3. worker' = [worker EXCEPT ![w] = left]
  BY DEF Leave
<1> HIDE DEF left
<1>4. left.pc \notin Visiting
  BY <1>2 DEF Visiting, Processing
<1> QED BY <1>2, <1>3, <1>4 DEF LocalsTyped

LEMMA ProceedTyped ==
    ASSUME LocalsTyped, NEW r \in Requests, NEW pc \in RequestSteps, Proceed(r, pc),
           pc \in Activations => request[r].pc \in Activations
    PROVE  /\ request' \in [Requests -> RequestStates]
           /\ \A q \in Requests : request'[q].pc \in Activations => request'[q].site \in Sites
<1>1. [request[r] EXCEPT !.pc = pc] \in RequestStates
  BY DEF LocalsTyped, RequestStates
<1>2. request' = [request EXCEPT ![r] = [request[r] EXCEPT !.pc = pc]]
  BY DEF Proceed
<1>3. request'[r].pc = pc /\ request'[r].site = request[r].site
  BY <1>1, <1>2 DEF LocalsTyped, RequestStates
<1> QED BY <1>1, <1>2, <1>3 DEF LocalsTyped

LEMMA EndRequestTyped ==
    ASSUME LocalsTyped, NEW r \in Requests, EndRequest(r)
    PROVE  /\ request' \in [Requests -> RequestStates]
           /\ \A q \in Requests : request'[q].pc \in Activations => request'[q].site \in Sites
<1>1. IdleRequest.pc \notin Activations
  BY DEF IdleRequest, Activations
<1> QED BY <1>1, IdleTyped DEF LocalsTyped, EndRequest

LEMMA SetStatusTyped ==
    ASSUME status \in [Sites -> CandidateStatus], NEW s \in Sites, NEW new \in CandidateStatus,
           SetStatus(s, new)
    PROVE  /\ status' \in [Sites -> CandidateStatus] /\ status'[s] = new
           /\ \A t \in Sites \ {s} : status'[t] = status[t]
BY DEF SetStatus

(* What a trial found: a natural number of accepted documents, at most all *)
(* of them.                                                                *)
LEMMA AcceptedCount ==
    ASSUME NEW n \in Nat, NEW accepted
    PROVE  /\ Cardinality({i \in 1 .. n : accepted[i]}) \in Nat
           /\ Cardinality({i \in 1 .. n : accepted[i]}) <= n
<1> DEFINE T == {i \in 1 .. n : accepted[i]}
<1>1. IsFiniteSet(1 .. n) /\ Cardinality(1 .. n) = n
  BY FS_Interval
<1>2. T \in SUBSET (1 .. n)
  OBVIOUS
<1>3. IsFiniteSet(T) /\ Cardinality(T) <= Cardinality(1 .. n)
  BY <1>1, <1>2, FS_Subset
<1> QED BY <1>1, <1>3, FS_CardinalityType

(* One column of a trial: what comes of the documents.                     *)
LEMMA TrialOutcome ==
    ASSUME NEW w \in Workers, TrialCrawl(w)
    PROVE  \E k \in worker[w].todo, n \in Nat, success \in Nat :
             \/ /\ k \in DOMAIN columns[worker[w].site]
                /\ columns' = [columns EXCEPT ![worker[w].site][k].status =
                                  IF success > 0 THEN "trial_crawled" ELSE "failed"]
                /\ worker' = [worker EXCEPT ![w].todo = @ \ {k}, ![w].found = @ + n,
                                            ![w].success = @ + success]
                /\ UNCHANGED historyVars
             \/ /\ Goto(w, "failing") /\ dropped' = dropped \cup {worker[w].site}
                /\ UNCHANGED <<columns, retries, vetted, abandoned, crossed>>
<1> DEFINE s == worker[w].site
<1>5. PICK k \in worker[w].todo, n \in 0 .. TrialDocs : \E accepted \in [1 .. n -> Outcomes] :
         LET success == Cardinality({i \in 1 .. n : accepted[i]})
         IN IF k \in DOMAIN columns[s] /\ columns[s][k].by = w
            THEN /\ columns' = [columns EXCEPT ![s][k].status =
                                   IF success > 0 THEN "trial_crawled" ELSE "failed"]
                 /\ worker' = [worker EXCEPT ![w].todo = @ \ {k}, ![w].found = @ + n,
                                             ![w].success = @ + success]
                 /\ UNCHANGED historyVars
            ELSE /\ Goto(w, "failing")
                 /\ dropped' = dropped \cup {s}
                 /\ UNCHANGED <<columns, retries, vetted, abandoned, crossed>>
  BY DEF TrialCrawl
<1>6. PICK accepted \in [1 .. n -> Outcomes] :
         LET success == Cardinality({i \in 1 .. n : accepted[i]})
         IN IF k \in DOMAIN columns[s] /\ columns[s][k].by = w
            THEN /\ columns' = [columns EXCEPT ![s][k].status =
                                   IF success > 0 THEN "trial_crawled" ELSE "failed"]
                 /\ worker' = [worker EXCEPT ![w].todo = @ \ {k}, ![w].found = @ + n,
                                             ![w].success = @ + success]
                 /\ UNCHANGED historyVars
            ELSE /\ Goto(w, "failing")
                 /\ dropped' = dropped \cup {s}
                 /\ UNCHANGED <<columns, retries, vetted, abandoned, crossed>>
  BY <1>5
<1>7. Cardinality({i \in 1 .. n : accepted[i]}) \in Nat /\ n \in Nat
  BY LimitsAssumption, AcceptedCount
<1> QED BY <1>6, <1>7

(* The scores of an official site.                                         *)
LEMMA OfficialTyped == OfficialScores \subseteq {0, 85, 100}
BY DEF OfficialScores, OfficialScore, IsOfficial, Homepages

-----------------------------------------------------------------------------
(* Types.                                                                  *)

LEMMA TypedInit == Init => Typed
<1> SUFFICES ASSUME Init PROVE Typed
  OBVIOUS
<1>1. RowsTyped
  BY DEF Init, RowsTyped, RunStatus, CandidateStatus
<1>2. LocalsTyped
  <2>1. IdleWorker.pc \notin Visiting /\ IdleRequest.pc \notin Activations
    BY DEF IdleWorker, IdleRequest, Visiting, Processing, Activations
  <2> QED BY <2>1, IdleTyped DEF Init, LocalsTyped
<1>3. HistoryTyped
  <2>1. retries = 0 /\ vetted = {} /\ dropped = {} /\ abandoned = FALSE /\ crossed = FALSE
    BY DEF Init
  <2>2. retries \in 0 .. MaxRetries
    BY <2>1, LimitsAssumption
  <2>3. abandoned \in BOOLEAN /\ crossed \in BOOLEAN
    BY <2>1, Zenon
  <2> QED BY <2>1, <2>2, <2>3 DEF HistoryTyped
<1> QED BY <1>1, <1>2, <1>3 DEF Typed

LEMMA ClaimTyped ==
    ASSUME Typed, NEW w \in Workers, At(w, "idle"), Claim(w)
    PROVE  /\ run' \in RunStatus /\ attempts' \in Nat /\ HistoryTyped'
           /\ worker' \in [Workers -> WorkerStates]
           /\ \A v \in Workers : worker'[v].pc \in Visiting => worker'[v].site \in Sites
<1>0. PICK again \in BOOLEAN : worker' = [worker EXCEPT ![w].pc = "search", ![w].retrying = again]
  <2>1. (attempts > 0) \in BOOLEAN
    OBVIOUS
  <2> QED BY <2>1, Zenon DEF Claim
<1> DEFINE claimed == [worker[w] EXCEPT !.pc = "search", !.retrying = again]
<1>1. claimed \in WorkerStates /\ claimed.pc = "search"
  <2>1. worker[w] \in WorkerStates
    BY DEF Typed, LocalsTyped
  <2> QED BY <2>1 DEF WorkerStates, WorkerSteps
<1>2. worker' = [worker EXCEPT ![w] = claimed]
  BY <1>0
<1> HIDE DEF claimed
<1>3. claimed.pc \notin Visiting
  BY <1>1 DEF Visiting, Processing
<1>4. run' \in RunStatus /\ attempts' \in Nat /\ HistoryTyped'
  BY DEF Claim, Typed, RowsTyped, HistoryTyped, RunStatus
<1> QED BY <1>1, <1>2, <1>3, <1>4 DEF Typed, LocalsTyped

(* A worker at a step that visits a candidate: what it works on.           *)
LEMMA VisitedSite ==
    ASSUME Typed, NEW w \in Workers, worker[w].pc \in Visiting
    PROVE  /\ worker[w].site \in Sites /\ worker[w] \in WorkerStates
           /\ DOMAIN columns[worker[w].site] \subseteq Columns
           /\ \A k \in DOMAIN columns[worker[w].site] : columns[worker[w].site][k] \in ColumnRows
BY DEF Typed, RowsTyped, LocalsTyped

LEMMA WorkerTyped ==
    ASSUME Typed, NEW w \in Workers,
           Deliver(w) \/ Execute(w) \/ FailCandidate(w) \/ WorkerError(w) \/ WorkerDies(w)
    PROVE  Typed'
<1> USE DEF Typed, RowsTyped
<1>0. {"create", "reset", "validate", "discover", "trial"} = Visiting
  BY DEF Visiting, Processing
<1>1. CASE Deliver(w)
  BY <1>1, ClaimTyped DEF Deliver, LocalsTyped, HistoryTyped, rowVars, candidateVars, historyVars
<1>2. CASE Search(w)
  <2>1. PICK hits \in SUBSET Sites :
           worker' = [worker EXCEPT ![w].pc = "next", ![w].hits = hits]
    BY <1>2 DEF Search
  <2>2. worker[w] \in WorkerStates
    BY DEF LocalsTyped
  <2> DEFINE moved == [worker[w] EXCEPT !.pc = "next", !.hits = hits]
  <2>3. LocalsTyped'
    <3>1. moved \in WorkerStates /\ moved.pc = "next"
      BY <2>2 DEF WorkerStates, WorkerSteps
    <3>2. worker' = [worker EXCEPT ![w] = moved]
      BY <2>1
    <3> HIDE DEF moved
    <3>3. moved.pc \notin Visiting
      BY <3>1 DEF Visiting, Processing
    <3> QED BY <1>2, <3>1, <3>2, <3>3 DEF LocalsTyped, Search
  <2> QED BY <1>2, <2>3 DEF Search, rowVars, candidateVars, historyVars, HistoryTyped
<1>3. CASE NextHit(w)
  <2>1. PICK s \in worker[w].hits, next \in {"create", "reset", "next"} :
           worker' = [worker EXCEPT ![w].hits = @ \ {s}, ![w].pc = next,
                                    ![w].site = IF next = "next" THEN NoSite ELSE s]
    BY <1>3 DEF NextHit
  <2>2. worker[w] \in WorkerStates /\ s \in Sites
    BY <2>1, WorkerFields DEF LocalsTyped
  <2> DEFINE moved == [worker[w] EXCEPT !.hits = @ \ {s}, !.pc = next,
                                        !.site = IF next = "next" THEN NoSite ELSE s]
  <2>3. moved \in WorkerStates
    BY <2>2 DEF WorkerStates, WorkerSteps, Processing
  <2>4. moved.pc \in Visiting => moved.site \in Sites
    BY <2>2, <1>0 DEF WorkerStates
  <2>5. worker' = [worker EXCEPT ![w] = moved]
    BY <2>1
  <2> HIDE DEF moved
  <2>6. LocalsTyped'
    BY <1>3, <2>3, <2>4, <2>5 DEF LocalsTyped, NextHit
  <2> QED BY <1>3, <2>6 DEF NextHit, rowVars, candidateVars, historyVars, HistoryTyped
<1>4. CASE CreateCandidate(w)
  <2>1. At(w, "create") /\ worker[w].site \in Sites /\ worker[w] \in WorkerStates
    BY <1>4, <1>0, VisitedSite DEF CreateCandidate, At
  <2>2. CASE SetStatus(worker[w].site, "discovered") /\ Goto(w, "validate")
    <3>1. status' \in [Sites -> CandidateStatus]
      BY <2>1, <2>2, SetStatusTyped DEF CandidateStatus, Intermediate
    <3>2. LocalsTyped'
      BY <1>4, <2>1, <2>2 DEF LocalsTyped, WorkerStates, WorkerSteps, Processing, CreateCandidate, Goto
    <3> QED BY <1>4, <3>1, <3>2 DEF CreateCandidate, rowVars, historyVars, HistoryTyped
  <2>3. CASE Goto(w, "failing") /\ UNCHANGED status
    <3>1. LocalsTyped'
      BY <1>0, <1>4, <2>3, GotoTyped DEF LocalsTyped, WorkerSteps, CreateCandidate
    <3> QED BY <1>4, <2>3, <3>1 DEF CreateCandidate, rowVars, historyVars, HistoryTyped
  <2> QED BY <1>4, <2>2, <2>3 DEF CreateCandidate
<1>5. CASE ResetCandidate(w)
  <2>1. At(w, "reset") /\ worker[w].site \in Sites /\ worker[w] \in WorkerStates
    BY <1>5, <1>0, VisitedSite DEF ResetCandidate, At
  <2>2. status' \in [Sites -> CandidateStatus]
    BY <1>5, <2>1, SetStatusTyped DEF CandidateStatus, Intermediate, ResetCandidate
  <2>3. LocalsTyped'
    BY <1>5, <2>1 DEF LocalsTyped, WorkerStates, WorkerSteps, Processing, ResetCandidate, Goto
  <2> QED BY <1>5, <2>1, <2>2, <2>3 DEF ResetCandidate, NotVetted, rowVars, HistoryTyped
<1>6. CASE Validate(w)
  <2>1. At(w, "validate") /\ worker[w].site \in Sites /\ worker[w] \in WorkerStates
    BY <1>6, <1>0, VisitedSite DEF Validate, At
  <2>2. CASE SetStatus(worker[w].site, "validation_failed") /\ Leave(w)
    <3>1. status' \in [Sites -> CandidateStatus]
      BY <2>1, <2>2, SetStatusTyped DEF CandidateStatus
    <3> QED BY <1>6, <2>2, <3>1, LeaveTyped DEF LocalsTyped, Validate, rowVars, historyVars, HistoryTyped
  <2>3. ASSUME NEW score \in OfficialScores, SetStatus(worker[w].site, "validated"),
               worker' = [worker EXCEPT ![w].pc = "discover", ![w].official = score]
        PROVE  Typed'
    <3>1. status' \in [Sites -> CandidateStatus]
      BY <2>1, <2>3, SetStatusTyped DEF CandidateStatus, Intermediate
    <3>2. score \in {0, 85, 100}
      BY OfficialTyped
    <3>3. LocalsTyped'
      BY <1>6, <2>1, <2>3, <3>2 DEF LocalsTyped, WorkerStates, WorkerSteps, Processing, Validate
    <3> QED BY <1>6, <3>1, <3>3 DEF Validate, rowVars, historyVars, HistoryTyped
  <2> QED BY <1>6, <2>2, <2>3 DEF Validate
<1>7. CASE DiscoverColumns(w)
  <2>1. At(w, "discover") /\ worker[w].site \in Sites /\ worker[w] \in WorkerStates
    BY <1>7, <1>0, VisitedSite DEF DiscoverColumns, At
  <2> DEFINE s == worker[w].site
  <2>2. CASE SetStatus(s, "failed") /\ Leave(w) /\ UNCHANGED <<columns, historyVars>>
    <3>1. status' \in [Sites -> CandidateStatus]
      BY <2>1, <2>2, SetStatusTyped DEF CandidateStatus
    <3> QED BY <1>7, <2>2, <3>1, LeaveTyped DEF LocalsTyped, DiscoverColumns, rowVars, historyVars, HistoryTyped
  <2>3. ASSUME NEW new \in SUBSET Columns,
               SetStatus(s, "columns_discovered"),
               columns' = [columns EXCEPT ![s] =
                [k \in DOMAIN @ \cup new |->
                    IF k \in new THEN [status |-> "discovered", by |-> w] ELSE @[k]]],
               worker' = [worker EXCEPT ![w].pc = "trial", ![w].todo = new,
                                        ![w].listed = Cardinality(new)],
               NotVetted(s), UNCHANGED <<retries, dropped, abandoned, crossed>>
        PROVE  Typed'
    <3>1. status' \in [Sites -> CandidateStatus]
      BY <2>1, <2>3, SetStatusTyped DEF CandidateStatus, Intermediate
    <3>2. Cardinality(new) \in Nat
      BY ColumnsAssumption, FS_Subset, FS_CardinalityType
    <3>3. LocalsTyped'
      BY <1>7, <2>1, <2>3, <3>2 DEF LocalsTyped, WorkerStates, WorkerSteps, Processing, DiscoverColumns
    <3>4. [status |-> "discovered", by |-> w] \in ColumnRows
      BY DEF ColumnRows
    <3>5. /\ columns' = [t \in Sites |-> columns'[t]]
          /\ \A t \in Sites \ {s} : columns'[t] = columns[t]
          /\ columns'[s] = [k \in DOMAIN columns[s] \cup new |->
                    IF k \in new THEN [status |-> "discovered", by |-> w] ELSE columns[s][k]]
      BY <2>1, <2>3
    <3>6. DOMAIN columns'[s] \subseteq Columns
          /\ \A k \in DOMAIN columns'[s] : columns'[s][k] \in ColumnRows
      BY <2>1, <3>4, <3>5
    <3> QED BY <1>7, <2>3, <3>1, <3>3, <3>5, <3>6 DEF DiscoverColumns, NotVetted, rowVars, HistoryTyped
  <2>4. CASE Goto(w, "failing") /\ dropped' = dropped \cup {s}
             /\ UNCHANGED <<status, columns, retries, vetted, abandoned, crossed>>
    <3>1. LocalsTyped'
      BY <1>0, <1>7, <2>4, GotoTyped DEF LocalsTyped, WorkerSteps, DiscoverColumns
    <3> QED BY <1>7, <2>1, <2>4, <3>1 DEF DiscoverColumns, rowVars, HistoryTyped
  <2> QED BY <1>7, <2>2, <2>3, <2>4 DEF DiscoverColumns
<1>8. CASE TrialCrawl(w)
  <2>1. At(w, "trial") /\ worker[w].site \in Sites /\ worker[w] \in WorkerStates
    BY <1>8, <1>0, VisitedSite DEF TrialCrawl, At
  <2> DEFINE s == worker[w].site
  <2>2. ASSUME NEW k \in worker[w].todo, NEW n \in Nat, NEW success \in Nat,
               columns' = [columns EXCEPT ![s][k].status =
                                 IF success > 0 THEN "trial_crawled" ELSE "failed"],
               worker' = [worker EXCEPT ![w].todo = @ \ {k}, ![w].found = @ + n,
                                        ![w].success = @ + success],
               UNCHANGED historyVars, k \in DOMAIN columns[s]
        PROVE  Typed'
    <3> DEFINE moved == [worker[w] EXCEPT !.todo = @ \ {k}, !.found = @ + n, !.success = @ + success]
    <3>1. LocalsTyped'
      <4>1. worker[w].found + n \in Nat /\ worker[w].success + success \in Nat
        BY <2>1, WorkerFields
      <4>2. moved \in WorkerStates /\ moved.site = worker[w].site
        BY <2>1, <4>1 DEF WorkerStates
      <4>3. worker' = [worker EXCEPT ![w] = moved]
        BY <2>2
      <4> HIDE DEF moved
      <4> QED BY <1>8, <2>1, <4>2, <4>3 DEF LocalsTyped, TrialCrawl
    <3> DEFINE tried == [columns[s][k] EXCEPT !.status = IF success > 0 THEN "trial_crawled" ELSE "failed"]
    <3>2. columns[s][k] \in ColumnRows
      BY <2>1, <2>2
    <3>3. tried \in ColumnRows
      BY <3>2 DEF ColumnRows
    <3>4. /\ columns' = [t \in Sites |-> columns'[t]]
          /\ \A t \in Sites \ {s} : columns'[t] = columns[t]
          /\ columns'[s] = [columns[s] EXCEPT ![k] = tried]
      BY <2>1, <2>2
    <3> HIDE DEF tried
    <3>5. DOMAIN columns'[s] \subseteq Columns
          /\ \A j \in DOMAIN columns'[s] : columns'[s][j] \in ColumnRows
      BY <2>1, <3>3, <3>4
    <3> QED BY <1>8, <2>2, <3>1, <3>4, <3>5 DEF TrialCrawl, rowVars, historyVars, HistoryTyped
  <2>3. CASE Goto(w, "failing") /\ dropped' = dropped \cup {s}
             /\ UNCHANGED <<columns, retries, vetted, abandoned, crossed>>
    <3>1. LocalsTyped'
      BY <1>0, <1>8, <2>3, GotoTyped DEF LocalsTyped, WorkerSteps, TrialCrawl
    <3> QED BY <1>8, <2>1, <2>3, <3>1 DEF TrialCrawl, rowVars, HistoryTyped
  <2> QED BY <1>8, <2>2, <2>3, TrialOutcome
<1>9. CASE ScoreCandidate(w)
  <2>1. worker[w].site \in Sites
    BY <1>0, <1>9, VisitedSite DEF ScoreCandidate, At
  <2>2. PICK new \in {"pending_approval", "rejected"} : SetStatus(worker[w].site, new)
    BY <1>9 DEF ScoreCandidate
  <2>3. status' \in [Sites -> CandidateStatus]
    BY <2>1, <2>2, SetStatusTyped DEF CandidateStatus
  <2> QED BY <1>9, <2>3, LeaveTyped DEF LocalsTyped, ScoreCandidate, rowVars, historyVars, HistoryTyped
<1>10. CASE Finish(w)
  <2>1. PICK verdict \in {"none", "awaiting_approval", "failed"} :
           worker' = [worker EXCEPT ![w].pc = "save", ![w].verdict = verdict]
    BY <1>10 DEF Finish
  <2>2. worker[w] \in WorkerStates
    BY DEF LocalsTyped
  <2> DEFINE moved == [worker[w] EXCEPT !.pc = "save", !.verdict = verdict]
  <2>3. LocalsTyped'
    <3>1. moved \in WorkerStates /\ moved.pc = "save"
      BY <2>2 DEF WorkerStates, WorkerSteps
    <3>2. worker' = [worker EXCEPT ![w] = moved]
      BY <2>1
    <3> HIDE DEF moved
    <3>3. moved.pc \notin Visiting
      BY <3>1 DEF Visiting, Processing
    <3> QED BY <1>10, <3>1, <3>2, <3>3 DEF LocalsTyped, Finish
  <2> QED BY <1>10, <2>3 DEF Finish, rowVars, candidateVars, historyVars, HistoryTyped
<1>11. CASE SaveRun(w)
  <2>1. run' \in RunStatus
    BY <1>11, WorkerFields DEF SaveRun, LocalsTyped, RunStatus
  <2> QED BY <1>11, <2>1, EndWorkerTyped DEF SaveRun, LocalsTyped, candidateVars, historyVars, HistoryTyped
<1>12. CASE FailRun(w)
  BY <1>12, EndWorkerTyped DEF FailRun, LocalsTyped, candidateVars, historyVars, HistoryTyped, RunStatus
<1>13. CASE FailCandidate(w)
  <2>1. worker[w].site \in Sites
    BY <1>13, VisitedSite DEF FailCandidate, Visiting
  <2>2. status' \in [Sites -> CandidateStatus]
    BY <1>13, <2>1, SetStatusTyped DEF FailCandidate, CandidateStatus
  <2> QED BY <1>13, <2>2, LeaveTyped DEF LocalsTyped, FailCandidate, rowVars, historyVars, HistoryTyped
<1>14. CASE WorkerError(w)
  <2>1. worker[w].pc \in Processing => worker[w].site \in Sites
    BY VisitedSite DEF Visiting
  <2>2. LocalsTyped'
    BY <1>0, <1>14, GotoTyped DEF LocalsTyped, WorkerSteps, WorkerError
  <2> QED BY <1>14, <2>1, <2>2 DEF WorkerError, rowVars, candidateVars, HistoryTyped
<1>15. CASE WorkerDies(w)
  BY <1>15, EndWorkerTyped DEF WorkerDies, Lose, LocalsTyped, rowVars, candidateVars, HistoryTyped
<1> QED BY <1>1, <1>2, <1>3, <1>4, <1>5, <1>6, <1>7, <1>8, <1>9, <1>10, <1>11, <1>12, <1>13,
           <1>14, <1>15 DEF Execute

LEMMA RequestTyped ==
    ASSUME Typed, NEW r \in Requests,
           \/ CreateByAdmin(r) \/ ScanGaps(r) \/ RetryRead(r) \/ Answer(r)
           \/ ActivationError(r) \/ RequestDies(r)
    PROVE  Typed'
<1> USE DEF Typed, RowsTyped
<1>1. ASSUME NEW pc \in {"inline", "send"}, Create(r, pc)  PROVE Typed'
  <2>1. LocalsTyped'
    <3>1. CASE Proceed(r, pc)
      BY <1>1, <3>1, ProceedTyped DEF RequestSteps, Activations, LocalsTyped, Create
    <3> QED BY <1>1, <3>1 DEF Create, LocalsTyped
  <2> QED BY <1>1, <2>1 DEF Create, RunStatus, candidateVars, historyVars, HistoryTyped
<1>2. CASE RetryRead(r)
  <2>1. LocalsTyped'
    BY <1>2, ProceedTyped DEF RequestSteps, Activations, LocalsTyped, RetryRead
  <2> QED BY <1>2, <2>1, LimitsAssumption DEF RetryRead, rowVars, candidateVars, HistoryTyped
<1>3. CASE RetryWrite(r)
  <2>1. LocalsTyped'
    BY <1>3, ProceedTyped DEF RequestSteps, Activations, LocalsTyped, RetryWrite
  <2> QED BY <1>3, <2>1 DEF RetryWrite, RunStatus, candidateVars, historyVars, HistoryTyped
<1>4. CASE Send(r)
  <2>1. LocalsTyped'
    BY <1>4, ProceedTyped, EndRequestTyped DEF RequestSteps, Activations, LocalsTyped, Send
  <2> QED BY <1>4, <2>1 DEF Send, rowVars, candidateVars, historyVars, HistoryTyped
<1>5. CASE MarkRead(r)
  <2>1. LocalsTyped'
    BY <1>5, ProceedTyped, EndRequestTyped DEF RequestSteps, Activations, LocalsTyped, MarkRead
  <2> QED BY <1>5, <2>1 DEF MarkRead, rowVars, candidateVars, historyVars, HistoryTyped
<1>6. CASE MarkWrite(r)
  <2>1. LocalsTyped'
    BY <1>6, EndRequestTyped DEF LocalsTyped, MarkWrite
  <2> QED BY <1>6, <2>1 DEF MarkWrite, RunStatus, candidateVars, historyVars, HistoryTyped
<1>7. CASE ReadColumns(r)
  <2>1. request[r].pc \in Activations
    BY <1>7 DEF ReadColumns, Asked, Activations
  <2>2. LocalsTyped'
    BY <1>7, <2>1, ProceedTyped DEF RequestSteps, LocalsTyped, ReadColumns
  <2> QED BY <1>7, <2>2 DEF ReadColumns, rowVars, candidateVars, historyVars, HistoryTyped
<1>8. CASE Materialize(r)
  <2>1. request[r].pc \in Activations /\ request[r].site \in Sites
    BY <1>8 DEF Materialize, Asked, Activations, LocalsTyped
  <2>2. LocalsTyped'
    BY <1>8, <2>1, ProceedTyped, EndRequestTyped DEF RequestSteps, LocalsTyped, Materialize
  <2>3. CASE request[r].site \in sources
    BY <1>8, <2>2, <2>3 DEF Materialize, candidateVars, historyVars, HistoryTyped
  <2>4. CASE request[r].site \notin sources
    BY <1>8, <2>1, <2>2, <2>4, SetStatusTyped DEF Materialize, historyVars, HistoryTyped, RunStatus, CandidateStatus
  <2> QED BY <2>3, <2>4
<1>9. CASE Compensate(r)
  <2>1. request[r].site \in Sites
    BY <1>9 DEF Compensate, Asked, Activations, LocalsTyped
  <2>2. LocalsTyped'
    BY <1>9, EndRequestTyped DEF LocalsTyped, Compensate
  <2> QED BY <1>9, <2>1, <2>2, SetStatusTyped DEF Compensate, rowVars, historyVars, HistoryTyped, CandidateStatus
<1>10. ASSUME NEW w \in Workers, ExecuteInline(w, r)  PROVE Typed'
  BY <1>10, ClaimTyped, EndRequestTyped
     DEF ExecuteInline, LocalsTyped, HistoryTyped, rowVars, candidateVars, historyVars
<1>11. CASE ActivationError(r)
  <2>1. request[r].pc \in Activations
    BY <1>11 DEF ActivationError, Activations
  <2>2. LocalsTyped'
    BY <1>11, <2>1, ProceedTyped DEF RequestSteps, LocalsTyped, ActivationError
  <2> QED BY <1>11, <2>2 DEF ActivationError, rowVars, candidateVars, historyVars, HistoryTyped
<1>12. CASE RequestDies(r)
  BY <1>12, EndRequestTyped DEF RequestDies, Lose, LocalsTyped, rowVars, candidateVars, HistoryTyped
<1> QED BY <1>1, <1>2, <1>3, <1>4, <1>5, <1>6, <1>7, <1>8, <1>9, <1>10, <1>11, <1>12
        DEF Answer, CreateByAdmin, ScanGaps

LEMMA AdministratorTyped ==
    ASSUME Typed, NEW s \in Sites,
           Approve(s) \/ Reject(s) \/ \E r \in Requests : Activate(r, s)
    PROVE  Typed'
<1> USE DEF Typed, RowsTyped, rowVars, HistoryTyped
<1>1. CASE Approve(s)
  BY <1>1, SetStatusTyped DEF Approve, CandidateStatus, LocalsTyped
<1>2. CASE Reject(s)
  BY <1>2, SetStatusTyped DEF Reject, NotVetted, CandidateStatus, LocalsTyped
<1>3. ASSUME NEW r \in Requests, Activate(r, s)  PROVE Typed'
  <2>1. [pc |-> "read_columns", site |-> s] \in RequestStates
    BY DEF RequestStates, RequestSteps
  <2>2. LocalsTyped'
    BY <1>3, <2>1 DEF Activate, LocalsTyped
  <2> QED BY <1>3, <2>2, SetStatusTyped DEF Activate, historyVars, CandidateStatus
<1> QED BY <1>1, <1>2, <1>3

LEMMA TypedStep == Typed /\ [Next]_vars => Typed'
<1> SUFFICES ASSUME Typed, [Next]_vars PROVE Typed'
  OBVIOUS
<1>1. CASE MessageLost
  BY <1>1 DEF MessageLost, Lose, Typed, RowsTyped, LocalsTyped, HistoryTyped, rowVars, candidateVars
<1>2. CASE UNCHANGED vars
  BY <1>2 DEF vars, Typed, RowsTyped, LocalsTyped, HistoryTyped, rowVars, candidateVars, historyVars
<1> QED BY <1>1, <1>2, WorkerTyped, RequestTyped, AdministratorTyped DEF Next

-----------------------------------------------------------------------------
(* The number of attempts.                                                 *)

Writing == {r \in Requests : Asked(r, "retry_write")}
Claimable == IF run \in {"none", "pending"} THEN 1 ELSE 0

(* Whoever is about to make the run pending again has been counted, and a  *)
(* run that is pending is claimed once.                                    *)
Budget ==
    /\ IsFiniteSet(Writing)
    /\ attempts + Cardinality(Writing) + Claimable <= retries + 1

(* What all steps do but the two halves of a retry.                        *)
Spends ==
    /\ Writing' \subseteq Writing
    /\ retries' = retries
    /\ \/ attempts' = attempts /\ (run' \in {"none", "pending"} => run \in {"none", "pending"})
       \/ attempts' = attempts + 1 /\ run = "pending" /\ run' = "running"

LEMMA SpendsKeepsBudget ==
    ASSUME Typed, Budget, Spends
    PROVE  Budget'
<1>1. IsFiniteSet(Writing') /\ Cardinality(Writing') <= Cardinality(Writing)
  BY FS_Subset DEF Budget, Spends
<1>2. Cardinality(Writing') \in Nat /\ Cardinality(Writing) \in Nat
  BY <1>1, FS_CardinalityType DEF Budget
<1> QED BY <1>1, <1>2, LimitsAssumption DEF Spends, Budget, Claimable, Typed, RowsTyped, HistoryTyped

LEMMA ProceedWriting ==
    ASSUME Typed, NEW r \in Requests, NEW pc \in RequestSteps \ {"retry_write"},
           Proceed(r, pc) \/ EndRequest(r)
    PROVE  Writing' \subseteq Writing \ {r}
<1>1. IdleRequest.pc # "retry_write"
  BY DEF IdleRequest
<1> QED BY <1>1 DEF Writing, Asked, Proceed, EndRequest, Typed, LocalsTyped, RequestStates

LEMMA BudgetInit == Init => Budget
<1> SUFFICES ASSUME Init PROVE Budget
  OBVIOUS
<1>1. Writing = {}
  BY DEF Init, Writing, Asked, IdleRequest
<1> QED BY <1>1, FS_EmptySet DEF Init, Budget, Claimable

LEMMA BudgetStep == Typed /\ Budget /\ [Next]_vars => Budget'
<1> SUFFICES ASSUME Typed, Budget, [Next]_vars PROVE Budget'
  OBVIOUS
<1>1. ASSUME NEW w \in Workers,
             Deliver(w) \/ Execute(w) \/ FailCandidate(w) \/ WorkerError(w) \/ WorkerDies(w)
      PROVE  Spends
  <2>1. request' = request
    BY <1>1 DEF Deliver, Execute, Search, NextHit, CreateCandidate, ResetCandidate, Validate,
                DiscoverColumns, TrialCrawl, ScoreCandidate, Finish, SaveRun, FailRun,
                FailCandidate, WorkerError, WorkerDies
  <2>2. Writing' \subseteq Writing /\ retries' = retries
    BY <1>1, <2>1 DEF Writing, Asked, Deliver, Claim, Execute, Search, NextHit, CreateCandidate,
                ResetCandidate, Validate, DiscoverColumns, TrialCrawl, ScoreCandidate, Finish,
                SaveRun, FailRun, FailCandidate, WorkerError, WorkerDies, Lose, historyVars
  <2>3. CASE Deliver(w)
    BY <2>2, <2>3 DEF Deliver, Claim, Spends, rowVars
  <2>4. CASE SaveRun(w)
    <3>1. worker[w].verdict \in {"none", "awaiting_approval", "failed"}
      BY WorkerFields DEF Typed, LocalsTyped
    <3> QED BY <2>2, <2>4, <3>1 DEF SaveRun, Spends
  <2>5. CASE FailRun(w)
    BY <2>2, <2>5 DEF FailRun, Spends
  <2> QED BY <1>1, <2>2, <2>3, <2>4, <2>5
          DEF Execute, Search, NextHit, CreateCandidate, ResetCandidate, Validate,
              DiscoverColumns, TrialCrawl, ScoreCandidate, Finish,
              FailCandidate, WorkerError, WorkerDies, Lose, Spends, rowVars
<1>2. ASSUME NEW r \in Requests, CreateByAdmin(r) \/ ScanGaps(r) \/ MarkWrite(r) \/ Materialize(r)
      PROVE  Spends
  <2>1. Writing' \subseteq Writing
    <3>1. {"inline", "send", "compensate"} \subseteq RequestSteps \ {"retry_write"}
      BY DEF RequestSteps
    <3>2. CASE UNCHANGED request
      BY <3>2 DEF Writing, Asked
    <3>3. CASE \E pc \in {"inline", "send", "compensate"} : Proceed(r, pc)
      BY <3>1, <3>3, ProceedWriting
    <3>4. CASE EndRequest(r)
      BY <3>1, <3>4, ProceedWriting
    <3> QED BY <1>2, <3>2, <3>3, <3>4 DEF CreateByAdmin, ScanGaps, Create, MarkWrite, Materialize
  <2> QED BY <1>2, <2>1 DEF CreateByAdmin, ScanGaps, Create, MarkWrite, Materialize, Spends, historyVars
<1>3. ASSUME NEW r \in Requests,
             \/ Send(r) \/ MarkRead(r) \/ ReadColumns(r) \/ Compensate(r)
             \/ ActivationError(r) \/ RequestDies(r)
             \/ \E w \in Workers : ExecuteInline(w, r)
      PROVE  Spends
  <2>1. Writing' \subseteq Writing
    <3>1. {"mark_read", "mark_write", "materialize", "compensate"} \subseteq RequestSteps \ {"retry_write"}
      BY DEF RequestSteps
    <3>2. CASE \E pc \in {"mark_read", "mark_write", "materialize", "compensate"} : Proceed(r, pc)
      BY <3>1, <3>2, ProceedWriting
    <3>3. CASE EndRequest(r)
      BY <3>1, <3>3, ProceedWriting
    <3> QED BY <1>3, <3>2, <3>3 DEF Send, MarkRead, ReadColumns, Compensate, ActivationError,
                                    RequestDies, ExecuteInline
  <2>2. retries' = retries
    BY <1>3 DEF Send, MarkRead, ReadColumns, Compensate, ActivationError, RequestDies, Lose,
                ExecuteInline, Claim, historyVars
  <2> QED BY <1>3, <2>1, <2>2 DEF Send, MarkRead, ReadColumns, Compensate, ActivationError,
                RequestDies, Lose, ExecuteInline, Claim, Spends, rowVars
<1>4. ASSUME NEW r \in Requests, RetryRead(r)  PROVE Budget'
  <2>1. Writing' = Writing \cup {r}
    BY <1>4 DEF RetryRead, Writing, Asked, Proceed, Typed, LocalsTyped, RequestStates
  <2>2. Cardinality(Writing) \in Nat
    BY FS_CardinalityType DEF Budget
  <2>3. /\ IsFiniteSet(Writing')
        /\ Cardinality(Writing') \in {Cardinality(Writing), Cardinality(Writing) + 1}
    BY <2>1, FS_AddElement DEF Budget
  <2> QED BY <1>4, <2>2, <2>3, LimitsAssumption
          DEF RetryRead, Budget, Claimable, rowVars, Typed, RowsTyped, HistoryTyped
<1>5. ASSUME NEW r \in Requests, RetryWrite(r)  PROVE Budget'
  <2>1. Writing' = Writing \ {r} /\ r \in Writing
    BY <1>5 DEF RetryWrite, Writing, Asked, Proceed, Typed, LocalsTyped, RequestStates
  <2>2. IsFiniteSet(Writing') /\ Cardinality(Writing') = Cardinality(Writing) - 1
    BY <2>1, FS_RemoveElement DEF Budget
  <2>3. Cardinality(Writing') \in Nat /\ Cardinality(Writing) \in Nat
    BY <2>2, FS_CardinalityType DEF Budget
  <2> QED BY <1>5, <2>2, <2>3, LimitsAssumption
          DEF RetryWrite, Budget, Claimable, historyVars, Typed, RowsTyped, HistoryTyped
<1>6. CASE MessageLost \/ (\E s \in Sites : Approve(s) \/ Reject(s))
  BY <1>6, SpendsKeepsBudget
     DEF MessageLost, Lose, Approve, Reject, Spends, Writing, Asked, rowVars
<1>7. ASSUME NEW r \in Requests, NEW s \in Sites, Activate(r, s)  PROVE Budget'
  <2>1. Writing' \subseteq Writing
    BY <1>7 DEF Activate, Writing, Asked, Typed, LocalsTyped
  <2> QED BY <1>7, <2>1, SpendsKeepsBudget DEF Activate, Spends, rowVars, historyVars
<1>8. CASE UNCHANGED vars
  BY <1>8, SpendsKeepsBudget DEF vars, Spends, Writing, Asked, rowVars, historyVars
<1> QED BY <1>1, <1>2, <1>3, <1>4, <1>5, <1>6, <1>7, <1>8, SpendsKeepsBudget DEF Next, Answer

-----------------------------------------------------------------------------
(* What holds until two workers execute the run at once.                   *)

Solo == \A v, w \in Workers : ~At(v, "idle") /\ ~At(w, "idle") => v = w

(* The candidate is as the worker has left it: nobody else writes it.      *)
AtSite ==
    \A w \in Workers :
       /\ At(w, "create") => status[worker[w].site] = "absent"
       /\ At(w, "reset") => status[worker[w].site] \in Retryable
       /\ worker[w].pc \in Processing => status[worker[w].site] \in Intermediate

(* A claim of an activation belongs to one request.                        *)
Claims ==
    /\ \A r \in Requests : request[r].pc \in Activations => status[request[r].site] = "activating"
    /\ \A q, r \in Requests :
          request[q].pc \in Activations /\ request[r].pc \in Activations
             /\ request[q].site = request[r].site => q = r

ApprovedIsVetted == \A s \in Sites : status[s] \in {"approved", "activating"} => s \in vetted

Agreement == \A s \in Sites : s \in sources <=> status[s] = "activated"

(* What a worker counts as a success is in the columns, and it writes only *)
(* columns that it has not tried yet.                                      *)
Tried ==
    \A w \in Workers :
       /\ worker[w].pc \notin {"trial", "failing"} => worker[w].success = 0
       /\ At(w, "trial") =>
            /\ \A k \in worker[w].todo : /\ k \in DOMAIN columns[worker[w].site]
                                         /\ columns[worker[w].site][k].status = "discovered"
            /\ worker[w].success > 0 => Succeeded(columns[worker[w].site])

Activatable ==
    Threshold > 50 =>
        \A s \in Sites : status[s] \in {"pending_approval", "approved", "activating"}
                           => Succeeded(columns[s])

Orderly == Solo /\ AtSite /\ Claims /\ ApprovedIsVetted /\ Agreement /\ Tried /\ Activatable

(* The statuses that only administrators give and take, and the one that   *)
(* puts a candidate before them.                                           *)
Decided == {"pending_approval", "approved", "activating", "activated"}

(* What a step of worker w does to the candidates: it writes only the one  *)
(* it works on, which is not decided, and puts before administrators only  *)
(* what can be activated.                                                  *)
WorkerChange(w) ==
    /\ sources' = sources
    /\ \A v \in Workers \ {w} : worker'[v] = worker[v]
    /\ \A s \in Sites :
          /\ status[s] \in Decided =>
                status'[s] = status[s] /\ columns'[s] = columns[s] /\ (s \in vetted => s \in vetted')
          /\ (status[s] \notin Decided /\ status'[s] \in Decided) =>
                /\ status'[s] = "pending_approval"
                /\ Threshold > 50 => Succeeded(columns'[s])

(* The weights: 35 and 15 percent never reach a threshold above one half.  *)
LEMMA PassNeedsSuccess ==
    ASSUME NEW official \in {0, 85, 100}, NEW n \in Nat, NEW found \in Nat, Threshold > 50
    PROVE  ~Passes(official, n, found, 0, 0)
<1> DEFINE per == IF found = 0 THEN 1 ELSE found
           weight == 35 * official + 15 * (IF n >= 2 THEN 100 ELSE 50 * n) + 25 * 0
<1>1. per \in Nat /\ per >= 1
  OBVIOUS
<1>2. weight \in Nat /\ weight <= 5000
  <2>1. CASE n >= 2
    BY <2>1
  <2>2. CASE n \in {0, 1}
    BY <2>2
  <2> QED BY <2>1, <2>2
<1>3. 100 * Threshold \in Nat /\ 100 * Threshold > 5000
  BY LimitsAssumption
<1>4. ASSUME NEW p \in Nat, NEW a \in Nat, NEW b \in Nat, p >= 1, a < b
      PROVE  p * a + 2500 * 0 < b * p
  BY <1>4
<1> HIDE DEF per, weight
<1>5. per * weight + 2500 * 0 < (100 * Threshold) * per
  BY <1>1, <1>2, <1>3, <1>4
<1>6. ~(per * weight + 2500 * 0 >= 100 * Threshold * per)
  BY <1>1, <1>2, <1>3, <1>5
<1> QED BY <1>6 DEF Passes, per, weight

LEMMA Visited ==
    ASSUME Typed, Orderly, NEW w \in Workers, worker[w].pc \in Visiting
    PROVE  status[worker[w].site] \notin Decided
<1>1. worker[w].pc \in Processing \/ At(w, "create") \/ At(w, "reset")
  BY DEF Visiting, At
<1> QED BY <1>1 DEF Orderly, AtSite, Retryable, Intermediate, Decided

(* A step that changes the status of the candidate that w works on alone.  *)
LEMMA SiteChange ==
    ASSUME Typed, Orderly, NEW w \in Workers, worker[w].pc \in Visiting,
           NEW new \in CandidateStatus \ (Decided \ {"pending_approval"}),
           SetStatus(worker[w].site, new),
           \A v \in Workers \ {w} : worker'[v] = worker[v],
           sources' = sources,
           \A s \in Sites \ {worker[w].site} :
              columns'[s] = columns[s] /\ (s \in vetted => s \in vetted'),
           new = "pending_approval" /\ Threshold > 50 => Succeeded(columns'[worker[w].site])
    PROVE  WorkerChange(w)
<1>1. worker[w].site \in Sites /\ status[worker[w].site] \notin Decided
  BY VisitedSite, Visited
<1> QED BY <1>1, SetStatusTyped DEF WorkerChange, Typed, RowsTyped, Decided

(* Everybody else is idle, so what is left to see is the worker itself.    *)
WorkerKeeps(w) ==
    /\ At(w, "create")' => status'[worker'[w].site] = "absent"
    /\ At(w, "reset")' => status'[worker'[w].site] \in Retryable
    /\ worker'[w].pc \in Processing => status'[worker'[w].site] \in Intermediate
    /\ worker'[w].pc \notin {"trial", "failing"} => worker'[w].success = 0
    /\ At(w, "trial")' =>
         /\ \A k \in worker'[w].todo : /\ k \in DOMAIN columns'[worker'[w].site]
                                      /\ columns'[worker'[w].site][k].status = "discovered"
         /\ worker'[w].success > 0 => Succeeded(columns'[worker'[w].site])

LEMMA QuietWorker ==
    ASSUME NEW w \in Workers, worker'[w].pc \in {"search", "next", "save", "idle"},
           worker'[w].success = 0
    PROVE  WorkerKeeps(w)
BY DEF WorkerKeeps, At, Processing

LEMMA FailingWorker ==
    ASSUME Typed, NEW w \in Workers, Goto(w, "failing")
    PROVE  WorkerKeeps(w) /\ \A v \in Workers \ {w} : worker'[v] = worker[v]
<1>1. worker'[w].pc = "failing"
  BY DEF Goto, Typed, LocalsTyped, WorkerStates
<1> QED BY <1>1 DEF WorkerKeeps, At, Processing, Goto, Typed, LocalsTyped

LEMMA IdleAgain ==
    ASSUME Typed, NEW w \in Workers, EndWorker(w)
    PROVE  WorkerKeeps(w) /\ \A v \in Workers \ {w} : worker'[v] = worker[v]
<1>1. worker'[w].pc = "idle" /\ worker'[w].success = 0
  BY DEF EndWorker, IdleWorker, Typed, LocalsTyped
<1> QED BY <1>1, QuietWorker DEF EndWorker, Typed, LocalsTyped

LEMMA SameCandidates ==
    ASSUME NEW w \in Workers, status' = status, columns' = columns, sources' = sources,
           vetted' = vetted, \A v \in Workers \ {w} : worker'[v] = worker[v]
    PROVE  WorkerChange(w)
BY DEF WorkerChange

LEMMA WorkerOrder ==
    ASSUME Typed, Orderly, NEW w \in Workers,
           Execute(w) \/ FailCandidate(w) \/ WorkerError(w) \/ WorkerDies(w)
    PROVE  WorkerChange(w) /\ WorkerKeeps(w)
<1> DEFINE s == worker[w].site
<1>0. {"create", "reset", "validate", "discover", "trial"} = Visiting
  BY DEF Visiting, Processing
<1>a. worker[w] \in WorkerStates /\ worker \in [Workers -> WorkerStates]
  BY DEF Typed, LocalsTyped
<1>b. worker[w].pc \notin {"trial", "failing"} => worker[w].success = 0
  BY DEF Orderly, Tried
<1>c. status \in [Sites -> CandidateStatus] /\ columns = [t \in Sites |-> columns[t]]
  BY DEF Typed, RowsTyped
<1>2. CASE Search(w)
  <2>1. worker'[w].pc = "next" /\ worker'[w].success = 0
        /\ \A v \in Workers \ {w} : worker'[v] = worker[v]
    BY <1>2, <1>a, <1>b DEF Search, At, WorkerStates
  <2> QED BY <1>2, <2>1, QuietWorker, SameCandidates DEF Search, candidateVars, historyVars
<1>3. CASE NextHit(w)
  <2>1. PICK t \in worker[w].hits :
          LET next == IF status[t] = "absent" THEN "create"
                      ELSE IF worker[w].retrying /\ status[t] \in Retryable THEN "reset"
                      ELSE "next"
          IN worker' = [worker EXCEPT ![w].hits = @ \ {t}, ![w].pc = next,
                                      ![w].site = IF next = "next" THEN NoSite ELSE t]
    BY <1>3 DEF NextHit
  <2> DEFINE next == IF status[t] = "absent" THEN "create"
                     ELSE IF worker[w].retrying /\ status[t] \in Retryable THEN "reset"
                     ELSE "next"
  <2>2. /\ next \in {"create", "reset", "next"}
        /\ next = "create" => status[t] = "absent"
        /\ next = "reset" => status[t] \in Retryable
    OBVIOUS
  <2>3. worker' = [worker EXCEPT ![w].hits = @ \ {t}, ![w].pc = next,
                                 ![w].site = IF next = "next" THEN NoSite ELSE t]
    BY <2>1
  <2> HIDE DEF next
  <2>4. /\ worker'[w].pc = next /\ worker'[w].success = worker[w].success
        /\ next # "next" => worker'[w].site = t
        /\ \A v \in Workers \ {w} : worker'[v] = worker[v]
    BY <1>a, <2>2, <2>3 DEF WorkerStates
  <2>5. worker[w].success = 0
    BY <1>3, <1>b DEF NextHit, At
  <2> QED BY <1>3, <2>2, <2>4, <2>5, SameCandidates DEF NextHit, candidateVars, historyVars, WorkerKeeps, At, Processing
<1>4. CASE CreateCandidate(w)
  <2>1. /\ At(w, "create") /\ s \in Sites /\ worker[w].pc \in Visiting
        /\ status[s] = "absent" /\ worker[w].success = 0
    BY <1>4, <1>0, <1>b, VisitedSite DEF CreateCandidate, At, Orderly, AtSite
  <2>2. SetStatus(s, "discovered") /\ Goto(w, "validate")
    BY <1>4, <2>1 DEF CreateCandidate
  <2>3. worker'[w].pc = "validate" /\ worker'[w].site = s /\ worker'[w].success = 0
        /\ \A v \in Workers \ {w} : worker'[v] = worker[v]
    BY <1>a, <2>1, <2>2 DEF Goto, WorkerStates
  <2>4. status'[s] = "discovered"
    BY <1>c, <2>1, <2>2 DEF SetStatus
  <2>5. WorkerChange(w)
    BY <1>4, <2>1, <2>2, <2>3, SiteChange DEF CreateCandidate, CandidateStatus, Intermediate, Decided, historyVars
  <2> QED BY <2>3, <2>4, <2>5 DEF WorkerKeeps, At, Intermediate, Processing
<1>5. CASE ResetCandidate(w)
  <2>1. /\ At(w, "reset") /\ s \in Sites /\ worker[w].pc \in Visiting /\ worker[w].success = 0
    BY <1>5, <1>0, <1>b, VisitedSite DEF ResetCandidate, At
  <2>3. worker'[w].pc = "validate" /\ worker'[w].site = s /\ worker'[w].success = 0
        /\ \A v \in Workers \ {w} : worker'[v] = worker[v]
    BY <1>5, <1>a, <2>1 DEF ResetCandidate, Goto, WorkerStates
  <2>4. status'[s] = "discovered"
    BY <1>5, <1>c, <2>1 DEF SetStatus, ResetCandidate
  <2>5. \A t \in Sites \ {s} : columns'[t] = columns[t] /\ (t \in vetted => t \in vetted')
    BY <1>5, <1>c, <2>1 DEF ResetCandidate, NotVetted
  <2>6. WorkerChange(w)
    BY <1>5, <2>1, <2>3, <2>5, SiteChange DEF ResetCandidate, CandidateStatus, Intermediate, Decided
  <2> QED BY <2>3, <2>4, <2>6 DEF WorkerKeeps, At, Intermediate, Processing
<1>6. CASE Validate(w)
  <2>1. /\ At(w, "validate") /\ s \in Sites /\ worker[w].pc \in Visiting /\ worker[w].success = 0
    BY <1>6, <1>0, <1>b, VisitedSite DEF Validate, At
  <2>2. CASE SetStatus(s, "validation_failed") /\ Leave(w)
    <3>1. WorkerKeeps(w) /\ \A v \in Workers \ {w} : worker'[v] = worker[v]
      BY <2>2, LeaveTyped, QuietWorker DEF Typed
    <3> QED BY <1>6, <2>1, <2>2, <3>1, SiteChange DEF Validate, CandidateStatus, Decided, historyVars
  <2>3. ASSUME NEW score, SetStatus(s, "validated"),
               worker' = [worker EXCEPT ![w].pc = "discover", ![w].official = score]
        PROVE  WorkerChange(w) /\ WorkerKeeps(w)
    <3>1. worker'[w].pc = "discover" /\ worker'[w].site = s /\ worker'[w].success = 0
          /\ \A v \in Workers \ {w} : worker'[v] = worker[v]
      BY <1>a, <2>1, <2>3 DEF WorkerStates
    <3>2. status'[s] = "validated"
      BY <1>c, <2>1, <2>3 DEF SetStatus
    <3>3. WorkerChange(w)
      BY <1>6, <2>1, <2>3, <3>1, SiteChange DEF Validate, CandidateStatus, Intermediate, Decided, historyVars
    <3> QED BY <3>1, <3>2, <3>3 DEF WorkerKeeps, At, Intermediate, Processing
  <2> QED BY <1>6, <2>2, <2>3 DEF Validate
<1>7. CASE DiscoverColumns(w)
  <2>1. /\ At(w, "discover") /\ s \in Sites /\ worker[w].pc \in Visiting /\ worker[w].success = 0
    BY <1>7, <1>0, <1>b, VisitedSite DEF DiscoverColumns, At
  <2>2. CASE SetStatus(s, "failed") /\ Leave(w) /\ UNCHANGED <<columns, historyVars>>
    <3>1. WorkerKeeps(w) /\ \A v \in Workers \ {w} : worker'[v] = worker[v]
      BY <2>2, LeaveTyped, QuietWorker DEF Typed
    <3> QED BY <1>7, <2>1, <2>2, <3>1, SiteChange DEF DiscoverColumns, CandidateStatus, Decided, historyVars
  <2>3. ASSUME NEW new \in SUBSET Columns,
               SetStatus(s, "columns_discovered"),
               columns' = [columns EXCEPT ![s] =
                [k \in DOMAIN @ \cup new |->
                    IF k \in new THEN [status |-> "discovered", by |-> w] ELSE @[k]]],
               worker' = [worker EXCEPT ![w].pc = "trial", ![w].todo = new,
                                        ![w].listed = Cardinality(new)],
               NotVetted(s)
        PROVE  WorkerChange(w) /\ WorkerKeeps(w)
    <3>1. worker'[w].pc = "trial" /\ worker'[w].site = s /\ worker'[w].success = 0
          /\ worker'[w].todo = new /\ \A v \in Workers \ {w} : worker'[v] = worker[v]
      BY <1>a, <2>1, <2>3 DEF WorkerStates
    <3>2. status'[s] = "columns_discovered"
      BY <1>c, <2>1, <2>3 DEF SetStatus
    <3>3. /\ \A t \in Sites \ {s} : columns'[t] = columns[t] /\ (t \in vetted => t \in vetted')
          /\ columns'[s] = [k \in DOMAIN columns[s] \cup new |->
                    IF k \in new THEN [status |-> "discovered", by |-> w] ELSE columns[s][k]]
      BY <1>c, <2>1, <2>3 DEF NotVetted
    <3>4. \A k \in new : k \in DOMAIN columns'[s] /\ columns'[s][k].status = "discovered"
      BY <3>3
    <3>5. WorkerChange(w)
      BY <1>7, <2>1, <2>3, <3>1, <3>3, SiteChange DEF DiscoverColumns, CandidateStatus, Intermediate, Decided
    <3> QED BY <3>1, <3>2, <3>4, <3>5 DEF WorkerKeeps, At, Intermediate, Processing
  <2>4. CASE Goto(w, "failing") /\ UNCHANGED <<status, columns, retries, vetted, abandoned, crossed>>
    BY <1>7, <2>4, FailingWorker, SameCandidates DEF DiscoverColumns
  <2> QED BY <1>7, <2>2, <2>3, <2>4 DEF DiscoverColumns
<1>8. CASE TrialCrawl(w)
  <2>1. At(w, "trial") /\ s \in Sites /\ worker[w].pc \in Visiting
    BY <1>8, <1>0, VisitedSite DEF TrialCrawl, At
  <2>2. /\ \A k \in worker[w].todo : k \in DOMAIN columns[s] /\ columns[s][k].status = "discovered"
        /\ worker[w].success > 0 => Succeeded(columns[s])
        /\ status[s] \in Intermediate
    BY <2>1 DEF Orderly, Tried, AtSite, At, Processing
  <2>3. ASSUME NEW k \in worker[w].todo, NEW n \in Nat, NEW success \in Nat,
               columns' = [columns EXCEPT ![s][k].status =
                                 IF success > 0 THEN "trial_crawled" ELSE "failed"],
               worker' = [worker EXCEPT ![w].todo = @ \ {k}, ![w].found = @ + n,
                                        ![w].success = @ + success],
               UNCHANGED historyVars
        PROVE  WorkerChange(w) /\ WorkerKeeps(w)
    <3>1. worker'[w].pc = "trial" /\ worker'[w].site = s /\ worker'[w].success = worker[w].success + success
          /\ worker'[w].todo = worker[w].todo \ {k} /\ \A v \in Workers \ {w} : worker'[v] = worker[v]
      BY <1>a, <2>1, <2>3 DEF WorkerStates, At
    <3>2. columns[s][k] \in ColumnRows
      BY <2>1, <2>2, <2>3, VisitedSite
    <3> DEFINE tried == [columns[s][k] EXCEPT !.status = IF success > 0 THEN "trial_crawled" ELSE "failed"]
    <3>3. tried.status = IF success > 0 THEN "trial_crawled" ELSE "failed"
      BY <3>2 DEF ColumnRows
    <3>4. /\ \A t \in Sites \ {s} : columns'[t] = columns[t]
          /\ columns'[s] = [columns[s] EXCEPT ![k] = tried]
      BY <1>c, <2>1, <2>3
    <3> HIDE DEF tried
    <3>5. /\ DOMAIN columns'[s] = DOMAIN columns[s] /\ k \in DOMAIN columns[s]
          /\ columns'[s][k] = tried
          /\ \A j \in DOMAIN columns[s] \ {k} : columns'[s][j] = columns[s][j]
      BY <2>2, <2>3, <3>4
    <3>6. worker'[w].success > 0 => Succeeded(columns'[s])
      <4>1. CASE success > 0
        BY <3>3, <3>5, <4>1 DEF Succeeded
      <4>2. CASE ~(success > 0)
        <5>1. worker'[w].success = worker[w].success
          BY <2>3, <3>1, <4>2, <1>a, WorkerFields
        <5>2. ASSUME Succeeded(columns[s])  PROVE Succeeded(columns'[s])
          <6>1. PICK j \in DOMAIN columns[s] : columns[s][j].status = "trial_crawled"
            BY <5>2 DEF Succeeded
          <6>2. j # k
            BY <2>2, <2>3, <6>1
          <6> QED BY <3>5, <6>1, <6>2 DEF Succeeded
        <5> QED BY <2>2, <5>1, <5>2
      <4> QED BY <4>1, <4>2
    <3>7. \A j \in worker'[w].todo : j \in DOMAIN columns'[s] /\ columns'[s][j].status = "discovered"
      BY <2>2, <3>1, <3>5
    <3>8. WorkerChange(w)
      BY <1>8, <2>1, <2>2, <2>3, <3>1, <3>4 DEF TrialCrawl, WorkerChange, historyVars, Intermediate, Decided
    <3>9. status'[s] \in Intermediate
      BY <1>8, <2>2 DEF TrialCrawl
    <3> HIDE DEF s
    <3> QED BY <3>1, <3>6, <3>7, <3>8, <3>9 DEF WorkerKeeps, At, Processing
  <2>4. CASE Goto(w, "failing") /\ UNCHANGED <<columns, retries, vetted, abandoned, crossed>>
    BY <1>8, <2>4, FailingWorker, SameCandidates DEF TrialCrawl
  <2>5. PICK k \in worker[w].todo, n \in Nat, success \in Nat :
             \/ /\ k \in DOMAIN columns[worker[w].site]
                /\ columns' = [columns EXCEPT ![worker[w].site][k].status =
                                  IF success > 0 THEN "trial_crawled" ELSE "failed"]
                /\ worker' = [worker EXCEPT ![w].todo = @ \ {k}, ![w].found = @ + n,
                                            ![w].success = @ + success]
                /\ UNCHANGED historyVars
             \/ /\ Goto(w, "failing") /\ dropped' = dropped \cup {worker[w].site}
                /\ UNCHANGED <<columns, retries, vetted, abandoned, crossed>>
    BY <1>8, TrialOutcome
  <2> QED BY <2>3, <2>4, <2>5
<1>9. CASE ScoreCandidate(w)
  <2>1. At(w, "trial") /\ s \in Sites /\ worker[w].pc \in Visiting
    BY <1>9, <1>0, VisitedSite DEF ScoreCandidate, At
  <2>2. PICK richness \in Richness(worker[w].success) :
          SetStatus(s, IF Passes(worker[w].official, worker[w].listed, worker[w].found,
                                 worker[w].success, richness)
                       THEN "pending_approval" ELSE "rejected")
    BY <1>9 DEF ScoreCandidate
  <2> DEFINE new == IF Passes(worker[w].official, worker[w].listed, worker[w].found,
                              worker[w].success, richness)
                    THEN "pending_approval" ELSE "rejected"
  <2>3. new = "pending_approval" /\ Threshold > 50 => Succeeded(columns[s])
    <3>1. SUFFICES ASSUME new = "pending_approval", Threshold > 50 PROVE Succeeded(columns[s])
      OBVIOUS
    <3>2. worker[w].success # 0
      <4> SUFFICES ASSUME worker[w].success = 0 PROVE FALSE
        OBVIOUS
      <4>1. richness = 0
        BY DEF Richness
      <4> QED BY <1>a, <3>1, <4>1, WorkerFields, PassNeedsSuccess
    <3>3. worker[w].success > 0
      BY <1>a, <3>2, WorkerFields
    <3> QED BY <2>1, <3>3 DEF Orderly, Tried
  <2>4. new \in CandidateStatus \ (Decided \ {"pending_approval"}) /\ SetStatus(s, new)
    BY <2>2 DEF CandidateStatus, Decided
  <2> HIDE DEF new
  <2>5. WorkerKeeps(w) /\ \A v \in Workers \ {w} : worker'[v] = worker[v]
    BY <1>9, LeaveTyped, QuietWorker DEF Typed, ScoreCandidate
  <2> QED BY <1>9, <2>1, <2>3, <2>4, <2>5, SiteChange DEF ScoreCandidate, historyVars
<1>10. CASE Finish(w)
  <2>1. worker'[w].pc = "save" /\ worker'[w].success = 0
        /\ \A v \in Workers \ {w} : worker'[v] = worker[v]
    BY <1>10, <1>a, <1>b DEF Finish, At, WorkerStates
  <2> QED BY <1>10, <2>1, QuietWorker, SameCandidates DEF Finish, candidateVars, historyVars
<1>11. CASE SaveRun(w)
  BY <1>11, IdleAgain, SameCandidates DEF SaveRun, candidateVars, historyVars
<1>12. CASE FailRun(w)
  BY <1>12, IdleAgain, SameCandidates DEF FailRun, candidateVars, historyVars
<1>13. CASE FailCandidate(w)
  <2>1. worker[w].pc \in Visiting
    BY <1>13 DEF FailCandidate, Visiting
  <2>2. WorkerKeeps(w) /\ \A v \in Workers \ {w} : worker'[v] = worker[v]
    BY <1>13, LeaveTyped, QuietWorker DEF Typed, FailCandidate
  <2> QED BY <1>13, <2>1, <2>2, SiteChange DEF FailCandidate, CandidateStatus, Decided, historyVars
<1>14. CASE WorkerError(w)
  BY <1>14, FailingWorker, SameCandidates DEF WorkerError, candidateVars
<1>15. CASE WorkerDies(w)
  BY <1>15, IdleAgain, SameCandidates DEF WorkerDies, Lose, candidateVars
<1> QED BY <1>2, <1>3, <1>4, <1>5, <1>6, <1>7, <1>8, <1>9, <1>10, <1>11, <1>12, <1>13,
           <1>14, <1>15 DEF Execute

(* A worker that has the run to itself and takes a step keeps it all.      *)
LEMMA WorkerStepOrder ==
    ASSUME Typed, Typed', Orderly, NEW w \in Workers, ~At(w, "idle"),
           request' = request, WorkerChange(w), WorkerKeeps(w)
    PROVE  Orderly'
<1>1. \A v \in Workers \ {w} : At(v, "idle") /\ worker'[v] = worker[v]
  BY DEF Orderly, Solo, WorkerChange
<1>2. Solo'
  BY <1>1 DEF Solo, At
<1>3. AtSite' /\ Tried'
  <2>1. ASSUME NEW v \in Workers \ {w}
        PROVE  /\ worker'[v].pc = "idle" /\ worker'[v].success = 0
    BY <1>1 DEF At, Orderly, Tried
  <2> QED BY <2>1 DEF WorkerKeeps, AtSite, Tried, At, Processing
<1>4. Claims'
  BY DEF Orderly, Claims, WorkerChange, Typed, LocalsTyped, Decided
<1>5. ApprovedIsVetted'
  BY DEF Orderly, ApprovedIsVetted, WorkerChange, Decided
<1>6. Agreement'
  BY DEF Orderly, Agreement, WorkerChange, Decided
<1>7. Activatable'
  BY DEF Orderly, Activatable, WorkerChange, Decided
<1> QED BY <1>2, <1>3, <1>4, <1>5, <1>6, <1>7 DEF Orderly

LEMMA ClaimOrder ==
    ASSUME Typed, Orderly, NEW w \in Workers, At(w, "idle"), Claim(w), ~crossed'
    PROVE  Solo' /\ WorkerKeeps(w) /\ \A v \in Workers : worker'[v].pc # "idle" => v = w
<1>1. \A v \in Workers : At(v, "idle")
  BY DEF Claim
<1>2. worker'[w].pc = "search" /\ worker'[w].success = worker[w].success
      /\ \A v \in Workers \ {w} : worker'[v] = worker[v]
  BY DEF Claim, Typed, LocalsTyped, WorkerStates
<1>3. worker[w].success = 0
  BY DEF Orderly, Tried, At
<1> QED BY <1>1, <1>2, <1>3, QuietWorker DEF Solo, At

(* What administrators do: they write only candidates that are decided,    *)
(* and leave them so or end them.                                          *)
OthersChange ==
    /\ columns' = columns
    /\ \A s \in Sites : status'[s] # status[s] =>
          /\ status[s] \in {"pending_approval", "approved", "activating"}
          /\ status'[s] \in {"approved", "activating", "activated", "rejected", "failed"}

LEMMA OthersOrder ==
    ASSUME Typed, Orderly, OthersChange, worker' = worker
    PROVE  Solo' /\ AtSite' /\ Tried' /\ Activatable'
<1>1. Solo'
  BY DEF Orderly, Solo, At
<1>2. AtSite'
  <2>1. ASSUME NEW w \in Workers, worker[w].pc \in Visiting
        PROVE  status'[worker[w].site] = status[worker[w].site]
    BY <2>1, VisitedSite, Visited DEF OthersChange, Decided
  <2> QED BY <2>1 DEF Orderly, AtSite, At, Visiting
<1>3. Tried'
  BY DEF Orderly, Tried, OthersChange, At
<1>4. Activatable'
  BY DEF Orderly, Activatable, OthersChange
<1> QED BY <1>1, <1>2, <1>3, <1>4

(* Requests that only move on.                                             *)
LEMMA RequestMoves ==
    ASSUME Typed, Orderly, NEW r \in Requests, UNCHANGED candidateVars, vetted' = vetted,
           \A q \in Requests : request'[q].pc \in Activations =>
              request[q].pc \in Activations /\ request'[q].site = request[q].site
    PROVE  Claims' /\ ApprovedIsVetted' /\ Agreement' /\ OthersChange
BY DEF Orderly, Claims, ApprovedIsVetted, Agreement, OthersChange, candidateVars

LEMMA ProceedMoves ==
    ASSUME Typed, NEW r \in Requests, NEW pc \in RequestSteps,
           Proceed(r, pc) \/ EndRequest(r), pc \in Activations => request[r].pc \in Activations
    PROVE  \A q \in Requests : request'[q].pc \in Activations =>
              request[q].pc \in Activations /\ request'[q].site = request[q].site
<1>1. CASE Proceed(r, pc)
  BY <1>1 DEF Proceed, Typed, LocalsTyped, RequestStates
<1>2. CASE EndRequest(r)
  <2>1. IdleRequest.pc \notin Activations
    BY DEF IdleRequest, Activations
  <2> QED BY <1>2, <2>1 DEF EndRequest, Typed, LocalsTyped
<1> QED BY <1>1, <1>2

(* The answers to requests and the decisions.                              *)
LEMMA RequestOrder ==
    ASSUME Typed, Orderly, NEW r \in Requests,
           \/ CreateByAdmin(r) \/ ScanGaps(r) \/ RetryRead(r) \/ RetryWrite(r) \/ Send(r)
           \/ MarkRead(r) \/ MarkWrite(r) \/ ReadColumns(r) \/ Materialize(r) \/ Compensate(r)
           \/ ActivationError(r) \/ RequestDies(r)
    PROVE  /\ Claims' /\ ApprovedIsVetted' /\ Agreement' /\ OthersChange /\ worker' = worker
           /\ sources' \ sources \subseteq vetted
<1>0. RequestSteps = {"idle", "inline", "send", "mark_read", "mark_write", "retry_write",
                      "read_columns", "materialize", "compensate"}
      /\ Activations = {"read_columns", "materialize", "compensate"}
  BY DEF RequestSteps, Activations
<1>1. CASE CreateByAdmin(r) \/ ScanGaps(r)
  <2>1. \A q \in Requests : request'[q].pc \in Activations =>
              request[q].pc \in Activations /\ request'[q].site = request[q].site
    <3>1. CASE \E pc \in {"inline", "send"} : Proceed(r, pc)
      BY <1>0, <3>1, ProceedMoves
    <3>2. CASE UNCHANGED request
      BY <3>2
    <3> QED BY <1>1, <3>1, <3>2 DEF CreateByAdmin, ScanGaps, Create
  <2> QED BY <1>1, <2>1, RequestMoves DEF CreateByAdmin, ScanGaps, Create, candidateVars, historyVars
<1>2. CASE RetryRead(r) \/ RetryWrite(r) \/ Send(r) \/ MarkRead(r) \/ MarkWrite(r)
  <2>1. \E pc \in {"retry_write", "send", "mark_read", "mark_write"} : Proceed(r, pc) \/ EndRequest(r)
    BY <1>2 DEF RetryRead, RetryWrite, Send, MarkRead, MarkWrite
  <2>2. \A q \in Requests : request'[q].pc \in Activations =>
              request[q].pc \in Activations /\ request'[q].site = request[q].site
    BY <1>0, <2>1, ProceedMoves
  <2>3. UNCHANGED candidateVars /\ vetted' = vetted /\ worker' = worker
    BY <1>2 DEF RetryRead, RetryWrite, Send, MarkRead, MarkWrite, historyVars
  <2> QED BY <2>2, <2>3, RequestMoves DEF candidateVars
<1>3. CASE ReadColumns(r) \/ ActivationError(r) \/ RequestDies(r)
  <2>1. /\ \E pc \in {"materialize", "compensate"} : Proceed(r, pc) \/ EndRequest(r)
        /\ request[r].pc \in Activations \/ EndRequest(r)
    BY <1>0, <1>3 DEF ReadColumns, ActivationError, RequestDies, Asked
  <2>2. \A q \in Requests : request'[q].pc \in Activations =>
              request[q].pc \in Activations /\ request'[q].site = request[q].site
    <3>1. CASE EndRequest(r)
      BY <1>0, <3>1, ProceedMoves
    <3>2. CASE ~EndRequest(r)
      BY <1>0, <2>1, <3>2, ProceedMoves
    <3> QED BY <3>1, <3>2
  <2>3. UNCHANGED candidateVars /\ vetted' = vetted /\ worker' = worker
    BY <1>3 DEF ReadColumns, ActivationError, RequestDies, Lose, historyVars
  <2> QED BY <2>2, <2>3, RequestMoves DEF candidateVars
<1> DEFINE s == request[r].site
<1>4. CASE Materialize(r) \/ Compensate(r)
  <2>1. /\ request[r].pc \in Activations /\ s \in Sites /\ status[s] = "activating"
        /\ s \notin sources /\ s \in vetted
    BY <1>0, <1>4 DEF Materialize, Compensate, Asked, Orderly, Claims, Agreement, ApprovedIsVetted, Typed, LocalsTyped
  <2>2. PICK new \in {"activated", "failed"} : SetStatus(s, new) /\ (new = "activated" <=> sources' = sources \cup {s})
             /\ (new = "failed" <=> sources' = sources)
    BY <1>4, <2>1 DEF Materialize, Compensate
  <2>3. EndRequest(r) /\ columns' = columns /\ vetted' = vetted /\ worker' = worker
    BY <1>4, <2>1 DEF Materialize, Compensate, historyVars
  <2>4. /\ status'[s] = new /\ \A t \in Sites \ {s} : status'[t] = status[t]
    BY <2>1, <2>2, SetStatusTyped DEF Typed, RowsTyped, CandidateStatus
  <2>5. /\ request'[r].pc \notin Activations /\ \A q \in Requests \ {r} : request'[q] = request[q]
    BY <1>0, <2>3 DEF EndRequest, IdleRequest, Typed, LocalsTyped
  <2>6. Claims'
    BY <2>1, <2>4, <2>5 DEF Orderly, Claims, Typed, LocalsTyped
  <2>7. ApprovedIsVetted'
    BY <2>2, <2>3, <2>4 DEF Orderly, ApprovedIsVetted
  <2>8. Agreement'
    BY <2>1, <2>2, <2>4 DEF Orderly, Agreement
  <2>9. OthersChange
    BY <2>1, <2>2, <2>3, <2>4 DEF OthersChange
  <2> QED BY <2>1, <2>2, <2>3, <2>6, <2>7, <2>8, <2>9
<1> QED BY <1>1, <1>2, <1>3, <1>4

LEMMA AdministratorOrder ==
    ASSUME Typed, Orderly, NEW s \in Sites,
           Approve(s) \/ Reject(s) \/ \E r \in Requests : Activate(r, s)
    PROVE  /\ Claims' /\ ApprovedIsVetted' /\ Agreement' /\ OthersChange /\ worker' = worker
           /\ sources' = sources
<1> USE DEF Typed, RowsTyped
<1>1. CASE Approve(s)
  <2>1. /\ status[s] = "pending_approval" /\ status'[s] = "approved"
        /\ \A t \in Sites \ {s} : status'[t] = status[t]
    BY <1>1, SetStatusTyped DEF Approve, Approvable, CandidateStatus
  <2> QED BY <1>1, <2>1 DEF Approve, Orderly, Claims, ApprovedIsVetted, Agreement, OthersChange, LocalsTyped
<1>2. CASE Reject(s)
  <2>1. /\ status[s] \in {"pending_approval", "approved"} /\ status'[s] = "rejected"
        /\ \A t \in Sites \ {s} : status'[t] = status[t]
    BY <1>2, SetStatusTyped DEF Reject, Rejectable, CandidateStatus
  <2> QED BY <1>2, <2>1 DEF Reject, NotVetted, Orderly, Claims, ApprovedIsVetted, Agreement, OthersChange, LocalsTyped
<1>3. ASSUME NEW r \in Requests, Activate(r, s)
      PROVE  Claims' /\ ApprovedIsVetted' /\ Agreement' /\ OthersChange /\ worker' = worker
             /\ sources' = sources
  <2>1. /\ status[s] = "approved" /\ status'[s] = "activating"
        /\ \A t \in Sites \ {s} : status'[t] = status[t]
    BY <1>3, SetStatusTyped DEF Activate, ClaimableForActivation, CandidateStatus
  <2>2. /\ request'[r].site = s /\ \A q \in Requests \ {r} : request'[q] = request[q]
    BY <1>3 DEF Activate, LocalsTyped
  <2>3. \A q \in Requests : request[q].pc \in Activations => request[q].site # s
    BY <2>1 DEF Orderly, Claims
  <2>4. Claims'
    BY <2>1, <2>2, <2>3 DEF Orderly, Claims, LocalsTyped
  <2> QED BY <1>3, <2>1, <2>4 DEF Activate, Orderly, ApprovedIsVetted, Agreement, OthersChange, historyVars
<1> QED BY <1>1, <1>2, <1>3

(* What a step may do to decisions.                                        *)
DecisionStep ==
    /\ sources' \ sources \subseteq vetted
    /\ \A s \in Sites : status[s] \in {"approved", "activating"} =>
          status'[s] \in {"approved", "rejected", "activating", "activated", "failed"}

LEMMA OrderStep ==
    ASSUME Typed, Typed', Orderly, [Next]_vars
    PROVE  DecisionStep /\ (~crossed' => Orderly')
<1>1. ASSUME NEW w \in Workers, Execute(w) \/ FailCandidate(w) \/ WorkerError(w) \/ WorkerDies(w)
      PROVE  DecisionStep /\ Orderly'
  <2>1. WorkerChange(w) /\ WorkerKeeps(w)
    BY <1>1, WorkerOrder
  <2>2. ~At(w, "idle") /\ request' = request
    BY <1>1 DEF At, Execute, Search, NextHit, CreateCandidate, ResetCandidate, Validate,
                DiscoverColumns, TrialCrawl, ScoreCandidate, Finish, SaveRun, FailRun,
                FailCandidate, WorkerError, WorkerDies, Processing
  <2> QED BY <2>1, <2>2, WorkerStepOrder DEF DecisionStep, WorkerChange, Decided
<1>2. ASSUME NEW w \in Workers, Deliver(w) \/ \E r \in Requests : ExecuteInline(w, r)
      PROVE  DecisionStep /\ (~crossed' => Orderly')
  <2>1. At(w, "idle") /\ UNCHANGED candidateVars
        /\ (Claim(w) \/ UNCHANGED <<rowVars, worker, historyVars>>)
    BY <1>2 DEF Deliver, ExecuteInline
  <2>2. \A q \in Requests : request'[q].pc \in Activations =>
              request[q].pc \in Activations /\ request'[q].site = request[q].site
    <3>1. CASE \E r \in Requests : EndRequest(r)
      <4>1. "idle" \in RequestSteps \ Activations
        BY DEF RequestSteps, Activations
      <4> QED BY <3>1, <4>1, ProceedMoves
    <3> QED BY <1>2, <3>1 DEF Deliver, ExecuteInline
  <2>3. vetted' = vetted
    BY <2>1 DEF Claim, historyVars
  <2>4. Claims' /\ ApprovedIsVetted' /\ Agreement' /\ OthersChange
    BY <2>1, <2>2, <2>3 DEF Orderly, Claims, ApprovedIsVetted, Agreement, OthersChange, candidateVars
  <2>5. DecisionStep
    BY <2>1 DEF DecisionStep, candidateVars
  <2>6. CASE UNCHANGED worker
    BY <2>4, <2>5, <2>6, OthersOrder DEF Orderly
  <2>7. CASE Claim(w) /\ ~crossed'
    <3>1. /\ Solo' /\ WorkerKeeps(w) /\ \A v \in Workers : worker'[v].pc # "idle" => v = w
          /\ \A v \in Workers \ {w} : worker'[v] = worker[v]
      BY <2>1, <2>7, ClaimOrder DEF Claim, Typed, LocalsTyped
    <3>2. AtSite' /\ Tried'
      BY <3>1 DEF WorkerKeeps, AtSite, Tried, At, Processing, Orderly
    <3>3. Activatable'
      BY <2>1 DEF Orderly, Activatable, candidateVars
    <3> QED BY <2>4, <2>5, <3>1, <3>2, <3>3 DEF Orderly
  <2> QED BY <2>1, <2>5, <2>6, <2>7
<1>3. ASSUME NEW r \in Requests,
             \/ CreateByAdmin(r) \/ ScanGaps(r) \/ RetryRead(r) \/ RetryWrite(r) \/ Send(r)
             \/ MarkRead(r) \/ MarkWrite(r) \/ ReadColumns(r) \/ Materialize(r) \/ Compensate(r)
             \/ ActivationError(r) \/ RequestDies(r)
      PROVE  DecisionStep /\ Orderly'
  <2>1. /\ Claims' /\ ApprovedIsVetted' /\ Agreement' /\ OthersChange /\ worker' = worker
        /\ sources' \ sources \subseteq vetted
    BY <1>3, RequestOrder
  <2> QED BY <2>1, OthersOrder DEF DecisionStep, OthersChange, Orderly
<1>4. ASSUME NEW s \in Sites, Approve(s) \/ Reject(s) \/ \E r \in Requests : Activate(r, s)
      PROVE  DecisionStep /\ Orderly'
  <2>1. /\ Claims' /\ ApprovedIsVetted' /\ Agreement' /\ OthersChange /\ worker' = worker
        /\ sources' = sources
    BY <1>4, AdministratorOrder
  <2> QED BY <2>1, OthersOrder DEF DecisionStep, OthersChange, Orderly
<1>5. CASE MessageLost \/ UNCHANGED vars
  <2>1. UNCHANGED <<candidateVars, worker, request, vetted>>
    BY <1>5 DEF MessageLost, Lose, vars, historyVars
  <2>2. Claims' /\ ApprovedIsVetted' /\ Agreement' /\ OthersChange
    BY <2>1 DEF Orderly, Claims, ApprovedIsVetted, Agreement, OthersChange, candidateVars
  <2> QED BY <2>1, <2>2, OthersOrder DEF DecisionStep, Orderly, candidateVars
<1> QED BY <1>1, <1>2, <1>3, <1>4, <1>5 DEF Next, Answer

LEMMA OrderInit == Init => Orderly
<1> SUFFICES ASSUME Init PROVE Orderly
  OBVIOUS
<1>1. \A w \in Workers : worker[w].pc = "idle" /\ worker[w].success = 0
  BY DEF Init, IdleWorker
<1>2. \A r \in Requests : request[r].pc = "idle"
  BY DEF Init, IdleRequest
<1>3. sources = {} /\ \A s \in Sites : status[s] = "absent"
  BY DEF Init
<1>4. Solo /\ AtSite /\ Tried
  BY <1>1 DEF Solo, AtSite, Tried, At, Processing
<1>5. Claims /\ ApprovedIsVetted /\ Agreement /\ Activatable
  BY <1>2, <1>3 DEF Claims, ApprovedIsVetted, Agreement, Activatable, Activations
<1> QED BY <1>4, <1>5 DEF Orderly

LEMMA CrossedStays == [Next]_vars /\ crossed => crossed'
<1> SUFFICES ASSUME [Next]_vars, crossed PROVE crossed'
  OBVIOUS
<1>1. ASSUME NEW w \in Workers,
             Deliver(w) \/ Execute(w) \/ FailCandidate(w) \/ WorkerError(w) \/ WorkerDies(w)
      PROVE  crossed'
  BY <1>1 DEF Deliver, Claim, Execute, Search, NextHit, CreateCandidate, ResetCandidate, Validate,
              DiscoverColumns, TrialCrawl, ScoreCandidate, Finish, SaveRun, FailRun, FailCandidate,
              WorkerError, WorkerDies, Lose, historyVars
<1>2. ASSUME NEW r \in Requests,
             \/ CreateByAdmin(r) \/ ScanGaps(r) \/ RetryRead(r) \/ Answer(r)
             \/ ActivationError(r) \/ RequestDies(r)
      PROVE  crossed'
  BY <1>2 DEF CreateByAdmin, ScanGaps, Create, RetryRead, Answer, RetryWrite, Send, MarkRead,
              MarkWrite, ReadColumns, Materialize, Compensate, ExecuteInline, Claim,
              ActivationError, RequestDies, Lose, historyVars
<1>3. ASSUME NEW s \in Sites, Approve(s) \/ Reject(s) \/ \E r \in Requests : Activate(r, s)
      PROVE  crossed'
  BY <1>3 DEF Approve, Reject, Activate, historyVars
<1>4. CASE MessageLost \/ UNCHANGED vars
  BY <1>4 DEF MessageLost, Lose, vars, historyVars
<1> QED BY <1>1, <1>2, <1>3, <1>4 DEF Next

-----------------------------------------------------------------------------
(* Candidates in the middle of their inspection.                           *)

(* The worker that makes a status intermediate goes on with the candidate, *)
(* and one that leaves a candidate gives it another status or says so.     *)
Watched(s) == \E w \in Workers : worker[w].pc \in Processing /\ worker[w].site = s

LEMMA WatchStep ==
    ASSUME Typed, NothingForgotten, [Next]_vars
    PROVE  NothingForgotten'
<1> SUFFICES ASSUME NEW s \in Sites \ dropped', status'[s] \in Intermediate, ~abandoned'
             PROVE  Watched(s)'
  BY DEF NothingForgotten, Watched
<1>a. s \notin dropped /\ ~abandoned => (status[s] \in Intermediate => Watched(s))
  BY DEF NothingForgotten, Watched
<1>b. worker \in [Workers -> WorkerStates] /\ status \in [Sites -> CandidateStatus]
  BY DEF Typed, LocalsTyped, RowsTyped
(* A step that changes no worker but w.                                    *)
<1>c. ASSUME NEW w \in Workers, \A v \in Workers \ {w} : worker'[v] = worker[v],
             s \notin dropped, ~abandoned,
             \/ status[s] \in Intermediate /\ ~(worker[w].pc \in Processing /\ worker[w].site = s)
             \/ worker'[w].pc \in Processing /\ worker'[w].site = s
      PROVE  Watched(s)'
  BY <1>c, <1>a DEF Watched
<1>1. ASSUME NEW w \in Workers, Execute(w) \/ FailCandidate(w) \/ WorkerError(w) \/ WorkerDies(w)
      PROVE  Watched(s)'
  <2>0. {"create", "reset", "validate", "discover", "trial"} = Visiting
    BY DEF Visiting, Processing
  <2>1. worker[w].pc \in Visiting => worker[w].site \in Sites
    BY VisitedSite
  <2> DEFINE site == worker[w].site
  <2>2. CASE Search(w) \/ NextHit(w) \/ Finish(w) \/ SaveRun(w) \/ FailRun(w)
    <3>1. /\ UNCHANGED <<candidateVars, historyVars>> /\ worker[w].pc \notin Processing
          /\ \A v \in Workers \ {w} : worker'[v] = worker[v]
      BY <1>b, <2>2 DEF Search, NextHit, Finish, SaveRun, FailRun, At, EndWorker, Processing
    <3> QED BY <3>1, <1>c DEF candidateVars, historyVars
  <2>3. CASE CreateCandidate(w) \/ ResetCandidate(w)
    <3>1. worker[w].pc \notin Processing /\ site \in Sites /\ UNCHANGED <<dropped, abandoned>>
      BY <2>0, <2>1, <2>3 DEF CreateCandidate, ResetCandidate, At, Processing, historyVars
    <3>2. CASE SetStatus(site, "discovered") /\ Goto(w, "validate")
      <4>1. /\ worker'[w].pc = "validate" /\ worker'[w].site = site
            /\ \A v \in Workers \ {w} : worker'[v] = worker[v]
        BY <1>b, <3>2 DEF Goto, WorkerStates
      <4>2. s # site => status'[s] = status[s]
        BY <1>b, <3>2 DEF SetStatus
      <4> QED BY <1>c, <3>1, <4>1, <4>2 DEF Processing
    <3>3. CASE Goto(w, "failing") /\ UNCHANGED status
      BY <1>b, <1>c, <3>1, <3>3 DEF Goto
    <3> QED BY <2>3, <3>2, <3>3 DEF CreateCandidate, ResetCandidate
  <2>4. CASE Validate(w) \/ DiscoverColumns(w) \/ TrialCrawl(w) \/ ScoreCandidate(w) \/ FailCandidate(w)
    <3>1. worker[w].pc \in Processing /\ site \in Sites
      BY <2>1, <2>4 DEF Validate, DiscoverColumns, TrialCrawl, ScoreCandidate, FailCandidate, At,
                        Processing, Visiting
    <3>2. CASE /\ \E new \in CandidateStatus \ Intermediate : SetStatus(site, new)
               /\ Leave(w) /\ UNCHANGED <<dropped, abandoned>>
      <4>1. s # site /\ status'[s] = status[s]
        BY <1>b, <3>1, <3>2 DEF SetStatus
      <4>2. \A v \in Workers \ {w} : worker'[v] = worker[v]
        BY <3>2, LeaveTyped DEF Typed
      <4> QED BY <1>c, <3>2, <4>1, <4>2
    <3>3. CASE /\ \E new \in CandidateStatus : SetStatus(site, new)
               /\ worker'[w].pc \in Processing /\ worker'[w].site = site
               /\ UNCHANGED <<dropped, abandoned>> /\ \A v \in Workers \ {w} : worker'[v] = worker[v]
      <4>1. s # site => status'[s] = status[s]
        BY <1>b, <3>1, <3>3 DEF SetStatus
      <4> QED BY <1>c, <3>3, <4>1
    <3>4. CASE Goto(w, "failing") /\ dropped' = dropped \cup {site} /\ UNCHANGED <<status, abandoned>>
      <4>1. s # site /\ \A v \in Workers \ {w} : worker'[v] = worker[v]
        BY <1>b, <3>4 DEF Goto
      <4> QED BY <1>c, <3>4, <4>1
    <3>5. CASE Validate(w)
      <4>1. {"validation_failed", "validated"} \subseteq CandidateStatus /\ "validation_failed" \notin Intermediate
        BY DEF CandidateStatus, Intermediate
      <4>2. ASSUME NEW score, worker' = [worker EXCEPT ![w].pc = "discover", ![w].official = score]
            PROVE  /\ worker'[w].pc \in Processing /\ worker'[w].site = site
                   /\ \A v \in Workers \ {w} : worker'[v] = worker[v]
        BY <1>b, <4>2 DEF WorkerStates, Processing
      <4> QED BY <3>2, <3>3, <3>5, <4>1, <4>2 DEF Validate, historyVars
    <3>6. CASE DiscoverColumns(w)
      <4>1. {"failed", "columns_discovered"} \subseteq CandidateStatus /\ "failed" \notin Intermediate
        BY DEF CandidateStatus, Intermediate
      <4>2. ASSUME NEW new, worker' = [worker EXCEPT ![w].pc = "trial", ![w].todo = new,
                                                    ![w].listed = Cardinality(new)]
            PROVE  /\ worker'[w].pc \in Processing /\ worker'[w].site = site
                   /\ \A v \in Workers \ {w} : worker'[v] = worker[v]
        BY <1>b, <4>2 DEF WorkerStates, Processing
      <4> QED BY <3>2, <3>3, <3>4, <3>6, <4>1, <4>2 DEF DiscoverColumns, historyVars
    <3>7. CASE TrialCrawl(w)
      <4>1. status' = status /\ worker[w].pc = "trial"
        BY <3>7 DEF TrialCrawl, At
      <4>2. PICK k \in worker[w].todo, n \in Nat, success \in Nat :
             \/ /\ k \in DOMAIN columns[worker[w].site]
                /\ columns' = [columns EXCEPT ![worker[w].site][k].status =
                                  IF success > 0 THEN "trial_crawled" ELSE "failed"]
                /\ worker' = [worker EXCEPT ![w].todo = @ \ {k}, ![w].found = @ + n,
                                            ![w].success = @ + success]
                /\ UNCHANGED historyVars
             \/ /\ Goto(w, "failing") /\ dropped' = dropped \cup {worker[w].site}
                /\ UNCHANGED <<columns, retries, vetted, abandoned, crossed>>
        BY <3>7, TrialOutcome
      <4>3. CASE worker' = [worker EXCEPT ![w].todo = @ \ {k}, ![w].found = @ + n,
                                         ![w].success = @ + success] /\ UNCHANGED historyVars
        <5>1. /\ worker'[w].pc \in Processing /\ worker'[w].site = site
              /\ \A v \in Workers \ {w} : worker'[v] = worker[v]
          BY <1>b, <3>1, <4>3 DEF WorkerStates
        <5> QED BY <1>c, <4>1, <4>3, <5>1 DEF historyVars
      <4> QED BY <3>4, <4>1, <4>2, <4>3
    <3>8. CASE ScoreCandidate(w) \/ FailCandidate(w)
      <4>1. {"pending_approval", "rejected", "failed"} \subseteq CandidateStatus \ Intermediate
        BY DEF CandidateStatus, Intermediate
      <4>2. \E new \in {"pending_approval", "rejected", "failed"} : SetStatus(site, new)
        BY <3>8 DEF ScoreCandidate, FailCandidate
      <4> QED BY <3>2, <3>8, <4>1, <4>2 DEF ScoreCandidate, FailCandidate, historyVars
    <3> QED BY <2>4, <3>5, <3>6, <3>7, <3>8
  <2>5. CASE WorkerError(w)
    <3>1. /\ UNCHANGED <<status, abandoned>> /\ \A v \in Workers \ {w} : worker'[v] = worker[v]
          /\ worker[w].pc \in Processing => dropped' = dropped \cup {site}
          /\ dropped \subseteq dropped'
      BY <1>b, <2>5 DEF WorkerError, Goto, candidateVars
    <3> QED BY <1>c, <3>1
  <2>6. CASE WorkerDies(w)
    BY <2>6 DEF WorkerDies, Lose
  <2> QED BY <1>1, <2>2, <2>3, <2>4, <2>5, <2>6 DEF Execute
<1>2. ASSUME NEW w \in Workers, Deliver(w) \/ \E r \in Requests : ExecuteInline(w, r)
      PROVE  Watched(s)'
  <2>1. /\ At(w, "idle") /\ UNCHANGED <<candidateVars, dropped, abandoned>>
        /\ \A v \in Workers \ {w} : worker'[v] = worker[v]
    BY <1>2, <1>b DEF Deliver, ExecuteInline, Claim, historyVars
  <2> QED BY <2>1, <1>c DEF candidateVars, At, Processing
<1>3. ASSUME NEW r \in Requests,
             \/ CreateByAdmin(r) \/ ScanGaps(r) \/ RetryRead(r) \/ RetryWrite(r) \/ Send(r)
             \/ MarkRead(r) \/ MarkWrite(r) \/ ReadColumns(r) \/ Materialize(r) \/ Compensate(r)
             \/ ActivationError(r) \/ RequestDies(r)
      PROVE  Watched(s)'
  <2>1. worker' = worker /\ dropped' = dropped /\ (abandoned => abandoned')
    BY <1>3 DEF CreateByAdmin, ScanGaps, Create, RetryRead, RetryWrite, Send, MarkRead,
                MarkWrite, ReadColumns, Materialize, Compensate, ActivationError, RequestDies, Lose, historyVars
  <2>2. status' = status \/ \E t \in Sites, new \in {"activated", "failed"} : SetStatus(t, new)
    <3>1. request[r].pc \in Activations => request[r].site \in Sites
      BY DEF Typed, LocalsTyped
    <3> QED BY <1>3, <3>1 DEF CreateByAdmin, ScanGaps, Create, RetryRead, RetryWrite, Send, MarkRead,
                MarkWrite, ReadColumns, Materialize, Compensate, ActivationError, RequestDies, Lose,
                candidateVars, Activations, Asked
  <2>3. status'[s] = status[s]
    BY <1>b, <2>2 DEF SetStatus, Intermediate
  <2> QED BY <1>a, <2>1, <2>3 DEF Watched
<1>4. ASSUME NEW t \in Sites, Approve(t) \/ Reject(t) \/ \E r \in Requests : Activate(r, t)
      PROVE  Watched(s)'
  <2>1. worker' = worker /\ dropped' = dropped /\ abandoned' = abandoned
        /\ \E new \in {"approved", "rejected", "activating"} : SetStatus(t, new)
    BY <1>4 DEF Approve, Reject, Activate, historyVars
  <2>2. status'[s] = status[s]
    BY <1>b, <2>1 DEF SetStatus, Intermediate
  <2> QED BY <1>a, <2>1, <2>2 DEF Watched
<1>5. CASE MessageLost \/ UNCHANGED vars
  BY <1>a, <1>5 DEF MessageLost, Lose, vars, candidateVars, historyVars, Watched
<1> QED BY <1>1, <1>2, <1>3, <1>4, <1>5 DEF Next, Answer

-----------------------------------------------------------------------------
(* The theorems.                                                           *)

LEMMA TypedAlways == Spec => []Typed
<1>1. Init => Typed
  BY TypedInit
<1>2. Typed /\ [Next]_vars => Typed'
  BY TypedStep
<1> QED BY <1>1, <1>2, PTL DEF Spec

LEMMA OrderlyAlways == Spec => [](~crossed => Orderly)
<1>1. Init => (~crossed => Orderly)
  BY OrderInit
<1>2. Typed /\ Typed' /\ (~crossed => Orderly) /\ [Next]_vars => (~crossed' => Orderly')
  BY OrderStep, CrossedStays
<1> QED BY <1>1, <1>2, TypedAlways, PTL DEF Spec

(* Every row, worker and request stays in its type, and the run is claimed *)
(* at most once more than it was made pending again, whatever is lost,     *)
(* repeated or executed at once (claim_run, retry).                        *)
THEOREM TypeCorrect == Spec => []TypeOK
<1>1. Init => Budget
  BY BudgetInit
<1>2. Typed /\ Budget /\ [Next]_vars => Budget'
  BY BudgetStep
<1>3. Typed /\ Budget => TypeOK
  <2> SUFFICES ASSUME Typed, Budget PROVE TypeOK
    OBVIOUS
  <2>1. Cardinality(Writing) \in Nat
    BY FS_CardinalityType DEF Budget
  <2>2. attempts \in 0 .. (MaxRetries + 1)
    BY <2>1, LimitsAssumption DEF Budget, Claimable, Typed, RowsTyped, HistoryTyped
  <2> QED BY <2>2 DEF TypeOK, Typed, RowsTyped, LocalsTyped, HistoryTyped
<1> QED BY <1>1, <1>2, <1>3, TypedAlways, PTL DEF Spec

(* A source exists exactly for the candidates that are activated, until    *)
(* two workers execute the run at once (Materialize, ResetCandidate and    *)
(* the statuses that the conditional updates require).                     *)
THEOREM SourcesAreActivated == Spec => []SourceIsActivated
<1>1. (~crossed => Orderly) => SourceIsActivated
  BY DEF Orderly, Agreement, SourceIsActivated
<1> QED BY <1>1, OrderlyAlways, PTL

(* For every threshold above one half a candidate before an administrator  *)
(* has a column with a successful trial (_score_candidate, activate).      *)
THEOREM ApprovableCanBeActivated == Spec => []ApprovableIsActivatable
<1>1. (~crossed => Orderly) => ApprovableIsActivatable
  BY DEF Orderly, Activatable, ApprovableIsActivatable
<1> QED BY <1>1, OrderlyAlways, PTL

(* No step makes a source from columns that are not approved, and none of  *)
(* the run takes a decided candidate back (activate, reject, execute).     *)
THEOREM DecisionsAreKept == Spec => DecisionsStand
<1>1. Typed /\ Typed' /\ (~crossed => Orderly) /\ [Next]_vars => [~crossed => DecisionStep]_vars
  BY OrderStep
<1>2. (~crossed => DecisionStep) <=>
         (~crossed =>
            /\ sources' \ sources \subseteq vetted
            /\ \A s \in Sites : status[s] \in {"approved", "activating"} =>
                  status'[s] \in {"approved", "rejected", "activating", "activated", "failed"})
  BY DEF DecisionStep
<1> QED BY <1>1, <1>2, TypedAlways, OrderlyAlways, PTL DEF Spec, DecisionsStand

(* A candidate in the middle of its inspection has a worker on it, or an   *)
(* error inside a transaction or a death has left it (_process_candidate). *)
THEOREM NoCandidateIsForgotten == Spec => []NothingForgotten
<1>1. Init => NothingForgotten
  BY DEF Init, NothingForgotten, Intermediate
<1>2. Typed /\ NothingForgotten /\ [Next]_vars => NothingForgotten'
  BY WatchStep
<1> QED BY <1>1, <1>2, TypedAlways, PTL DEF Spec
=============================================================================
