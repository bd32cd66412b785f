--------------------------- MODULE SourceDiscovery --------------------------
(***************************************************************************)
(* One discovery run: workers that search for official sites, validate     *)
(* them, crawl some of their pages and score them; administrators who      *)
(* create and retry the run and approve, reject and activate candidates.   *)
(*                                                                         *)
(* The rows of the run and of its candidates are the only synchronisation. *)
(* Claims, approvals and rejections are conditional updates; everything    *)
(* else overwrites what it finds.  Message, worker and request may be lost *)
(* at any point, and nobody recovers what they leave behind.               *)
(***************************************************************************)
EXTENDS Naturals, FiniteSets

CONSTANTS
    Sites,       \* homepages that the search may return: the candidates
    Columns,     \* lists of documents that a homepage may link to
    Workers,     \* processes that can execute the run
    Requests,    \* concurrent requests of administrators
    TrialDocs,   \* source_discovery_trial_max_documents
    Threshold,   \* source_discovery_quality_threshold, in percent
    MaxRetries   \* bound: how often the run is made pending again

ASSUME LimitsAssumption == TrialDocs \in Nat /\ MaxRetries \in Nat /\ Threshold \in 0 .. 100
ASSUME ColumnsAssumption == IsFiniteSet(Columns)

VARIABLES
    run,         \* source_discovery_runs.status
    attempts,    \* attempt_count
    messages,    \* run messages that the broker has not delivered
    status,      \* source_candidates.status
    columns,     \* source_candidate_columns of every candidate, with their status
    sources,     \* candidates that have a row in sources
    worker,      \* what every worker is doing
    request,     \* what every request is doing
    (* history variables: read by the properties only *)
    retries,     \* how often the run was made pending again
    vetted,      \* candidates whose columns are those an administrator approved
    dropped,     \* candidates that an error inside a transaction left behind
    abandoned,   \* TRUE: a worker, a request or a message was lost
    crossed      \* TRUE: two workers have executed the run at once

rowVars == <<run, attempts>>
candidateVars == <<status, columns, sources>>
historyVars == <<retries, vetted, dropped, abandoned, crossed>>
vars == <<rowVars, messages, candidateVars, worker, request, historyVars>>

-----------------------------------------------------------------------------
(* State.                                                                  *)

RunStatus == {"none", "pending", "running", "no_gap", "awaiting_approval",
              "activated", "failed"}
Unfinished == {"pending", "running"}

Intermediate == {"discovered", "validated", "columns_discovered"}
CandidateStatus == Intermediate \cup {"absent", "validation_failed", "pending_approval",
                                      "approved", "rejected", "activating", "activated", "failed"}

(* A row of source_candidate_columns: its status, and the worker that      *)
(* inserted it.                                                            *)
ColumnRows == [status : {"discovered", "trial_crawled", "failed"}, by : Workers]
Succeeded(rows) == \E k \in DOMAIN rows : rows[k].status = "trial_crawled"

NoSite == "none"
Processing == {"validate", "discover", "trial"}
WorkerSteps == {"idle", "search", "next", "create", "reset", "save", "failing"}
               \cup Processing
WorkerStates == [pc : WorkerSteps, retrying : BOOLEAN, hits : SUBSET Sites,
                 site : Sites \cup {NoSite}, official : {0, 85, 100}, todo : SUBSET Columns,
                 listed : Nat, found : Nat, success : Nat, verdict : {"none", "awaiting_approval", "failed"}]
IdleWorker == [pc |-> "idle", retrying |-> FALSE, hits |-> {}, site |-> NoSite, official |-> 0,
               todo |-> {}, listed |-> 0, found |-> 0, success |-> 0, verdict |-> "none"]

RequestSteps == {"idle", "inline", "send", "mark_read", "mark_write", "retry_write",
                 "read_columns", "materialize", "compensate"}
RequestStates == [pc : RequestSteps, site : Sites \cup {NoSite}]
IdleRequest == [pc |-> "idle", site |-> NoSite]

Init ==
    /\ run = "none" /\ attempts = 0 /\ messages = 0
    /\ status = [s \in Sites |-> "absent"]
    /\ columns = [s \in Sites |-> <<>>]
    /\ sources = {}
    /\ worker = [w \in Workers |-> IdleWorker]
    /\ request = [r \in Requests |-> IdleRequest]
    /\ retries = 0 /\ vetted = {} /\ dropped = {} /\ abandoned = FALSE /\ crossed = FALSE

At(w, pc) == worker[w].pc = pc
Goto(w, pc) == worker' = [worker EXCEPT ![w].pc = pc]
EndWorker(w) == worker' = [worker EXCEPT ![w] = IdleWorker]
Asked(r, pc) == request[r].pc = pc
Proceed(r, pc) == request' = [request EXCEPT ![r].pc = pc]
EndRequest(r) == request' = [request EXCEPT ![r] = IdleRequest]

SetStatus(s, new) == status' = [status EXCEPT ![s] = new]
NotVetted(s) == vetted' = vetted \ {s}

-----------------------------------------------------------------------------
(* The pages of a site, as far as the code looks at them.                  *)

Homepages == [same_host : BOOLEAN, status_ok : BOOLEAN, suffix : BOOLEAN, https : BOOLEAN,
              markers : BOOLEAN]

(* _validate_official_status: what must be true, and the score.            *)
IsOfficial(h) == h.same_host /\ h.status_ok /\ h.suffix /\ h.https
OfficialScore(h) == (IF h.suffix THEN 60 ELSE 0) + (IF h.https THEN 25 ELSE 0)
                    + (IF h.markers THEN 15 ELSE 0)
OfficialScores == {OfficialScore(h) : h \in {g \in Homepages : IsOfficial(g)}}

(* A document of a column: whether the topic is about software, the cues   *)
(* in its title and text, its length and the host that answered.           *)
Documents == [software : BOOLEAN, topic : BOOLEAN, majority : BOOLEAN, strong : BOOLEAN,
              policy : BOOLEAN, procurement : BOOLEAN, news : BOOLEAN,
              long_enough : BOOLEAN, same_host : BOOLEAN]

(* _classify_topic_relevance returns DIRECT or RELATED.                    *)
IsRelevant(d) ==
    IF d.software
    THEN ~d.procurement /\ ~d.news /\ (d.topic \/ (d.strong /\ d.policy))
    ELSE d.topic \/ d.majority

IsAccepted(d) == d.same_host /\ d.long_enough /\ IsRelevant(d)
Outcomes == {IsAccepted(d) : d \in Documents}

(* Fault of Passes: the documents that were found count, whatever they are. *)
PassesFound(official, n, found, success, richness) ==
    LET per == IF found = 0 THEN 1 ELSE found
    IN per * (35 * official + 15 * (IF n >= 2 THEN 100 ELSE 50 * n) + 25 * richness)
       + 2500 * found >= 100 * Threshold * per

(* _score_candidate: 0.35 official + 0.15 columns + 0.25 trial_success     *)
(* + 0.25 richness, in units of a ten-thousandth, times the documents.     *)
Passes(official, n, found, success, richness) ==
    LET per == IF found = 0 THEN 1 ELSE found
    IN per * (35 * official + 15 * (IF n >= 2 THEN 100 ELSE 50 * n) + 25 * richness)
       + 2500 * success >= 100 * Threshold * per

(* The average length against twice the minimum: accepted documents have   *)
(* at least the minimum.                                                   *)
Richness(success) == IF success = 0 THEN {0} ELSE {50, 100}

-----------------------------------------------------------------------------
(* Worker: execute.                                                        *)

(* claim_run.                                                              *)
Claim(w) ==
    /\ run' = "running"
    /\ attempts' = attempts + 1
    /\ worker' = [worker EXCEPT ![w].pc = "search", ![w].retrying = (attempts > 0)]
    /\ crossed' = (crossed \/ \E v \in Workers : ~At(v, "idle"))
    /\ UNCHANGED <<retries, vetted, dropped, abandoned>>

(* A message is delivered; a run that is not pending is not claimed.       *)
Deliver(w) ==
    /\ At(w, "idle") /\ messages > 0
    /\ messages' = messages - 1
    /\ IF run = "pending" THEN Claim(w) ELSE UNCHANGED <<rowVars, worker, historyVars>>
    /\ UNCHANGED <<candidateVars, request>>

(* The create request executes the run itself.                             *)
ExecuteInline(w, r) ==
    /\ Asked(r, "inline") /\ At(w, "idle")
    /\ EndRequest(r)
    /\ IF run = "pending" THEN Claim(w) ELSE UNCHANGED <<rowVars, worker, historyVars>>
    /\ UNCHANGED <<messages, candidateVars>>

Search(w) ==
    /\ At(w, "search")
    /\ \E hits \in SUBSET Sites :
          worker' = [worker EXCEPT ![w].pc = "next", ![w].hits = hits]
    /\ UNCHANGED <<rowVars, messages, candidateVars, request, historyVars>>

(* Fault of Retryable: activated candidates are rediscovered.              *)
RetryableActivated == {"validation_failed", "rejected", "failed", "activated"}

Retryable == {"validation_failed", "rejected", "failed"}

(* get_candidate_by_url for the next hit.                                  *)
NextHit(w) ==
    /\ At(w, "next")
    /\ \E s \in worker[w].hits :
          LET next == IF status[s] = "absent" THEN "create"
                      ELSE IF worker[w].retrying /\ status[s] \in Retryable THEN "reset"
                      ELSE "next"
          IN worker' = [worker EXCEPT ![w].hits = @ \ {s}, ![w].pc = next,
                                      ![w].site = IF next = "next" THEN NoSite ELSE s]
    /\ UNCHANGED <<rowVars, messages, candidateVars, request, historyVars>>

(* The homepage of a candidate is unique in its run.  After the rollback   *)
(* the run's attributes have expired and reading the next one raises.      *)
CreateCandidate(w) ==
    /\ At(w, "create")
    /\ IF status[worker[w].site] = "absent"
       THEN SetStatus(worker[w].site, "discovered") /\ Goto(w, "validate")
       ELSE Goto(w, "failing") /\ UNCHANGED status
    /\ UNCHANGED <<rowVars, messages, columns, sources, request, historyVars>>

(* reset_candidate_for_retry.                                              *)
ResetCandidate(w) ==
    /\ At(w, "reset")
    /\ LET s == worker[w].site IN
       /\ SetStatus(s, "discovered")
       /\ columns' = [columns EXCEPT ![s] = <<>>]
       /\ NotVetted(s)
    /\ Goto(w, "validate")
    /\ UNCHANGED <<rowVars, messages, sources, request, retries, dropped, abandoned, crossed>>

(* The candidate is done with; the next hit follows.                       *)
Leave(w) ==
    worker' = [worker EXCEPT ![w] = [IdleWorker EXCEPT !.pc = "next", !.hits = worker[w].hits,
                                                       !.retrying = worker[w].retrying]]

(* The homepage is fetched and satisfies the policy, or not.               *)
Validate(w) ==
    /\ At(w, "validate")
    /\ LET s == worker[w].site IN
       \/ SetStatus(s, "validation_failed") /\ Leave(w)
       \/ \E score \in OfficialScores :
             /\ SetStatus(s, "validated")
             /\ worker' = [worker EXCEPT ![w].pc = "discover", ![w].official = score]
    /\ UNCHANGED <<rowVars, messages, columns, sources, request, historyVars>>

(* The links of the homepage give any number of columns.  Their URLs are   *)
(* unique for a candidate: a conflict fails the run.                       *)
DiscoverColumns(w) ==
    /\ At(w, "discover")
    /\ \E new \in SUBSET Columns :
       LET s == worker[w].site IN
       \/ /\ new = {}
          /\ SetStatus(s, "failed") /\ Leave(w)
          /\ UNCHANGED <<columns, historyVars>>
       \/ /\ new # {} /\ new \cap DOMAIN columns[s] = {}
          /\ SetStatus(s, "columns_discovered")
          /\ columns' = [columns EXCEPT ![s] =
                [k \in DOMAIN @ \cup new |->
                    IF k \in new THEN [status |-> "discovered", by |-> w] ELSE @[k]]]
          /\ worker' = [worker EXCEPT ![w].pc = "trial", ![w].todo = new,
                                      ![w].listed = Cardinality(new)]
          /\ NotVetted(s)
          /\ UNCHANGED <<retries, dropped, abandoned, crossed>>
       \/ /\ new \cap DOMAIN columns[s] # {}
          /\ Goto(w, "failing")
          /\ dropped' = dropped \cup {s}
          /\ UNCHANGED <<status, columns, retries, vetted, abandoned, crossed>>
    /\ UNCHANGED <<rowVars, messages, sources, request>>

(* _trial_crawl_column: up to TrialDocs documents are fetched and judged.  *)
(* A column that another worker has deleted cannot be updated.             *)
TrialCrawl(w) ==
    /\ At(w, "trial") /\ worker[w].todo # {}
    /\ \E k \in worker[w].todo, n \in 0 .. TrialDocs : \E accepted \in [1 .. n -> Outcomes] :
       LET s == worker[w].site
           success == Cardinality({i \in 1 .. n : accepted[i]})
       IN IF k \in DOMAIN columns[s] /\ columns[s][k].by = w
          THEN /\ columns' = [columns EXCEPT ![s][k].status =
                                 IF success > 0 THEN "trial_crawled" ELSE "failed"]
               /\ worker' = [worker EXCEPT ![w].todo = @ \ {k}, ![w].found = @ + n,
                                           ![w].success = @ + success]
               /\ UNCHANGED historyVars
          ELSE /\ Goto(w, "failing")
               /\ dropped' = dropped \cup {s}
               /\ UNCHANGED <<columns, retries, vetted, abandoned, crossed>>
    /\ UNCHANGED <<rowVars, messages, status, sources, request>>

(* The trial crawl of all columns is done.                                 *)
ScoreCandidate(w) ==
    /\ At(w, "trial") /\ worker[w].todo = {}
    /\ LET v == worker[w] IN
       \E richness \in Richness(v.success) :
          SetStatus(v.site, IF Passes(v.official, v.listed, v.found, v.success, richness)
                            THEN "pending_approval" ELSE "rejected")
    /\ Leave(w)
    /\ UNCHANGED <<rowVars, messages, columns, sources, request, historyVars>>

(* The end of the loop: the candidates are listed ...                      *)
Finish(w) ==
    /\ At(w, "next") /\ worker[w].hits = {}
    /\ LET verdict == IF \E s \in Sites : status[s] = "pending_approval"
                      THEN "awaiting_approval" ELSE "failed"
       IN worker' = [worker EXCEPT ![w].pc = "save",
                                   ![w].verdict = IF run = verdict THEN "none" ELSE verdict]
    /\ UNCHANGED <<rowVars, messages, candidateVars, request, historyVars>>

(* ... and the status of the run is written if it has changed.             *)
SaveRun(w) ==
    /\ At(w, "save")
    /\ run' = IF worker[w].verdict = "none" THEN run ELSE worker[w].verdict
    /\ EndWorker(w)
    /\ UNCHANGED <<attempts, messages, candidateVars, request, historyVars>>

(* Fault of FailRun: the exception handler leaves the run as it is.        *)
FailRunForgets(w) ==
    /\ At(w, "failing")
    /\ EndWorker(w)
    /\ UNCHANGED <<rowVars, messages, candidateVars, request, historyVars>>

(* The exception handler of execute.                                       *)
FailRun(w) ==
    /\ At(w, "failing")
    /\ run' = "failed"
    /\ EndWorker(w)
    /\ UNCHANGED <<attempts, messages, candidateVars, request, historyVars>>

(* Fault of FailCandidate: the candidate is left as it is.                 *)
FailCandidateForgets(w) ==
    /\ worker[w].pc \in Processing /\ worker[w].todo = {}
    /\ Leave(w)
    /\ UNCHANGED <<rowVars, messages, candidateVars, request, historyVars>>

(* An exception outside a transaction goes to the handler of               *)
(* _process_candidate.                                                     *)
FailCandidate(w) ==
    /\ worker[w].pc \in Processing /\ worker[w].todo = {}
    /\ SetStatus(worker[w].site, "failed")
    /\ Leave(w)
    /\ UNCHANGED <<rowVars, messages, columns, sources, request, historyVars>>

(* A provider error, or an exception inside a transaction: the rollback    *)
(* expires the candidate, its handler raises while it reads the id, and    *)
(* the run fails.                                                          *)
WorkerError(w) ==
    /\ worker[w].pc \in WorkerSteps \ {"idle", "failing"}
    /\ Goto(w, "failing")
    /\ dropped' = IF worker[w].pc \in Processing THEN dropped \cup {worker[w].site} ELSE dropped
    /\ UNCHANGED <<rowVars, messages, candidateVars, request, retries, vetted, abandoned, crossed>>

-----------------------------------------------------------------------------
(* Administrators and scheduler: runs.                                     *)

(* content_gap: too few enabled sources, or documents of enabled sources,  *)
(* cover the topic.                                                        *)
Coverage == [sources : 0 .. 1, documents : 0 .. 1, required_documents : 0 .. 1]
HasGap(c) == c.sources < 1 \/ c.documents < c.required_documents
Gaps == {HasGap(c) : c \in Coverage}

(* create: without a gap there is nothing to do.                           *)
Create(r, pc) ==
    /\ Asked(r, "idle") /\ run = "none"
    /\ \E gap \in Gaps :
          IF gap THEN run' = "pending" /\ Proceed(r, pc)
          ELSE run' = "no_gap" /\ UNCHANGED request
    /\ UNCHANGED <<attempts, messages, candidateVars, worker, historyVars>>

(* An administrator chooses how the run is executed; the scheduler, which  *)
(* creates one for a topic that has no other active run, always queues it. *)
CreateByAdmin(r) == \E pc \in {"inline", "send"} : Create(r, pc)
ScanGaps(r) == Create(r, "send")

(* retry: only a failed run.                                               *)
RetryRead(r) ==
    /\ Asked(r, "idle") /\ run = "failed" /\ retries < MaxRetries
    /\ Proceed(r, "retry_write")
    /\ retries' = retries + 1
    /\ UNCHANGED <<rowVars, messages, candidateVars, worker, vetted, dropped, abandoned, crossed>>

RetryWrite(r) ==
    /\ Asked(r, "retry_write")
    /\ run' = "pending"
    /\ Proceed(r, "send")
    /\ UNCHANGED <<attempts, messages, candidateVars, worker, historyVars>>

(* _queue_run: the broker takes the message; if that raises, it may have   *)
(* taken it all the same.                                                  *)
Send(r) ==
    /\ Asked(r, "send")
    /\ \/ messages' = messages + 1 /\ EndRequest(r)
       \/ messages' \in {messages, messages + 1} /\ Proceed(r, "mark_read")
    /\ UNCHANGED <<rowVars, candidateVars, worker, historyVars>>

(* mark_queue_failure.                                                     *)
MarkRead(r) ==
    /\ Asked(r, "mark_read")
    /\ IF run = "pending" THEN Proceed(r, "mark_write") ELSE EndRequest(r)
    /\ UNCHANGED <<rowVars, messages, candidateVars, worker, historyVars>>

MarkWrite(r) ==
    /\ Asked(r, "mark_write")
    /\ run' = "failed"
    /\ EndRequest(r)
    /\ UNCHANGED <<attempts, messages, candidateVars, worker, historyVars>>

-----------------------------------------------------------------------------
(* Administrators: candidates.                                             *)

(* approve_candidate and reject_candidate update a candidate in one of     *)
(* these, and in no other status.                                          *)
Approvable == {"pending_approval"}
Rejectable == {"pending_approval", "approved"}

Approve(s) ==
    /\ status[s] \in Approvable
    /\ SetStatus(s, "approved")
    /\ vetted' = vetted \cup {s}
    /\ UNCHANGED <<rowVars, messages, columns, sources, worker, request, retries, dropped,
                   abandoned, crossed>>

Reject(s) ==
    /\ status[s] \in Rejectable
    /\ SetStatus(s, "rejected")
    /\ NotVetted(s)
    /\ UNCHANGED <<rowVars, messages, columns, sources, worker, request, retries, dropped,
                   abandoned, crossed>>

(* Fault of ClaimableForActivation: a candidate that waits for approval is *)
(* activated too.                                                          *)
ClaimableUnapproved == {"pending_approval", "approved"}

ClaimableForActivation == {"approved"}

(* claim_candidate_activation.                                             *)
Activate(r, s) ==
    /\ Asked(r, "idle") /\ status[s] \in ClaimableForActivation
    /\ SetStatus(s, "activating")
    /\ request' = [request EXCEPT ![r] = [pc |-> "read_columns", site |-> s]]
    /\ UNCHANGED <<rowVars, messages, columns, sources, worker, historyVars>>

(* Only columns with a successful trial are taken over; without one the    *)
(* activation fails.                                                       *)
ReadColumns(r) ==
    /\ Asked(r, "read_columns")
    /\ Proceed(r, IF Succeeded(columns[request[r].site]) THEN "materialize" ELSE "compensate")
    /\ UNCHANGED <<rowVars, messages, candidateVars, worker, historyVars>>

(* One transaction creates the source, whose key is unique, and marks the  *)
(* candidate and the run.                                                  *)
Materialize(r) ==
    /\ Asked(r, "materialize")
    /\ LET s == request[r].site IN
       IF s \in sources
       THEN Proceed(r, "compensate") /\ UNCHANGED <<run, candidateVars>>
       ELSE /\ sources' = sources \cup {s}
            /\ SetStatus(s, "activated")
            /\ run' = "activated"
            /\ EndRequest(r)
            /\ UNCHANGED columns
    /\ UNCHANGED <<attempts, messages, worker, historyVars>>

ActivationError(r) ==
    /\ request[r].pc \in {"read_columns", "materialize"}
    /\ Proceed(r, "compensate")
    /\ UNCHANGED <<rowVars, messages, candidateVars, worker, historyVars>>

(* _mark_activation_failed.                                                *)
Compensate(r) ==
    /\ Asked(r, "compensate")
    /\ SetStatus(request[r].site, "failed")
    /\ EndRequest(r)
    /\ UNCHANGED <<rowVars, messages, columns, sources, worker, historyVars>>

-----------------------------------------------------------------------------
(* What is lost for good.                                                  *)

Lose ==
    /\ abandoned' = TRUE
    /\ UNCHANGED <<rowVars, candidateVars, retries, vetted, dropped, crossed>>

(* The message of a dead worker is delivered again.                        *)
WorkerDies(w) ==
    /\ ~At(w, "idle")
    /\ EndWorker(w)
    /\ messages' \in {messages, messages + 1}
    /\ Lose /\ UNCHANGED request

RequestDies(r) ==
    /\ ~Asked(r, "idle")
    /\ EndRequest(r)
    /\ Lose /\ UNCHANGED <<messages, worker>>

MessageLost ==
    /\ messages > 0 /\ messages' = messages - 1
    /\ Lose /\ UNCHANGED <<worker, request>>

-----------------------------------------------------------------------------
Execute(w) ==
    \/ Search(w) \/ NextHit(w) \/ CreateCandidate(w) \/ ResetCandidate(w) \/ Validate(w)
    \/ DiscoverColumns(w) \/ TrialCrawl(w) \/ ScoreCandidate(w) \/ Finish(w) \/ SaveRun(w)
    \/ FailRun(w)

Answer(r) ==
    \/ RetryWrite(r) \/ Send(r) \/ MarkRead(r) \/ MarkWrite(r)
    \/ ReadColumns(r) \/ Materialize(r) \/ Compensate(r)
    \/ \E w \in Workers : ExecuteInline(w, r)

Next ==
    \/ \E w \in Workers :
          Deliver(w) \/ Execute(w) \/ FailCandidate(w) \/ WorkerError(w) \/ WorkerDies(w)
    \/ \E r \in Requests :
          CreateByAdmin(r) \/ ScanGaps(r) \/ RetryRead(r) \/ Answer(r) \/ ActivationError(r) \/ RequestDies(r)
    \/ \E s \in Sites : Approve(s) \/ Reject(s) \/ \E r \in Requests : Activate(r, s)
    \/ MessageLost

Spec == Init /\ [][Next]_vars

(* Workers and requests that live take their next step, and messages are   *)
(* delivered to workers that become idle.                                  *)
FairSpec ==
    /\ Spec
    /\ \A w \in Workers : WF_vars(Execute(w)) /\ SF_vars(Deliver(w))
    /\ \A r \in Requests : SF_vars(Answer(r))

-----------------------------------------------------------------------------
(* Properties.                                                             *)

(* Rows, workers and requests hold what the code can store in them.        *)
TypeOK ==
    /\ run \in RunStatus /\ attempts \in 0 .. (MaxRetries + 1)
    /\ messages \in Nat
    /\ status \in [Sites -> CandidateStatus]
    /\ \A s \in Sites : /\ DOMAIN columns[s] \subseteq Columns
                        /\ \A k \in DOMAIN columns[s] : columns[s][k] \in ColumnRows
    /\ sources \subseteq Sites
    /\ worker \in [Workers -> WorkerStates]
    /\ request \in [Requests -> RequestStates]
    /\ retries \in 0 .. MaxRetries /\ vetted \subseteq Sites /\ dropped \subseteq Sites
    /\ abandoned \in BOOLEAN /\ crossed \in BOOLEAN

(* The source and its candidate agree: activation is all or nothing, and   *)
(* no retry of the run takes an activated candidate back.                  *)
SourceIsActivated ==
    ~crossed => \A s \in Sites : s \in sources <=> status[s] = "activated"

(* "A candidate never becomes active automatically": a source is made from *)
(* columns that an administrator has approved, has not rejected since, and *)
(* that no retry of the run has replaced; and executing the run again      *)
(* leaves alone the candidates they have approved or are activating        *)
(* (activate against reject and execute).  Both hold until two workers     *)
(* execute the run at once.                                                *)
DecisionsStand ==
    [][~crossed =>
          /\ sources' \ sources \subseteq vetted
          /\ \A s \in Sites : status[s] \in {"approved", "activating"} =>
                status'[s] \in {"approved", "rejected", "activating", "activated", "failed"}]_vars

(* What is put before an administrator can be activated: a candidate that  *)
(* passed has a column with a successful trial.  The weights make it so    *)
(* for every threshold above one half (_score_candidate, activate).        *)
ApprovableIsActivatable ==
    (~crossed /\ Threshold > 50) =>
        \A s \in Sites : status[s] \in {"pending_approval", "approved", "activating"}
                           => Succeeded(columns[s])

(* A candidate in the middle of its inspection is being inspected: errors  *)
(* move it to a status from which a retry takes it up again, unless they   *)
(* hit a transaction or kill the worker (_process_candidate).              *)
NothingForgotten ==
    \A s \in Sites \ dropped : status[s] \in Intermediate /\ ~abandoned =>
        \E w \in Workers : worker[w].pc \in Processing /\ worker[w].site = s

(* Every run is finished and every activation answered, unless a worker, a *)
(* request or a message was lost (execute, activate and their handlers).   *)
EverythingSettles ==
    /\ run \in Unfinished ~> (run \notin Unfinished \/ abandoned)
    /\ \A s \in Sites : status[s] = "activating" ~> (status[s] # "activating" \/ abandoned)

=============================================================================
