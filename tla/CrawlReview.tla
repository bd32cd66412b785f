---------------------------- MODULE CrawlReview ----------------------------
(***************************************************************************)
(* Crawl tasks that save documents, and the reviewers who decide them.     *)
(*                                                                         *)
(* A crawl task ends by saving its articles, counting the undecided        *)
(* documents it is linked to, and committing "waiting_review" or           *)
(* "completed".  Whoever decides a document later reconciles the waiting   *)
(* tasks it is linked to.  Both are database transactions: row locks       *)
(* (SELECT ... FOR UPDATE, or an UPDATE that was flushed) are held to the  *)
(* commit, and another session sees the committed rows only.               *)
(***************************************************************************)
EXTENDS Naturals, FiniteSets

CONSTANTS
    Tasks,       \* crawl tasks of one source column
    Docs,        \* documents, by canonical URL
    Reviewers,   \* concurrent review requests
    MaxAutomatic,\* bound: how often the automatic review is started
    MaxRounds    \* bound: how often one task is crawled again

ASSUME ReviewBounds == MaxAutomatic \in Nat /\ MaxRounds \in Nat

VARIABLES
    task,      \* crawl_tasks.status
    pending,   \* the documents behind crawl_tasks.pending_review_count
    rounds,    \* how often the task was crawled again
    doc,       \* the documents' review columns
    lineage,   \* data_lineage: task and document
    (* the saving transaction of each task *)
    saver,     \* "idle", "saved" or "counted"
    draft,     \* the document rows it has locked and rewritten
    renewed,   \* those that got a new version of their text
    tally,     \* the undecided documents it has counted
    (* the transaction of each reviewer *)
    reviewer,  \* what it does next
    target,    \* the document it reviews
    loaded,    \* the row its session has loaded
    chosen,    \* what it has assigned to the row
    flushed,   \* TRUE: the assignment is written, and the row locked
    held,      \* the tasks it has locked
    tallies,   \* for each of them, the undecided documents it has counted
    automatic, \* how often the automatic review was started
    (* history variable: read by the properties only *)
    missed     \* tasks whose last count left out a decision about their documents

taskVars == <<task, pending, rounds>>
saverVars == <<saver, draft, renewed, tally>>
reviewerVars == <<reviewer, target, loaded, chosen, flushed, held, tallies,
                  automatic>>
sharedVars == <<taskVars, doc, lineage, saverVars, missed>>
vars == <<taskVars, doc, lineage, saverVars, reviewerVars, missed>>

-----------------------------------------------------------------------------
(* Rows.                                                                   *)

Final  == {"absent", "pending_manual_review", "pending_llm", "approved", "rejected"}
Manual == {"pending", "rejected", "approve", "reject"}
Row(final, manual) == [final |-> final, manual |-> manual]
Rows == [final : Final, manual : Manual]
NoDoc == "none"
NoRow == Row("absent", "pending")
ByHand == {"approve", "reject"}
Decided == {"approved", "rejected"}

TaskStatus == {"saving_documents", "waiting_review", "partial_failed", "completed",
               "failed", "cancelled"}

(* final_status not in (approved, rejected).                               *)
Undecided(row) == row.final \notin Decided

Linked(t) == {d \in Docs : <<t, d>> \in lineage}
TasksOf(d) == {t \in Tasks : <<t, d>> \in lineage}

Drafts == UNION {[batch -> Rows] : batch \in SUBSET Docs}
NoDraft == [d \in {} |-> NoRow]

TypeOK ==
    /\ task \in [Tasks -> TaskStatus]
    /\ pending \in [Tasks -> SUBSET Docs]
    /\ rounds \in [Tasks -> 0 .. MaxRounds]
    /\ doc \in [Docs -> Rows]
    /\ lineage \subseteq Tasks \X Docs
    /\ saver \in [Tasks -> {"idle", "saved", "counted"}]
    /\ draft \in [Tasks -> Drafts]
    /\ renewed \in [Tasks -> SUBSET Docs] /\ tally \in [Tasks -> SUBSET Docs]
    /\ reviewer \in [Reviewers -> {"idle", "deciding", "llm", "reconciling",
                                   "counting", "committing"}]
    /\ target \in [Reviewers -> Docs \cup {NoDoc}]
    /\ loaded \in [Reviewers -> Rows] /\ chosen \in [Reviewers -> Rows]
    /\ flushed \in [Reviewers -> BOOLEAN]
    /\ held \in [Reviewers -> SUBSET Tasks]
    /\ tallies \in [Reviewers -> [Tasks -> SUBSET Docs]]
    /\ automatic \in 0 .. MaxAutomatic
    /\ missed \subseteq Tasks

(* Tasks have been fetched; there are no documents yet (Recrawl finds those *)
(* of the round before).                                                   *)
Init ==
    /\ task = [t \in Tasks |-> "saving_documents"]
    /\ pending = [t \in Tasks |-> {}]
    /\ rounds = [t \in Tasks |-> 0]
    /\ doc = [d \in Docs |-> NoRow]
    /\ lineage = {}
    /\ saver = [t \in Tasks |-> "idle"]
    /\ draft = [t \in Tasks |-> NoDraft]
    /\ renewed = [t \in Tasks |-> {}]
    /\ tally = [t \in Tasks |-> {}]
    /\ reviewer = [r \in Reviewers |-> "idle"]
    /\ target = [r \in Reviewers |-> NoDoc]
    /\ loaded = [r \in Reviewers |-> NoRow]
    /\ chosen = [r \in Reviewers |-> NoRow]
    /\ flushed = [r \in Reviewers |-> FALSE]
    /\ held = [r \in Reviewers |-> {}]
    /\ tallies = [r \in Reviewers |-> [t \in Tasks |-> {}]]
    /\ automatic = 0
    /\ missed = {}

-----------------------------------------------------------------------------
(* Locks.                                                                  *)

(* Fault of RowFree: find_document reads without FOR UPDATE.               *)
RowFreeUnlocked(d) == TRUE

(* No transaction has locked the row of document d.                        *)
RowFree(d) ==
    /\ \A t \in Tasks : d \notin DOMAIN draft[t]
    /\ \A r \in Reviewers : ~(flushed[r] /\ target[r] = d)

(* Fault of TaskFree: reconcile_crawl_tasks reads without FOR UPDATE.      *)
TaskFreeUnlocked(t) == TRUE

(* No reviewer has locked the row of task t.                               *)
TaskFree(t) == \A r \in Reviewers : t \notin held[r]

(* lock_source_column: one saving transaction at a time holds articles.    *)
ColumnFree == \A t \in Tasks : DOMAIN draft[t] = {}

-----------------------------------------------------------------------------
(* The saving transaction of a crawl task.                                 *)

(* What a crawled article makes of the row: a new document, a new version, *)
(* a new review of the same text, or nothing.                              *)
Refreshed(row, decision, news) ==
    LET fresh == IF decision = "rejected" THEN Row("rejected", "rejected")
                 ELSE Row("pending_manual_review", "pending")
    IN  CASE row = NoRow \/ news = "content" -> fresh
          [] news = "review" /\ row.manual \notin ByHand -> fresh
          [] OTHER -> row

(* A changed field or, failing that, a review that differs from the latest *)
(* one of its type.                                                        *)
News == {"content", "review", "nothing"}

(* Every article locks its document before it looks at it.                 *)
SaveArticles(t) ==
    /\ task[t] = "saving_documents" /\ saver[t] = "idle"
    /\ \E batch \in SUBSET Docs :
       \E decision \in [batch -> {"pending_review", "rejected"}],
          news \in [batch -> News] :
          /\ batch # {} => ColumnFree
          /\ \A d \in batch : RowFree(d)
          /\ draft' = [draft EXCEPT ![t] =
                         [d \in batch |-> Refreshed(doc[d], decision[d], news[d])]]
          /\ renewed' = [renewed EXCEPT ![t] =
                           {d \in batch : doc[d] # NoRow /\ news[d] = "content"}]
    /\ saver' = [saver EXCEPT ![t] = "saved"]
    /\ UNCHANGED <<taskVars, doc, lineage, tally, reviewerVars, missed>>

SavedRow(t, d) == IF d \in DOMAIN draft[t] THEN draft[t][d] ELSE doc[d]

(* count_pending_task_documents, in the same transaction.                  *)
CountPending(t) ==
    /\ saver[t] = "saved"
    /\ tally' = [tally EXCEPT ![t] =
                   {d \in Linked(t) \cup DOMAIN draft[t] : Undecided(SavedRow(t, d))}]
    /\ saver' = [saver EXCEPT ![t] = "counted"]
    /\ missed' = missed \ {t}
    /\ UNCHANGED <<taskVars, doc, lineage, draft, renewed, reviewerVars>>

CloseSaver(t) ==
    /\ saver' = [saver EXCEPT ![t] = "idle"]
    /\ draft' = [draft EXCEPT ![t] = NoDraft]
    /\ renewed' = [renewed EXCEPT ![t] = {}]
    /\ tally' = [tally EXCEPT ![t] = {}]

FinishSave(t) ==
    /\ saver[t] = "counted"
    /\ \E someFailed \in BOOLEAN :
          task' = [task EXCEPT ![t] = IF someFailed THEN "partial_failed"
                                      ELSE IF tally[t] # {} THEN "waiting_review"
                                      ELSE "completed"]
    /\ pending' = [pending EXCEPT ![t] = tally[t]]
    /\ doc' = [d \in Docs |-> SavedRow(t, d)]
    /\ lineage' = lineage \cup ({t} \X DOMAIN draft[t])
    /\ missed' = missed \cup {u \in Tasks \ {t} : Linked(u) \cap DOMAIN draft[t] # {}}
    /\ CloseSaver(t)
    /\ UNCHANGED <<rounds, reviewerVars>>

(* An error rolls everything back and fails the task.                      *)
AbortSave(t) ==
    /\ task[t] = "saving_documents"
    /\ task' = [task EXCEPT ![t] = "failed"]
    /\ CloseSaver(t)
    /\ UNCHANGED <<pending, rounds, doc, lineage, reviewerVars, missed>>

(* Retry, and everything up to the next saving phase (module CrawlTask).   *)
Recrawl(t) ==
    /\ task[t] \in {"partial_failed", "failed", "cancelled"} /\ rounds[t] < MaxRounds
    /\ task' = [task EXCEPT ![t] = "saving_documents"]
    /\ pending' = [pending EXCEPT ![t] = {}]
    /\ rounds' = [rounds EXCEPT ![t] = @ + 1]
    /\ UNCHANGED <<doc, lineage, saverVars, reviewerVars, missed>>

(* cancel_task_if_status waits for whoever has locked the task.            *)
Cancel(t) ==
    /\ task[t] = "waiting_review" /\ TaskFree(t)
    /\ task' = [task EXCEPT ![t] = "cancelled"]
    /\ UNCHANGED <<pending, rounds, doc, lineage, saverVars, reviewerVars, missed>>

-----------------------------------------------------------------------------
(* Reviewers.                                                              *)

ToReview(r, s) == reviewer' = [reviewer EXCEPT ![r] = s]

(* An ORM update writes the columns that differ from those loaded.         *)
Written(row, old, new) ==
    [row EXCEPT !.final  = IF new.final = old.final THEN @ ELSE new.final,
                !.manual = IF new.manual = old.manual THEN @ ELSE new.manual]

CloseReview(r) ==
    /\ ToReview(r, "idle")
    /\ loaded' = [loaded EXCEPT ![r] = NoRow]
    /\ chosen' = [chosen EXCEPT ![r] = NoRow]
    /\ flushed' = [flushed EXCEPT ![r] = FALSE]
    /\ held' = [held EXCEPT ![r] = {}]
    /\ tallies' = [tallies EXCEPT ![r] = [t \in Tasks |-> {}]]
    /\ target' = [target EXCEPT ![r] = NoDoc]
    /\ UNCHANGED automatic

(* manual_decision, or run, loads the document.                            *)
LoadDocument(r, d) ==
    /\ reviewer[r] = "idle" /\ doc[d] # NoRow
    /\ target' = [target EXCEPT ![r] = d]
    /\ loaded' = [loaded EXCEPT ![r] = doc[d]]
    /\ UNCHANGED <<sharedVars, flushed, held, tallies>>

OpenForDecision(r, d) ==
    LoadDocument(r, d) /\ ToReview(r, "deciding") /\ UNCHANGED <<chosen, automatic>>

(* The rule filter rejects at once or leaves the document to the model.    *)
ApplyRules(r, d) ==
    /\ automatic < MaxAutomatic /\ automatic' = automatic + 1
    /\ LoadDocument(r, d)
    /\ \/ /\ ToReview(r, "reconciling")
          /\ chosen' = [chosen EXCEPT ![r] = [doc[d] EXCEPT !.final = "rejected"]]
       \/ /\ ToReview(r, "llm")
          /\ UNCHANGED chosen

(* Adding the review record flushes the decision, which locks the row.     *)
DecideManually(r) ==
    /\ reviewer[r] = "deciding" /\ RowFree(target[r])
    /\ \E decision \in ByHand :
          chosen' = [chosen EXCEPT ![r] =
                       [loaded[r] EXCEPT !.manual = decision,
                                         !.final = IF decision = "approve" THEN "approved"
                                                   ELSE "rejected"]]
    /\ flushed' = [flushed EXCEPT ![r] = TRUE]
    /\ ToReview(r, "reconciling")
    /\ UNCHANGED <<sharedVars, target, loaded, held, tallies, automatic>>

(* The decision of the model is assigned after the last flush.             *)
ModelAnswered(r) ==
    /\ reviewer[r] = "llm"
    /\ \E final \in {"approved", "rejected", "pending_manual_review"} :
          chosen' = [chosen EXCEPT ![r] = [loaded[r] EXCEPT !.final = final]]
    /\ ToReview(r, "reconciling")
    /\ UNCHANGED <<sharedVars, target, loaded, flushed, held, tallies, automatic>>

ModelUnavailable(r) ==
    /\ reviewer[r] = "llm" /\ RowFree(target[r])
    /\ doc' = [doc EXCEPT ![target[r]] =
                 Written(@, loaded[r], [loaded[r] EXCEPT !.final = "pending_llm"])]
    /\ missed' = missed \cup TasksOf(target[r])
    /\ CloseReview(r)
    /\ UNCHANGED <<taskVars, lineage, saverVars>>

(* reconcile_crawl_tasks locks the waiting tasks of the document ...       *)
Waiting(d) == {t \in TasksOf(d) : task[t] = "waiting_review"}

LockTasks(r) ==
    /\ reviewer[r] = "reconciling"
    /\ \A t \in Waiting(target[r]) : TaskFree(t)
    /\ held' = [held EXCEPT ![r] = Waiting(target[r])]
    /\ ToReview(r, "counting")
    /\ UNCHANGED <<sharedVars, target, loaded, chosen, flushed, tallies, automatic>>

(* ... and counts, seeing its own decision only if it was flushed.         *)
SeenRow(r, d) ==
    IF flushed[r] /\ d = target[r] THEN Written(doc[d], loaded[r], chosen[r]) ELSE doc[d]

CountDecided(r) ==
    /\ reviewer[r] = "counting"
    /\ tallies' = [tallies EXCEPT ![r] =
          [t \in Tasks |-> IF t \in held[r]
                           THEN {d \in Linked(t) : Undecided(SeenRow(r, d))} ELSE {}]]
    /\ ToReview(r, "committing")
    /\ UNCHANGED <<sharedVars, target, loaded, chosen, flushed, held, automatic>>

NewCounts(r) == [t \in Tasks |-> IF t \in held[r] THEN tallies[r][t] ELSE pending[t]]

(* Fault of Closes: every locked task is closed.                           *)
ClosesAll(r, t) == t \in held[r]

(* A locked task without undecided documents is closed.                    *)
Closes(r, t) == t \in held[r] /\ tallies[r][t] = {}

CommitReview(r) ==
    /\ reviewer[r] = "committing"
    /\ flushed[r] \/ RowFree(target[r])
    /\ doc' = [doc EXCEPT ![target[r]] = Written(@, loaded[r], chosen[r])]
    /\ task' = [t \in Tasks |-> IF Closes(r, t) THEN "completed" ELSE task[t]]
    /\ pending' = NewCounts(r)
    /\ missed' = missed \cup (TasksOf(target[r]) \ (IF flushed[r] THEN held[r] ELSE {}))
    /\ CloseReview(r)
    /\ UNCHANGED <<rounds, lineage, saverVars>>

(* A failed request, or the victim of a deadlock, rolls back.              *)
AbortReview(r) ==
    /\ reviewer[r] # "idle"
    /\ CloseReview(r)
    /\ UNCHANGED sharedVars

-----------------------------------------------------------------------------
Next ==
    \/ \E t \in Tasks : \/ SaveArticles(t) \/ CountPending(t) \/ FinishSave(t)
                        \/ AbortSave(t) \/ Recrawl(t) \/ Cancel(t)
    \/ \E r \in Reviewers, d \in Docs : OpenForDecision(r, d) \/ ApplyRules(r, d)
    \/ \E r \in Reviewers : \/ DecideManually(r) \/ ModelAnswered(r)
                            \/ ModelUnavailable(r) \/ LockTasks(r) \/ CountDecided(r)
                            \/ CommitReview(r) \/ AbortReview(r)

Spec == Init /\ [][Next]_vars

-----------------------------------------------------------------------------
(* Properties.                                                             *)

OpenDocs(t) == {d \in Linked(t) : doc[d].final \notin Decided}

(* reconcile_crawl_tasks closes tasks with no pending documents: a task    *)
(* waits for review only while one of its documents is undecided.          *)
WaitingForSomeone == \A t \in Tasks : task[t] = "waiting_review" => OpenDocs(t) # {}

(* ... which holds, and its pending_review_count is the number of its      *)
(* undecided documents, for every task whose last count was told of every  *)
(* decision, however its reviewers overlap with each other and the crawl.  *)
ClosedWhenReviewed ==
    \A t \in Tasks \ missed : task[t] = "waiting_review" =>
        OpenDocs(t) # {} /\ pending[t] = OpenDocs(t)

(* A review closes such a task only when all of its documents are decided. *)
ClosedOnlyWhenReviewed ==
    [][\A t \in Tasks \ missed : task[t] = "waiting_review" /\ task'[t] = "completed"
          => \A d \in Linked(t) : doc'[d].final \in Decided]_vars

(* A review that was counting while the task was cancelled does not bring  *)
(* it back: only a retry leaves "cancelled".                               *)
CancelSurvivesReview ==
    [][\A t \in Tasks :
          task[t] = "cancelled" => task'[t] \in {"cancelled", "saving_documents"}]_vars

(* A decision made by hand is forgotten only for a new version of the      *)
(* text: a crawl that finds the same text keeps it (_refresh_coze_document *)
(* under the row lock), and so does the automatic review.                  *)
ManualMarkKept ==
    [][\A d \in Docs : doc[d].manual \in ByHand /\ doc'[d].manual \notin ByHand
          => \E t \in Tasks : d \in renewed[t]]_vars

=============================================================================
