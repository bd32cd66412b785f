------------------------- MODULE CrawlReviewProofs -------------------------
(***************************************************************************)
(* CrawlReview keeps its types, its locks exclude each other, and its      *)
(* properties hold for any number of tasks, documents and reviewers.       *)
(***************************************************************************)
EXTENDS CrawlReview, TLAPS

(* What the locks of the database keep apart, and where a transaction has  *)
(* to be to hold one.                                                      *)
SaverLocks ==
    /\ \A t \in Tasks : saver[t] # "idle" => task[t] = "saving_documents"
    /\ \A t \in Tasks : saver[t] = "idle" => draft[t] = NoDraft
    /\ \A t, u \in Tasks : t # u => DOMAIN draft[t] = {} \/ DOMAIN draft[u] = {}

ReviewerLocks ==
    /\ \A r \in Reviewers : reviewer[r] # "idle" => target[r] \in Docs
    /\ \A r \in Reviewers :
          flushed[r] => /\ reviewer[r] \in {"reconciling", "counting", "committing"}
                        /\ \A t \in Tasks : target[r] \notin DOMAIN draft[t]
    /\ \A r \in Reviewers : \A t \in held[r] :
          /\ reviewer[r] \in {"counting", "committing"}
          /\ task[t] = "waiting_review" /\ t \in TasksOf(target[r])
    /\ \A r, q \in Reviewers : r # q => held[r] \cap held[q] = {}

Core == TypeOK /\ SaverLocks /\ ReviewerLocks

-----------------------------------------------------------------------------
LEMMA NoDraftTyped == NoDraft \in Drafts /\ DOMAIN NoDraft = {}
BY DEF NoDraft, Drafts

LEMMA NoRowTyped == NoRow \in Rows
BY DEF NoRow, Row, Rows, Final, Manual

LEMMA RefreshedTyped ==
    ASSUME NEW row \in Rows, NEW decision, NEW news
    PROVE  Refreshed(row, decision, news) \in Rows
BY DEF Refreshed, Row, Rows, Final, Manual

LEMMA WrittenTyped ==
    ASSUME NEW row \in Rows, NEW old \in Rows, NEW new \in Rows
    PROVE  /\ Written(row, old, new) \in Rows
           /\ Written(row, old, new).manual =
                  IF new.manual = old.manual THEN row.manual ELSE new.manual
BY DEF Written, Rows

LEMMA FinalTyped ==
    ASSUME NEW row \in Rows, NEW final \in Final
    PROVE  /\ [row EXCEPT !.final = final] \in Rows
           /\ [row EXCEPT !.final = final].manual = row.manual
BY DEF Rows

LEMMA DecisionTyped ==
    ASSUME NEW row \in Rows, NEW decision \in ByHand, NEW final \in Final
    PROVE  /\ [row EXCEPT !.manual = decision, !.final = final] \in Rows
           /\ [row EXCEPT !.manual = decision, !.final = final].manual = decision
BY DEF Rows, ByHand, Manual

LEMMA DraftRows ==
    ASSUME draft \in [Tasks -> Drafts], NEW t \in Tasks
    PROVE  DOMAIN draft[t] \subseteq Docs /\ \A d \in DOMAIN draft[t] : draft[t][d] \in Rows
BY DEF Drafts

LEMMA SavedRowTyped ==
    ASSUME TypeOK, NEW t \in Tasks, NEW d \in Docs
    PROVE  SavedRow(t, d) \in Rows
BY DraftRows DEF TypeOK, SavedRow

-----------------------------------------------------------------------------
(* Types and locks.                                                        *)

LEMMA CoreInit == Init => Core
<1> SUFFICES ASSUME Init PROVE Core
  OBVIOUS
<1>1. TypeOK
  BY NoDraftTyped, NoRowTyped, ReviewBounds DEF Init, TypeOK, TaskStatus
<1>2. SaverLocks
  BY NoDraftTyped DEF Init, SaverLocks
<1>3. ReviewerLocks
  BY DEF Init, ReviewerLocks
<1> QED BY <1>1, <1>2, <1>3 DEF Core

(* The locks of the reviewers, when a crawl task has done something.       *)
LEMMA LocksOutlastSaver ==
    ASSUME ReviewerLocks, UNCHANGED reviewerVars, lineage \subseteq lineage',
           \A r \in Reviewers : \A t \in held[r] : task'[t] = "waiting_review",
           \A t \in Tasks : \A d \in DOMAIN draft'[t] : d \in DOMAIN draft[t] \/ RowFree(d)
    PROVE  ReviewerLocks'
BY DEF ReviewerLocks, reviewerVars, TasksOf, RowFree

(* And when a reviewer has.                                                *)
LEMMA LocksOutlastReviewer ==
    ASSUME ReviewerLocks, NEW r \in Reviewers, UNCHANGED <<draft, lineage>>,
           \A q \in Reviewers \ {r} : /\ reviewer'[q] = reviewer[q] /\ target'[q] = target[q]
                                       /\ flushed'[q] = flushed[q] /\ held'[q] = held[q],
           \A q \in Reviewers \ {r} : \A t \in held[q] : task'[t] = task[t],
           reviewer'[r] # "idle" => target'[r] \in Docs,
           flushed'[r] => /\ reviewer'[r] \in {"reconciling", "counting", "committing"}
                          /\ \A t \in Tasks : target'[r] \notin DOMAIN draft[t],
           \A t \in held'[r] : /\ reviewer'[r] \in {"counting", "committing"}
                               /\ task'[t] = "waiting_review" /\ t \in TasksOf(target'[r])
                               /\ \A q \in Reviewers \ {r} : t \notin held[q]
    PROVE  ReviewerLocks'
<1>1. \A q \in Reviewers : reviewer'[q] # "idle" => target'[q] \in Docs
  BY DEF ReviewerLocks
<1>2. \A q \in Reviewers :
        flushed'[q] => /\ reviewer'[q] \in {"reconciling", "counting", "committing"}
                       /\ \A t \in Tasks : target'[q] \notin DOMAIN draft'[t]
  BY DEF ReviewerLocks
<1>3. \A q \in Reviewers : \A t \in held'[q] :
        /\ reviewer'[q] \in {"counting", "committing"}
        /\ task'[t] = "waiting_review" /\ t \in TasksOf(target[q])'
  BY DEF ReviewerLocks, TasksOf
<1>4. \A q, o \in Reviewers : q # o => held'[q] \cap held'[o] = {}
  <2>1. \A q \in Reviewers \ {r} : held'[q] \cap held'[r] = {}
    OBVIOUS
  <2> QED BY <2>1 DEF ReviewerLocks
<1> QED BY <1>1, <1>2, <1>3, <1>4 DEF ReviewerLocks

LEMMA ClosedSaver ==
    ASSUME Core, NEW t \in Tasks, CloseSaver(t)
    PROVE  /\ saver' \in [Tasks -> {"idle", "saved", "counted"}]
           /\ draft' \in [Tasks -> Drafts]
           /\ renewed' \in [Tasks -> SUBSET Docs] /\ tally' \in [Tasks -> SUBSET Docs]
           /\ saver'[t] = "idle" /\ draft'[t] = NoDraft
           /\ \A u \in Tasks \ {t} : saver'[u] = saver[u] /\ draft'[u] = draft[u]
BY NoDraftTyped DEF Core, TypeOK, CloseSaver

LEMMA CoreSaver ==
    ASSUME Core, NEW t \in Tasks,
           \/ SaveArticles(t) \/ CountPending(t) \/ FinishSave(t)
           \/ AbortSave(t) \/ Recrawl(t) \/ Cancel(t)
    PROVE  Core'
<1>1. TypeOK /\ SaverLocks /\ ReviewerLocks
  BY DEF Core
<1>2. \A r \in Reviewers : \A u \in held[r] : u \in Tasks /\ task[u] = "waiting_review"
  BY <1>1 DEF TypeOK, ReviewerLocks
<1>3. CASE SaveArticles(t)
  <2>1. PICK batch \in SUBSET Docs :
        \E decision \in [batch -> {"pending_review", "rejected"}], news \in [batch -> News] :
          /\ batch # {} => ColumnFree
          /\ \A d \in batch : RowFree(d)
          /\ draft' = [draft EXCEPT ![t] =
                         [d \in batch |-> Refreshed(doc[d], decision[d], news[d])]]
          /\ renewed' = [renewed EXCEPT ![t] =
                           {d \in batch : doc[d] # NoRow /\ news[d] = "content"}]
    BY <1>3 DEF SaveArticles
  <2>2. PICK decision \in [batch -> {"pending_review", "rejected"}], news \in [batch -> News] :
          /\ batch # {} => ColumnFree
          /\ \A d \in batch : RowFree(d)
          /\ draft' = [draft EXCEPT ![t] =
                         [d \in batch |-> Refreshed(doc[d], decision[d], news[d])]]
          /\ renewed' = [renewed EXCEPT ![t] =
                           {d \in batch : doc[d] # NoRow /\ news[d] = "content"}]
    BY <2>1
  <2>3. [d \in batch |-> Refreshed(doc[d], decision[d], news[d])] \in [batch -> Rows]
    BY <1>1, RefreshedTyped DEF TypeOK
  <2>4. draft' \in [Tasks -> Drafts]
    BY <1>1, <2>2, <2>3 DEF TypeOK, Drafts
  <2>5. renewed' \in [Tasks -> SUBSET Docs]
    BY <1>1, <2>2 DEF TypeOK
  <2>6. TypeOK'
    BY <1>1, <1>3, <2>4, <2>5 DEF SaveArticles, TypeOK, taskVars, reviewerVars
  <2>7. /\ DOMAIN draft'[t] = batch /\ \A u \in Tasks \ {t} : draft'[u] = draft[u]
        /\ batch # {} => ColumnFree
        /\ \A d \in batch : RowFree(d)
    BY <1>1, <2>2 DEF TypeOK
  <2>8. /\ task' = task /\ task[t] = "saving_documents"
        /\ saver'[t] = "saved" /\ \A u \in Tasks \ {t} : saver'[u] = saver[u]
    BY <1>1, <1>3 DEF SaveArticles, TypeOK, taskVars
  <2>9. SaverLocks'
    BY <1>1, <2>7, <2>8 DEF SaverLocks, ColumnFree
  <2>10. UNCHANGED <<reviewerVars, lineage>>
    BY <1>3 DEF SaveArticles
  <2>11. ReviewerLocks'
    BY <1>1, <1>2, <2>7, <2>8, <2>10, LocksOutlastSaver
  <2> QED BY <2>6, <2>9, <2>11 DEF Core
<1>4. CASE CountPending(t)
  <2>1. {d \in Linked(t) \cup DOMAIN draft[t] : Undecided(SavedRow(t, d))} \in SUBSET Docs
    BY <1>1, DraftRows DEF Linked, TypeOK
  <2>2. TypeOK'
    BY <1>1, <1>4, <2>1 DEF CountPending, TypeOK, taskVars, reviewerVars
  <2>3. /\ UNCHANGED <<reviewerVars, lineage, draft, task>>
        /\ saver[t] # "idle" /\ saver'[t] # "idle"
        /\ \A u \in Tasks \ {t} : saver'[u] = saver[u]
    BY <1>1, <1>4 DEF CountPending, TypeOK, taskVars
  <2>4. SaverLocks'
    BY <1>1, <2>3 DEF SaverLocks
  <2>5. ReviewerLocks'
    BY <1>1, <1>2, <2>3, LocksOutlastSaver
  <2> QED BY <2>2, <2>4, <2>5 DEF Core
<1>5. CASE FinishSave(t)
  <2>1. task' \in [Tasks -> TaskStatus] /\ \A u \in Tasks \ {t} : task'[u] = task[u]
    BY <1>1, <1>5 DEF FinishSave, TypeOK, TaskStatus
  <2>2. doc' \in [Docs -> Rows]
    BY <1>1, <1>5, SavedRowTyped DEF FinishSave
  <2>3. lineage' \subseteq Tasks \X Docs /\ lineage \subseteq lineage'
    BY <1>1, <1>5, DraftRows DEF FinishSave, TypeOK
  <2>4. CloseSaver(t) /\ UNCHANGED reviewerVars
    BY <1>5 DEF FinishSave
  <2>5. TypeOK'
    BY <1>1, <1>5, <2>1, <2>2, <2>3, <2>4, ClosedSaver DEF FinishSave, TypeOK, reviewerVars
  <2>6. SaverLocks'
    BY <1>1, <2>1, <2>4, ClosedSaver, NoDraftTyped DEF SaverLocks
  <2>7. task[t] = "saving_documents"
    BY <1>1, <1>5 DEF FinishSave, SaverLocks
  <2>8. \A u \in Tasks : \A d \in DOMAIN draft'[u] : d \in DOMAIN draft[u]
    BY <2>4, ClosedSaver, NoDraftTyped
  <2>9. ReviewerLocks'
    BY <1>1, <1>2, <2>1, <2>3, <2>4, <2>7, <2>8, LocksOutlastSaver
  <2> QED BY <2>5, <2>6, <2>9 DEF Core
<1>6. CASE AbortSave(t)
  <2>1. CloseSaver(t) /\ UNCHANGED <<reviewerVars, lineage>>
    BY <1>6 DEF AbortSave
  <2>2. /\ task' \in [Tasks -> TaskStatus] /\ \A u \in Tasks \ {t} : task'[u] = task[u]
        /\ task[t] = "saving_documents"
    BY <1>1, <1>6 DEF AbortSave, TypeOK, TaskStatus
  <2>3. TypeOK'
    BY <1>1, <1>6, <2>1, <2>2, ClosedSaver DEF AbortSave, TypeOK, reviewerVars
  <2>4. SaverLocks'
    BY <1>1, <2>1, <2>2, ClosedSaver, NoDraftTyped DEF SaverLocks
  <2>5. \A u \in Tasks : \A d \in DOMAIN draft'[u] : d \in DOMAIN draft[u]
    BY <2>1, ClosedSaver, NoDraftTyped
  <2>6. ReviewerLocks'
    BY <1>1, <1>2, <2>1, <2>2, <2>5, LocksOutlastSaver
  <2> QED BY <2>3, <2>4, <2>6 DEF Core
<1>7. CASE Recrawl(t) \/ Cancel(t)
  <2>1. /\ task' \in [Tasks -> TaskStatus] /\ \A u \in Tasks \ {t} : task'[u] = task[u]
        /\ \A r \in Reviewers : t \notin held[r]
        /\ task[t] # "saving_documents"
    BY <1>1, <1>2, <1>7 DEF Recrawl, Cancel, TaskFree, TypeOK, TaskStatus
  <2>2. UNCHANGED <<reviewerVars, saverVars, lineage>>
    BY <1>7 DEF Recrawl, Cancel
  <2>3. TypeOK'
    <3>1. pending' \in [Tasks -> SUBSET Docs]
      BY <1>1, <1>7 DEF Recrawl, Cancel, TypeOK
    <3>2. rounds \in [Tasks -> 0 .. MaxRounds]
      BY <1>1 DEF TypeOK
    <3>3. \/ rounds' = rounds
          \/ rounds[t] < MaxRounds /\ rounds' = [rounds EXCEPT ![t] = @ + 1]
      BY <1>7 DEF Recrawl, Cancel
    <3>4. rounds' \in [Tasks -> 0 .. MaxRounds]
      BY <3>2, <3>3, ReviewBounds
    <3>5. UNCHANGED <<doc, lineage, saverVars, reviewerVars, missed>>
      BY <1>7 DEF Recrawl, Cancel
    <3> QED BY <1>1, <2>1, <3>1, <3>4, <3>5 DEF TypeOK, saverVars, reviewerVars
  <2>4. SaverLocks'
    BY <1>1, <2>1, <2>2 DEF SaverLocks, saverVars
  <2>5. ReviewerLocks'
    BY <1>1, <1>2, <2>1, <2>2, LocksOutlastSaver DEF saverVars
  <2> QED BY <2>3, <2>4, <2>5 DEF Core
<1> QED BY <1>3, <1>4, <1>5, <1>6, <1>7

LEMMA ClosedReview ==
    ASSUME TypeOK, NEW r \in Reviewers, CloseReview(r)
    PROVE  /\ reviewer' \in [Reviewers -> {"idle", "deciding", "llm", "reconciling",
                                          "counting", "committing"}]
           /\ target' \in [Reviewers -> Docs \cup {NoDoc}]
           /\ loaded' \in [Reviewers -> Rows] /\ chosen' \in [Reviewers -> Rows]
           /\ flushed' \in [Reviewers -> BOOLEAN]
           /\ held' \in [Reviewers -> SUBSET Tasks]
           /\ tallies' \in [Reviewers -> [Tasks -> SUBSET Docs]]
           /\ automatic' \in 0 .. MaxAutomatic
           /\ reviewer'[r] = "idle" /\ ~flushed'[r] /\ held'[r] = {}
           /\ \A q \in Reviewers \ {r} :
                 /\ reviewer'[q] = reviewer[q] /\ target'[q] = target[q]
                 /\ flushed'[q] = flushed[q] /\ held'[q] = held[q]
                 /\ loaded'[q] = loaded[q] /\ chosen'[q] = chosen[q]
                 /\ tallies'[q] = tallies[q]
BY NoRowTyped DEF TypeOK, CloseReview, ToReview

LEMMA LoadedDocument ==
    ASSUME Core, NEW r \in Reviewers, NEW d \in Docs, LoadDocument(r, d),
           reviewer' \in [Reviewers -> {"idle", "deciding", "llm", "reconciling",
                                        "counting", "committing"}],
           \A q \in Reviewers \ {r} : reviewer'[q] = reviewer[q],
           chosen' \in [Reviewers -> Rows], automatic' \in 0 .. MaxAutomatic
    PROVE  Core'
<1>1. TypeOK /\ SaverLocks /\ ReviewerLocks
  BY DEF Core
<1>2. /\ target' \in [Reviewers -> Docs \cup {NoDoc}] /\ loaded' \in [Reviewers -> Rows]
      /\ target'[r] = d /\ \A q \in Reviewers \ {r} : target'[q] = target[q]
      /\ UNCHANGED <<sharedVars, flushed, held, tallies>>
  BY <1>1 DEF LoadDocument, TypeOK
<1>3. ~flushed[r] /\ held[r] = {}
  BY <1>1 DEF LoadDocument, ReviewerLocks
<1>4. TypeOK'
  BY <1>1, <1>2 DEF TypeOK, sharedVars, taskVars, saverVars
<1>5. SaverLocks'
  BY <1>1, <1>2 DEF SaverLocks, sharedVars, taskVars, saverVars
<1>6. ReviewerLocks'
  BY <1>1, <1>2, <1>3, LocksOutlastReviewer DEF sharedVars, taskVars, saverVars
<1> QED BY <1>4, <1>5, <1>6 DEF Core

LEMMA CoreReviewer ==
    ASSUME Core, NEW r \in Reviewers,
           \/ \E d \in Docs : OpenForDecision(r, d) \/ ApplyRules(r, d)
           \/ DecideManually(r) \/ ModelAnswered(r)
           \/ ModelUnavailable(r) \/ LockTasks(r) \/ CountDecided(r)
           \/ CommitReview(r) \/ AbortReview(r)
    PROVE  Core'
<1>1. TypeOK /\ SaverLocks /\ ReviewerLocks
  BY DEF Core
<1>2. /\ held[r] \subseteq Tasks
      /\ \A t \in held[r] : /\ task[t] = "waiting_review" /\ t \in TasksOf(target[r])
                             /\ reviewer[r] \in {"counting", "committing"}
                             /\ \A q \in Reviewers \ {r} : t \notin held[q]
      /\ flushed[r] => \A t \in Tasks : target[r] \notin DOMAIN draft[t]
      /\ flushed[r] => reviewer[r] \in {"reconciling", "counting", "committing"}
      /\ reviewer[r] # "idle" => target[r] \in Docs
  BY <1>1 DEF TypeOK, ReviewerLocks
<1>3. ASSUME NEW d \in Docs, OpenForDecision(r, d)  PROVE Core'
  BY <1>1, <1>3, LoadedDocument DEF OpenForDecision, ToReview, TypeOK
<1>4. ASSUME NEW d \in Docs, ApplyRules(r, d)  PROVE Core'
  <2>1. [doc[d] EXCEPT !.final = "rejected"] \in Rows
    BY <1>1, FinalTyped DEF TypeOK, Final
  <2>2. chosen' \in [Reviewers -> Rows] /\ automatic' \in 0 .. MaxAutomatic
    <3>1. automatic \in 0 .. MaxAutomatic /\ automatic < MaxAutomatic
          /\ automatic' = automatic + 1
      BY <1>1, <1>4 DEF ApplyRules, TypeOK
    <3>2. chosen' = chosen
          \/ chosen' = [chosen EXCEPT ![r] = [doc[d] EXCEPT !.final = "rejected"]]
      BY <1>4 DEF ApplyRules
    <3>3. automatic' \in 0 .. MaxAutomatic
      BY <3>1, ReviewBounds
    <3>4. chosen \in [Reviewers -> Rows]
      BY <1>1 DEF TypeOK
    <3>5. chosen' \in [Reviewers -> Rows]
      BY <2>1, <3>2, <3>4
    <3> QED BY <3>3, <3>5
  <2>3. /\ reviewer' \in [Reviewers -> {"idle", "deciding", "llm", "reconciling",
                                        "counting", "committing"}]
        /\ \A q \in Reviewers \ {r} : reviewer'[q] = reviewer[q]
    BY <1>1, <1>4 DEF ApplyRules, ToReview, TypeOK
  <2> QED BY <1>4, <2>2, <2>3, LoadedDocument DEF ApplyRules
<1>5. CASE DecideManually(r) \/ ModelAnswered(r)
  <2>1. chosen' \in [Reviewers -> Rows]
    <3>1. CASE DecideManually(r)
      <4>1. PICK decision \in ByHand :
              chosen' = [chosen EXCEPT ![r] =
                           [loaded[r] EXCEPT !.manual = decision,
                                             !.final = IF decision = "approve" THEN "approved"
                                                       ELSE "rejected"]]
        BY <3>1 DEF DecideManually
      <4>2. (IF decision = "approve" THEN "approved" ELSE "rejected") \in Final
        BY DEF Final
      <4>3. [loaded[r] EXCEPT !.manual = decision,
                              !.final = IF decision = "approve" THEN "approved"
                                        ELSE "rejected"] \in Rows
        BY <1>1, <4>2, DecisionTyped DEF TypeOK
      <4> QED BY <1>1, <4>1, <4>3 DEF TypeOK
    <3>2. CASE ModelAnswered(r)
      <4>1. PICK final \in {"approved", "rejected", "pending_manual_review"} :
              chosen' = [chosen EXCEPT ![r] = [loaded[r] EXCEPT !.final = final]]
        BY <3>2 DEF ModelAnswered
      <4>2. [loaded[r] EXCEPT !.final = final] \in Rows
        BY <1>1, FinalTyped DEF TypeOK, Final
      <4> QED BY <1>1, <4>1, <4>2 DEF TypeOK
    <3> QED BY <1>5, <3>1, <3>2
  <2>2. /\ reviewer' \in [Reviewers -> {"idle", "deciding", "llm", "reconciling",
                                        "counting", "committing"}]
        /\ flushed' \in [Reviewers -> BOOLEAN]
        /\ reviewer'[r] = "reconciling" /\ reviewer[r] \in {"deciding", "llm"}
        /\ \A q \in Reviewers \ {r} : reviewer'[q] = reviewer[q] /\ flushed'[q] = flushed[q]
        /\ UNCHANGED <<sharedVars, target, loaded, held, tallies, automatic>>
    BY <1>1, <1>5 DEF DecideManually, ModelAnswered, ToReview, TypeOK
  <2>3. TypeOK'
    BY <1>1, <2>1, <2>2 DEF TypeOK, sharedVars, taskVars, saverVars
  <2>4. SaverLocks'
    BY <1>1, <2>2 DEF SaverLocks, sharedVars, taskVars, saverVars
  <2>5. flushed'[r] => \A t \in Tasks : target[r] \notin DOMAIN draft[t]
    BY <1>1, <1>2, <1>5 DEF DecideManually, ModelAnswered, RowFree
  <2>6. ReviewerLocks'
    BY <1>1, <1>2, <2>2, <2>5, LocksOutlastReviewer DEF sharedVars, taskVars, saverVars
  <2> QED BY <2>3, <2>4, <2>6 DEF Core
<1>6. CASE ModelUnavailable(r)
  <2>1. target[r] \in Docs /\ CloseReview(r)
    BY <1>2, <1>6 DEF ModelUnavailable
  <2>2. [loaded[r] EXCEPT !.final = "pending_llm"] \in Rows
    BY <1>1, FinalTyped DEF TypeOK, Final
  <2>3. doc' \in [Docs -> Rows]
    BY <1>1, <1>6, <2>1, <2>2, WrittenTyped DEF ModelUnavailable, TypeOK
  <2>4. UNCHANGED <<taskVars, lineage, saverVars>> /\ missed' \subseteq Tasks
    BY <1>1, <1>6 DEF ModelUnavailable, TypeOK, TasksOf
  <2>5. TypeOK'
    BY <1>1, <2>1, <2>3, <2>4, ClosedReview DEF TypeOK, taskVars, saverVars
  <2>6. SaverLocks'
    BY <1>1, <2>4 DEF SaverLocks, taskVars, saverVars
  <2>7. ReviewerLocks'
    BY <1>1, <2>1, <2>4, ClosedReview, LocksOutlastReviewer DEF taskVars, saverVars
  <2> QED BY <2>5, <2>6, <2>7 DEF Core
<1>7. CASE LockTasks(r)
  <2>1. /\ Waiting(target[r]) \subseteq Tasks
        /\ \A t \in Waiting(target[r]) : /\ task[t] = "waiting_review"
                                          /\ t \in TasksOf(target[r])
                                          /\ \A q \in Reviewers \ {r} : t \notin held[q]
    BY <1>7 DEF LockTasks, Waiting, TasksOf, TaskFree
  <2>2. /\ reviewer' \in [Reviewers -> {"idle", "deciding", "llm", "reconciling",
                                        "counting", "committing"}]
        /\ held' \in [Reviewers -> SUBSET Tasks] /\ held'[r] = Waiting(target[r])
        /\ reviewer'[r] = "counting" /\ reviewer[r] # "idle"
        /\ \A q \in Reviewers \ {r} : reviewer'[q] = reviewer[q] /\ held'[q] = held[q]
        /\ UNCHANGED <<sharedVars, target, loaded, chosen, flushed, tallies, automatic>>
    BY <1>1, <1>7, <2>1 DEF LockTasks, ToReview, TypeOK
  <2>3. TypeOK'
    BY <1>1, <2>2 DEF TypeOK, sharedVars, taskVars, saverVars
  <2>4. SaverLocks'
    BY <1>1, <2>2 DEF SaverLocks, sharedVars, taskVars, saverVars
  <2>5. ReviewerLocks'
    BY <1>1, <1>2, <2>1, <2>2, LocksOutlastReviewer DEF sharedVars, taskVars, saverVars
  <2> QED BY <2>3, <2>4, <2>5 DEF Core
<1>8. CASE CountDecided(r)
  <2>1. tallies' \in [Reviewers -> [Tasks -> SUBSET Docs]]
    BY <1>1, <1>8 DEF CountDecided, TypeOK, Linked
  <2>2. /\ reviewer' \in [Reviewers -> {"idle", "deciding", "llm", "reconciling",
                                        "counting", "committing"}]
        /\ reviewer'[r] = "committing" /\ reviewer[r] = "counting"
        /\ \A q \in Reviewers \ {r} : reviewer'[q] = reviewer[q]
        /\ UNCHANGED <<sharedVars, target, loaded, chosen, flushed, held, automatic>>
    BY <1>1, <1>8 DEF CountDecided, ToReview, TypeOK
  <2>3. TypeOK'
    BY <1>1, <2>1, <2>2 DEF TypeOK, sharedVars, taskVars, saverVars
  <2>4. SaverLocks'
    BY <1>1, <2>2 DEF SaverLocks, sharedVars, taskVars, saverVars
  <2>5. ReviewerLocks'
    BY <1>1, <1>2, <2>2, LocksOutlastReviewer DEF sharedVars, taskVars, saverVars
  <2> QED BY <2>3, <2>4, <2>5 DEF Core
<1>9. CASE CommitReview(r)
  <2>1. target[r] \in Docs /\ CloseReview(r)
    BY <1>2, <1>9 DEF CommitReview
  <2>2. doc' \in [Docs -> Rows]
    BY <1>1, <1>9, <2>1, WrittenTyped DEF CommitReview, TypeOK
  <2>3. /\ task' \in [Tasks -> TaskStatus]
        /\ \A t \in Tasks \ held[r] : task'[t] = task[t]
    BY <1>1, <1>9 DEF CommitReview, Closes, TypeOK, TaskStatus
  <2>4. pending' \in [Tasks -> SUBSET Docs]
    BY <1>1, <1>9 DEF CommitReview, NewCounts, TypeOK
  <2>5. UNCHANGED <<rounds, lineage, saverVars>> /\ missed' \subseteq Tasks
    BY <1>1, <1>9 DEF CommitReview, TypeOK, TasksOf
  <2>6. TypeOK'
    BY <1>1, <2>1, <2>2, <2>3, <2>4, <2>5, ClosedReview DEF TypeOK, saverVars
  <2>7. SaverLocks'
    BY <1>1, <1>2, <2>3, <2>5 DEF SaverLocks, saverVars
  <2>8. \A q \in Reviewers \ {r} : \A t \in held[q] : task'[t] = task[t]
    BY <1>1, <1>2, <2>3 DEF TypeOK
  <2>9. ReviewerLocks'
    BY <1>1, <2>1, <2>5, <2>8, ClosedReview, LocksOutlastReviewer DEF saverVars
  <2> QED BY <2>6, <2>7, <2>9 DEF Core
<1>10. CASE AbortReview(r)
  <2>1. CloseReview(r) /\ UNCHANGED sharedVars
    BY <1>10 DEF AbortReview
  <2>2. TypeOK'
    BY <1>1, <2>1, ClosedReview DEF TypeOK, sharedVars, taskVars, saverVars
  <2>3. SaverLocks'
    BY <1>1, <2>1 DEF SaverLocks, sharedVars, taskVars, saverVars
  <2>4. ReviewerLocks'
    BY <1>1, <2>1, ClosedReview, LocksOutlastReviewer DEF sharedVars, taskVars, saverVars
  <2> QED BY <2>2, <2>3, <2>4 DEF Core
<1> QED BY <1>3, <1>4, <1>5, <1>6, <1>7, <1>8, <1>9, <1>10

LEMMA CoreStep == Core /\ [Next]_vars => Core'
<1> SUFFICES ASSUME Core, [Next]_vars PROVE Core'
  OBVIOUS
<1>1. CASE Next
  BY <1>1, CoreSaver, CoreReviewer DEF Next
<1>2. CASE UNCHANGED vars
  BY <1>2 DEF vars, taskVars, saverVars, reviewerVars, Core, TypeOK, SaverLocks,
              ReviewerLocks, TasksOf
<1> QED BY <1>1, <1>2

(* The rows, the transactions and what they hold keep their types.         *)
THEOREM Typing == Spec => []TypeOK
<1>1. Core => TypeOK
  BY DEF Core
<1> QED BY <1>1, CoreInit, CoreStep, PTL DEF Spec

-----------------------------------------------------------------------------
(* Who waits for whom.                                                     *)

(* What a transaction has counted is still so for every task that has been *)
(* told of the decisions about its documents.                              *)
Counted(t) == {d \in Linked(t) \cup DOMAIN draft[t] : Undecided(SavedRow(t, d))}
CountedBy(r, t) == {d \in Linked(t) : Undecided(SeenRow(r, d))}

SaverTallies == \A t \in Tasks \ missed : saver[t] = "counted" => tally[t] = Counted(t)
ReviewerTallies ==
    \A r \in Reviewers : \A t \in held[r] \ missed :
        reviewer[r] = "committing" => tallies[r][t] = CountedBy(r, t)

Tallied == SaverTallies /\ ReviewerTallies /\ ClosedWhenReviewed

LEMMA TalliedInit == Init => Tallied
BY DEF Init, Tallied, SaverTallies, ReviewerTallies, ClosedWhenReviewed

(* What a step does not do to task t.                                      *)
Untouched(t) ==
    /\ task'[t] = task[t] /\ pending'[t] = pending[t] /\ Linked(t)' = Linked(t)
    /\ t \notin missed' => t \notin missed /\ \A d \in Linked(t) : doc'[d] = doc[d]

LEMMA UntouchedWaits ==
    ASSUME ClosedWhenReviewed, NEW t \in Tasks, t \notin missed', Untouched(t),
           task'[t] = "waiting_review"
    PROVE  OpenDocs(t)' # {} /\ pending'[t] = OpenDocs(t)'
<1>1. OpenDocs(t)' = OpenDocs(t)
  BY DEF Untouched, OpenDocs
<1> QED BY <1>1 DEF Untouched, ClosedWhenReviewed

LEMMA UntouchedSaver ==
    ASSUME SaverTallies, NEW t \in Tasks, t \notin missed', Untouched(t),
           saver'[t] = saver[t], draft'[t] = draft[t], tally'[t] = tally[t],
           saver'[t] = "counted"
    PROVE  tally'[t] = Counted(t)'
<1>1. \A d \in Linked(t) \cup DOMAIN draft[t] : SavedRow(t, d)' = SavedRow(t, d)
  BY DEF Untouched, SavedRow
<1>2. Counted(t)' = Counted(t)
  BY <1>1 DEF Counted, Untouched, Undecided
<1> QED BY <1>2 DEF SaverTallies, Untouched

LEMMA UntouchedReviewer ==
    ASSUME ReviewerTallies, NEW q \in Reviewers, NEW t \in Tasks, t \notin missed',
           Untouched(t), t \in held[q], reviewer[q] = "committing",
           flushed'[q] = flushed[q], target'[q] = target[q], loaded'[q] = loaded[q],
           chosen'[q] = chosen[q], tallies'[q] = tallies[q]
    PROVE  tallies'[q][t] = CountedBy(q, t)'
<1>1. \A d \in Linked(t) : SeenRow(q, d)' = SeenRow(q, d)
  BY DEF Untouched, SeenRow, Written
<1>2. CountedBy(q, t)' = CountedBy(q, t)
  BY <1>1 DEF CountedBy, Untouched, Undecided
<1> QED BY <1>2 DEF ReviewerTallies, Untouched

(* A step of the crawl of task t.                                          *)
LEMMA TalliedBySaver ==
    ASSUME TypeOK, Tallied, NEW t \in Tasks, UNCHANGED reviewerVars,
           \A u \in Tasks \ {t} : /\ Untouched(u) /\ saver'[u] = saver[u]
                                  /\ draft'[u] = draft[u] /\ tally'[u] = tally[u],
           \A q \in Reviewers : t \notin held[q],
           t \notin missed' /\ task'[t] = "waiting_review" =>
               OpenDocs(t)' # {} /\ pending'[t] = OpenDocs(t)',
           t \notin missed' /\ saver'[t] = "counted" => tally'[t] = Counted(t)'
    PROVE  Tallied'
<1>1. SaverTallies /\ ReviewerTallies /\ ClosedWhenReviewed
  BY DEF Tallied
<1>2. ASSUME NEW u \in Tasks, u \notin missed', saver'[u] = "counted"
      PROVE  tally'[u] = Counted(u)'
  BY <1>1, <1>2, UntouchedSaver
<1>3. ASSUME NEW u \in Tasks, u \notin missed', task'[u] = "waiting_review"
      PROVE  OpenDocs(u)' # {} /\ pending'[u] = OpenDocs(u)'
  BY <1>1, <1>3, UntouchedWaits
<1>4. ASSUME NEW q \in Reviewers, NEW u \in held'[q], u \notin missed',
             reviewer'[q] = "committing"
      PROVE  tallies'[q][u] = CountedBy(q, u)'
  <2>1. u \in held[q] /\ u \in Tasks \ {t} /\ reviewer[q] = "committing"
    BY <1>4 DEF TypeOK, reviewerVars
  <2>2. Untouched(u) /\ UNCHANGED <<flushed, target, loaded, chosen, tallies>>
    BY <2>1 DEF reviewerVars
  <2> QED BY <1>1, <1>4, <2>1, <2>2, UntouchedReviewer
<1> QED BY <1>2, <1>3, <1>4 DEF Tallied, SaverTallies, ReviewerTallies, ClosedWhenReviewed

(* A step of reviewer r.                                                   *)
LEMMA TalliedByReviewer ==
    ASSUME TypeOK, TypeOK', Tallied, NEW r \in Reviewers, UNCHANGED saverVars,
           \A u \in Tasks : u \in held[r] \/ Untouched(u),
           \A u \in held[r] : Untouched(u) \/ saver[u] # "counted",
           \A u \in held[r] : u \notin missed' /\ task'[u] = "waiting_review" =>
               OpenDocs(u)' # {} /\ pending'[u] = OpenDocs(u)',
           \A q \in Reviewers \ {r} :
              /\ reviewer'[q] = reviewer[q] /\ target'[q] = target[q]
              /\ flushed'[q] = flushed[q] /\ held'[q] = held[q]
              /\ loaded'[q] = loaded[q] /\ chosen'[q] = chosen[q]
              /\ tallies'[q] = tallies[q]
              /\ \A u \in held[q] : u \notin held[r],
           \A u \in held'[r] : u \notin missed' /\ reviewer'[r] = "committing" =>
               tallies'[r][u] = CountedBy(r, u)'
    PROVE  Tallied'
<1>1. SaverTallies /\ ReviewerTallies /\ ClosedWhenReviewed
  BY DEF Tallied
<1>2. ASSUME NEW u \in Tasks, u \notin missed', saver'[u] = "counted"
      PROVE  tally'[u] = Counted(u)'
  BY <1>1, <1>2, UntouchedSaver DEF saverVars
<1>3. ASSUME NEW u \in Tasks, u \notin missed', task'[u] = "waiting_review"
      PROVE  OpenDocs(u)' # {} /\ pending'[u] = OpenDocs(u)'
  BY <1>1, <1>3, UntouchedWaits
<1>4. ASSUME NEW q \in Reviewers, NEW u \in held'[q], u \notin missed',
             reviewer'[q] = "committing"
      PROVE  tallies'[q][u] = CountedBy(q, u)'
  <2>1. CASE q = r
    BY <1>4, <2>1
  <2>2. CASE q # r
    <3>1. u \in held[q] /\ u \in Tasks /\ Untouched(u) /\ reviewer[q] = "committing"
      BY <1>4, <2>2 DEF TypeOK
    <3> QED BY <1>1, <1>4, <2>2, <3>1, UntouchedReviewer
  <2> QED BY <2>1, <2>2
<1> QED BY <1>2, <1>3, <1>4 DEF Tallied, SaverTallies, ReviewerTallies, ClosedWhenReviewed

LEMMA TalliedSaverStep ==
    ASSUME Core, Tallied, NEW t \in Tasks,
           \/ SaveArticles(t) \/ CountPending(t) \/ FinishSave(t)
           \/ AbortSave(t) \/ Recrawl(t) \/ Cancel(t)
    PROVE  Tallied'
<1>1. TypeOK /\ SaverLocks /\ ReviewerLocks
  BY DEF Core
<1>2. task[t] # "waiting_review" => \A q \in Reviewers : t \notin held[q]
  BY <1>1 DEF ReviewerLocks
<1>3. task[t] # "saving_documents" => saver[t] = "idle"
  BY <1>1 DEF SaverLocks
<1>4. CASE SaveArticles(t)
  <2>1. /\ task[t] = "saving_documents" /\ UNCHANGED <<taskVars, doc, lineage, missed>>
        /\ UNCHANGED <<tally, reviewerVars>> /\ saver'[t] = "saved"
        /\ \A u \in Tasks \ {t} : saver'[u] = saver[u] /\ draft'[u] = draft[u]
    BY <1>1, <1>4 DEF SaveArticles, TypeOK
  <2>2. \A u \in Tasks : Untouched(u)
    BY <2>1 DEF Untouched, Linked, taskVars
  <2>3. task'[t] # "waiting_review" /\ saver'[t] # "counted"
    BY <2>1 DEF taskVars
  <2> QED BY <1>1, <1>2, <2>1, <2>2, <2>3, TalliedBySaver
<1>5. CASE CountPending(t)
  <2>1. /\ UNCHANGED <<taskVars, doc, lineage, draft, reviewerVars>>
        /\ missed' = missed \ {t} /\ tally'[t] = Counted(t)
        /\ task[t] = "saving_documents"
        /\ \A u \in Tasks \ {t} : saver'[u] = saver[u] /\ tally'[u] = tally[u]
    BY <1>1, <1>3, <1>5 DEF CountPending, TypeOK, Counted
  <2>2. \A u \in Tasks \ {t} : Untouched(u)
    BY <2>1 DEF Untouched, Linked, taskVars
  <2>3. Counted(t)' = Counted(t)
    BY <2>1 DEF Counted, Linked, SavedRow
  <2>4. task'[t] # "waiting_review" /\ draft' = draft
    BY <2>1 DEF taskVars
  <2> QED BY <1>1, <1>2, <2>1, <2>2, <2>3, <2>4, TalliedBySaver
<1>6. CASE FinishSave(t)
  <2>1. /\ saver[t] = "counted" /\ task[t] = "saving_documents"
        /\ UNCHANGED reviewerVars /\ CloseSaver(t)
        /\ doc' = [d \in Docs |-> SavedRow(t, d)]
        /\ lineage' = lineage \cup ({t} \X DOMAIN draft[t])
        /\ missed' = missed \cup {u \in Tasks \ {t} : Linked(u) \cap DOMAIN draft[t] # {}}
        /\ pending' = [pending EXCEPT ![t] = tally[t]]
    BY <1>1, <1>3, <1>6 DEF FinishSave
  <2>2. /\ \A u \in Tasks \ {t} : task'[u] = task[u] /\ pending'[u] = pending[u]
        /\ pending'[t] = tally[t]
        /\ task'[t] = "waiting_review" => tally[t] # {}
    BY <1>1, <1>6, <2>1 DEF FinishSave, TypeOK
  <2>3. saver'[t] = "idle" /\ \A u \in Tasks \ {t} :
           saver'[u] = saver[u] /\ draft'[u] = draft[u] /\ tally'[u] = tally[u]
    BY <1>1, <2>1 DEF CloseSaver, TypeOK
  <2>4. ASSUME NEW u \in Tasks \ {t}  PROVE Untouched(u)
    <3>1. Linked(u)' = Linked(u) /\ Linked(u) \subseteq Docs
      BY <2>1 DEF Linked
    <3>2. ASSUME u \notin missed', NEW d \in Linked(u)  PROVE doc'[d] = doc[d]
      BY <2>1, <3>1, <3>2 DEF SavedRow
    <3> QED BY <2>1, <2>2, <3>1, <3>2 DEF Untouched
  <2>5. Linked(t)' = Linked(t) \cup DOMAIN draft[t]
    <3>1. DOMAIN draft[t] \subseteq Docs
      BY <1>1, DraftRows DEF TypeOK
    <3> QED BY <2>1, <3>1 DEF Linked
  <2>6. OpenDocs(t)' = Counted(t)
    BY <1>1, <2>1, <2>5, DraftRows DEF OpenDocs, Counted, Undecided, Linked
  <2>7. t \notin missed' => tally[t] = Counted(t)
    BY <2>1 DEF Tallied, SaverTallies
  <2> QED BY <1>1, <1>2, <2>1, <2>2, <2>3, <2>4, <2>6, <2>7, TalliedBySaver
<1>7. CASE AbortSave(t) \/ Recrawl(t) \/ Cancel(t)
  <2>1. /\ UNCHANGED <<doc, lineage, missed, reviewerVars>>
        /\ \A u \in Tasks \ {t} : task'[u] = task[u] /\ pending'[u] = pending[u]
        /\ task'[t] # "waiting_review"
        /\ \A q \in Reviewers : t \notin held[q]
    BY <1>1, <1>2, <1>7 DEF AbortSave, Recrawl, Cancel, TaskFree, TypeOK
  <2>2. saver'[t] # "counted" /\ \A u \in Tasks \ {t} :
           saver'[u] = saver[u] /\ draft'[u] = draft[u] /\ tally'[u] = tally[u]
    BY <1>1, <1>3, <1>7 DEF AbortSave, Recrawl, Cancel, CloseSaver, TypeOK, saverVars
  <2>3. \A u \in Tasks \ {t} : Untouched(u)
    BY <2>1 DEF Untouched, Linked
  <2> QED BY <1>1, <2>1, <2>2, <2>3, TalliedBySaver
<1> QED BY <1>4, <1>5, <1>6, <1>7

LEMMA TalliedReviewerStep ==
    ASSUME Core, Core', Tallied, NEW r \in Reviewers,
           \/ \E d \in Docs : OpenForDecision(r, d) \/ ApplyRules(r, d)
           \/ DecideManually(r) \/ ModelAnswered(r)
           \/ ModelUnavailable(r) \/ LockTasks(r) \/ CountDecided(r)
           \/ CommitReview(r) \/ AbortReview(r)
    PROVE  Tallied'
<1>1. TypeOK /\ TypeOK' /\ SaverLocks /\ ReviewerLocks
  BY DEF Core
<1>2. /\ \A q \in Reviewers \ {r} : \A u \in held[q] : u \notin held[r]
      /\ \A u \in held[r] : u \in Tasks /\ task[u] = "waiting_review"
                            /\ saver[u] = "idle" /\ u \in TasksOf(target[r])
      /\ reviewer[r] # "idle" => target[r] \in Docs
  BY <1>1 DEF TypeOK, SaverLocks, ReviewerLocks
<1>3. \A q \in Reviewers \ {r} :
         /\ reviewer'[q] = reviewer[q] /\ target'[q] = target[q]
         /\ flushed'[q] = flushed[q] /\ held'[q] = held[q]
         /\ loaded'[q] = loaded[q] /\ chosen'[q] = chosen[q]
         /\ tallies'[q] = tallies[q]
  <2>1. CASE ModelUnavailable(r) \/ CommitReview(r) \/ AbortReview(r)
    BY <1>1, <2>1, ClosedReview DEF ModelUnavailable, CommitReview, AbortReview
  <2>2. CASE \E d \in Docs : OpenForDecision(r, d) \/ ApplyRules(r, d)
    <3>1. UNCHANGED <<flushed, held, tallies>>
          /\ \A q \in Reviewers \ {r} : target'[q] = target[q] /\ loaded'[q] = loaded[q]
      BY <1>1, <2>2 DEF OpenForDecision, ApplyRules, LoadDocument, TypeOK
    <3>2. \A q \in Reviewers \ {r} : reviewer'[q] = reviewer[q] /\ chosen'[q] = chosen[q]
      BY <1>1, <2>2 DEF OpenForDecision, ApplyRules, ToReview, TypeOK
    <3> QED BY <3>1, <3>2
  <2>3. CASE DecideManually(r) \/ ModelAnswered(r)
    BY <1>1, <2>3 DEF DecideManually, ModelAnswered, ToReview, TypeOK
  <2>4. CASE LockTasks(r) \/ CountDecided(r)
    BY <1>1, <2>4 DEF LockTasks, CountDecided, ToReview, TypeOK
  <2> QED BY <2>1, <2>2, <2>3, <2>4
<1>4. CASE UNCHANGED sharedVars
  <2>1. \A u \in Tasks : Untouched(u)
    BY <1>4 DEF Untouched, Linked, sharedVars, taskVars
  <2>2. ASSUME NEW u \in held'[r], reviewer'[r] = "committing"
        PROVE  tallies'[r][u] = CountedBy(r, u)'
    <3>1. CountDecided(r)
      BY <1>1, <2>2 DEF OpenForDecision, ApplyRules, LoadDocument, DecideManually,
                        ModelAnswered, ModelUnavailable, LockTasks, CommitReview,
                        AbortReview, CloseReview, ToReview, TypeOK
    <3>2. u \in held[r] /\ u \in Tasks
      BY <1>2, <2>2, <3>1 DEF CountDecided
    <3>3. tallies'[r][u] = {d \in Linked(u) : Undecided(SeenRow(r, d))}
      BY <1>1, <3>1, <3>2 DEF CountDecided, TypeOK
    <3>4. CountedBy(r, u)' = {d \in Linked(u) : Undecided(SeenRow(r, d))}
      BY <1>4, <3>1 DEF CountDecided, CountedBy, Linked, SeenRow, Written, Undecided,
                        sharedVars
    <3> QED BY <3>3, <3>4
  <2>3. UNCHANGED saverVars
    BY <1>4 DEF sharedVars
  <2>4. \A u \in held[r] : u \notin missed' /\ task'[u] = "waiting_review" =>
               OpenDocs(u)' # {} /\ pending'[u] = OpenDocs(u)'
    BY <1>2, <2>1, UntouchedWaits DEF Tallied
  <2> QED BY <1>1, <1>2, <1>3, <2>1, <2>2, <2>3, <2>4, TalliedByReviewer
<1>5. CASE ModelUnavailable(r)
  <2>1. /\ target[r] \in Docs /\ held[r] = {} /\ reviewer'[r] = "idle" /\ held'[r] = {}
        /\ UNCHANGED <<taskVars, lineage, saverVars>>
        /\ missed' = missed \cup TasksOf(target[r])
        /\ \A d \in Docs \ {target[r]} : doc'[d] = doc[d]
    BY <1>1, <1>2, <1>5 DEF ModelUnavailable, CloseReview, ToReview, ReviewerLocks, TypeOK
  <2>2. \A u \in Tasks : Untouched(u)
    BY <2>1 DEF Untouched, Linked, TasksOf, taskVars
  <2> QED BY <1>1, <1>2, <1>3, <2>1, <2>2, TalliedByReviewer
<1>6. CASE CommitReview(r)
  <2>1. /\ target[r] \in Docs /\ held'[r] = {} /\ UNCHANGED <<lineage, saverVars>>
        /\ missed' = missed \cup (TasksOf(target[r]) \ (IF flushed[r] THEN held[r] ELSE {}))
        /\ \A d \in Docs \ {target[r]} : doc'[d] = doc[d]
        /\ doc'[target[r]] = Written(doc[target[r]], loaded[r], chosen[r])
        /\ task' = [t \in Tasks |-> IF Closes(r, t) THEN "completed" ELSE task[t]]
        /\ pending' = NewCounts(r) /\ reviewer[r] = "committing"
    BY <1>1, <1>2, <1>6 DEF CommitReview, CloseReview, TypeOK
  <2>2. ASSUME NEW u \in Tasks, u \notin held[r]  PROVE Untouched(u)
    <3>1. task'[u] = task[u] /\ pending'[u] = pending[u]
      BY <1>1, <2>1, <2>2 DEF Closes, NewCounts, TypeOK
    <3>2. u \notin missed' => u \notin missed /\ target[r] \notin Linked(u)
      BY <2>1, <2>2 DEF TasksOf, Linked
    <3> QED BY <2>1, <3>1, <3>2 DEF Untouched, Linked
  <2>3. ASSUME NEW u \in held[r], u \notin missed', task'[u] = "waiting_review"
        PROVE  OpenDocs(u)' # {} /\ pending'[u] = OpenDocs(u)'
    <3>1. flushed[r] /\ u \notin missed /\ u \in Tasks
      BY <1>2, <2>1, <2>3
    <3>2. tallies[r][u] = CountedBy(r, u)
      BY <2>1, <2>3, <3>1 DEF Tallied, ReviewerTallies
    <3>3. OpenDocs(u)' = CountedBy(r, u)
      BY <2>1, <3>1 DEF OpenDocs, CountedBy, Linked, SeenRow, Undecided
    <3>4. pending'[u] = tallies[r][u] /\ tallies[r][u] # {}
      BY <2>1, <2>3, <3>1 DEF NewCounts, Closes
    <3> QED BY <3>2, <3>3, <3>4
  <2> QED BY <1>1, <1>2, <1>3, <2>1, <2>2, <2>3, TalliedByReviewer
<1>7. UNCHANGED sharedVars \/ ModelUnavailable(r) \/ CommitReview(r)
  BY DEF OpenForDecision, ApplyRules, LoadDocument, DecideManually, ModelAnswered,
         LockTasks, CountDecided, AbortReview
<1> QED BY <1>4, <1>5, <1>6, <1>7

LEMMA TalliedStep == Core /\ Core' /\ Tallied /\ [Next]_vars => Tallied'
<1> SUFFICES ASSUME Core, Core', Tallied, [Next]_vars PROVE Tallied'
  OBVIOUS
<1>1. CASE Next
  BY <1>1, TalliedSaverStep, TalliedReviewerStep DEF Next
<1>2. CASE UNCHANGED vars
  BY <1>2 DEF vars, taskVars, saverVars, reviewerVars, Tallied, SaverTallies,
     ReviewerTallies, ClosedWhenReviewed, OpenDocs, Counted, CountedBy, Linked, SavedRow,
     SeenRow
<1> QED BY <1>1, <1>2

(* A task waits exactly as long as one of its documents is undecided, and  *)
(* its count names them (reconcile_crawl_tasks, _execute_coze).            *)
THEOREM WaitsForItsDocuments == Spec => []ClosedWhenReviewed
<1>1. Init => Core /\ Tallied
  BY CoreInit, TalliedInit
<1>2. Core /\ Tallied /\ [Next]_vars => (Core /\ Tallied)'
  BY CoreStep, TalliedStep
<1>3. Tallied => ClosedWhenReviewed
  BY DEF Tallied
<1> QED BY <1>1, <1>2, <1>3, PTL DEF Spec

(* A review closes such a task only when its documents are decided: what   *)
(* the transaction has counted is what its commit leaves.                  *)
THEOREM ClosesReviewedTasks == Spec => ClosedOnlyWhenReviewed
<1> DEFINE Closing == \A t \in Tasks \ missed :
                         task[t] = "waiting_review" /\ task'[t] = "completed"
                            => \A d \in Linked(t) : doc'[d].final \in Decided
<1>1. ASSUME Core, Tallied, [Next]_vars  PROVE [Closing]_vars
  <2>1. SUFFICES ASSUME NEW t \in Tasks, t \notin missed, task[t] = "waiting_review",
                        task'[t] = "completed", NEW d \in Linked(t)
                 PROVE  doc'[d].final \in Decided
    OBVIOUS
  <2>2. TypeOK /\ SaverLocks /\ ReviewerLocks
    BY <1>1 DEF Core
  <2>3. saver[t] = "idle"
    BY <2>1, <2>2 DEF SaverLocks
  <2>4. PICK r \in Reviewers : CommitReview(r)
    <3>1. task'[t] # task[t]
      BY <2>1
    <3>2. ASSUME NEW u \in Tasks, \/ SaveArticles(u) \/ CountPending(u) \/ FinishSave(u)
                                  \/ AbortSave(u) \/ Recrawl(u) \/ Cancel(u)
          PROVE  FALSE
      <4>1. u = t \/ task'[t] = task[t]
        BY <2>2, <3>2 DEF SaveArticles, CountPending, FinishSave, AbortSave, Recrawl,
                          Cancel, TypeOK, taskVars
      <4>2. u = t
        BY <3>1, <4>1
      <4>3. ~SaveArticles(t) /\ ~AbortSave(t) /\ ~Recrawl(t)
        BY <2>1 DEF SaveArticles, AbortSave, Recrawl
      <4>4. ~CountPending(t) /\ ~FinishSave(t)
        BY <2>3 DEF CountPending, FinishSave
      <4>5. ~Cancel(t)
        BY <2>1, <2>2 DEF Cancel, TypeOK
      <4> QED BY <3>2, <4>2, <4>3, <4>4, <4>5
    <3>3. ASSUME NEW r \in Reviewers,
                 \/ \E e \in Docs : OpenForDecision(r, e) \/ ApplyRules(r, e)
                 \/ DecideManually(r) \/ ModelAnswered(r) \/ ModelUnavailable(r)
                 \/ LockTasks(r) \/ CountDecided(r) \/ AbortReview(r)
          PROVE  FALSE
      BY <3>1, <3>3 DEF OpenForDecision, ApplyRules, LoadDocument, DecideManually,
         ModelAnswered, ModelUnavailable, LockTasks, CountDecided, AbortReview,
         sharedVars, taskVars
    <3>4. Next
      BY <1>1, <3>1 DEF vars, taskVars
    <3> QED BY <3>2, <3>3, <3>4 DEF Next
  <2>5. Closes(r, t)
    BY <2>1, <2>4 DEF CommitReview
  <2>6. reviewer[r] = "committing" /\ target[r] \in Docs
    BY <2>2, <2>4 DEF CommitReview, ReviewerLocks
  <2>7. {e \in Linked(t) : Undecided(SeenRow(r, e))} = {}
    BY <1>1, <2>1, <2>5, <2>6 DEF Closes, Tallied, ReviewerTallies, CountedBy
  <2>8. flushed[r]
    <3>1. OpenDocs(t) # {}
      BY <1>1, <2>1 DEF Tallied, ClosedWhenReviewed
    <3>2. ASSUME ~flushed[r]  PROVE OpenDocs(t) = {}
      BY <2>7, <3>2 DEF OpenDocs, Undecided, SeenRow
    <3> QED BY <3>1, <3>2
  <2>9. doc'[d] = SeenRow(r, d)
    BY <2>2, <2>4, <2>6, <2>8 DEF CommitReview, SeenRow, TypeOK, Linked
  <2> QED BY <2>7, <2>9 DEF Undecided
<1>2. Init => Core /\ Tallied
  BY CoreInit, TalliedInit
<1>3. Core /\ Tallied /\ [Next]_vars => (Core /\ Tallied)'
  BY CoreStep, TalliedStep
<1>4. Core /\ Tallied /\ [Next]_vars => [Closing]_vars
  BY <1>1
<1> QED BY <1>2, <1>3, <1>4, PTL DEF Spec, ClosedOnlyWhenReviewed

(* A review that was in progress when its task was cancelled holds no lock *)
(* of it and does not bring it back (cancel_task_if_status).               *)
THEOREM CancelStands == Spec => CancelSurvivesReview
<1> DEFINE Stands == \A t \in Tasks :
                        task[t] = "cancelled" => task'[t] \in {"cancelled", "saving_documents"}
<1>1. ASSUME Core, [Next]_vars  PROVE [Stands]_vars
  <2>1. SUFFICES ASSUME NEW t \in Tasks, task[t] = "cancelled"
                 PROVE  task'[t] \in {"cancelled", "saving_documents"}
    OBVIOUS
  <2>2. TypeOK /\ SaverLocks /\ ReviewerLocks
    BY <1>1 DEF Core
  <2>3. saver[t] = "idle" /\ \A r \in Reviewers : t \notin held[r]
    BY <2>1, <2>2 DEF SaverLocks, ReviewerLocks
  <2>4. ASSUME NEW u \in Tasks, \/ SaveArticles(u) \/ CountPending(u) \/ FinishSave(u)
                                \/ AbortSave(u) \/ Recrawl(u) \/ Cancel(u)
        PROVE  task'[t] \in {"cancelled", "saving_documents"}
    BY <2>1, <2>2, <2>3, <2>4 DEF SaveArticles, CountPending, FinishSave, AbortSave,
       Recrawl, Cancel, TypeOK, taskVars
  <2>5. ASSUME NEW r \in Reviewers, CommitReview(r)
        PROVE  task'[t] = "cancelled"
    BY <2>1, <2>3, <2>5 DEF CommitReview, Closes
  <2>6. ASSUME NEW r \in Reviewers,
               \/ \E d \in Docs : OpenForDecision(r, d) \/ ApplyRules(r, d)
               \/ DecideManually(r) \/ ModelAnswered(r) \/ ModelUnavailable(r)
               \/ LockTasks(r) \/ CountDecided(r) \/ AbortReview(r)
        PROVE  task'[t] = "cancelled"
    BY <2>1, <2>6 DEF OpenForDecision, ApplyRules, LoadDocument, DecideManually,
       ModelAnswered, ModelUnavailable, LockTasks, CountDecided, AbortReview,
       sharedVars, taskVars
  <2>7. CASE Next
    BY <2>4, <2>5, <2>6, <2>7 DEF Next
  <2>8. CASE UNCHANGED vars
    BY <2>1, <2>8 DEF vars, taskVars
  <2> QED BY <1>1, <2>7, <2>8
<1>2. Core /\ [Next]_vars => [Stands]_vars
  BY <1>1
<1> QED BY <1>2, CoreInit, CoreStep, PTL DEF Spec, CancelSurvivesReview

-----------------------------------------------------------------------------
(* Decisions made by hand.                                                 *)

(* Whoever decides leaves a mark made by hand or none of his own, and what *)
(* a crawl has rewritten under the lock of the row keeps the mark that the *)
(* row has, unless the text is a new one.                                  *)
ReviewerMarks ==
    \A r \in Reviewers : reviewer[r] \in {"reconciling", "counting", "committing"} =>
        chosen[r].manual = loaded[r].manual \/ chosen[r].manual \in ByHand
DraftMarks ==
    \A t \in Tasks : \A d \in DOMAIN draft[t] :
        doc[d].manual \in ByHand => draft[t][d].manual \in ByHand \/ d \in renewed[t]
Marks == ReviewerMarks /\ DraftMarks

Keeps ==
    \A d \in Docs : doc[d].manual \in ByHand /\ doc'[d].manual \notin ByHand
        => \E t \in Tasks : d \in renewed[t]

LEMMA RefreshKeepsMark ==
    ASSUME NEW old \in Rows, NEW decision, NEW news, old.manual \in ByHand,
           old = NoRow \/ news # "content"
    PROVE  Refreshed(old, decision, news).manual \in ByHand
BY DEF Refreshed, NoRow, Row, ByHand

LEMMA MarksInit == Init => Marks
<1>1. Init => ReviewerMarks
  BY DEF Init, ReviewerMarks
<1>2. Init => DraftMarks
  BY NoDraftTyped DEF Init, DraftMarks
<1> QED BY <1>1, <1>2 DEF Marks

LEMMA MarksSaverStep ==
    ASSUME Core, Marks, NEW t \in Tasks,
           \/ SaveArticles(t) \/ CountPending(t) \/ FinishSave(t)
           \/ AbortSave(t) \/ Recrawl(t) \/ Cancel(t)
    PROVE  Marks' /\ Keeps
<1>1. TypeOK /\ SaverLocks /\ ReviewerMarks /\ DraftMarks
  BY DEF Core, Marks
<1>2. ReviewerMarks'
  <2>1. UNCHANGED reviewerVars
    BY DEF SaveArticles, CountPending, FinishSave, AbortSave, Recrawl, Cancel
  <2> QED BY <1>1, <2>1 DEF ReviewerMarks, reviewerVars
<1>3. CASE SaveArticles(t)
  <2>1. PICK batch \in SUBSET Docs :
        \E decision \in [batch -> {"pending_review", "rejected"}], news \in [batch -> News] :
          /\ draft' = [draft EXCEPT ![t] =
                         [d \in batch |-> Refreshed(doc[d], decision[d], news[d])]]
          /\ renewed' = [renewed EXCEPT ![t] =
                           {d \in batch : doc[d] # NoRow /\ news[d] = "content"}]
    BY <1>3 DEF SaveArticles
  <2>2. PICK decision \in [batch -> {"pending_review", "rejected"}], news \in [batch -> News] :
          /\ draft' = [draft EXCEPT ![t] =
                         [d \in batch |-> Refreshed(doc[d], decision[d], news[d])]]
          /\ renewed' = [renewed EXCEPT ![t] =
                           {d \in batch : doc[d] # NoRow /\ news[d] = "content"}]
    BY <2>1
  <2>3. ASSUME NEW d \in DOMAIN draft'[t], doc[d].manual \in ByHand
        PROVE  draft'[t][d].manual \in ByHand \/ d \in renewed'[t]
    BY <1>1, <2>2, <2>3, RefreshKeepsMark DEF TypeOK
  <2>4. \A u \in Tasks \ {t} : draft'[u] = draft[u] /\ renewed'[u] = renewed[u]
    BY <1>1, <2>2 DEF TypeOK
  <2>5. doc' = doc
    BY <1>3 DEF SaveArticles
  <2> QED BY <1>1, <1>2, <2>3, <2>4, <2>5 DEF Marks, DraftMarks, Keeps
<1>4. CASE FinishSave(t)
  <2>1. /\ \A d \in Docs : doc'[d] = SavedRow(t, d)
        /\ draft'[t] = NoDraft
        /\ \A u \in Tasks \ {t} : draft'[u] = draft[u] /\ renewed'[u] = renewed[u]
    BY <1>1, <1>4 DEF FinishSave, CloseSaver, TypeOK
  <2>2. Keeps
    BY <1>1, <2>1 DEF Keeps, SavedRow, DraftMarks
  <2>3. ASSUME NEW u \in Tasks, NEW d \in DOMAIN draft'[u], doc'[d].manual \in ByHand
        PROVE  draft'[u][d].manual \in ByHand \/ d \in renewed'[u]
    <3>1. u # t /\ d \in DOMAIN draft[u]
      BY <2>1, <2>3, NoDraftTyped
    <3>2. d \in Docs /\ d \notin DOMAIN draft[t]
      BY <1>1, <3>1, DraftRows DEF SaverLocks, TypeOK
    <3>3. doc'[d] = doc[d]
      BY <2>1, <3>2 DEF SavedRow
    <3> QED BY <1>1, <2>1, <2>3, <3>1, <3>3 DEF DraftMarks
  <2> QED BY <1>2, <2>2, <2>3 DEF Marks, DraftMarks
<1>5. CASE CountPending(t) \/ AbortSave(t) \/ Recrawl(t) \/ Cancel(t)
  <2>1. doc' = doc
    BY <1>5 DEF CountPending, AbortSave, Recrawl, Cancel
  <2>2. \A u \in Tasks : \/ draft'[u] = NoDraft
                         \/ draft'[u] = draft[u] /\ renewed'[u] = renewed[u]
    BY <1>1, <1>5 DEF CountPending, AbortSave, Recrawl, Cancel, CloseSaver, TypeOK, saverVars
  <2> QED BY <1>1, <1>2, <2>1, <2>2, NoDraftTyped DEF Marks, DraftMarks, Keeps
<1> QED BY <1>3, <1>4, <1>5

LEMMA MarksReviewerStep ==
    ASSUME Core, Marks, NEW r \in Reviewers,
           \/ \E d \in Docs : OpenForDecision(r, d) \/ ApplyRules(r, d)
           \/ DecideManually(r) \/ ModelAnswered(r)
           \/ ModelUnavailable(r) \/ LockTasks(r) \/ CountDecided(r)
           \/ CommitReview(r) \/ AbortReview(r)
    PROVE  Marks' /\ Keeps
<1>1. TypeOK /\ ReviewerLocks /\ ReviewerMarks /\ DraftMarks
  BY DEF Core, Marks
<1>2. UNCHANGED <<draft, renewed>>
  BY DEF OpenForDecision, ApplyRules, LoadDocument, DecideManually, ModelAnswered,
         ModelUnavailable, LockTasks, CountDecided, CommitReview, AbortReview,
         sharedVars, saverVars
<1>3. ASSUME NEW d \in Docs,
             doc'[d].manual = doc[d].manual \/ doc'[d].manual \in ByHand,
             \A t \in Tasks : d \notin DOMAIN draft[t],
             \A e \in Docs \ {d} : doc'[e] = doc[e]
      PROVE  DraftMarks' /\ Keeps
  BY <1>1, <1>2, <1>3, DraftRows DEF DraftMarks, Keeps, TypeOK
<1>4. ASSUME UNCHANGED doc  PROVE DraftMarks' /\ Keeps
  BY <1>1, <1>2, <1>4 DEF DraftMarks, Keeps
<1>5. CASE ModelUnavailable(r)
  <2>1. target[r] \in Docs /\ CloseReview(r)
    BY <1>1, <1>5 DEF ModelUnavailable, ReviewerLocks
  <2>2. /\ [loaded[r] EXCEPT !.final = "pending_llm"] \in Rows
        /\ [loaded[r] EXCEPT !.final = "pending_llm"].manual = loaded[r].manual
    BY <1>1, FinalTyped DEF TypeOK, Final
  <2>3. /\ doc'[target[r]].manual = doc[target[r]].manual
        /\ \A e \in Docs \ {target[r]} : doc'[e] = doc[e]
    <3> DEFINE new == [loaded[r] EXCEPT !.final = "pending_llm"]
    <3>1. doc' = [doc EXCEPT ![target[r]] = Written(doc[target[r]], loaded[r], new)]
      BY <1>5 DEF ModelUnavailable
    <3>2. loaded[r] \in Rows /\ doc[target[r]] \in Rows /\ doc \in [Docs -> Rows]
      BY <1>1, <2>1 DEF TypeOK
    <3>3. new \in Rows /\ new.manual = loaded[r].manual
      BY <2>2
    <3> HIDE DEF new
    <3>4. Written(doc[target[r]], loaded[r], new).manual = doc[target[r]].manual
      BY <3>2, <3>3, WrittenTyped
    <3> QED BY <2>1, <3>1, <3>2, <3>4
  <2>4. \A t \in Tasks : target[r] \notin DOMAIN draft[t]
    BY <1>5 DEF ModelUnavailable, RowFree
  <2>5. ReviewerMarks'
    BY <1>1, <2>1, ClosedReview DEF ReviewerMarks
  <2> QED BY <1>3, <2>1, <2>3, <2>4, <2>5 DEF Marks
<1>6. CASE CommitReview(r)
  <2>1. target[r] \in Docs /\ CloseReview(r) /\ reviewer[r] = "committing"
    BY <1>1, <1>6 DEF CommitReview, ReviewerLocks
  <2>2. chosen[r].manual = loaded[r].manual \/ chosen[r].manual \in ByHand
    BY <1>1, <2>1 DEF ReviewerMarks
  <2>3. /\ doc'[target[r]].manual = doc[target[r]].manual \/ doc'[target[r]].manual \in ByHand
        /\ \A e \in Docs \ {target[r]} : doc'[e] = doc[e]
    BY <1>1, <1>6, <2>1, <2>2, WrittenTyped DEF CommitReview, TypeOK
  <2>4. \A t \in Tasks : target[r] \notin DOMAIN draft[t]
    BY <1>1, <1>6 DEF CommitReview, RowFree, ReviewerLocks
  <2>5. ReviewerMarks'
    BY <1>1, <2>1, ClosedReview DEF ReviewerMarks
  <2> QED BY <1>3, <2>1, <2>3, <2>4, <2>5 DEF Marks
<1>7. CASE AbortReview(r)
  <2>1. CloseReview(r) /\ doc' = doc
    BY <1>7 DEF AbortReview, sharedVars
  <2>2. ReviewerMarks'
    BY <1>1, <2>1, ClosedReview DEF ReviewerMarks
  <2> QED BY <1>4, <2>1, <2>2 DEF Marks
<1>8. ASSUME NEW d \in Docs, OpenForDecision(r, d) \/ ApplyRules(r, d)
      PROVE  Marks' /\ Keeps
  <2>1. doc' = doc /\ loaded'[r] = doc[d] /\ doc[d] \in Rows
        /\ \A q \in Reviewers \ {r} : loaded'[q] = loaded[q]
    BY <1>1, <1>8 DEF OpenForDecision, ApplyRules, LoadDocument, sharedVars, TypeOK
  <2>2. \A q \in Reviewers \ {r} : reviewer'[q] = reviewer[q] /\ chosen'[q] = chosen[q]
    BY <1>1, <1>8 DEF OpenForDecision, ApplyRules, ToReview, TypeOK
  <2>3. reviewer'[r] \in {"deciding", "llm"}
        \/ chosen'[r] = [doc[d] EXCEPT !.final = "rejected"]
    BY <1>1, <1>8 DEF OpenForDecision, ApplyRules, ToReview, TypeOK
  <2>4. [doc[d] EXCEPT !.final = "rejected"].manual = doc[d].manual
    BY <2>1, FinalTyped DEF Final
  <2>5. ReviewerMarks'
    BY <1>1, <2>1, <2>2, <2>3, <2>4 DEF ReviewerMarks
  <2> QED BY <1>4, <2>1, <2>5 DEF Marks
<1>9. CASE DecideManually(r) \/ ModelAnswered(r)
  <2>1. /\ doc' = doc /\ loaded' = loaded
        /\ \A q \in Reviewers \ {r} : reviewer'[q] = reviewer[q] /\ chosen'[q] = chosen[q]
    BY <1>1, <1>9 DEF DecideManually, ModelAnswered, ToReview, sharedVars, TypeOK
  <2>2. chosen'[r].manual = loaded[r].manual \/ chosen'[r].manual \in ByHand
    <3>1. CASE DecideManually(r)
      <4>1. PICK decision \in ByHand :
              chosen' = [chosen EXCEPT ![r] =
                           [loaded[r] EXCEPT !.manual = decision,
                                             !.final = IF decision = "approve" THEN "approved"
                                                       ELSE "rejected"]]
        BY <3>1 DEF DecideManually
      <4>2. (IF decision = "approve" THEN "approved" ELSE "rejected") \in Final
        BY DEF Final
      <4>3. [loaded[r] EXCEPT !.manual = decision,
                              !.final = IF decision = "approve" THEN "approved"
                                        ELSE "rejected"].manual = decision
        BY <1>1, <4>2, DecisionTyped DEF TypeOK
      <4> QED BY <1>1, <4>1, <4>3 DEF TypeOK
    <3>2. CASE ModelAnswered(r)
      <4>1. PICK final \in {"approved", "rejected", "pending_manual_review"} :
              chosen' = [chosen EXCEPT ![r] = [loaded[r] EXCEPT !.final = final]]
        BY <3>2 DEF ModelAnswered
      <4>2. [loaded[r] EXCEPT !.final = final].manual = loaded[r].manual
        BY <1>1, FinalTyped DEF TypeOK, Final
      <4> QED BY <1>1, <4>1, <4>2 DEF TypeOK
    <3> QED BY <1>9, <3>1, <3>2
  <2>3. ReviewerMarks'
    BY <1>1, <2>1, <2>2 DEF ReviewerMarks
  <2> QED BY <1>4, <2>1, <2>3 DEF Marks
<1>10. CASE LockTasks(r) \/ CountDecided(r)
  <2>1. /\ UNCHANGED <<doc, loaded, chosen>>
        /\ reviewer[r] \in {"reconciling", "counting"}
        /\ \A q \in Reviewers \ {r} : reviewer'[q] = reviewer[q]
    BY <1>1, <1>10 DEF LockTasks, CountDecided, ToReview, sharedVars, TypeOK
  <2>2. ReviewerMarks'
    BY <1>1, <2>1 DEF ReviewerMarks
  <2> QED BY <1>4, <2>1, <2>2 DEF Marks
<1> QED BY <1>5, <1>6, <1>7, <1>8, <1>9, <1>10

(* A decision made by hand is forgotten only for a new version of the text *)
(* (_refresh_coze_document under the row lock, manual_decision, run).      *)
THEOREM ManualMarksKept == Spec => ManualMarkKept
<1>1. Core /\ Marks /\ [Next]_vars => Marks' /\ [Keeps]_vars
  <2> SUFFICES ASSUME Core, Marks, [Next]_vars PROVE Marks' /\ [Keeps]_vars
    OBVIOUS
  <2>1. CASE Next
    BY <2>1, MarksSaverStep, MarksReviewerStep DEF Next
  <2>2. CASE UNCHANGED vars
    BY <2>2 DEF vars, saverVars, reviewerVars, Marks, ReviewerMarks, DraftMarks
  <2> QED BY <2>1, <2>2
<1> QED BY <1>1, CoreInit, CoreStep, MarksInit, PTL DEF Spec, ManualMarkKept, Keeps

=============================================================================
