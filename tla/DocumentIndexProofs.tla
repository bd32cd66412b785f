------------------------- MODULE DocumentIndexProofs ------------------------
(***************************************************************************)
(* Proofs about DocumentIndex, for any number of requests at the same time *)
(* and any number of versions.                                             *)
(***************************************************************************)
EXTENDS DocumentIndex, TLAPS

USE DEF rowVars, chunkVars, bm25Vars, historyVars

-----------------------------------------------------------------------------
(* Type correctness.                                                       *)

(* The variables that a request begins with.                               *)
LEMMA FreshType ==
    ASSUME NEW pc \in Steps
    PROVE  Fresh(pc) \in RequestStates /\ Fresh(pc).pc = pc
    BY VersionAssumption DEF Fresh, RequestStates, Versions, Writers, IndexStatus

(* Chunk ids of a version.                                                 *)
LEMMA DraftsType ==
    ASSUME NEW v \in Versions, NEW a \in BOOLEAN
    PROVE  Drafts(v, a) \subseteq ChunkIds
    BY DEF Drafts, ChunkIds

(* Moving a request on, or letting it forget what it has read, keeps types.*)
LEMMA RequestType ==
    ASSUME request \in [Requests -> RequestStates], NEW r \in Requests, NEW pc \in Steps,
           Goto(r, pc) \/ Forget(r, pc)
    PROVE  request' \in [Requests -> RequestStates]
<1>1. CASE Goto(r, pc)
    BY <1>1 DEF Goto, RequestStates
<1>2. CASE Forget(r, pc)
    BY <1>2, FreshType DEF Forget
<1>3. QED BY <1>1, <1>2

(* The indexing steps write a status that the table allows.                *)
LEMMA StatusType ==
    ASSUME row \in Rows, NEW s \in IndexStatus, SetIndexStatus(s)
    PROVE  row' \in Rows
    BY DEF SetIndexStatus, Rows

(* Every step keeps the types.                                             *)
LEMMA TypeStep == TypeOK /\ [Next]_vars => TypeOK'
<1> SUFFICES ASSUME TypeOK, [Next]_vars PROVE TypeOK'
    OBVIOUS
<1> USE DEF TypeOK, End
<1>a. "idle" \in Steps /\ "load" \in Steps /\ "mark" \in Steps /\ Indexing \subseteq Steps
      /\ Handling \subseteq Steps /\ Updating \subseteq Steps /\ Deleting \subseteq Steps
      /\ Rebuilding \subseteq Steps
    BY DEF Steps
<1>b. \A s \in {"indexing", "indexed", "failed"} : s \in IndexStatus
    BY DEF IndexStatus
<1>1. ASSUME NEW r \in Requests, StartReindex(r) \/ StartUpdate(r) \/ StartDelete(r)
      PROVE  TypeOK'
    <2>1. ASSUME NEW pc \in Steps, Begin(r, pc) PROVE TypeOK'
        BY <2>1, RequestType DEF Begin
    <2>2. QED BY <1>a, <1>1, <2>1 DEF StartReindex, StartUpdate, StartDelete, Updating, Deleting
<1>2. ASSUME NEW r \in Requests, LoadDocument(r) PROVE TypeOK'
    <2>1. Drafts(row.version, attached) \subseteq ChunkIds
        BY DraftsType DEF Rows
    <2>2. CASE End(r)
        BY <1>a, <1>2, <2>2, RequestType DEF LoadDocument
    <2>3. CASE ~End(r)
        BY <1>a, <1>2, <2>1, <2>3 DEF LoadDocument, RequestStates, Rows
    <2>4. QED BY <2>2, <2>3
<1>3. ASSUME NEW r \in Requests, MarkIndexing(r) \/ Embed(r) \/ Upsert(r) PROVE TypeOK'
    <2>1. request' \in [Requests -> RequestStates]
        BY <1>3, <1>a, RequestType DEF MarkIndexing, Embed, Upsert, Indexing
    <2>2. row' \in Rows
        BY <1>3, <1>b, StatusType DEF MarkIndexing, Embed, Upsert
    <2>3. points' \subseteq ChunkIds
        BY <1>3 DEF MarkIndexing, Embed, Upsert, RequestStates
    <2>4. QED BY <1>3, <2>1, <2>2, <2>3 DEF MarkIndexing, Embed, Upsert
<1>4. ASSUME NEW r \in Requests, Switch(r) PROVE TypeOK'
    <2>1. request' \in [Requests -> RequestStates]
        BY <1>4, <1>a, RequestType DEF Switch, FailSwitch, Indexing, Handling
    <2>2. history' \subseteq Versions \X Writers
        BY <1>4 DEF Switch, EnsureVersion, RequestStates
    <2>3. QED BY <1>4, <2>1, <2>2 DEF Switch, LineageWith, RequestStates
<1>5. ASSUME NEW r \in Requests, DeleteStale(r) \/ MarkIndexed(r) PROVE TypeOK'
    <2>1. request' \in [Requests -> RequestStates]
        BY <1>5, <1>a, RequestType DEF DeleteStale, MarkIndexed, Indexing, Rebuilding
    <2>2. row' \in Rows
        BY <1>5, <1>b, StatusType DEF DeleteStale, MarkIndexed
    <2>3. QED BY <1>5, <2>1, <2>2 DEF DeleteStale, MarkIndexed
<1>6. ASSUME NEW r \in Requests, Compensate(r) \/ MarkFailed(r) PROVE TypeOK'
    <2>1. request' \in [Requests -> RequestStates]
        BY <1>6, <1>a, RequestType DEF Compensate, MarkFailed, Handling
    <2>2. row' \in Rows
        BY <1>6, <1>b, StatusType DEF Compensate, MarkFailed
    <2>3. QED BY <1>6, <2>1, <2>2 DEF Compensate, MarkFailed
<1>7. ASSUME NEW r \in Requests, LoadForUpdate(r) \/ NothingChanged(r) PROVE TypeOK'
    <2>1. CASE End(r)
        BY <1>a, <1>7, <2>1, RequestType DEF LoadForUpdate, NothingChanged
    <2>2. CASE ~End(r)
        <3>1. "bump" \in Steps BY DEF Steps, Updating
        <3>2. row.version \in Versions /\ row.writer \in Writers /\ row.index \in IndexStatus
            BY DEF Rows
        <3>3. request' \in [Requests -> RequestStates]
            BY <1>7, <2>2, <3>1, <3>2 DEF LoadForUpdate, NothingChanged, RequestStates
        <3>4. QED BY <1>7, <3>3 DEF LoadForUpdate, NothingChanged
    <2>3. QED BY <2>1, <2>2
<1>8. ASSUME NEW r \in Requests, BumpVersion(r) PROVE TypeOK'
    <2>1. request' \in [Requests -> RequestStates]
        BY <1>8, <1>a, RequestType DEF BumpVersion, Updating
    <2>2. request[r].version \in Versions /\ request[r].version + 1 \in Versions
        BY <1>8, VersionAssumption DEF BumpVersion, RequestStates, Versions
    <2>3. request[r].writer \in Writers /\ r \in Writers
        BY DEF RequestStates, Writers
    <2>4. history' \subseteq Versions \X Writers
        BY <1>8, <2>2, <2>3 DEF BumpVersion, Snapshots
    <2>5. row' \in Rows
        BY <1>8, <2>2, <2>3 DEF BumpVersion, Rows, IndexStatus
    <2>6. QED BY <1>8, <2>1, <2>4, <2>5 DEF BumpVersion
<1>9. ASSUME NEW r \in Requests, CollectPoints(r) PROVE TypeOK'
    <2>1. (IF At(r, "collect") THEN "remove" ELSE "remove_all") \in Steps
        BY DEF Steps, Updating, Deleting
    <2>2. request' \in [Requests -> RequestStates]
        BY <1>9, <2>1 DEF CollectPoints, RequestStates
    <2>3. QED BY <1>9, <2>2 DEF CollectPoints
<1>10. ASSUME NEW r \in Requests, RemovePoints(r) \/ MarkStale(r) \/ DropRow(r) PROVE TypeOK'
    <2>1. (IF At(r, "remove") THEN "mark_stale" ELSE "drop_row") \in Steps
        BY DEF Steps, Updating, Deleting
    <2>2. request' \in [Requests -> RequestStates]
        BY <1>10, <1>a, <2>1, RequestType DEF RemovePoints, MarkStale, DropRow, Rebuilding
    <2>3. QED BY <1>10, <2>2 DEF RemovePoints, MarkStale, DropRow, Rows
<1>11. ASSUME NEW r \in Requests, Rebuild(r) PROVE TypeOK'
    <2>1. CASE ReadIndexed(r)
        <3>1. "assign" \in Steps BY DEF Steps, Rebuilding
        <3>2. Listed \subseteq ChunkIds BY DEF Listed
        <3>3. request' \in [Requests -> RequestStates]
            BY <2>1, <3>1, <3>2 DEF ReadIndexed, RequestStates
        <3>4. QED BY <2>1, <3>3 DEF ReadIndexed
    <2>2. CASE AssignBM25(r) \/ SaveSnapshot(r)
        <3>1. request' \in [Requests -> RequestStates]
            BY <2>2, <1>a, RequestType DEF AssignBM25, SaveSnapshot, Rebuilding
        <3>2. QED BY <2>2, <3>1 DEF AssignBM25, SaveSnapshot, RequestStates
    <2>3. QED BY <1>11, <2>1, <2>2 DEF Rebuild
<1>12. ASSUME NEW r \in Requests, IndexingFails(r) PROVE TypeOK'
    <2>1. request' \in [Requests -> RequestStates]
        BY <1>12, <1>a, RequestType DEF IndexingFails, FailSwitch, Handling
    <2>2. points' \subseteq ChunkIds
        BY <1>12 DEF IndexingFails, RequestStates
    <2>3. QED BY <1>12, <2>1, <2>2 DEF IndexingFails
<1>13. ASSUME NEW r \in Requests, CompensationFails(r) \/ RequestFails(r) PROVE TypeOK'
    <2>1. (IF At(r, "compensate") THEN "mark_failed" ELSE "idle") \in Steps
        BY DEF Steps, Handling
    <2>2. request' \in [Requests -> RequestStates]
        BY <1>13, <1>a, <2>1, RequestType DEF CompensationFails, RequestFails
    <2>3. points' \subseteq ChunkIds /\ torn' \in BOOLEAN
        BY <1>13 DEF CompensationFails, RequestFails
    <2>4. QED BY <1>13, <2>2, <2>3 DEF CompensationFails, RequestFails
<1>14. CASE Restart
    BY <1>a, <1>14, FreshType DEF Restart, Idle
<1>15. CASE RebuildScript \/ ParseAttachment \/ \E approve \in BOOLEAN : Decide(approve)
    BY <1>15 DEF RebuildScript, ParseAttachment, Decide, Listed, Rows
<1>16. CASE RefreshByCrawl
    <2>1. row.version \in Versions /\ row.version + 1 \in Versions
        BY <1>16, VersionAssumption DEF RefreshByCrawl, Rows, Versions
    <2>2. row.writer \in Writers /\ "crawl" \in Writers
        BY DEF Rows, Writers
    <2>3. row' \in Rows
        BY <1>16, <2>1, <2>2 DEF RefreshByCrawl, Rows, IndexStatus
    <2>4. history' \subseteq Versions \X Writers
        BY <1>16, <2>1, <2>2 DEF RefreshByCrawl, Snapshots
    <2>5. QED BY <1>16, <2>3, <2>4 DEF RefreshByCrawl
<1>17. CASE UNCHANGED vars
    BY <1>17 DEF vars
<1>18. QED
    BY <1>1, <1>2, <1>3, <1>4, <1>5, <1>6, <1>7, <1>8, <1>9, <1>10, <1>11, <1>12, <1>13,
       <1>14, <1>15, <1>16, <1>17 DEF Next, Serve, Reindexing, Editing, Faults

(* The types hold initially.                                               *)
LEMMA TypeInit == Init => TypeOK
<1> SUFFICES ASSUME Init PROVE TypeOK
    OBVIOUS
<1>1. row \in Rows
    BY VersionAssumption DEF Init, Rows, Versions, Writers, IndexStatus
<1>2. request \in [Requests -> RequestStates]
    BY FreshType DEF Init, Idle, Steps
<1>3. history \subseteq Versions \X Writers /\ chunks \subseteq ChunkIds
      /\ lineage \subseteq ChunkIds /\ points \subseteq ChunkIds
      /\ bm25 \subseteq ChunkIds /\ snapshot \subseteq ChunkIds
    BY DEF Init
<1>4. attached \in BOOLEAN /\ overlapped \in BOOLEAN /\ torn \in BOOLEAN
      /\ searchable \in {"pending", "indexed", "stale"}
    BY DEF Init
<1>5. QED BY <1>1, <1>2, <1>3, <1>4 DEF TypeOK

(* Rows, indexes and requests of the document always have their types.     *)
THEOREM Typing == Spec => []TypeOK
    BY TypeInit, TypeStep, PTL DEF Spec

-----------------------------------------------------------------------------
(* The version history.                                                    *)

(* The steps at which a request still relies on the text it has loaded.    *)
LoadedSteps == {"mark", "embed", "upsert", "switch", "bump"}

(* What a request has loaded is an earlier text of the row, or its text.   *)
LoadedOK ==
    \A r \in Requests : (row.exists /\ request[r].pc \in LoadedSteps) =>
        /\ request[r].version <= row.version
        /\ request[r].version = row.version => request[r].writer = row.writer

(* No snapshot is ahead of the row, and a deleted row has none.            *)
HistoryBound ==
    /\ \A h \in history : h[1] <= row.version
    /\ ~row.exists => history = {}

(* The inductive invariant of the history.                                 *)
HistoryInv == HistoryIsFaithful /\ HistoryBound /\ LoadedOK

(* A step that leaves text and history alone and loads nothing.            *)
KeepsText ==
    /\ history' = history
    /\ row'.exists = row.exists /\ row'.version = row.version /\ row'.writer = row.writer
KeepsLoaded ==
    \A q \in Requests : request'[q].pc \in LoadedSteps =>
        /\ request[q].pc \in LoadedSteps
        /\ request'[q].version = request[q].version
        /\ request'[q].writer = request[q].writer

(* Such a step keeps the invariant.                                        *)
LEMMA HistoryFrame ==
    ASSUME HistoryInv, KeepsText, KeepsLoaded
    PROVE  HistoryInv'
<1>1. HistoryIsFaithful' /\ HistoryBound'
    BY DEF HistoryInv, HistoryIsFaithful, HistoryBound, KeepsText
<1>2. LoadedOK'
    BY DEF HistoryInv, LoadedOK, KeepsText, KeepsLoaded
<1>3. QED BY <1>1, <1>2 DEF HistoryInv

(* Going on to any step from one of the loaded steps keeps what is loaded. *)
LEMMA GotoKeepsLoaded ==
    ASSUME TypeOK, NEW r \in Requests, NEW pc \in Steps, Goto(r, pc),
           request[r].pc \in LoadedSteps \/ pc \notin LoadedSteps
    PROVE  KeepsLoaded
    BY DEF TypeOK, RequestStates, Goto, KeepsLoaded

(* So does forgetting it.                                                  *)
LEMMA ForgetKeepsLoaded ==
    ASSUME TypeOK, NEW r \in Requests, NEW pc \in Steps \ LoadedSteps, Forget(r, pc)
    PROVE  KeepsLoaded
    BY FreshType DEF TypeOK, Forget, KeepsLoaded

(* A status of the index is not part of the text.                          *)
LEMMA StatusKeepsText ==
    ASSUME TypeOK, NEW s, SetIndexStatus(s), history' = history
    PROVE  KeepsText
    BY DEF TypeOK, Rows, SetIndexStatus, KeepsText

(* A request that loads the row keeps the invariant.                       *)
LEMMA HistoryLoad ==
    ASSUME TypeOK, HistoryInv, NEW r \in Requests, LoadDocument(r) \/ LoadForUpdate(r)
    PROVE  HistoryInv'
<1>1. CASE End(r)
    <2>1. KeepsLoaded
        BY <1>1, ForgetKeepsLoaded DEF End, Steps, LoadedSteps
    <2>2. QED BY <2>1, HistoryFrame DEF LoadDocument, LoadForUpdate, KeepsText
<1>2. CASE ~End(r)
    <2>1. HistoryIsFaithful' /\ HistoryBound'
        BY DEF HistoryInv, HistoryIsFaithful, HistoryBound, LoadDocument, LoadForUpdate
    <2>2. request'[r].version = row.version /\ request'[r].writer = row.writer
        BY <1>2 DEF LoadDocument, LoadForUpdate, TypeOK, RequestStates
    <2>3. \A q \in Requests \ {r} : request'[q] = request[q]
        BY <1>2 DEF LoadDocument, LoadForUpdate, TypeOK
    <2>4. row' = row /\ row.version \in Nat
        BY DEF LoadDocument, LoadForUpdate, TypeOK, Rows, Versions
    <2>5. LoadedOK'
        BY <2>2, <2>3, <2>4 DEF HistoryInv, LoadedOK
    <2>6. QED BY <2>1, <2>5 DEF HistoryInv
<1>3. QED BY <1>1, <1>2

(* The switch to new chunks takes a snapshot of the text they come from.   *)
LEMMA HistorySwitch ==
    ASSUME TypeOK, HistoryInv, NEW r \in Requests, Switch(r)
    PROVE  HistoryInv'
<1>1. KeepsLoaded
    BY GotoKeepsLoaded, ForgetKeepsLoaded
       DEF Switch, FailSwitch, At, LoadedSteps, Steps, Indexing, Handling
<1>2. row' = row
    BY DEF Switch
<1>3. CASE history' = history
    BY <1>1, <1>2, <1>3, HistoryFrame DEF KeepsText
<1>4. CASE history' # history
    <2>1. /\ row.exists /\ request[r].pc \in LoadedSteps
          /\ ~VersionTaken(request[r].version)
          /\ history' = history \cup {<<request[r].version, request[r].writer>>}
        BY <1>4 DEF Switch, EnsureVersion, At, LoadedSteps
    <2>2. /\ request[r].version \in Nat /\ row.version \in Nat /\ row.version >= 1
          /\ request[r].version >= 1
        BY DEF TypeOK, RequestStates, Rows, Versions
    <2>3. request[r].version <= row.version
        BY <2>1 DEF HistoryInv, LoadedOK
    <2>4. row.version = 1
        BY <2>1, <2>2, <2>3 DEF HistoryInv, HistoryIsFaithful, VersionTaken
    <2>5. request[r].version = row.version /\ request[r].writer = row.writer
        BY <2>1, <2>2, <2>3, <2>4 DEF HistoryInv, LoadedOK
    <2>6. history' = {<<row.version, row.writer>>}
        BY <2>1, <2>5 DEF HistoryInv, HistoryIsFaithful, VersionTaken
    <2>7. HistoryIsFaithful'
        BY <1>2, <2>4, <2>6 DEF HistoryIsFaithful
    <2>8. HistoryBound'
        BY <1>2, <2>1, <2>2, <2>6 DEF HistoryBound
    <2>9. LoadedOK'
        BY <1>1, <1>2 DEF HistoryInv, LoadedOK, KeepsLoaded
    <2>10. QED BY <2>7, <2>8, <2>9 DEF HistoryInv
<1>5. QED BY <1>3, <1>4

(* A new text by w on top of the row's keeps the history faithful.         *)
LEMMA HistoryChange ==
    ASSUME TypeOK, HistoryInv, row.exists, NEW w,
           row'.exists, row'.version = row.version + 1, row'.writer = w,
           history' = Snapshots(row.version, row.writer, w), KeepsLoaded
    PROVE  HistoryInv'
<1>1. row.version \in Nat /\ row.version >= 1
    BY DEF TypeOK, Rows, Versions
<1>2. ~\E h \in history : h[1] = row.version + 1
    BY <1>1 DEF HistoryInv, HistoryBound
<1>3. \A h \in history' : h \in history \/ h = <<row.version, row.writer>>
                                        \/ h = <<row.version + 1, w>>
    BY DEF Snapshots
<1>4. <<row.version, row.writer>> \in history'
    BY DEF HistoryInv, HistoryIsFaithful, Snapshots
<1>5. <<row.version + 1, w>> \in history' /\ history \subseteq history'
    BY DEF Snapshots
<1>6. \A g, h \in history' : g[1] = h[1] => g = h
    <2>1. history # {} => \A h \in history' : h \in history \/ h = <<row.version + 1, w>>
        BY DEF Snapshots
    <2>2. CASE history = {}
        BY <1>1, <1>3, <2>2
    <2>3. CASE history # {}
        BY <1>1, <1>2, <2>1, <2>3 DEF HistoryInv, HistoryIsFaithful
    <2>4. QED BY <2>2, <2>3
<1>7. \A v \in 1 .. row'.version : \E h \in history' : h[1] = v
    <2> SUFFICES ASSUME NEW v \in 1 .. row'.version PROVE \E h \in history' : h[1] = v
        OBVIOUS
    <2>1. CASE v = row.version + 1
        BY <1>5, <2>1
    <2>2. CASE v = row.version
        BY <1>4, <2>2
    <2>3. CASE v < row.version
        BY <1>1, <1>5, <2>3 DEF HistoryInv, HistoryIsFaithful
    <2>4. QED BY <1>1, <2>1, <2>2, <2>3
<1>8. HistoryIsFaithful'
    BY <1>5, <1>6, <1>7 DEF HistoryIsFaithful
<1>9. HistoryBound'
    BY <1>1, <1>3 DEF HistoryBound, HistoryInv, TypeOK, Versions
<1>10. LoadedOK'
    <2>1. \A q \in Requests : request[q].version \in Nat
        BY DEF TypeOK, RequestStates, Versions
    <2>2. QED BY <1>1, <2>1 DEF HistoryInv, LoadedOK, KeepsLoaded
<1>11. QED BY <1>8, <1>9, <1>10 DEF HistoryInv

(* Every step keeps the invariant of the history.                          *)
LEMMA HistoryStep == TypeOK /\ HistoryInv /\ [Next]_vars => HistoryInv'
<1> SUFFICES ASSUME TypeOK, HistoryInv, [Next]_vars PROVE HistoryInv'
    OBVIOUS
<1> USE DEF End
<1>1. ASSUME NEW r \in Requests, StartReindex(r) \/ StartUpdate(r) \/ StartDelete(r)
      PROVE  HistoryInv'
    <2>1. KeepsText
        BY <1>1 DEF StartReindex, StartUpdate, StartDelete, Begin, KeepsText
    <2>2. KeepsLoaded
        BY <1>1, ForgetKeepsLoaded DEF StartReindex, StartUpdate, StartDelete, Begin, Steps,
           Updating, Deleting, LoadedSteps
    <2>3. QED BY <2>1, <2>2, HistoryFrame
<1>2. ASSUME NEW r \in Requests, LoadDocument(r) \/ LoadForUpdate(r) PROVE HistoryInv'
    BY <1>2, HistoryLoad
<1>3. ASSUME NEW r \in Requests, MarkIndexing(r) \/ Embed(r) \/ Upsert(r) PROVE HistoryInv'
    <2>1. KeepsText
        BY <1>3, StatusKeepsText DEF MarkIndexing, Embed, Upsert, KeepsText
    <2>2. KeepsLoaded
        BY <1>3, GotoKeepsLoaded DEF MarkIndexing, Embed, Upsert, At, LoadedSteps, Steps,
           Indexing
    <2>3. QED BY <2>1, <2>2, HistoryFrame
<1>4. ASSUME NEW r \in Requests, Switch(r) PROVE HistoryInv'
    BY <1>4, HistorySwitch
<1>5. ASSUME NEW r \in Requests,
             DeleteStale(r) \/ MarkIndexed(r) \/ Compensate(r) \/ MarkFailed(r)
      PROVE  HistoryInv'
    <2>1. KeepsText
        BY <1>5, StatusKeepsText
           DEF DeleteStale, MarkIndexed, Compensate, MarkFailed, KeepsText
    <2>2. KeepsLoaded
        BY <1>5, GotoKeepsLoaded, ForgetKeepsLoaded
           DEF DeleteStale, MarkIndexed, Compensate, MarkFailed, LoadedSteps, Steps, Indexing,
           Handling, Rebuilding
    <2>3. QED BY <2>1, <2>2, HistoryFrame
<1>6. ASSUME NEW r \in Requests, BumpVersion(r) PROVE HistoryInv'
    <2>1. KeepsLoaded
        BY <1>6, ForgetKeepsLoaded DEF BumpVersion, Steps, Updating, LoadedSteps
    <2>2. CASE UNCHANGED rowVars
        BY <2>1, <2>2, HistoryFrame DEF KeepsText
    <2>3. CASE ~UNCHANGED rowVars
        <3>1. /\ row.exists /\ request[r].pc \in LoadedSteps
              /\ ~VersionTaken(request[r].version + 1)
            BY <1>6, <2>3 DEF BumpVersion, At, LoadedSteps
        <3>2. request[r].version \in Nat /\ row.version \in Nat
            BY DEF TypeOK, RequestStates, Rows, Versions
        <3>3. request[r].version = row.version
            BY <3>1, <3>2 DEF HistoryInv, LoadedOK, HistoryIsFaithful, VersionTaken, TypeOK,
               RequestStates, Versions
        <3>4. request[r].writer = row.writer
            BY <3>1, <3>3 DEF HistoryInv, LoadedOK
        <3>5. /\ row'.exists /\ row'.version = row.version + 1 /\ row'.writer = r
              /\ history' = Snapshots(row.version, row.writer, r)
            BY <1>6, <2>3, <3>1, <3>3, <3>4 DEF BumpVersion, TypeOK, Rows
        <3>6. QED BY <2>1, <3>1, <3>5, HistoryChange
    <2>4. QED BY <2>2, <2>3
<1>7. ASSUME NEW r \in Requests, NothingChanged(r) \/ RemovePoints(r) \/ MarkStale(r)
      PROVE  HistoryInv'
    <2>1. KeepsText
        BY <1>7 DEF NothingChanged, RemovePoints, MarkStale, KeepsText
    <2>2. KeepsLoaded
        BY <1>7, ForgetKeepsLoaded DEF NothingChanged, RemovePoints, MarkStale, LoadedSteps,
           Steps, Updating, Deleting, Rebuilding
    <2>3. QED BY <2>1, <2>2, HistoryFrame
<1>8. ASSUME NEW r \in Requests, CollectPoints(r) \/ ReadIndexed(r) PROVE HistoryInv'
    <2>1. KeepsText
        BY <1>8 DEF CollectPoints, ReadIndexed, KeepsText
    <2>2. \A q \in Requests \ {r} : request'[q] = request[q]
        BY <1>8 DEF CollectPoints, ReadIndexed, TypeOK
    <2>3. request'[r].pc \notin LoadedSteps
        BY <1>8 DEF CollectPoints, ReadIndexed, TypeOK, RequestStates, LoadedSteps
    <2>4. KeepsLoaded
        BY <2>2, <2>3 DEF KeepsLoaded
    <2>5. QED BY <2>1, <2>4, HistoryFrame
<1>9. ASSUME NEW r \in Requests, DropRow(r) PROVE HistoryInv'
    <2>1. history' = {} /\ ~row'.exists
        BY <1>9 DEF DropRow, TypeOK, Rows
    <2>2. QED BY <2>1 DEF HistoryInv, HistoryIsFaithful, HistoryBound, LoadedOK
<1>10. ASSUME NEW r \in Requests, AssignBM25(r) \/ SaveSnapshot(r) PROVE HistoryInv'
    <2>1. KeepsText
        BY <1>10 DEF AssignBM25, SaveSnapshot, KeepsText
    <2>2. KeepsLoaded
        BY <1>10, GotoKeepsLoaded, ForgetKeepsLoaded DEF AssignBM25, SaveSnapshot, LoadedSteps,
           Steps, Rebuilding
    <2>3. QED BY <2>1, <2>2, HistoryFrame
<1>11. ASSUME NEW r \in Requests, IndexingFails(r) \/ CompensationFails(r) \/ RequestFails(r)
       PROVE  HistoryInv'
    <2>1. KeepsText
        BY <1>11 DEF IndexingFails, CompensationFails, RequestFails, KeepsText
    <2>2. KeepsLoaded
        BY <1>11, GotoKeepsLoaded, ForgetKeepsLoaded
           DEF IndexingFails, FailSwitch, CompensationFails, RequestFails, LoadedSteps, Steps,
           Handling
    <2>3. QED BY <2>1, <2>2, HistoryFrame
<1>12. CASE Restart
    <2>1. \A q \in Requests : request'[q].pc \notin LoadedSteps
        BY <1>12 DEF Restart, Idle, Fresh, LoadedSteps
    <2>2. QED BY <1>12, <2>1, HistoryFrame DEF Restart, KeepsText, KeepsLoaded
<1>13. CASE RebuildScript \/ ParseAttachment \/ (\E approve \in BOOLEAN : Decide(approve))
               \/ UNCHANGED vars
    BY <1>13, HistoryFrame DEF RebuildScript, ParseAttachment, Decide, vars, KeepsText,
       KeepsLoaded, TypeOK, Rows
<1>14. CASE RefreshByCrawl
    <2>1. /\ row.exists /\ row'.exists /\ row'.version = row.version + 1
          /\ row'.writer = "crawl" /\ history' = Snapshots(row.version, row.writer, "crawl")
        BY <1>14 DEF RefreshByCrawl, TypeOK, Rows
    <2>2. KeepsLoaded
        BY <1>14 DEF RefreshByCrawl, KeepsLoaded
    <2>3. QED BY <2>1, <2>2, HistoryChange
<1>15. QED
    BY <1>1, <1>2, <1>3, <1>4, <1>5, <1>6, <1>7, <1>8, <1>9, <1>10, <1>11, <1>12, <1>13,
       <1>14 DEF Next, Serve, Reindexing, Editing, Rebuild, Faults

(* However requests, crawls and failures interleave, the history has one   *)
(* text per version, misses none, and ends with the row's own text.        *)
THEOREM FaithfulHistory == Spec => []HistoryIsFaithful
<1>1. Init => HistoryInv
    BY DEF Init, HistoryInv, HistoryIsFaithful, HistoryBound, LoadedOK, Idle, Fresh, LoadedSteps
<1>2. HistoryInv => HistoryIsFaithful
    BY DEF HistoryInv
<1>3. QED
    BY <1>1, <1>2, HistoryStep, Typing, PTL DEF Spec

-----------------------------------------------------------------------------
(* Rows and points.                                                        *)

(* Requests that have not overlapped are one.                              *)
Alone ==
    ~overlapped => \A q, r \in Requests :
        q # r => (request[q].pc = "idle" \/ request[r].pc = "idle")

(* Every chunk has its lineage.                                            *)
KnownChunks == chunks \subseteq lineage

(* The chunks that a reindexing found have their lineage, unless the       *)
(* document has been deleted meanwhile.                                    *)
ExistingOK ==
    \A r \in Requests : request[r].pc \in {"mark", "embed", "upsert"} =>
        IF row.exists THEN request[r].existing \subseteq lineage ELSE overlapped

(* What a request that nothing overlaps may rely on.                       *)
BeforeSwitch == {"mark", "embed", "upsert", "switch"} \cup {"compensate", "compensate_rolled_back"}
RequestOK(r) ==
    /\ request[r].pc \in BeforeSwitch => request[r].existing = chunks
    /\ request[r].pc = "switch" => request[r].drafts \subseteq points
    /\ request[r].pc \in {"delete_stale", "mark_indexed"} =>
          chunks = request[r].drafts /\ chunks \subseteq points
    /\ request[r].pc = "remove_all" => lineage \subseteq request[r].ids
    /\ request[r].pc = "drop_row" => points \cap lineage = {}

(* The inductive invariant of rows and points.                             *)
StoresInv ==
    /\ Alone
    /\ KnownChunks
    /\ ExistingOK
    /\ ~overlapped => \A r \in Requests : RequestOK(r)
    /\ IndexedHasPoints

(* Only request r moves.                                                   *)
Moves(r) ==
    /\ request[r].pc # "idle"
    /\ \A q \in Requests \ {r} : request'[q] = request[q]
    /\ overlapped' = overlapped

(* A request that moves finds the others idle if nothing has overlapped.   *)
LEMMA OthersIdle ==
    ASSUME StoresInv, NEW r \in Requests, Moves(r), ~overlapped => RequestOK(r)'
    PROVE  Alone' /\ (~overlapped' => \A q \in Requests : RequestOK(q)')
<1>1. ~overlapped => \A q \in Requests \ {r} : request'[q].pc = "idle"
    BY DEF StoresInv, Alone, Moves
<1>2. Alone'
    BY <1>1 DEF Alone, Moves
<1>3. ~overlapped => \A q \in Requests \ {r} : RequestOK(q)'
    BY <1>1 DEF RequestOK, BeforeSwitch
<1>4. QED BY <1>2, <1>3 DEF Moves

(* Going on is a move.                                                     *)
LEMMA GotoMoves ==
    ASSUME TypeOK, NEW r \in Requests, NEW pc \in Steps, Goto(r, pc),
           request[r].pc # "idle", overlapped' = overlapped
    PROVE  /\ Moves(r)
           /\ request'[r].pc = pc
           /\ request'[r].drafts = request[r].drafts
           /\ request'[r].existing = request[r].existing
           /\ request'[r].ids = request[r].ids
    BY DEF TypeOK, RequestStates, Goto, Moves

(* Forgetting what was read is a move.                                     *)
LEMMA ForgetMoves ==
    ASSUME TypeOK, NEW r \in Requests, NEW pc \in Steps, Forget(r, pc),
           request[r].pc # "idle", overlapped' = overlapped
    PROVE  Moves(r) /\ request'[r].pc = pc
    BY FreshType DEF TypeOK, Forget, Moves

(* What is left to show of a move that keeps row and lineage.              *)
LEMMA StoresMove ==
    ASSUME StoresInv, NEW r \in Requests, Moves(r),
           row'.exists = row.exists, lineage \subseteq lineage', KnownChunks',
           request'[r].pc \in {"mark", "embed", "upsert"} =>
              \/ /\ request[r].pc \in {"mark", "embed", "upsert"}
                 /\ request'[r].existing = request[r].existing
              \/ row.exists /\ request'[r].existing \subseteq lineage,
           ~overlapped => RequestOK(r)', IndexedHasPoints'
    PROVE  StoresInv'
<1>1. Alone' /\ (~overlapped' => \A q \in Requests : RequestOK(q)')
    BY OthersIdle
<1>2. ExistingOK'
    BY DEF StoresInv, ExistingOK, Moves
<1>3. QED BY <1>1, <1>2 DEF StoresInv

(* The steps that rely on nothing.                                         *)
FreeSteps == Steps \ (BeforeSwitch \cup {"delete_stale", "mark_indexed", "remove_all", "drop_row"})

(* A move to such a step that changes neither rows nor points.             *)
LEMMA StoresQuiet ==
    ASSUME StoresInv, NEW r \in Requests, Moves(r), row'.exists = row.exists,
           UNCHANGED <<chunks, searchable, lineage, points, torn>>,
           request'[r].pc \in FreeSteps
    PROVE  StoresInv'
<1>1. RequestOK(r)'
    BY DEF RequestOK, FreeSteps, BeforeSwitch
<1>2. KnownChunks' /\ IndexedHasPoints'
    BY DEF StoresInv, KnownChunks, IndexedHasPoints, Moves
<1>3. QED BY <1>1, <1>2, StoresMove DEF FreeSteps, BeforeSwitch

(* index_document up to the upsert.                                        *)
LEMMA StoresBefore ==
    ASSUME TypeOK, StoresInv, NEW r \in Requests,
           LoadDocument(r) \/ MarkIndexing(r) \/ Embed(r) \/ Upsert(r)
    PROVE  StoresInv'
<1> USE DEF At
<1>1. CASE LoadDocument(r) /\ End(r)
    <2>1. Moves(r) /\ request'[r].pc = "idle"
        BY <1>1, ForgetMoves DEF LoadDocument, End, Steps
    <2>2. QED BY <1>1, <2>1, StoresQuiet DEF LoadDocument, FreeSteps, Steps, BeforeSwitch
<1>2. CASE LoadDocument(r) /\ ~End(r)
    <2>1. Moves(r) /\ request'[r].pc = "mark" /\ request'[r].existing = chunks /\ row.exists
        BY <1>2 DEF LoadDocument, TypeOK, RequestStates, Moves
    <2>2. RequestOK(r)'
        BY <1>2, <2>1 DEF LoadDocument, RequestOK
    <2>3. KnownChunks' /\ IndexedHasPoints' /\ chunks \subseteq lineage
        BY <1>2 DEF LoadDocument, StoresInv, KnownChunks, IndexedHasPoints
    <2>4. QED BY <1>2, <2>1, <2>2, <2>3, StoresMove DEF LoadDocument
<1>3. CASE MarkIndexing(r) \/ Embed(r)
    <2>1. /\ Moves(r) /\ request'[r].existing = request[r].existing
          /\ request'[r].pc \in {"embed", "upsert"}
        BY <1>3, GotoMoves DEF MarkIndexing, Embed, Steps, Indexing
    <2>2. request[r].pc \in {"mark", "embed"}
        BY <1>3 DEF MarkIndexing, Embed
    <2>3. row'.exists = row.exists /\ UNCHANGED <<chunks, searchable, lineage, points, torn>>
        BY <1>3 DEF MarkIndexing, Embed, SetIndexStatus, TypeOK, Rows
    <2>4. ~overlapped => RequestOK(r)'
        BY <2>1, <2>2, <2>3 DEF StoresInv, RequestOK, BeforeSwitch
    <2>5. KnownChunks' /\ IndexedHasPoints'
        BY <2>1, <2>3 DEF StoresInv, KnownChunks, IndexedHasPoints, Moves
    <2>6. QED BY <2>1, <2>2, <2>3, <2>4, <2>5, StoresMove
<1>4. CASE Upsert(r)
    <2>1. /\ Moves(r) /\ request'[r].existing = request[r].existing
          /\ request'[r].drafts = request[r].drafts /\ request'[r].pc = "switch"
        BY <1>4, GotoMoves DEF Upsert, Steps, Indexing
    <2>2. ~overlapped => RequestOK(r)'
        BY <1>4, <2>1 DEF Upsert, StoresInv, RequestOK, BeforeSwitch
    <2>3. KnownChunks' /\ IndexedHasPoints'
        BY <1>4 DEF Upsert, StoresInv, KnownChunks, IndexedHasPoints
    <2>4. QED BY <1>4, <2>1, <2>2, <2>3, StoresMove DEF Upsert
<1>5. QED BY <1>1, <1>2, <1>3, <1>4

(* The switch of the chunks.                                               *)
LEMMA StoresSwitch ==
    ASSUME TypeOK, StoresInv, NEW r \in Requests, Switch(r)
    PROVE  StoresInv'
<1> USE DEF At
<1>1. /\ request[r].pc = "switch" /\ UNCHANGED <<row, points, overlapped, torn>>
    BY DEF Switch
<1>2. CASE request[r].existing = request[r].drafts \/ row.exists
    <2>1. /\ Moves(r) /\ request'[r].pc = "delete_stale"
          /\ request'[r].drafts = request[r].drafts
        BY <1>1, <1>2, GotoMoves DEF Switch, Steps, Indexing
    <2>2. ~overlapped => request[r].existing = chunks /\ request[r].drafts \subseteq points
        BY <1>1 DEF StoresInv, RequestOK, BeforeSwitch
    <2>3. CASE request[r].existing = request[r].drafts
        <3>1. UNCHANGED chunkVars
            BY <2>3 DEF Switch
        <3>2. ~overlapped => RequestOK(r)'
            BY <1>1, <2>1, <2>2, <2>3, <3>1 DEF RequestOK, BeforeSwitch
        <3>3. KnownChunks' /\ IndexedHasPoints'
            BY <1>1, <3>1 DEF StoresInv, KnownChunks, IndexedHasPoints
        <3>4. QED BY <1>1, <2>1, <3>1, <3>2, <3>3, StoresMove
    <2>4. CASE request[r].existing # request[r].drafts
        <3>1. /\ chunks' = request[r].drafts /\ searchable' = "pending"
              /\ lineage' = lineage \cup request[r].drafts
            BY <1>2, <2>4 DEF Switch, LineageWith
        <3>2. ~overlapped => RequestOK(r)'
            BY <1>1, <2>1, <2>2, <3>1 DEF RequestOK, BeforeSwitch
        <3>3. KnownChunks' /\ IndexedHasPoints'
            BY <3>1 DEF KnownChunks, IndexedHasPoints
        <3>4. QED BY <1>1, <2>1, <3>1, <3>2, <3>3, StoresMove
    <2>5. QED BY <2>3, <2>4
<1>3. CASE FailSwitch(r) /\ UNCHANGED chunkVars
    <2>1. CASE Goto(r, "compensate_rolled_back")
        <3>1. /\ Moves(r) /\ request'[r].pc = "compensate_rolled_back"
              /\ request'[r].existing = request[r].existing
            BY <1>1, <2>1, GotoMoves DEF Steps, Handling
        <3>2. ~overlapped => RequestOK(r)'
            BY <1>1, <1>3, <3>1 DEF StoresInv, RequestOK, BeforeSwitch
        <3>3. KnownChunks' /\ IndexedHasPoints'
            BY <1>1, <1>3 DEF StoresInv, KnownChunks, IndexedHasPoints
        <3>4. QED BY <1>1, <1>3, <3>1, <3>2, <3>3, StoresMove
    <2>2. CASE Forget(r, "mark_failed")
        <3>1. Moves(r) /\ request'[r].pc = "mark_failed"
            BY <1>1, <2>2, ForgetMoves DEF Steps, Handling
        <3>2. QED BY <1>1, <1>3, <3>1, StoresQuiet DEF FreeSteps, Steps, Handling, BeforeSwitch
    <2>3. QED BY <1>3, <2>1, <2>2 DEF FailSwitch
<1>4. QED BY <1>2, <1>3 DEF Switch

(* index_document after the switch, and its exception handler.             *)
LEMMA StoresAfter ==
    ASSUME TypeOK, StoresInv, NEW r \in Requests,
           DeleteStale(r) \/ MarkIndexed(r) \/ Compensate(r) \/ MarkFailed(r)
    PROVE  StoresInv'
<1> USE DEF At
<1>1. CASE DeleteStale(r)
    <2>1. /\ Moves(r) /\ request'[r].pc = "mark_indexed"
          /\ request'[r].drafts = request[r].drafts
        BY <1>1, GotoMoves DEF DeleteStale, Steps, Indexing
    <2>2. ~overlapped => chunks = request[r].drafts /\ chunks \subseteq points
        BY <1>1 DEF DeleteStale, StoresInv, RequestOK
    <2>3. ~overlapped => RequestOK(r)'
        BY <1>1, <2>1, <2>2 DEF DeleteStale, StaleIds, RequestOK, BeforeSwitch
    <2>4. KnownChunks' /\ IndexedHasPoints'
        BY <1>1, <2>2 DEF DeleteStale, StaleIds, StoresInv, KnownChunks, IndexedHasPoints
    <2>5. QED BY <1>1, <2>1, <2>3, <2>4, StoresMove DEF DeleteStale
<1>2. CASE MarkIndexed(r)
    <2>1. Moves(r) /\ request'[r].pc = "read"
        BY <1>2, ForgetMoves DEF MarkIndexed, Steps, Rebuilding
    <2>2. RequestOK(r)'
        BY <2>1 DEF RequestOK, BeforeSwitch
    <2>3. KnownChunks' /\ IndexedHasPoints'
        BY <1>2 DEF MarkIndexed, StoresInv, RequestOK, KnownChunks, IndexedHasPoints
    <2>4. row'.exists = row.exists
        BY <1>2 DEF MarkIndexed, SetIndexStatus, TypeOK, Rows
    <2>5. QED BY <1>2, <2>1, <2>2, <2>3, <2>4, StoresMove DEF MarkIndexed
<1>3. CASE Compensate(r)
    <2>1. Moves(r) /\ request'[r].pc = "mark_failed"
        BY <1>3, ForgetMoves DEF Compensate, Steps, Handling
    <2>2. RequestOK(r)'
        BY <2>1 DEF RequestOK, BeforeSwitch
    <2>3. KnownChunks' /\ IndexedHasPoints'
        BY <1>3 DEF Compensate, NewIds, StoresInv, RequestOK, BeforeSwitch, KnownChunks,
           IndexedHasPoints
    <2>4. QED BY <1>3, <2>1, <2>2, <2>3, StoresMove DEF Compensate
<1>4. CASE MarkFailed(r)
    <2>1. Moves(r) /\ request'[r].pc = "idle"
        BY <1>4, ForgetMoves DEF MarkFailed, End, Steps
    <2>2. row'.exists = row.exists
        BY <1>4 DEF MarkFailed, SetIndexStatus, TypeOK, Rows
    <2>3. QED BY <1>4, <2>1, <2>2, StoresQuiet DEF MarkFailed, FreeSteps, Steps, BeforeSwitch
<1>5. QED BY <1>1, <1>2, <1>3, <1>4

(* Updates and deletions.                                                  *)
LEMMA StoresEdit ==
    ASSUME TypeOK, StoresInv, NEW r \in Requests, Editing(r)
    PROVE  StoresInv'
<1> USE DEF At, End
<1>1. CASE LoadForUpdate(r) \/ BumpVersion(r) \/ NothingChanged(r)
    <2>1. Moves(r) /\ request'[r].pc \in {"idle", "bump", "collect"}
        <3>1. CASE LoadForUpdate(r) /\ row.exists
            BY <3>1 DEF LoadForUpdate, Moves, TypeOK, RequestStates
        <3>2. CASE Forget(r, "idle") \/ Forget(r, "collect")
            BY <1>1, <3>2, ForgetMoves
               DEF LoadForUpdate, BumpVersion, NothingChanged, Steps, Updating
        <3>3. QED BY <1>1, <3>1, <3>2 DEF LoadForUpdate, BumpVersion, NothingChanged
    <2>2. row'.exists = row.exists
        BY <1>1 DEF LoadForUpdate, BumpVersion, NothingChanged, TypeOK, Rows
    <2>3. UNCHANGED <<chunks, searchable, lineage, points, torn>>
        BY <1>1 DEF LoadForUpdate, BumpVersion, NothingChanged
    <2>4. QED BY <2>1, <2>2, <2>3, StoresQuiet DEF FreeSteps, Steps, Updating, BeforeSwitch
<1>2. CASE CollectPoints(r)
    <2>1. /\ Moves(r) /\ request'[r].pc \in {"remove", "remove_all"}
          /\ request'[r].ids = chunks \cup lineage
        BY <1>2 DEF CollectPoints, Moves, TypeOK, RequestStates
    <2>2. RequestOK(r)'
        BY <1>2, <2>1 DEF CollectPoints, RequestOK, BeforeSwitch
    <2>3. KnownChunks' /\ IndexedHasPoints'
        BY <1>2 DEF CollectPoints, StoresInv, KnownChunks, IndexedHasPoints
    <2>4. QED BY <1>2, <2>1, <2>2, <2>3, StoresMove DEF CollectPoints
<1>3. CASE RemovePoints(r)
    <2>1. /\ Moves(r) /\ request'[r].pc \in {"mark_stale", "drop_row"}
          /\ request'[r].pc = "drop_row" => request[r].pc = "remove_all"
        BY <1>3, ForgetMoves DEF RemovePoints, Steps, Updating, Deleting
    <2>2. ~overlapped => RequestOK(r)'
        BY <1>3, <2>1 DEF RemovePoints, StoresInv, RequestOK, BeforeSwitch
    <2>3. KnownChunks' /\ IndexedHasPoints'
        BY <1>3 DEF RemovePoints, StoresInv, KnownChunks, IndexedHasPoints
    <2>4. QED BY <1>3, <2>1, <2>2, <2>3, StoresMove DEF RemovePoints
<1>4. CASE MarkStale(r)
    <2>1. Moves(r) /\ request'[r].pc = "read"
        BY <1>4, ForgetMoves DEF MarkStale, Steps, Rebuilding
    <2>2. RequestOK(r)'
        BY <2>1 DEF RequestOK, BeforeSwitch
    <2>3. KnownChunks' /\ IndexedHasPoints'
        BY <1>4 DEF MarkStale, StoresInv, KnownChunks, IndexedHasPoints
    <2>4. QED BY <1>4, <2>1, <2>2, <2>3, StoresMove DEF MarkStale
<1>5. CASE DropRow(r)
    <2>1. Moves(r) /\ request'[r].pc = "read"
        BY <1>5, ForgetMoves DEF DropRow, Steps, Rebuilding
    <2>2. RequestOK(r)'
        BY <2>1 DEF RequestOK, BeforeSwitch
    <2>3. KnownChunks' /\ IndexedHasPoints'
        BY <1>5 DEF DropRow, KnownChunks, IndexedHasPoints
    <2>4. ExistingOK'
        <3>1. \A q \in Requests \ {r} : overlapped \/ request'[q].pc = "idle"
            BY <2>1 DEF StoresInv, Alone, Moves
        <3>2. ~row'.exists
            BY <1>5 DEF DropRow, TypeOK, Rows
        <3>3. QED BY <2>1, <3>1, <3>2 DEF ExistingOK, Moves
    <2>5. QED BY <2>1, <2>2, <2>3, <2>4, OthersIdle DEF StoresInv
<1>6. QED BY <1>1, <1>2, <1>3, <1>4, <1>5 DEF Editing

(* Failing calls.                                                          *)
LEMMA StoresFail ==
    ASSUME TypeOK, StoresInv, NEW r \in Requests,
           IndexingFails(r) \/ CompensationFails(r) \/ RequestFails(r)
    PROVE  StoresInv'
<1> USE DEF At, End
<1>1. CASE IndexingFails(r)
    <2>1. UNCHANGED <<row, chunks, searchable, lineage, overlapped, torn>>
        BY <1>1 DEF IndexingFails
    <2>2. /\ Moves(r) /\ request'[r].pc \in Handling
          /\ request'[r].pc # "mark_failed" =>
                /\ request[r].pc \in {"upsert", "switch"}
                /\ request'[r].existing = request[r].existing
        BY <1>1, GotoMoves, ForgetMoves
           DEF IndexingFails, FailSwitch, Indexing, Handling, Steps
    <2>3. ~overlapped => RequestOK(r)'
        BY <2>1, <2>2 DEF StoresInv, RequestOK, BeforeSwitch, Handling
    <2>4. (~overlapped /\ chunks \subseteq points) => chunks \subseteq points'
        <3>1. CASE request[r].pc = "delete_stale"
            BY <1>1, <3>1 DEF IndexingFails, StaleIds, StoresInv, RequestOK
        <3>2. CASE request[r].pc # "delete_stale"
            BY <1>1, <3>2 DEF IndexingFails
        <3>3. QED BY <3>1, <3>2
    <2>5. KnownChunks' /\ IndexedHasPoints'
        BY <2>1, <2>4 DEF StoresInv, KnownChunks, IndexedHasPoints
    <2>6. QED BY <2>1, <2>2, <2>3, <2>5, StoresMove DEF Handling
<1>2. CASE CompensationFails(r)
    <2>1. Moves(r) /\ request'[r].pc \in {"mark_failed", "idle"}
        BY <1>2, ForgetMoves DEF CompensationFails, Steps, Handling
    <2>2. RequestOK(r)'
        BY <2>1 DEF RequestOK, BeforeSwitch
    <2>3. KnownChunks' /\ IndexedHasPoints'
        BY <1>2 DEF CompensationFails, NewIds, StoresInv, RequestOK, BeforeSwitch, KnownChunks,
           IndexedHasPoints
    <2>4. QED BY <1>2, <2>1, <2>2, <2>3, StoresMove DEF CompensationFails
<1>3. CASE RequestFails(r)
    <2>1. Moves(r) /\ request'[r].pc = "idle"
        BY <1>3, ForgetMoves DEF RequestFails, Steps, Updating, Deleting
    <2>2. RequestOK(r)'
        BY <2>1 DEF RequestOK, BeforeSwitch
    <2>3. KnownChunks' /\ IndexedHasPoints'
        BY <1>3 DEF RequestFails, StoresInv, KnownChunks, IndexedHasPoints
    <2>4. QED BY <1>3, <2>1, <2>2, <2>3, StoresMove DEF RequestFails
<1>4. QED BY <1>1, <1>2, <1>3

(* Every step keeps the invariant of rows and points.                      *)
LEMMA StoresStep == TypeOK /\ StoresInv /\ [Next]_vars => StoresInv'
<1> SUFFICES ASSUME TypeOK, StoresInv, [Next]_vars PROVE StoresInv'
    OBVIOUS
<1>1. ASSUME NEW r \in Requests, StartReindex(r) \/ StartUpdate(r) \/ StartDelete(r)
      PROVE  StoresInv'
    <2>1. PICK pc \in {"load", "load_update", "collect_all"} : Begin(r, pc)
        BY <1>1 DEF StartReindex, StartUpdate, StartDelete
    <2>2. /\ request'[r].pc = pc
          /\ \A q \in Requests \ {r} : request'[q] = request[q]
        BY <2>1, FreshType DEF Begin, Forget, TypeOK, Steps, Updating, Deleting
    <2>3. ~overlapped' => ~overlapped /\ \A q \in Requests : request[q].pc = "idle"
        BY <2>1 DEF Begin, Busy, At
    <2>4. Alone'
        BY <2>2, <2>3 DEF Alone
    <2>5. ~overlapped' => \A q \in Requests : RequestOK(q)'
        BY <2>2, <2>3 DEF RequestOK, BeforeSwitch
    <2>6. KnownChunks' /\ IndexedHasPoints'
        BY <2>1 DEF Begin, StoresInv, KnownChunks, IndexedHasPoints
    <2>7. ExistingOK'
        BY <2>1, <2>2 DEF Begin, StoresInv, ExistingOK
    <2>8. QED BY <2>4, <2>5, <2>6, <2>7 DEF StoresInv
<1>2. ASSUME NEW r \in Requests, Reindexing(r) PROVE StoresInv'
    BY <1>2, StoresBefore, StoresSwitch, StoresAfter DEF Reindexing
<1>3. ASSUME NEW r \in Requests, Editing(r) PROVE StoresInv'
    BY <1>3, StoresEdit
<1>4. ASSUME NEW r \in Requests, Rebuild(r) PROVE StoresInv'
    <2>1. Moves(r) /\ request'[r].pc \in {"idle", "assign", "save"}
        <3>1. CASE ReadIndexed(r)
            BY <3>1 DEF ReadIndexed, At, Moves, TypeOK, RequestStates
        <3>2. CASE AssignBM25(r) \/ SaveSnapshot(r)
            BY <3>2, GotoMoves, ForgetMoves DEF AssignBM25, SaveSnapshot, At, End, Steps,
               Rebuilding
        <3>3. QED BY <1>4, <3>1, <3>2 DEF Rebuild
    <2>2. UNCHANGED <<row, chunks, searchable, lineage, points, torn>>
        BY <1>4 DEF Rebuild, ReadIndexed, AssignBM25, SaveSnapshot
    <2>3. QED BY <2>1, <2>2, StoresQuiet DEF FreeSteps, Steps, Rebuilding, BeforeSwitch
<1>5. ASSUME NEW r \in Requests, IndexingFails(r) \/ CompensationFails(r) \/ RequestFails(r)
      PROVE  StoresInv'
    BY <1>5, StoresFail
<1>6. CASE Restart
    <2>1. \A q \in Requests : request'[q].pc = "idle"
        BY <1>6 DEF Restart, Idle, Fresh
    <2>2. UNCHANGED <<chunks, searchable, lineage, points, overlapped, torn>>
        BY <1>6 DEF Restart
    <2>3. QED BY <2>1, <2>2 DEF StoresInv, Alone, KnownChunks, ExistingOK, RequestOK,
          BeforeSwitch, IndexedHasPoints
<1>7. CASE RebuildScript \/ ParseAttachment \/ (\E approve \in BOOLEAN : Decide(approve))
              \/ RefreshByCrawl \/ UNCHANGED vars
    <2>1. /\ UNCHANGED <<chunks, lineage, points, request, overlapped, torn>>
          /\ row'.exists = row.exists /\ searchable' \in {searchable, "stale"}
        BY <1>7 DEF RebuildScript, ParseAttachment, Decide, RefreshByCrawl, vars, TypeOK, Rows
    <2>2. QED BY <2>1 DEF StoresInv, Alone, KnownChunks, ExistingOK, RequestOK, IndexedHasPoints
<1>8. QED
    BY <1>1, <1>2, <1>3, <1>4, <1>5, <1>6, <1>7 DEF Next, Serve, Faults

(* The invariant holds initially.                                          *)
LEMMA StoresInit == Init => StoresInv
    BY DEF Init, StoresInv, Alone, KnownChunks, ExistingOK, RequestOK, BeforeSwitch,
       IndexedHasPoints, Idle, Fresh

(* A chunk marked as indexed keeps its point: whatever fails, and wherever *)
(* the process dies, as long as requests do not overlap.                   *)
THEOREM IndexedAlwaysHasPoints == Spec => []IndexedHasPoints
<1>1. StoresInv => IndexedHasPoints
    BY DEF StoresInv
<1>2. QED
    BY <1>1, StoresInit, StoresStep, Typing, PTL DEF Spec

-----------------------------------------------------------------------------
(* No point is forgotten.                                                  *)

(* A step keeps track of the points if it keeps lineage and what others    *)
(* have in flight, and accounts for what r had in flight and for new ones. *)
LEMMA TracksPoints ==
    ASSUME TypeOK, NEW r \in Requests, NEW known, NEW removed,
           \A q \in Requests \ {r} : request'[q] = request[q],
           lineage \subseteq lineage',
           points' \subseteq (points \cup known) \ removed,
           request[r].pc \in Writing =>
              NewIds(r) \subseteq lineage' \cup removed \cup InFlight',
           known \subseteq lineage' \cup InFlight'
    PROVE  UnknownPoints' \subseteq UnknownPoints
<1> SUFFICES ASSUME NEW c \in UnknownPoints' PROVE c \in UnknownPoints
    OBVIOUS
<1>1. c \in points /\ c \notin lineage /\ c \notin removed /\ c \notin InFlight'
    BY DEF UnknownPoints
<1>2. c \notin lineage'
    BY DEF UnknownPoints
<1>3. c \in ChunkIds
    BY <1>1 DEF TypeOK
<1>4. ASSUME NEW q \in Requests \ {r}, request[q].pc \in Writing, c \in NewIds(q) PROVE FALSE
    <2>1. request'[q].pc \in Writing /\ c \in request'[q].drafts \ request'[q].existing
        BY <1>4 DEF NewIds
    <2>2. QED BY <1>1, <1>3, <2>1 DEF InFlight, NewIds
<1>5. ~(request[r].pc \in Writing /\ c \in NewIds(r))
    BY <1>1, <1>2
<1>6. c \notin InFlight
    BY <1>4, <1>5 DEF InFlight
<1>7. QED BY <1>1, <1>6 DEF UnknownPoints

(* A request that is writing has its new points in flight.                 *)
LEMMA InFlightNext ==
    ASSUME TypeOK, NEW r \in Requests, request'[r].pc \in Writing,
           request'[r].drafts = request[r].drafts, request'[r].existing = request[r].existing
    PROVE  NewIds(r) \subseteq InFlight'
<1>1. NewIds(r) \subseteq ChunkIds
    BY DEF NewIds, TypeOK, RequestStates
<1>2. QED BY <1>1 DEF NewIds, InFlight

(* A move that neither adds points nor gives up what is in flight.         *)
LEMMA TracksQuietly ==
    ASSUME TypeOK, NEW r \in Requests, Moves(r), request[r].pc \notin Writing,
           lineage' = lineage, points' \subseteq points
    PROVE  UnknownPoints' \subseteq UnknownPoints
<1>1. \A q \in Requests \ {r} : request'[q] = request[q]
    BY DEF Moves
<1>2. points' \subseteq (points \cup {}) \ {}
    OBVIOUS
<1>3. QED BY <1>1, <1>2, TracksPoints

(* What a step must not do.                                                *)
Tracks == UnknownPoints' \subseteq UnknownPoints \/ (~row'.exists /\ overlapped)

(* New points are in flight or those of known chunks.                      *)
LEMMA TracksUpsert ==
    ASSUME TypeOK, StoresInv, NEW r \in Requests, NEW w \in SUBSET request[r].drafts,
           request[r].pc = "upsert", points' = points \cup w, lineage' = lineage, row' = row,
           \A q \in Requests \ {r} : request'[q] = request[q],
           \/ NewIds(r) = {}
           \/ /\ request'[r].pc \in Writing
              /\ request'[r].drafts = request[r].drafts
              /\ request'[r].existing = request[r].existing
    PROVE  Tracks
<1>1. CASE ~row.exists
    BY <1>1 DEF StoresInv, ExistingOK, Tracks
<1>2. CASE row.exists
    <2>1. request[r].existing \subseteq lineage
        BY <1>2 DEF StoresInv, ExistingOK
    <2>2. NewIds(r) \subseteq InFlight'
        BY InFlightNext
    <2>3. w \subseteq lineage' \cup InFlight'
        BY <2>1, <2>2 DEF NewIds
    <2>4. points' \subseteq (points \cup w) \ {}
        OBVIOUS
    <2>5. request[r].pc \notin Writing
        BY DEF Writing
    <2>6. QED BY <2>3, <2>4, <2>5, TracksPoints DEF Tracks
<1>3. QED BY <1>1, <1>2

(* The switch records what was in flight or leaves it to the handler.      *)
LEMMA TracksSwitch ==
    ASSUME TypeOK, StoresInv, NEW r \in Requests, request[r].pc = "switch",
           points' = points, overlapped' = overlapped,
           \/ lineage' = LineageWith(r) /\ Goto(r, "delete_stale")
           \/ /\ lineage' = lineage
              /\ \/ request[r].existing = request[r].drafts /\ Goto(r, "delete_stale")
                 \/ FailSwitch(r)
    PROVE  Tracks
<1>1. Moves(r)
    BY GotoMoves, ForgetMoves DEF FailSwitch, Steps, Indexing, Handling
<1>2. lineage \subseteq lineage'
    BY DEF LineageWith
<1>3. NewIds(r) \subseteq lineage' \cup InFlight'
    <2>1. CASE lineage' = LineageWith(r) \/ request[r].existing = request[r].drafts
        BY <2>1 DEF LineageWith, NewIds
    <2>2. CASE FailSwitch(r) /\ NewIds(r) # {}
        <3>1. /\ request'[r].pc \in Writing /\ request'[r].drafts = request[r].drafts
              /\ request'[r].existing = request[r].existing
            BY <2>2, GotoMoves DEF FailSwitch, Steps, Handling, Writing
        <3>2. QED BY <3>1, InFlightNext
    <2>3. QED BY <2>1, <2>2
<1>4. points' \subseteq (points \cup {}) \ {}
    OBVIOUS
<1>5. UnknownPoints' \subseteq UnknownPoints
    BY <1>1, <1>2, <1>3, <1>4, TracksPoints DEF Moves
<1>6. QED BY <1>5 DEF Tracks

(* A deletion has removed the points whose lineage it detaches.            *)
LEMMA TracksDrop ==
    ASSUME TypeOK, StoresInv, NEW r \in Requests, DropRow(r)
    PROVE  Tracks
<1>1. CASE overlapped
    BY <1>1 DEF DropRow, Tracks, TypeOK, Rows
<1>2. CASE ~overlapped
    <2>1. points \cap lineage = {}
        BY <1>2 DEF DropRow, At, StoresInv, RequestOK
    <2>2. points' = points /\ Forget(r, "read") /\ request[r].pc = "drop_row"
        BY DEF DropRow, At
    <2>3. \A q \in Requests : request[q].pc \in Writing => request'[q] = request[q]
        BY <2>2 DEF Forget, TypeOK, Writing
    <2>4. InFlight \subseteq InFlight'
        <3>1. ASSUME NEW c \in InFlight PROVE c \in InFlight'
            <4>1. PICK q \in Requests : request[q].pc \in Writing /\ c \in NewIds(q)
                BY DEF InFlight
            <4>2. request'[q] = request[q]
                BY <2>3, <4>1
            <4>3. c \in ChunkIds /\ request'[q].pc \in Writing
                  /\ c \in request'[q].drafts \ request'[q].existing
                BY <4>1, <4>2 DEF InFlight, NewIds
            <4>4. QED BY <4>3 DEF InFlight, NewIds
        <3>2. QED BY <3>1
    <2>5. QED BY <2>1, <2>2, <2>4 DEF UnknownPoints, Tracks
<1>3. QED BY <1>1, <1>2

(* Every other step keeps track of the points.                             *)
LEMMA TracksStep ==
    ASSUME TypeOK, StoresInv, [Next]_vars,
           ~Restart, \A r \in Requests : ~CompensationFails(r)
    PROVE  Tracks
<1> USE DEF At, End
<1>1. ASSUME NEW r \in Requests, Upsert(r) PROVE Tracks
    <2>1. request[r].pc = "upsert" /\ overlapped' = overlapped /\ Goto(r, "switch")
        BY <1>1 DEF Upsert
    <2>2. /\ Moves(r) /\ request'[r].pc \in Writing /\ request'[r].drafts = request[r].drafts
          /\ request'[r].existing = request[r].existing
        BY <2>1, GotoMoves DEF Steps, Indexing, Writing
    <2>3. points' = points \cup request[r].drafts /\ lineage' = lineage /\ row' = row
        BY <1>1 DEF Upsert
    <2>4. QED BY <2>1, <2>2, <2>3, TracksUpsert DEF Moves
<1>2. ASSUME NEW r \in Requests, Switch(r) PROVE Tracks
    BY <1>2, TracksSwitch DEF Switch
<1>3. ASSUME NEW r \in Requests, Compensate(r) PROVE Tracks
    <2>1. Moves(r)
        BY <1>3, ForgetMoves DEF Compensate, Steps, Handling
    <2>2. points' \subseteq (points \cup {}) \ NewIds(r) /\ lineage' = lineage
        BY <1>3 DEF Compensate
    <2>3. QED BY <2>1, <2>2, TracksPoints DEF Moves, Tracks
<1>4. ASSUME NEW r \in Requests, IndexingFails(r) PROVE Tracks
    <2>1. /\ lineage' = lineage /\ row' = row /\ overlapped' = overlapped
          /\ request[r].pc \in Indexing
        BY <1>4 DEF IndexingFails
    <2>2. CASE request[r].pc = "upsert"
        <3>1. PICK w \in SUBSET request[r].drafts : points' = points \cup w
            BY <1>4, <2>2 DEF IndexingFails
        <3>2. CASE NewIds(r) = {}
            <4>1. Moves(r)
                BY <1>4, <2>1, <2>2, <3>2, ForgetMoves DEF IndexingFails, Steps, Handling
            <4>2. QED BY <2>1, <2>2, <3>1, <3>2, <4>1, TracksUpsert DEF Moves
        <3>3. CASE NewIds(r) # {}
            <4>1. Goto(r, "compensate")
                BY <1>4, <2>2, <3>3 DEF IndexingFails
            <4>2. /\ Moves(r) /\ request'[r].pc \in Writing
                  /\ request'[r].drafts = request[r].drafts
                  /\ request'[r].existing = request[r].existing
                BY <2>1, <2>2, <4>1, GotoMoves DEF Steps, Handling, Writing
            <4>3. QED BY <2>1, <2>2, <3>1, <4>2, TracksUpsert DEF Moves
        <3>4. QED BY <3>2, <3>3
    <2>3. CASE request[r].pc = "switch"
        BY <1>4, <2>1, <2>3, TracksSwitch DEF IndexingFails
    <2>4. CASE request[r].pc \notin {"upsert", "switch"}
        <3>1. Forget(r, "mark_failed") /\ points' \subseteq points
            BY <1>4, <2>4 DEF IndexingFails
        <3>2. request[r].pc # "idle" /\ request[r].pc \notin Writing
            BY <2>1, <2>4 DEF Indexing, Writing
        <3>3. Moves(r)
            BY <2>1, <3>1, <3>2, ForgetMoves DEF Steps, Handling
        <3>4. QED BY <2>1, <3>1, <3>2, <3>3, TracksQuietly DEF Tracks
    <2>5. QED BY <2>2, <2>3, <2>4
<1>5. ASSUME NEW r \in Requests,
             LoadDocument(r) \/ LoadForUpdate(r) \/ CollectPoints(r) \/ ReadIndexed(r)
      PROVE  Tracks
    <2>1. /\ Moves(r) /\ request[r].pc \notin Writing
          /\ lineage' = lineage /\ points' \subseteq points
        BY <1>5 DEF LoadDocument, LoadForUpdate, CollectPoints, ReadIndexed, Forget, Moves,
           TypeOK, Writing
    <2>2. QED BY <2>1, TracksQuietly DEF Tracks
<1>6. ASSUME NEW r \in Requests,
             MarkIndexing(r) \/ Embed(r) \/ DeleteStale(r) \/ MarkIndexed(r) \/ MarkFailed(r)
      PROVE  Tracks
    <2>1. /\ request[r].pc \notin Writing \cup {"idle"} /\ overlapped' = overlapped
          /\ lineage' = lineage /\ points' \subseteq points
        BY <1>6 DEF MarkIndexing, Embed, DeleteStale, MarkIndexed, MarkFailed, Writing
    <2>2. Moves(r)
        BY <1>6, <2>1, GotoMoves, ForgetMoves DEF MarkIndexing, Embed, DeleteStale, MarkIndexed,
           MarkFailed, Steps, Indexing, Rebuilding
    <2>3. QED BY <2>1, <2>2, TracksQuietly DEF Tracks
<1>7. ASSUME NEW r \in Requests,
             BumpVersion(r) \/ NothingChanged(r) \/ RemovePoints(r) \/ MarkStale(r)
             \/ AssignBM25(r) \/ SaveSnapshot(r) \/ RequestFails(r)
      PROVE  Tracks
    <2>1. /\ request[r].pc \notin Writing \cup {"idle"} /\ overlapped' = overlapped
          /\ lineage' = lineage /\ points' \subseteq points
        BY <1>7 DEF BumpVersion, NothingChanged, RemovePoints, MarkStale, AssignBM25,
           SaveSnapshot, RequestFails, Updating, Deleting, Writing
    <2>2. \E pc \in Steps : Goto(r, pc) \/ Forget(r, pc)
        BY <1>7 DEF BumpVersion, NothingChanged, RemovePoints, MarkStale, AssignBM25,
           SaveSnapshot, RequestFails, Steps, Updating, Deleting, Rebuilding
    <2>3. Moves(r)
        BY <2>1, <2>2, GotoMoves, ForgetMoves
    <2>4. QED BY <2>1, <2>3, TracksQuietly DEF Tracks
<1>8. ASSUME NEW r \in Requests, DropRow(r) PROVE Tracks
    BY <1>8, TracksDrop
<1>9. ASSUME NEW r \in Requests, StartReindex(r) \/ StartUpdate(r) \/ StartDelete(r)
      PROVE  Tracks
    <2>1. /\ request[r].pc \notin Writing /\ UNCHANGED <<lineage, points>>
          /\ \A q \in Requests \ {r} : request'[q] = request[q]
        BY <1>9 DEF StartReindex, StartUpdate, StartDelete, Begin, Forget, TypeOK, Writing
    <2>2. points' \subseteq (points \cup {}) \ {}
        BY <2>1
    <2>3. QED BY <2>1, <2>2, TracksPoints DEF Tracks
<1>10. CASE RebuildScript \/ ParseAttachment \/ (\E approve \in BOOLEAN : Decide(approve))
               \/ RefreshByCrawl \/ UNCHANGED vars
    <2>1. UNCHANGED <<lineage, points, request>>
        BY <1>10 DEF RebuildScript, ParseAttachment, Decide, RefreshByCrawl, vars
    <2>2. QED BY <2>1 DEF Tracks, UnknownPoints, InFlight, NewIds
<1>11. QED
    BY <1>1, <1>2, <1>3, <1>4, <1>5, <1>6, <1>7, <1>8, <1>9, <1>10
       DEF Next, Serve, Reindexing, Editing, Rebuild, Faults

(* The database finds every point again, for any number of overlapping     *)
(* requests: only a death before the commit, a failed compensation or a    *)
(* deletion during another request loses track of one.                     *)
THEOREM PointsAreTracked == Spec => PointsStayKnown
<1>1. TypeOK /\ StoresInv /\ [Next]_vars =>
        [ \/ UnknownPoints' \subseteq UnknownPoints
          \/ Restart
          \/ \E r \in Requests : CompensationFails(r)
          \/ ~row'.exists /\ overlapped ]_vars
    BY TracksStep DEF Tracks
<1>2. QED
    BY <1>1, StoresInit, StoresStep, Typing, PTL DEF Spec, PointsStayKnown
=============================================================================
