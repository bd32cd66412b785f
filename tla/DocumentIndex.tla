---------------------------- MODULE DocumentIndex ---------------------------
(***************************************************************************)
(* One document and its search indexes: the rows of PostgreSQL, the points *)
(* of the vector store, the BM25 index of the API process and its snapshot *)
(* file.                                                                   *)
(*                                                                         *)
(* Administrators reindex, edit, reparse and delete the document in        *)
(* requests that may overlap; a crawl worker stores a new text; reviewers  *)
(* decide.  The stores share no transaction: every call of a request may   *)
(* fail, and the process may die between any two of them.                  *)
(***************************************************************************)
EXTENDS Naturals

CONSTANTS
    Requests,    \* requests that the API process can serve at the same time
    MaxVersion   \* bound: versions of the document

ASSUME RequestsAssumption == Requests \cap {"first", "crawl"} = {}
ASSUME VersionAssumption == MaxVersion \in Nat \ {0}

VARIABLES
    row,         \* the row of documents
    history,     \* the rows of document_versions: version and who wrote its text
    attached,    \* TRUE: an attachment has text
    chunks,      \* the rows of chunks
    searchable,  \* their vector_status
    lineage,     \* the point ids in the document's rows of data_lineage
    points,      \* the document's points in the vector store
    bm25,        \* the document's chunks in the BM25 index in memory
    snapshot,    \* the same in its file
    request,     \* what every request is doing
    overlapped,  \* history: TRUE once two requests have overlapped
    torn         \* history: TRUE while a deletion has only removed the points

rowVars == <<row, history>>
chunkVars == <<chunks, searchable, lineage>>
bm25Vars == <<bm25, snapshot>>
historyVars == <<overlapped, torn>>
vars == <<rowVars, attached, chunkVars, points, bm25Vars, request, historyVars>>

-----------------------------------------------------------------------------
(* State.                                                                  *)

Versions == 1 .. MaxVersion
Writers == Requests \cup {"first", "crawl"}
ChunkIds == Versions \X {"body", "attachment"}

IndexStatus == {"pending", "indexing", "indexed", "failed", "stale"}
Rows == [exists : BOOLEAN, approved : BOOLEAN, index : IndexStatus,
         version : Versions, writer : Writers]

(* The steps of the handlers.                                              *)
Indexing == {"embed", "upsert", "switch", "delete_stale", "mark_indexed"}
Handling == {"compensate", "compensate_rolled_back", "mark_failed"}
Updating == {"load_update", "bump", "collect", "remove", "mark_stale"}
Deleting == {"collect_all", "remove_all", "drop_row"}
Rebuilding == {"read", "assign", "save"}
Steps == {"idle", "load", "mark"} \cup Indexing \cup Handling \cup Updating
         \cup Deleting \cup Rebuilding

(* A request: its next step, and what it has read and still needs.         *)
RequestStates ==
    [pc : Steps, version : Versions, writer : Writers, index : IndexStatus,
     drafts : SUBSET ChunkIds, existing : SUBSET ChunkIds, ids : SUBSET ChunkIds]
Fresh(pc) == [pc |-> pc, version |-> 1, writer |-> "first", index |-> "pending",
              drafts |-> {}, existing |-> {}, ids |-> {}]
Idle == Fresh("idle")

(* _drafts and _chunk: ids are computed from the version and the place.    *)
Drafts(version, hasAttachment) ==
    {<<version, "body">>} \cup (IF hasAttachment THEN {<<version, "attachment">>} ELSE {})

(* list_indexed_chunks.                                                    *)
Listed ==
    IF row.exists /\ row.approved /\ row.index = "indexed" /\ searchable = "indexed"
    THEN chunks ELSE {}

Init ==
    /\ row = [exists |-> TRUE, approved |-> FALSE, index |-> "pending",
              version |-> 1, writer |-> "first"]
    /\ history = {}
    /\ attached = FALSE
    /\ chunks = {} /\ searchable = "pending" /\ lineage = {} /\ points = {}
    /\ bm25 = {} /\ snapshot = {}
    /\ request = [r \in Requests |-> Idle]
    /\ overlapped = FALSE /\ torn = FALSE

-----------------------------------------------------------------------------
(* How a request goes on and ends.                                         *)

At(r, pc) == request[r].pc = pc
Goto(r, pc) == request' = [request EXCEPT ![r].pc = pc]
Forget(r, pc) == request' = [request EXCEPT ![r] = Fresh(pc)]
End(r) == Forget(r, "idle")

(* Fault of NewIds: points that chunks had before are taken for new ones.  *)
NewIdsAll(r) == request[r].drafts

(* new_only_ids: the points that no chunk had when the request began.      *)
NewIds(r) == request[r].drafts \ request[r].existing

Busy == \E r \in Requests : ~At(r, "idle")

(* A handler is entered.                                                   *)
Begin(r, pc) ==
    /\ At(r, "idle")
    /\ row.exists
    /\ Forget(r, pc)
    /\ overlapped' = (overlapped \/ Busy)
    /\ UNCHANGED <<rowVars, attached, chunkVars, points, bm25Vars, torn>>

StartReindex(r) == row.approved /\ Begin(r, "load")
StartUpdate(r) == Begin(r, "load_update")
StartDelete(r) == Begin(r, "collect_all")

-----------------------------------------------------------------------------
(* index_document.                                                         *)

(* The document, its attachments and its chunks are read.                  *)
LoadDocument(r) ==
    /\ At(r, "load")
    /\ IF row.exists /\ row.approved
       THEN request' = [request EXCEPT
                ![r].pc = "mark", ![r].version = row.version, ![r].writer = row.writer,
                ![r].drafts = Drafts(row.version, attached), ![r].existing = chunks]
       ELSE End(r)
    /\ UNCHANGED <<rowVars, attached, chunkVars, points, bm25Vars, historyVars>>

SetIndexStatus(status) ==
    row' = IF row.exists THEN [row EXCEPT !.index = status] ELSE row

MarkIndexing(r) ==
    /\ At(r, "mark")
    /\ SetIndexStatus("indexing")
    /\ Goto(r, "embed")
    /\ UNCHANGED <<history, attached, chunkVars, points, bm25Vars, historyVars>>

(* Batches and their retries are one call: an error of any is the call's.  *)
Embed(r) ==
    /\ At(r, "embed")
    /\ Goto(r, "upsert")
    /\ UNCHANGED <<rowVars, attached, chunkVars, points, bm25Vars, historyVars>>

Upsert(r) ==
    /\ At(r, "upsert")
    /\ points' = points \cup request[r].drafts
    /\ Goto(r, "switch")
    /\ UNCHANGED <<rowVars, attached, chunkVars, bm25Vars, overlapped, torn>>

(* Fault of VersionTaken: no unique constraint.                            *)
VersionTakenNever(version) == FALSE

(* (document_id, version) is unique in document_versions.                  *)
VersionTaken(version) == \E h \in history : h[1] = version

(* The version that a chunk is made from gets a snapshot if it has none.   *)
EnsureVersion(r) ==
    history' = IF VersionTaken(request[r].version)
               THEN history
               ELSE history \cup {<<request[r].version, request[r].writer>>}

(* Fault of LineageWith: the lineage of replaced chunks is deleted.        *)
LineageWithOnly(r) == request[r].drafts

(* Rows of lineage are added; those of replaced chunks keep their point.   *)
LineageWith(r) == lineage \cup request[r].drafts

FailSwitch(r) ==
    IF NewIds(r) # {} THEN Goto(r, "compensate_rolled_back") ELSE Forget(r, "mark_failed")

(* One transaction replaces the chunks and records their lineage.  It      *)
(* violates a foreign key if the document is gone.                         *)
Switch(r) ==
    /\ At(r, "switch")
    /\ LET replaceRequired == request[r].existing # request[r].drafts IN
       \/ /\ replaceRequired /\ row.exists
          /\ chunks' = request[r].drafts
          /\ searchable' = "pending"
          /\ lineage' = LineageWith(r)
          /\ EnsureVersion(r)
          /\ Goto(r, "delete_stale")
       \/ /\ replaceRequired /\ ~row.exists
          /\ FailSwitch(r)
          /\ UNCHANGED <<chunkVars, history>>
       \/ /\ ~replaceRequired
          /\ Goto(r, "delete_stale")
          /\ UNCHANGED <<chunkVars, history>>
    /\ UNCHANGED <<row, attached, points, bm25Vars, historyVars>>

(* Fault of StaleIds: points of earlier switches are not looked up.        *)
StaleIdsOfChunks(r) == request[r].existing \ request[r].drafts

(* Points of earlier chunks, and of every chunk that was ever switched to. *)
StaleIds(r) == (request[r].existing \cup lineage) \ request[r].drafts

DeleteStale(r) ==
    /\ At(r, "delete_stale")
    /\ points' = points \ StaleIds(r)
    /\ Goto(r, "mark_indexed")
    /\ UNCHANGED <<rowVars, attached, chunkVars, bm25Vars, historyVars>>

MarkIndexed(r) ==
    /\ At(r, "mark_indexed")
    /\ SetIndexStatus("indexed")
    /\ searchable' = "indexed"
    /\ torn' = FALSE
    /\ Forget(r, "read")
    /\ UNCHANGED <<history, attached, chunks, lineage, points, bm25Vars, overlapped>>

(* The exception handler of index_document.                                *)
Compensate(r) ==
    /\ request[r].pc \in {"compensate", "compensate_rolled_back"}
    /\ points' = points \ NewIds(r)
    /\ Forget(r, "mark_failed")
    /\ UNCHANGED <<rowVars, attached, chunkVars, bm25Vars, historyVars>>

MarkFailed(r) ==
    /\ At(r, "mark_failed")
    /\ SetIndexStatus("failed")
    /\ End(r)
    /\ UNCHANGED <<history, attached, chunkVars, points, bm25Vars, historyVars>>

-----------------------------------------------------------------------------
(* update_document and reparse_document.                                   *)

LoadForUpdate(r) ==
    /\ At(r, "load_update")
    /\ IF row.exists
       THEN request' = [request EXCEPT ![r].pc = "bump", ![r].version = row.version,
                ![r].writer = row.writer, ![r].index = row.index]
       ELSE End(r)
    /\ UNCHANGED <<rowVars, attached, chunkVars, points, bm25Vars, historyVars>>

(* The snapshots that a change from <<version, writer>> by w adds.         *)
Snapshots(version, writer, w) ==
    history \cup (IF history = {} THEN {<<version, writer>>} ELSE {})
            \cup {<<version + 1, w>>}

(* The values that were loaded decide; the unique snapshot refuses a       *)
(* version that another writer has taken meanwhile.  The status is only    *)
(* written if it was another one when it was loaded.                       *)
BumpVersion(r) ==
    /\ At(r, "bump")
    /\ request[r].version < MaxVersion
    /\ IF row.exists /\ ~VersionTaken(request[r].version + 1)
       THEN /\ row' = [row EXCEPT !.version = request[r].version + 1, !.writer = r,
                                  !.index = IF request[r].index = "stale" THEN @ ELSE "stale"]
            /\ history' = Snapshots(request[r].version, request[r].writer, r)
            /\ Forget(r, "collect")
       ELSE UNCHANGED rowVars /\ End(r)
    /\ UNCHANGED <<attached, chunkVars, points, bm25Vars, historyVars>>

(* The payload changes nothing, or the text parses to the same hash.       *)
NothingChanged(r) ==
    /\ At(r, "bump")
    /\ End(r)
    /\ UNCHANGED <<rowVars, attached, chunkVars, points, bm25Vars, historyVars>>

(* invalidate_document_retrieval and delete_document: the ids of all       *)
(* current and historic points.                                            *)
CollectPoints(r) ==
    /\ request[r].pc \in {"collect", "collect_all"}
    /\ request' = [request EXCEPT ![r].ids = chunks \cup lineage,
            ![r].pc = IF At(r, "collect") THEN "remove" ELSE "remove_all"]
    /\ UNCHANGED <<rowVars, attached, chunkVars, points, bm25Vars, historyVars>>

RemovePoints(r) ==
    /\ request[r].pc \in {"remove", "remove_all"}
    /\ points' = points \ request[r].ids
    /\ torn' = TRUE
    /\ Forget(r, IF At(r, "remove") THEN "mark_stale" ELSE "drop_row")
    /\ UNCHANGED <<rowVars, attached, chunkVars, bm25Vars, overlapped>>

MarkStale(r) ==
    /\ At(r, "mark_stale")
    /\ searchable' = "stale"
    /\ torn' = FALSE
    /\ Forget(r, "read")
    /\ UNCHANGED <<rowVars, attached, chunks, lineage, points, bm25Vars, overlapped>>

(* The foreign keys remove versions and chunks and detach the lineage.     *)
DropRow(r) ==
    /\ At(r, "drop_row")
    /\ row' = [row EXCEPT !.exists = FALSE]
    /\ history' = {} /\ chunks' = {} /\ lineage' = {}
    /\ torn' = FALSE
    /\ Forget(r, "read")
    /\ UNCHANGED <<attached, searchable, points, bm25Vars, overlapped>>

-----------------------------------------------------------------------------
(* rebuild_runtime_bm25.                                                   *)

ReadIndexed(r) ==
    /\ At(r, "read")
    /\ request' = [request EXCEPT ![r].pc = "assign", ![r].ids = Listed]
    /\ UNCHANGED <<rowVars, attached, chunkVars, points, bm25Vars, historyVars>>

AssignBM25(r) ==
    /\ At(r, "assign")
    /\ bm25' = request[r].ids
    /\ Goto(r, "save")
    /\ UNCHANGED <<rowVars, attached, chunkVars, points, snapshot, historyVars>>

SaveSnapshot(r) ==
    /\ At(r, "save")
    /\ snapshot' = request[r].ids
    /\ End(r)
    /\ UNCHANGED <<rowVars, attached, chunkVars, points, bm25, historyVars>>

(* scripts/rebuild_bm25.py.                                                *)
RebuildScript ==
    /\ snapshot' = Listed
    /\ UNCHANGED <<rowVars, attached, chunkVars, points, bm25, request, historyVars>>

-----------------------------------------------------------------------------
(* Crawl worker, attachment script and reviewers.                          *)

(* _refresh_coze_document with changed fields.                             *)
RefreshByCrawl ==
    /\ row.exists
    /\ row.version < MaxVersion
    /\ row' = [row EXCEPT !.version = row.version + 1, !.writer = "crawl",
                          !.index = "stale", !.approved = FALSE]
    /\ history' = Snapshots(row.version, row.writer, "crawl")
    /\ searchable' = "stale"
    /\ UNCHANGED <<attached, chunks, lineage, points, bm25Vars, request, historyVars>>

ParseAttachment ==
    /\ row.exists
    /\ ~attached
    /\ attached' = TRUE
    /\ UNCHANGED <<rowVars, chunkVars, points, bm25Vars, request, historyVars>>

Decide(approve) ==
    /\ row.exists
    /\ row.approved # approve
    /\ row' = [row EXCEPT !.approved = approve]
    /\ UNCHANGED <<history, attached, chunkVars, points, bm25Vars, request, historyVars>>

-----------------------------------------------------------------------------
(* Failures.                                                               *)

(* A call to the embedding provider, the vector store or the database      *)
(* raises inside the try block.  A failed call to the vector store may     *)
(* have done any part of its work; a failed transaction is rolled back.    *)
IndexingFails(r) ==
    /\ request[r].pc \in Indexing
    /\ LET written == IF At(r, "upsert") THEN SUBSET request[r].drafts ELSE {{}}
           removed == IF At(r, "delete_stale") THEN SUBSET StaleIds(r) ELSE {{}}
       IN \E w \in written, d \in removed : points' = (points \cup w) \ d
    /\ IF At(r, "switch") THEN FailSwitch(r)
       ELSE IF At(r, "upsert") /\ NewIds(r) # {} THEN Goto(r, "compensate")
       ELSE Forget(r, "mark_failed")
    /\ UNCHANGED <<rowVars, attached, chunkVars, bm25Vars, overlapped, torn>>

(* The compensating delete fails.  After a rollback the log call reads an  *)
(* expired attribute and raises, so that the status is not written.        *)
CompensationFails(r) ==
    /\ request[r].pc \in {"compensate", "compensate_rolled_back"}
    /\ \E d \in SUBSET NewIds(r) : points' = points \ d
        /\ Forget(r, IF At(r, "compensate") THEN "mark_failed" ELSE "idle")
    /\ UNCHANGED <<rowVars, attached, chunkVars, bm25Vars, overlapped, torn>>

(* Any other call raises and the request ends where it is.                 *)
RequestFails(r) ==
    /\ request[r].pc \in {"mark", "mark_failed"} \cup Updating \cup Deleting \cup {"read", "save"}
    /\ IF request[r].pc \in {"remove", "remove_all"}
       THEN /\ \E d \in SUBSET request[r].ids : points' = points \ d
            /\ torn' = TRUE
       ELSE UNCHANGED <<points, torn>>
    /\ End(r)
    /\ UNCHANGED <<rowVars, attached, chunkVars, bm25Vars, overlapped>>

(* The points that running requests have written and not yet recorded.     *)
Writing == {"switch", "compensate", "compensate_rolled_back"}
InFlight ==
    {c \in ChunkIds : \E r \in Requests : request[r].pc \in Writing /\ c \in NewIds(r)}

(* The process dies and is started again with the index of the snapshot.   *)
Restart ==
    /\ request' = [r \in Requests |-> Idle]
    /\ bm25' = snapshot
    /\ UNCHANGED <<rowVars, attached, chunkVars, points, snapshot, overlapped, torn>>

-----------------------------------------------------------------------------
(* Specification.                                                          *)

Reindexing(r) ==
    \/ LoadDocument(r) \/ MarkIndexing(r) \/ Embed(r) \/ Upsert(r) \/ Switch(r)
    \/ DeleteStale(r) \/ MarkIndexed(r) \/ Compensate(r) \/ MarkFailed(r)

Editing(r) ==
    \/ LoadForUpdate(r) \/ BumpVersion(r) \/ NothingChanged(r) \/ CollectPoints(r)
    \/ RemovePoints(r) \/ MarkStale(r) \/ DropRow(r)

Rebuild(r) == ReadIndexed(r) \/ AssignBM25(r) \/ SaveSnapshot(r)

Serve(r) == Reindexing(r) \/ Editing(r) \/ Rebuild(r)

Faults ==
    \/ \E r \in Requests : IndexingFails(r) \/ CompensationFails(r) \/ RequestFails(r)
    \/ Restart

Next ==
    \/ \E r \in Requests :
        StartReindex(r) \/ StartUpdate(r) \/ StartDelete(r) \/ Serve(r)
    \/ RefreshByCrawl \/ ParseAttachment
    \/ \E approve \in BOOLEAN : Decide(approve)
    \/ RebuildScript
    \/ Faults

Spec == Init /\ [][Next]_vars

(* Calls return; operators retry the reindexing of an approved document    *)
(* and come to do one thing at a time; failures stop after a while.        *)
FairSpec ==
    /\ Spec
    /\ \A r \in Requests : WF_vars(Serve(r))
    /\ SF_vars(\E r \in Requests : StartReindex(r))
    /\ <>[][~Faults]_vars
    /\ <>[][~(\E r \in Requests : Busy /\ At(r, "idle") /\ ~At(r, "idle")')]_vars

-----------------------------------------------------------------------------
(* Properties.                                                             *)

(* Rows, indexes and requests hold what the code can store in them.        *)
TypeOK ==
    /\ row \in Rows
    /\ history \subseteq Versions \X Writers
    /\ attached \in BOOLEAN
    /\ chunks \subseteq ChunkIds
    /\ searchable \in {"pending", "indexed", "stale"}
    /\ lineage \subseteq ChunkIds
    /\ points \subseteq ChunkIds
    /\ bm25 \subseteq ChunkIds
    /\ snapshot \subseteq ChunkIds
    /\ request \in [Requests -> RequestStates]
    /\ overlapped \in BOOLEAN
    /\ torn \in BOOLEAN

(* Points that no row of the database names, nor a request that is going   *)
(* to record or to remove them: invalidation does not find them.           *)
UnknownPoints == points \ (lineage \cup InFlight)

(* The database can find every point again, whatever calls fail: a step    *)
(* loses track of a point only if the process dies between the upsert and  *)
(* the commit, if the compensation fails too, or if the document is        *)
(* deleted during another request (index_document, replace_chunks).        *)
PointsStayKnown ==
    [][ \/ UnknownPoints' \subseteq UnknownPoints
        \/ Restart
        \/ \E r \in Requests : CompensationFails(r)
        \/ ~row'.exists /\ overlapped ]_vars

(* A chunk that is marked as indexed can be found by vector search: a      *)
(* reindexing that fails takes away only points that it has added itself.  *)
(* It holds as long as requests do not overlap, and except while an        *)
(* invalidation or a deletion has removed the points and not yet finished. *)
IndexedHasPoints ==
    (searchable = "indexed" /\ ~overlapped /\ ~torn) => chunks \subseteq points

(* The version history is the history of the row: administrators and crawl *)
(* worker that change it at the same time never write two texts under one  *)
(* version, and no version is missing (VersioningService).                 *)
HistoryIsFaithful ==
    /\ \A g, h \in history : g[1] = h[1] => g = h
    /\ (row.exists /\ history # {}) => <<row.version, row.writer>> \in history
    /\ (row.exists /\ row.version > 1) => \A v \in 1 .. row.version : \E h \in history : h[1] = v

(* An index_status of indexed belongs to the current version: a change     *)
(* makes the index stale until it is built again.                          *)
IndexedIsCurrent ==
    (row.exists /\ row.index = "indexed") => \A c \in chunks : c[1] = row.version

(* All stores hold the chunks of the current version and of no other.      *)
Converged ==
    /\ ~Busy
    /\ row.index = "indexed"
    /\ chunks = Drafts(row.version, attached)
    /\ chunks \subseteq points
    /\ points \ chunks \subseteq UnknownPoints
    /\ bm25 = chunks

(* Retrying works: once failures stop, reindexing an approved document     *)
(* brings all the stores to its current version, whatever earlier attempts *)
(* left in them.                                                           *)
RetryConverges == []<>Converged \/ []<>~(row.exists /\ row.approved)
=============================================================================
