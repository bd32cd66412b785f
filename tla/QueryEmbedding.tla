--------------------------- MODULE QueryEmbedding ---------------------------
(***************************************************************************)
(* CachedQueryEmbeddingProvider: requests that ask for the vector of the   *)
(* same query share one task.  The task looks in the cache, calls the      *)
(* provider and stores the vector; it outlives a caller that is cancelled, *)
(* and stays registered for a while after it has ended.                    *)
(***************************************************************************)
EXTENDS Naturals

CONSTANTS
    Requests,  \* callers
    Queries,   \* normalized queries: the keys
    Tasks,     \* asyncio tasks; an identity is used again once nobody holds it
    NoTask     \* no task

ASSUME NoTaskAssumption == NoTask \notin Tasks
ASSUME QueriesAssumption == Queries # {}

VARIABLES
    task,      \* the tasks of _load_or_embed
    inflight,  \* _inflight: the task registered for every query
    cache,     \* the entry of every query in the embedding cache
    caller     \* the task that every request awaits

embeddingVars == <<task, inflight, cache, caller>>

(* A task: what it awaits, or what it ended with.  An invalid vector has    *)
(* another length than the collection.                                     *)
Awaiting == {"load", "embed", "store_valid", "store_invalid"}
Vectors == {"valid", "invalid"}
Ended == Vectors \cup {"failed"}
Unused == "unused"

Running(t) == task[t].state \in Awaiting

EmbeddingInit ==
    /\ task = [t \in Tasks |-> [state |-> Unused, query |-> CHOOSE q \in Queries : TRUE]]
    /\ inflight = [q \in Queries |-> NoTask]
    /\ cache = [q \in Queries |-> "absent"]
    /\ caller = [r \in Requests |-> NoTask]

(* Nobody refers to a task any more.                                       *)
Forgotten(t) ==
    /\ ~Running(t)
    /\ \A q \in Queries : inflight[q] # t
    /\ \A r \in Requests : caller[r] # t

-----------------------------------------------------------------------------
(* embed_query: under the lock, the caller joins the registered task or    *)
(* registers a new one.                                                    *)

(* asyncio.create_task: the caller awaits a new task, registered for q.     *)
Begin(r, q) ==
    /\ \E t \in Tasks : Forgotten(t)
    /\ LET t == CHOOSE t \in Tasks : Forgotten(t)
       IN /\ task' = [task EXCEPT ![t] = [state |-> "load", query |-> q]]
          /\ inflight' = [inflight EXCEPT ![q] = t]
          /\ caller' = [caller EXCEPT ![r] = t]
    /\ UNCHANGED cache

(* Fault of embed_query: the registered task is not looked for.            *)
embed_query_unregistered(r, q) == Begin(r, q)

embed_query(r, q) ==
    \/ /\ inflight[q] # NoTask
       /\ caller' = [caller EXCEPT ![r] = inflight[q]]
       /\ UNCHANGED <<task, inflight, cache>>
    \/ inflight[q] = NoTask /\ Begin(r, q)

(* Fault of Resume: an error of the task does not wake its callers.        *)
ResumeServed(r, outcome) ==
    /\ caller[r] # NoTask
    /\ task[caller[r]].state = outcome
    /\ outcome \in Vectors
    /\ caller' = [caller EXCEPT ![r] = NoTask]
    /\ UNCHANGED <<task, inflight, cache>>

(* The caller goes on with what its task ended with.                       *)
Resume(r, outcome) ==
    /\ caller[r] # NoTask
    /\ task[caller[r]].state = outcome
    /\ outcome \in Ended
    /\ caller' = [caller EXCEPT ![r] = NoTask]
    /\ UNCHANGED <<task, inflight, cache>>

(* Fault of CancelCaller: the cancellation reaches the task (no shield).   *)
CancelTask(r) ==
    /\ caller[r] # NoTask
    /\ task' = [task EXCEPT ![caller[r]].state = IF @ \in Awaiting THEN "failed" ELSE @]
    /\ caller' = [caller EXCEPT ![r] = NoTask]
    /\ UNCHANGED <<inflight, cache>>

(* asyncio.shield: the caller is cancelled, the task goes on.              *)
CancelCaller(r) ==
    /\ caller[r] # NoTask
    /\ caller' = [caller EXCEPT ![r] = NoTask]
    /\ UNCHANGED <<task, inflight, cache>>

-----------------------------------------------------------------------------
(* _load_or_embed.                                                         *)

Goes(t, state) == task' = [task EXCEPT ![t].state = state]

(* A cache that cannot be read, and an entry of the wrong shape, count as a *)
(* miss.                                                                   *)
LoadFromCache(t) ==
    /\ task[t].state = "load"
    /\ \/ cache[task[t].query] = "valid" /\ Goes(t, "valid")
       \/ Goes(t, "embed")
    /\ UNCHANGED <<inflight, cache, caller>>

CallProvider(t) ==
    /\ task[t].state = "embed"
    /\ \E state \in {"store_valid", "store_invalid", "failed"} : Goes(t, state)
    /\ UNCHANGED <<inflight, cache, caller>>

(* The write may fail: the vector is returned all the same.                *)
StoreInCache(t) ==
    /\ task[t].state \in {"store_valid", "store_invalid"}
    /\ LET vector == IF task[t].state = "store_valid" THEN "valid" ELSE "invalid"
       IN /\ Goes(t, vector)
          /\ \/ cache' = [cache EXCEPT ![task[t].query] = vector]
             \/ UNCHANGED cache
    /\ UNCHANGED <<inflight, caller>>

(* _schedule_clear and _clear_inflight: some time after the task ended.    *)
ClearInflight(t) ==
    /\ task[t].state \in Ended
    /\ inflight[task[t].query] = t
    /\ inflight' = [inflight EXCEPT ![task[t].query] = NoTask]
    /\ UNCHANGED <<task, cache, caller>>

(* The entry's time to live is over.                                       *)
ExpireEntry(q) ==
    /\ cache[q] # "absent"
    /\ cache' = [cache EXCEPT ![q] = "absent"]
    /\ UNCHANGED <<task, inflight, caller>>

Advance(t) == LoadFromCache(t) \/ CallProvider(t) \/ StoreInCache(t) \/ ClearInflight(t)

-----------------------------------------------------------------------------
(* The specification: callers that ask, are cancelled or go on.            *)

Ask(r, q) == caller[r] = NoTask /\ embed_query(r, q)

EmbeddingNext ==
    \/ \E r \in Requests, q \in Queries : Ask(r, q)
    \/ \E r \in Requests : CancelCaller(r) \/ \E outcome \in Ended : Resume(r, outcome)
    \/ \E t \in Tasks : Advance(t)
    \/ \E q \in Queries : ExpireEntry(q)

EmbeddingSpec == EmbeddingInit /\ [][EmbeddingNext]_embeddingVars

-----------------------------------------------------------------------------
(* Properties.                                                             *)

(* Every variable keeps its type: a running task has a query, a caller      *)
(* awaits a task or none.                                                  *)
EmbeddingTypeOK ==
    /\ task \in [Tasks -> [state : Awaiting \cup Ended \cup {Unused}, query : Queries]]
    /\ inflight \in [Queries -> Tasks \cup {NoTask}]
    /\ cache \in [Queries -> {"absent"} \cup Vectors]
    /\ caller \in [Requests -> Tasks \cup {NoTask}]

(* However requests arrive, are cancelled and fail, at most one task works  *)
(* on a query, and it is the registered one: nobody pays for the same       *)
(* embedding twice at the same time (CachedQueryEmbeddingProvider.          *)
(* embed_query and _clear_inflight).                                       *)
OneCallPerQuery ==
    \A t \in Tasks : Running(t) => inflight[task[t].query] = t

(* A caller that goes, cancelled or served, ends no task that others may    *)
(* await (asyncio.shield in embed_query).                                  *)
CallersLeaveTasksAlone ==
    [][(\E r \in Requests : caller[r] # NoTask /\ caller'[r] = NoTask)
         => \A t \in Tasks : Running(t) => task'[t] = task[t]]_embeddingVars

=============================================================================
