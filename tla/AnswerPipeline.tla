--------------------------- MODULE AnswerPipeline ---------------------------
(***************************************************************************)
(* Questions and searches: ChatService.answer and RetrievalEngine.search,  *)
(* with the evidence gate, the grounding service and the providers they     *)
(* call, while an administrator deletes and indexes documents.             *)
(*                                                                         *)
(* A request captures the BM25 index when it arrives, embeds the query in a *)
(* shared task, searches the vector store, fuses, reranks, judges the       *)
(* evidence, asks the model, checks what it wrote, stores a trace and only  *)
(* then answers.  It gives way to the others at every await, and every call *)
(* may fail.  What texts say is abstracted to facts about the question:     *)
(* which of its terms a chunk holds and which of its demands it meets.      *)
(***************************************************************************)
EXTENDS QueryEmbedding, Sequences, FiniteSets, SequencesExt

CONSTANTS
    Chunks,        \* chunk ids: an interval from 1, in the order of the ids
    Moving,        \* the chunks that the administrator deletes and indexes
    Corpora,       \* what the chunks and the question may be
    Deployments,   \* settings of the deployments looked at
    Aspects,       \* the parts of the question
    Terms,         \* the terms of every part
    RrfK,          \* rrf_k
    Unit,          \* scores are whole numbers of 1/Unit-ths
    SearchTopK,    \* bm25_top_k and vector_top_k
    RerankTopK,    \* rerank_top_k
    FinalTopK,     \* final_top_k
    MinimumConfidence,   \* per cent of an aspect's terms that all hits must hold
    MinimumContribution  \* per cent of them that a supporting hit must hold

VARIABLES
    corpus,    \* the facts: never changes
    settings,  \* the deployment: never changes
    points,    \* chunks in the vector store
    rows,      \* chunks with a searchable row
    bm25,      \* chunks in runtime.bm25_index
    admin,     \* the request of the administrator
    request    \* the questions and searches being served

storeVars == <<points, rows, bm25, admin>>
worldVars == <<corpus, settings>>
vars == <<embeddingVars, worldVars, storeVars, request>>

-----------------------------------------------------------------------------
(* The question and the chunks.                                            *)

(* What an aspect may demand: a relation or a scope that one hit states,    *)
(* and values or a form of answer that the hits state together.  A closed   *)
(* aspect may not be answered from documents at all.                       *)
Relations == {"legal_basis", "penalty", "other_relation"}
Demands == Relations \cup {"scope", "values", "shape", "closed"}

Facts == [terms : [Aspects -> SUBSET Terms], meets : [Aspects -> SUBSET Demands],
          body : BOOLEAN, official : BOOLEAN, policy : {"P", "Q"}, date : 0 .. 2]

Rankings == UNION {[1 .. n -> Chunks] : n \in 0 .. Cardinality(Chunks)}

ASSUME ChunksAssumption ==
    /\ IsFiniteSet(Chunks) /\ Chunks \subseteq Nat \ {0}
    /\ 1 \in Chunks /\ Moving \subseteq Chunks

(* A search returns a chunk once.                                          *)
ASSUME CorporaAssumption ==
    \A k \in Corpora :
        /\ k.facts \in [Chunks -> Facts] /\ k.demands \in [Aspects -> SUBSET Demands]
        /\ \A ranking \in {k.lexical, k.semantic} :
              ranking \in Rankings /\ IsInjective(ranking) /\ ToSet(ranking) = Chunks

(* date 0: the publication date is not known.  body: the text itself, not   *)
(* only the title, shares a word with the question.                        *)
Fact(c) == corpus.facts[c]
Demanded(a) == corpus.demands[a]

Kinds == {"sql", "rag", "composite"}
Modes == {"bm25", "vector", "hybrid", "hybrid_rerank"}
IsChat(r) == request[r].kind \in Kinds
Mode(r) == IF IsChat(r) THEN "hybrid_rerank" ELSE request[r].kind

NoAnswer == [refusal |-> TRUE, reason |-> "none", citations |-> {}, urls |-> {}]
Fresh == [pc |-> "idle", kind |-> "rag", query |-> CHOOSE q \in Queries : TRUE,
          index |-> {}, lexical |-> <<>>, semantic |-> <<>>, fused |-> <<>>,
          final |-> <<>>, eligible |-> {}, citable |-> {},
          answer |-> NoAnswer, trace |-> NoAnswer, gone |-> {}]

Init ==
    /\ EmbeddingInit
    /\ corpus \in Corpora
    /\ settings \in Deployments
    /\ points = Chunks /\ rows = Chunks /\ bm25 = Chunks
    /\ admin = [step |-> "idle", chunk |-> 1]
    /\ request = [r \in Requests |-> Fresh]

At(r, pc) == request[r].pc = pc
Becomes(r, served) == request' = [request EXCEPT ![r] = served]
Goto(r, pc) == Becomes(r, [request[r] EXCEPT !.pc = pc])

(* The handler raises: an error response, and nothing is stored.           *)
Fail(r) == Becomes(r, [Fresh EXCEPT !.pc = "failed"])

-----------------------------------------------------------------------------
(* Rankings: sequences of chunks, best first.                              *)

Larger(m, n) == IF m > n THEN m ELSE n
Top(n, ranking) == SubSeq(ranking, 1, IF n < Len(ranking) THEN n ELSE Len(ranking))
RankIn(ranking, c) == CHOOSE i \in 1 .. Len(ranking) : ranking[i] = c

(* The elements of a finite set in a strict total order of it, given by the *)
(* elements that are before each: the n-th is the one after n - 1 others.  *)
InOrder(S, before) ==
    [n \in 1 .. Cardinality(S) |-> CHOOSE c \in S : Cardinality(before[c]) = n - 1]

(* A ranking reduced to the chunks of a set.                               *)
Keep(ranking, S) ==
    LET kept == {i \in DOMAIN ranking : ranking[i] \in S}
        order == InOrder(kept, [i \in kept |-> {j \in kept : j < i}])
    IN [n \in 1 .. Cardinality(kept) |-> ranking[order[n]]]

-----------------------------------------------------------------------------
(* RetrievalEngine.search.                                                 *)

(* Every reciprocal rank that fusion may add is a whole number of 1/Unit-ths. *)
ASSUME ScoresAssumption ==
    /\ {SearchTopK, FinalTopK, RerankTopK, RrfK, Unit} \subseteq Nat \ {0}
    /\ \A n \in 1 .. Larger(SearchTopK, FinalTopK) : Unit % (RrfK + n) = 0

(* BM25Index.search and VectorStore.search: the chunks of an index that     *)
(* match, best first.                                                      *)
Ranked(order, index) == Top(Larger(SearchTopK, FinalTopK), Keep(order, index))
Lexical(index) == Ranked(corpus.lexical, {c \in index : \E a \in Aspects : Fact(c).terms[a] # {}})
Semantic == Ranked(corpus.semantic, points)

InverseRank(ranking, c) ==
    IF c \in ToSet(ranking) THEN Unit \div (RrfK + RankIn(ranking, c)) ELSE 0

(* Fault of FusedScore: the better rank counts, not the sum.               *)
BestScore(lexical, semantic, c) ==
    Larger(InverseRank(lexical, c), InverseRank(semantic, c))

FusedScore(lexical, semantic, c) == InverseRank(lexical, c) + InverseRank(semantic, c)

(* reciprocal_rank_fusion: by score, then by chunk id.                     *)
Fusion(lexical, semantic) ==
    LET found == ToSet(lexical) \cup ToSet(semantic)
        score(c) == FusedScore(lexical, semantic, c)
    IN Top(Larger(RerankTopK, FinalTopK),
           InOrder(found, [c \in found |->
               {d \in found : score(d) > score(c) \/ (score(d) = score(c) /\ d < c)}]))

(* Hits: a ranking with the scores of its chunks.                          *)
FusedHits(lexical, semantic) ==
    [order |-> Fusion(lexical, semantic),
     score |-> [c \in Chunks |-> FusedScore(lexical, semantic, c)]]

(* What a rerank provider may return: positions, 0 for one out of range,    *)
(* and for every position a score that is 0 or 1.                          *)
Orderings(n) == UNION {[1 .. m -> 0 .. n] : m \in 0 .. (IF n < RerankTopK THEN n ELSE RerankTopK)}

ValidOrdering(ordering) ==
    /\ ordering # <<>>
    /\ 0 \notin ToSet(ordering)
    /\ \A i, j \in DOMAIN ordering : ordering[i] = ordering[j] => i = j

(* _validated_rerank.                                                      *)
Reranked(fused, ordering, low) ==
    [order |-> [i \in DOMAIN ordering |-> fused[ordering[i]]],
     score |-> [c \in Chunks |-> IF c \in low THEN 0 ELSE Unit]]

RerankResults(fused) ==
    UNION {{Reranked(fused, ordering, low) : low \in SUBSET {fused[i] : i \in ToSet(ordering)}} :
              ordering \in {o \in Orderings(Len(fused)) : ValidOrdering(o)}}

(* The candidates that reach score_threshold, at most final_top_k.  The     *)
(* scores are reranked ones, or fused ones when no reranking took place.   *)
FinalHits(hits) ==
    Top(FinalTopK, Keep(hits.order, {c \in Chunks : hits.score[c] >= settings.threshold}))

-----------------------------------------------------------------------------
(* EvidenceSufficiencyGate.                                                *)

(* _coverage and _strong_match_count: a set of terms against a minimum.     *)
Reaches(terms, minimum) ==
    terms # {} /\ 100 * Cardinality(terms) >= minimum * Cardinality(Terms)

TermsIn(S, a) == UNION {Fact(c).terms[a] : c \in S}

(* _relation_failure and _scope_supported: what one hit states.            *)
RelationMet(c, a) == Demanded(a) \cap Relations \subseteq Fact(c).meets[a]
ScopeMet(c, a) == Demanded(a) \cap {"scope"} \subseteq Fact(c).meets[a]

(* The hits that state relation and scope; all of them when no hit states   *)
(* both.                                                                   *)
ConstraintHits(S, a) ==
    LET both == {c \in S : RelationMet(c, a) /\ ScopeMet(c, a)}
    IN IF both = {} THEN S ELSE both

(* _query_constraints and _answer_shape_supported: what those hits state    *)
(* together.                                                               *)
Stated(S, a) ==
    Demanded(a) \cap {"values", "shape"} \subseteq UNION {Fact(c).meets[a] : c \in S}

Supporting(S, a) ==
    {c \in ConstraintHits(S, a) : Reaches(Fact(c).terms[a], MinimumContribution)}

(* _assess_aspect.                                                         *)
AspectSupported(S, a) ==
    /\ "closed" \notin Demanded(a)
    /\ \E c \in S : RelationMet(c, a)
    /\ \E c \in S : ScopeMet(c, a)
    /\ Stated(ConstraintHits(S, a), a)
    /\ Reaches(TermsIn(S, a), MinimumConfidence)
    /\ Supporting(S, a) # {}

(* assess: every aspect is supported, and by which hits.                   *)
Sufficient(S) == \A a \in Aspects : AspectSupported(S, a)
SupportedHits(S) == UNION {Supporting(S, a) : a \in Aspects}

-----------------------------------------------------------------------------
(* GroundingService.assess, of the supported hits.                         *)

Eligible(S, score) == {c \in S : score[c] >= settings.minimumScore /\ Fact(c).official}

(* minimum_hits is one; the other reasons to refuse come after it.         *)
GroundingReason(S, score) ==
    IF \A c \in S : score[c] < settings.minimumScore THEN "insufficient"
    ELSE IF Eligible(S, score) = {} THEN "official_source_required"
    ELSE IF \A c \in Eligible(S, score) : ~Fact(c).body THEN "question_not_covered"
    ELSE "none"

(* _detect_outdated: a hit of the same policy has a later known date.      *)
Outdated(c, S) ==
    \E d \in S : /\ Fact(d).policy = Fact(c).policy
                 /\ Fact(c).date # 0 /\ Fact(d).date > Fact(c).date

(* The eligible hits that may be cited.                                    *)
Citable(S) == {c \in S : ~Outdated(c, S)}

-----------------------------------------------------------------------------
(* ChatService._answer: from the hits to an answer, to the model or to a    *)
(* refusal, in one go.                                                     *)

Refusal(reason) == [refusal |-> TRUE, reason |-> reason, citations |-> {}, urls |-> {}]
Answered(citations, urls) ==
    [refusal |-> FALSE, reason |-> "none", citations |-> citations, urls |-> urls]

Storing(s, answer) == [s EXCEPT !.pc = "persist", !.answer = answer]

(* No orchestrator: the quotes of at most three citations.                 *)
Extractive(final, citable) == Answered(ToSet(Top(3, Keep(final, citable))), {})

(* A search keeps its final hits.                                          *)
Searched(s, pc, final) ==
    [s EXCEPT !.pc = pc, !.index = {}, !.lexical = <<>>, !.semantic = <<>>, !.fused = <<>>,
              !.final = final]

(* A question also keeps what later steps read: the eligible hits and those *)
(* that may be cited.                                                      *)
Judged(s, final, score) ==
    LET found == Searched(s, "generate", final)
        supported == SupportedHits(ToSet(final))
        eligible == Eligible(supported, score)
        grounded == [found EXCEPT !.eligible = eligible, !.citable = Citable(eligible)]
        reason == IF Sufficient(ToSet(final)) THEN GroundingReason(supported, score)
                  ELSE "insufficient_evidence"
    IN IF reason # "none" THEN Storing(found, Refusal(reason))
       ELSE IF settings.model = "extractive"
       THEN Storing(grounded, Extractive(final, Citable(eligible)))
       ELSE grounded

(* The retrieval trace is returned to a search, or judged.                 *)
Found(r, final, score) ==
    IF IsChat(r) THEN Judged(request[r], final, score)
    ELSE Searched(request[r], "searched", final)

Finds(r, hits) ==
    \E final \in {FinalHits(hits)} : Becomes(r, Found(r, final, hits.score))

-----------------------------------------------------------------------------
(* The steps of a request.                                                 *)

(* The chunks that no store and no row holds any more.                     *)
Deleted == IF admin.step = "idle" THEN Chunks \ rows ELSE {}

(* Fault of Arrive: the engine of the first request serves all.            *)
ArriveStale(r, kind) ==
    /\ At(r, "idle")
    /\ \E q \in Queries :
         Becomes(r, [Fresh EXCEPT !.pc = "route", !.kind = kind, !.query = q,
                                  !.index = Chunks, !.gone = Deleted])
    /\ UNCHANGED <<embeddingVars, worldVars, storeVars>>

(* get_chat_service and get_retrieval_engine: the engine holds the index    *)
(* that the runtime has now.                                               *)
Arrive(r, kind) ==
    /\ At(r, "idle")
    /\ \E q \in Queries :
         Becomes(r, [Fresh EXCEPT !.pc = "route", !.kind = kind, !.query = q,
                                  !.index = bm25, !.gone = Deleted])
    /\ UNCHANGED <<embeddingVars, worldVars, storeVars>>

(* The BM25 search, and the call of embed_query when the mode needs it.     *)
(* From here on a composite question is a rag one: the count only precedes  *)
(* the text of its answer.                                                 *)
Retrieve(r) ==
    LET lexical == IF Mode(r) = "vector" THEN <<>> ELSE Lexical(request[r].index)
    IN IF Mode(r) = "bm25"
       THEN /\ \E n \in 0 .. Len(lexical) :   \* those that reach the threshold
                 /\ settings.threshold = 0 => n = Len(lexical)
                 /\ Becomes(r, Searched(request[r], "searched", Top(FinalTopK, Top(n, lexical))))
            /\ UNCHANGED embeddingVars
       ELSE /\ embed_query(r, request[r].query)
            /\ Becomes(r, [request[r] EXCEPT !.pc = "embed", !.index = {}, !.lexical = lexical,
                                             !.kind = IF IsChat(r) THEN "rag" ELSE @])

(* QueryRouter.analyze: a filter that is not supported is rejected; the     *)
(* count comes before the retrieval.                                       *)
Route(r) ==
    /\ At(r, "route")
    /\ \/ Fail(r) /\ UNCHANGED embeddingVars
       \/ /\ request[r].kind \in {"sql", "composite"}
          /\ Goto(r, "count")
          /\ UNCHANGED embeddingVars
       \/ request[r].kind \notin {"sql", "composite"} /\ Retrieve(r)
    /\ UNCHANGED <<worldVars, storeVars>>

(* count_approved_documents.                                               *)
Count(r) ==
    /\ At(r, "count")
    /\ \/ Fail(r) /\ UNCHANGED embeddingVars
       \/ /\ request[r].kind = "sql"
          /\ Becomes(r, Storing([request[r] EXCEPT !.index = {}], Answered({}, {})))
          /\ UNCHANGED embeddingVars
       \/ request[r].kind = "composite" /\ Retrieve(r)
    /\ UNCHANGED <<worldVars, storeVars>>

(* The shared task has ended; a vector of the wrong length is found out by  *)
(* the vector store.                                                       *)
Embedded(r) ==
    /\ At(r, "embed")
    /\ \/ Resume(r, "valid") /\ Goto(r, "vector")
       \/ Resume(r, "invalid") /\ Fail(r)
       \/ Resume(r, "failed") /\ Fail(r)
    /\ UNCHANGED <<worldVars, storeVars>>

(* Fault of Cancelled: the caller goes on awaiting the task.               *)
CancelledWaiting(r) ==
    /\ At(r, "embed")
    /\ Fail(r)
    /\ UNCHANGED <<embeddingVars, worldVars, storeVars>>

Cancelled(r) ==
    /\ At(r, "embed")
    /\ CancelCaller(r)
    /\ Fail(r)
    /\ UNCHANGED <<worldVars, storeVars>>

(* The vector search, and the fusion.                                      *)
SearchVectors(r, semantic) ==
    LET lexical == request[r].lexical
    IN IF Mode(r) = "vector"
       THEN \E n \in 0 .. Len(semantic) :   \* a cosine may be negative
                Becomes(r, Searched(request[r], "searched", Top(FinalTopK, Top(n, semantic))))
       ELSE IF Mode(r) = "hybrid_rerank" /\ Len(lexical) + Len(semantic) > 0
               /\ settings.rerank # "disabled"
       THEN Becomes(r, [request[r] EXCEPT !.pc = "rerank", !.semantic = semantic,
                                          !.fused = Fusion(lexical, semantic)])
       ELSE \E hits \in {FusedHits(lexical, semantic)} : Finds(r, hits)

VectorSearch(r) ==
    /\ At(r, "vector")
    /\ Fail(r) \/ \E semantic \in {Semantic} : SearchVectors(r, semantic)
    /\ UNCHANGED <<embeddingVars, worldVars, storeVars>>

(* The provider fails or its answer is invalid: with the open policy the    *)
(* fused order stands.                                                     *)
RerankFails(r) ==
    IF settings.rerank = "closed" THEN Fail(r)
    ELSE \E hits \in {FusedHits(request[r].lexical, request[r].semantic)} : Finds(r, hits)

Rerank(r) ==
    /\ At(r, "rerank")
    /\ \/ RerankFails(r)
       \/ \E hits \in RerankResults(request[r].fused) : Finds(r, hits)
    /\ UNCHANGED <<embeddingVars, worldVars, storeVars>>

-----------------------------------------------------------------------------
(* _grounded_answer.                                                       *)

(* A text of the model: the chunks it cites (0 for an unknown id), the URLs *)
(* in it (of chunks; 0 for any other), whether its claims are supported by  *)
(* the texts of the cited chunks.                                          *)
Texts(context) ==
    [cited : SUBSET (context \cup {0}), urls : {{}} \cup {{c} : c \in context \cup {0}},
     faithful : BOOLEAN]

(* Fault of AnswerSupported: the question is not assessed again.           *)
ClaimsSupported(text) == text.faithful

(* validate_answer: the cited hits alone support the question, and the      *)
(* claims of the answer.                                                   *)
AnswerSupported(text) == Sufficient(text.cited) /\ text.faithful

(* Fault of UrlsAllowed: any URL of the context will do.                   *)
UrlsOfContext(r, text) == text.urls \subseteq request[r].citable

UrlsAllowed(r, text) == text.urls \subseteq text.cited

CitationsValid(r, text) == text.cited # {} /\ text.cited \subseteq request[r].citable

Stores(r, answer) == Becomes(r, Storing(request[r], answer))

(* DirectLLMAdapter checks the citations itself, and answers badly; the     *)
(* service checks them again, and raises.                                  *)
Accept(r, text) ==
    \/ /\ ~CitationsValid(r, text)
       /\ IF settings.model = "direct" THEN Stores(r, Refusal("model_output_invalid")) ELSE Fail(r)
    \/ CitationsValid(r, text) /\ ~UrlsAllowed(r, text) /\ Fail(r)
    \/ /\ CitationsValid(r, text) /\ UrlsAllowed(r, text)
       /\ Stores(r, IF AnswerSupported(text) THEN Answered(text.cited, text.urls)
                    ELSE Refusal("answer_not_supported"))

(* generate_answer: unavailable, malformed, a refusal in the model's words, *)
(* or a text.                                                              *)
Generate(r) ==
    /\ At(r, "generate")
    /\ \/ Fail(r)
       \/ Stores(r, Refusal("model_output_invalid"))
       \/ \E urls \in {{}, {0}} : Stores(r, [Refusal("model_refusal") EXCEPT !.urls = urls])
       \/ \E text \in Texts(request[r].citable) : Accept(r, text)
    /\ UNCHANGED <<embeddingVars, worldVars, storeVars>>

-----------------------------------------------------------------------------
(* _persist, and the response.                                             *)

(* The commit may fail, and may fail after the row has been written.       *)
Persist(r) ==
    /\ At(r, "persist")
    /\ \/ Becomes(r, [request[r] EXCEPT !.pc = "answered", !.trace = request[r].answer])
       \/ Fail(r)
       \/ Becomes(r, [Fresh EXCEPT !.pc = "failed", !.trace = request[r].answer])
    /\ UNCHANGED <<embeddingVars, worldVars, storeVars>>

Over == {"answered", "searched", "failed"}

(* The client has its response.                                            *)
Leave(r) ==
    /\ request[r].pc \in Over
    /\ Becomes(r, Fresh)
    /\ UNCHANGED <<embeddingVars, worldVars, storeVars>>

-----------------------------------------------------------------------------
(* delete_document and index_document, reduced to what they do to the       *)
(* stores; DocumentIndex has their failures and races.                     *)

Administer(step, c) == admin' = [step |-> step, chunk |-> c]

DeletePoints(c) ==
    /\ admin.step = "idle" /\ c \in rows
    /\ points' = points \ {c}
    /\ Administer("drop_row", c)
    /\ UNCHANGED <<embeddingVars, worldVars, rows, bm25, request>>

DropRow ==
    /\ admin.step = "drop_row"
    /\ rows' = rows \ {admin.chunk}
    /\ Administer("rebuild", admin.chunk)
    /\ UNCHANGED <<embeddingVars, worldVars, points, bm25, request>>

IndexPoints(c) ==
    /\ admin.step = "idle" /\ c \notin rows
    /\ points' = points \cup {c}
    /\ request' = [r \in Requests |-> [request[r] EXCEPT !.gone = @ \ {c}]]
    /\ Administer("add_row", c)
    /\ UNCHANGED <<embeddingVars, worldVars, rows, bm25>>

AddRow ==
    /\ admin.step = "add_row"
    /\ rows' = rows \cup {admin.chunk}
    /\ Administer("rebuild", admin.chunk)
    /\ UNCHANGED <<embeddingVars, worldVars, points, bm25, request>>

(* rebuild_runtime_bm25: the runtime's index is replaced, not changed.     *)
RebuildBM25 ==
    /\ admin.step = "rebuild"
    /\ bm25' = rows
    /\ Administer("idle", 1)
    /\ UNCHANGED <<embeddingVars, worldVars, points, rows, request>>

-----------------------------------------------------------------------------

Serve(r) ==
    Route(r) \/ Count(r) \/ Embedded(r) \/ VectorSearch(r) \/ Rerank(r)
    \/ Generate(r) \/ Persist(r)

AdvanceTask(t) == Advance(t) /\ UNCHANGED <<worldVars, storeVars, request>>

Next ==
    \/ \E r \in Requests, kind \in Kinds \cup Modes : Arrive(r, kind)
    \/ \E r \in Requests : Serve(r) \/ Cancelled(r) \/ Leave(r)
    \/ \E t \in Tasks : AdvanceTask(t)
    \/ \E q \in Queries : ExpireEntry(q) /\ UNCHANGED <<worldVars, storeVars, request>>
    \/ \E c \in Moving : DeletePoints(c) \/ IndexPoints(c)
    \/ DropRow \/ AddRow \/ RebuildBM25

Spec == Init /\ [][Next]_vars

(* Every call that a request or a task awaits returns or raises: caches,    *)
(* stores, providers and models are called with timeouts, and the event     *)
(* loop runs what is ready.  Cancellations and failures are not fair.       *)
FairSpec ==
    /\ Spec
    /\ \A t \in Tasks : WF_vars(AdvanceTask(t))
    /\ \A r \in Requests : WF_vars(Serve(r))

-----------------------------------------------------------------------------
(* Properties.                                                             *)

Answers == [refusal : BOOLEAN, citations : SUBSET Chunks, urls : SUBSET (Chunks \cup {0}),
            reason : {"none", "insufficient_evidence", "insufficient", "official_source_required",
                      "question_not_covered", "model_output_invalid", "model_refusal",
                      "answer_not_supported"}]
Steps == {"idle", "route", "count", "embed", "vector", "rerank", "generate", "persist"} \cup Over
Served ==
    [pc : Steps, kind : Kinds \cup Modes, query : Queries, index : SUBSET Chunks,
     lexical : Rankings, semantic : Rankings, fused : Rankings, final : Rankings,
     eligible : SUBSET Chunks, citable : SUBSET Chunks, answer : Answers, trace : Answers,
     gone : SUBSET Chunks]

(* Every variable keeps its type; only a request that embeds awaits a task. *)
TypeOK ==
    /\ EmbeddingTypeOK
    /\ corpus \in Corpora /\ settings \in Deployments
    /\ points \in SUBSET Chunks /\ rows \in SUBSET Chunks /\ bm25 \in SUBSET Chunks
    /\ admin \in [step : {"idle", "drop_row", "add_row", "rebuild"}, chunk : Chunks]
    /\ request \in [Requests -> Served]
    /\ \A r \in Requests : (caller[r] # NoTask) <=> At(r, "embed")

(* The requests with an answer to a question about documents.              *)
Substantive(r) ==
    /\ request[r].pc \in {"persist", "answered"}
    /\ ~request[r].answer.refusal
    /\ request[r].kind = "rag"

Better(ranking, c, d) ==
    c \in ToSet(ranking) /\ (d \in ToSet(ranking) => RankIn(ranking, c) < RankIn(ranking, d))
Absent(ranking, c, d) == c \notin ToSet(ranking) /\ d \notin ToSet(ranking)

(* A chunk comes before another in the fused ranking, and is not cut off    *)
(* while the other stays, when both searches rank it higher or one does     *)
(* while the other found neither, and when both searches found it and only  *)
(* one found the other: two searches that agree outweigh one, when the      *)
(* rankings are not longer than rrf_k (reciprocal_rank_fusion).  No        *)
(* ranking, fused or reranked and cut, holds a chunk twice: a provider that *)
(* repeats itself cannot crowd out other evidence (_validated_rerank).      *)
FusionRespectsSearches ==
    \A r \in Requests :
      /\ \A ranking \in {request[r].fused, request[r].final} :
            Cardinality(ToSet(ranking)) = Len(ranking)
      /\ At(r, "rerank") =>
        LET lexical == request[r].lexical
            semantic == request[r].semantic
            InBoth(c) == c \in ToSet(lexical) \cap ToSet(semantic)
        IN \A c, d \in ToSet(lexical) \cup ToSet(semantic) :
            \/ InBoth(c) /\ ~InBoth(d) /\ Len(lexical) <= RrfK /\ Len(semantic) <= RrfK
            \/ /\ Better(lexical, c, d) \/ Absent(lexical, c, d)
               /\ Better(semantic, c, d) \/ Absent(semantic, c, d)
            => Better(request[r].fused, c, d) \/ Absent(request[r].fused, c, d)

(* An answer about documents cites something; all it cites was retrieved    *)
(* for this question, is official, holds enough of the terms of one of its  *)
(* aspects, and is not superseded by another eligible hit, of the same      *)
(* policy with a later date; its URLs are those of what it cites, not of    *)
(* anything else that was retrieved (EvidenceSufficiencyGate.assess,        *)
(* GroundingService.assess, _detect_outdated, _grounded_answer).           *)
CitesSoundEvidence ==
    \A r \in Requests : Substantive(r) =>
        /\ request[r].answer.citations # {}
        /\ request[r].answer.urls \subseteq request[r].answer.citations
        /\ \A c \in request[r].answer.citations :
            /\ c \in ToSet(request[r].final)
            /\ Fact(c).official
            /\ \E a \in Aspects : Reaches(Fact(c).terms[a], MinimumContribution)
            /\ \A d \in request[r].eligible :
                  Fact(c).policy = Fact(d).policy => Fact(c).date \in {0} \cup Fact(d).date .. 2

(* An answer that a model wrote is covered by what it cites: for every      *)
(* aspect of the question the cited chunks together hold enough of its      *)
(* terms and meet each of its demands, and no aspect is a closed one        *)
(* (EvidenceSufficiencyGate.validate_answer).                              *)
CitationsCoverQuestion ==
    \A r \in Requests : Substantive(r) /\ settings.model # "extractive" =>
        \A a \in Aspects :
            LET cited == request[r].answer.citations
            IN /\ Reaches(TermsIn(cited, a), MinimumConfidence)
               /\ Demanded(a) \subseteq (UNION {Fact(c).meets[a] : c \in cited}) \ {"closed"}

(* A document that was deleted before the request came, and not indexed     *)
(* again, is neither found nor cited, whatever the request and the index    *)
(* did meanwhile (ApplicationRuntime.retrieval_engine,                      *)
(* rebuild_runtime_bm25).                                                  *)
DeletedNotFound ==
    \A r \in Requests :
        request[r].gone \cap (ToSet(request[r].final) \cup request[r].answer.citations) = {}

(* Every question and search ends, with an answer, hits or an error, though *)
(* the embedding it awaits was asked for by a caller that is gone, failed   *)
(* or is being cleared (ChatService.answer, RetrievalEngine.search,         *)
(* embed_query).                                                           *)
EveryRequestEnds ==
    \A r \in Requests : ~At(r, "idle") /\ request[r].pc \notin Over ~> request[r].pc \in Over

=============================================================================
