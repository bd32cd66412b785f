-------------------------- MODULE MCAnswerPipeline --------------------------
(***************************************************************************)
(* AnswerPipeline for TLC: three chunks and a question of two aspects.      *)
(***************************************************************************)
EXTENDS AnswerPipeline

Half == Unit \div 2

(* Kinds of chunks: terms and demands of both aspects met or not.          *)
All == [a \in Aspects |-> Terms]
Demand == [a \in Aspects |-> IF a = "a" THEN {"penalty", "scope"} ELSE {"values"}]
Plain == [a \in Aspects |-> {}]
Chunk(terms, meets, policy, date) ==
    [terms |-> terms, meets |-> meets, body |-> TRUE, official |-> TRUE,
     policy |-> policy, date |-> date]

Whole(policy, date) == Chunk(All, Demand, policy, date)
OnlyA == [a \in Aspects |-> IF a = "a" THEN Terms ELSE {}]
OnlyB == [a \in Aspects |-> IF a = "b" THEN Terms ELSE {}]
One == CHOOSE t \in Terms : TRUE
Part == [a \in Aspects |-> {One}]
Rest == [a \in Aspects |-> Terms \ {One}]
RelationOnly == [a \in Aspects |-> IF a = "a" THEN {"penalty"} ELSE {}]
ScopeAndValues == [a \in Aspects |-> IF a = "a" THEN {"scope"} ELSE {"values"}]

Facts1 == <<Whole("P", 1), Whole("P", 2), Chunk(Part, Plain, "Q", 1)>>
Facts2 == <<Chunk(Part, RelationOnly, "P", 1), Chunk(Rest, ScopeAndValues, "Q", 1),
            [Whole("P", 2) EXCEPT !.official = FALSE]>>
Facts3 == <<Chunk(OnlyA, Demand, "P", 1), Chunk(OnlyB, Demand, "Q", 0),
            [Chunk(Part, Demand, "P", 2) EXCEPT !.body = FALSE]>>
Facts4 == <<Whole("P", 1), Chunk(OnlyB, Plain, "P", 2), Chunk(Plain, Plain, "Q", 2)>>

FactSets == {<<Facts1, Demand>>, <<Facts2, Demand>>, <<Facts3, Demand>>, <<Facts4, Demand>>,
             <<Facts1, [Demand EXCEPT !["b"] = {"closed"}]>>}

MCCorpora ==
    {[facts |-> f[1], demands |-> f[2], lexical |-> o[1], semantic |-> o[2]] :
        f \in FactSets, o \in {<<<<1, 2, 3>>, <<3, 2, 1>>>>, <<<<3, 1, 2>>, <<2, 1, 3>>>>}}

Settings(model, rerank, threshold, minimumScore) ==
    [model |-> model, rerank |-> rerank, threshold |-> threshold, minimumScore |-> minimumScore]

MCDeployments ==
    {Settings("extractive", "disabled", 0, 0),
     Settings("direct", "open", 0, Half),
     Settings("coze", "closed", Half, 0)}

=============================================================================
