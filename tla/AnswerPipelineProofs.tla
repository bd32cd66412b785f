------------------------ MODULE AnswerPipelineProofs ------------------------
(***************************************************************************)
(* Theorems about AnswerPipeline and the embedding provider it shares, for *)
(* any numbers of requests, queries, tasks and chunks, any corpus, any      *)
(* deployment and any limits.                                              *)
(*                                                                         *)
(* First the lemmas about rankings: what InOrder, Keep, Top and Fusion      *)
(* return.  Then what holds of the record of a request by itself (Sound),   *)
(* then the embedding provider, then the invariant that ties the requests   *)
(* to the stores, step by step, and at the end the theorems.               *)
(***************************************************************************)
EXTENDS AnswerPipeline, FiniteSetTheorems, TLAPS

-----------------------------------------------------------------------------
(* Rankings.                                                               *)

LEMMA CountUpTo == ASSUME NEW n \in Nat PROVE IsFiniteSet(1 .. n) /\ Cardinality(1 .. n) = n
    BY FS_Interval

(* A strict total order of a finite set, by the sets of elements before.    *)
IsOrder(S, before) ==
    /\ before \in [S -> SUBSET S]
    /\ \A c \in S : c \notin before[c]
    /\ \A c, d \in S : d \in before[c] => before[d] \subseteq before[c]
    /\ \A c, d \in S : c = d \/ c \in before[d] \/ d \in before[c]

(* InOrder lists every element once, each after those that are before it.   *)
LEMMA InOrderLists ==
    ASSUME NEW S, IsFiniteSet(S), NEW before, IsOrder(S, before)
    PROVE  /\ InOrder(S, before) \in [1 .. Cardinality(S) -> S]
           /\ \A c \in S : \E n \in 1 .. Cardinality(S) : InOrder(S, before)[n] = c
           /\ \A m, n \in 1 .. Cardinality(S) :
                 m < n <=> InOrder(S, before)[m] \in before[InOrder(S, before)[n]]
<1> DEFINE size == Cardinality(S)
           place == [c \in S |-> Cardinality(before[c]) + 1]
<1>0. size \in Nat
    BY FS_CardinalityType
<1>1. ASSUME NEW c \in S
      PROVE  /\ IsFiniteSet(before[c]) /\ Cardinality(before[c]) \in Nat
             /\ Cardinality(before[c]) < size
    <2>1. before[c] \subseteq S /\ before[c] # S
        BY DEF IsOrder
    <2>2. IsFiniteSet(before[c]) /\ Cardinality(before[c]) <= size /\ Cardinality(before[c]) # size
        BY <2>1, FS_Subset
    <2>3. Cardinality(before[c]) \in Nat
        BY <2>2, FS_CardinalityType
    <2>4. QED BY <1>0, <2>2, <2>3
<1>2. ASSUME NEW c \in S, NEW d \in S, d \in before[c]
      PROVE  Cardinality(before[d]) < Cardinality(before[c])
    <2>1. before[d] \subseteq before[c] /\ before[d] # before[c]
        BY <1>2 DEF IsOrder
    <2>2. IsFiniteSet(before[c]) /\ Cardinality(before[c]) \in Nat /\ Cardinality(before[d]) \in Nat
        BY <1>1
    <2>3. /\ Cardinality(before[d]) <= Cardinality(before[c])
          /\ Cardinality(before[d]) # Cardinality(before[c])
        BY <2>1, <2>2, FS_Subset
    <2>4. QED BY <2>2, <2>3
<1>3. \A c, d \in S : Cardinality(before[c]) = Cardinality(before[d]) => c = d
    BY <1>1, <1>2 DEF IsOrder
<1>4. place \in Injection(S, 1 .. size)
    <2>1. place \in [S -> 1 .. size]
        BY <1>0, <1>1
    <2>2. \A c, d \in S : place[c] = place[d] => c = d
        BY <1>1, <1>3
    <2>3. QED BY <2>1, <2>2 DEF Injection, IsInjective
<1>5. place \in Surjection(S, 1 .. size)
    BY <1>0, <1>4, CountUpTo, FS_Injection
<1>6. \A n \in 1 .. size : \E c \in S : Cardinality(before[c]) = n - 1
    <2>1. \A n \in 1 .. size : \E c \in S : place[c] = n
        BY <1>5 DEF Surjection
    <2>2. QED BY <1>1, <2>1
<1> DEFINE order == InOrder(S, before)
<1>7. \A n \in 1 .. size : order[n] \in S /\ Cardinality(before[order[n]]) = n - 1
    BY <1>6 DEF InOrder
<1>8. order \in [1 .. size -> S]
    BY <1>7 DEF InOrder
<1>9. \A c \in S : \E n \in 1 .. size : order[n] = c
    <2> SUFFICES ASSUME NEW c \in S PROVE \E n \in 1 .. size : order[n] = c
        OBVIOUS
    <2>1. Cardinality(before[c]) + 1 \in 1 .. size
        BY <1>0, <1>1
    <2>2. order[Cardinality(before[c]) + 1] = c
        BY <1>1, <1>3, <1>7, <2>1
    <2>3. QED BY <2>1, <2>2
<1>10. ASSUME NEW m \in 1 .. size, NEW n \in 1 .. size
       PROVE  m < n <=> order[m] \in before[order[n]]
    <2>1. /\ order[m] \in S /\ Cardinality(before[order[m]]) = m - 1
          /\ order[n] \in S /\ Cardinality(before[order[n]]) = n - 1
        BY <1>7
    <2>2. CASE m < n
        <3>1. order[m] # order[n]
            BY <1>0, <2>1, <2>2
        <3>2. ~ order[n] \in before[order[m]]
            BY <1>0, <1>2, <2>1, <2>2
        <3>3. QED BY <2>1, <2>2, <3>1, <3>2 DEF IsOrder
    <2>3. CASE ~(m < n)
        BY <1>0, <1>2, <2>1, <2>3
    <2>4. QED BY <2>2, <2>3
<1>11. QED BY <1>8, <1>9, <1>10

(* Keep: the chunks of S that the ranking holds, each at a place of its own *)
(* if the ranking has each at one place, in the order of the ranking.       *)
LEMMA KeepKeeps ==
    ASSUME NEW N \in Nat, NEW ranking \in [1 .. N -> Chunks], NEW S
    PROVE  /\ \E m \in 0 .. N : Keep(ranking, S) \in [1 .. m -> Chunks]
           /\ ToSet(Keep(ranking, S)) = ToSet(ranking) \cap S
           /\ IsInjective(ranking) => IsInjective(Keep(ranking, S))
<1> DEFINE kept == {i \in DOMAIN ranking : ranking[i] \in S}
           before == [i \in kept |-> {j \in kept : j < i}]
           order == InOrder(kept, before)
           size == Cardinality(kept)
<1>1. IsFiniteSet(1 .. N) /\ Cardinality(1 .. N) = N /\ kept \subseteq 1 .. N
    BY CountUpTo
<1>2. IsFiniteSet(kept) /\ size <= N
    BY <1>1, FS_Subset
<1>3. size \in Nat
    BY <1>2, FS_CardinalityType
<1>4. IsOrder(kept, before)
    BY <1>1 DEF IsOrder
<1> HIDE DEF before
<1>5. /\ order \in [1 .. size -> kept]
      /\ \A i \in kept : \E n \in 1 .. size : order[n] = i
      /\ \A m, n \in 1 .. size : m < n <=> order[m] \in before[order[n]]
    BY <1>2, <1>4, InOrderLists
<1>6. \A m, n \in 1 .. size : order[m] = order[n] => m = n
    <2>1. \A i \in kept : i \notin before[i]
        BY <1>4 DEF IsOrder
    <2>2. QED BY <1>3, <1>5, <2>1
<1>7. Keep(ranking, S) = [n \in 1 .. size |-> ranking[order[n]]]
    BY DEF Keep, before
<1> HIDE DEF kept, order
<1>8. \A i \in kept : i \in 1 .. N /\ ranking[i] \in S
    BY DEF kept
<1>9. Keep(ranking, S) \in [1 .. size -> Chunks]
    BY <1>5, <1>7, <1>8
<1>10. ToSet(Keep(ranking, S)) = ToSet(ranking) \cap S
    <2>1. ASSUME NEW c \in ToSet(Keep(ranking, S)) PROVE c \in ToSet(ranking) \cap S
        BY <1>5, <1>7, <1>8, <2>1 DEF ToSet
    <2>2. ASSUME NEW c \in ToSet(ranking) \cap S PROVE c \in ToSet(Keep(ranking, S))
        <3>1. PICK i \in 1 .. N : ranking[i] = c
            BY <2>2 DEF ToSet
        <3>2. i \in kept
            BY <2>2, <3>1 DEF kept
        <3>3. PICK n \in 1 .. size : order[n] = i
            BY <1>5, <3>2
        <3>4. QED BY <1>7, <3>1, <3>3 DEF ToSet
    <2>3. QED BY <2>1, <2>2
<1>11. IsInjective(ranking) => IsInjective(Keep(ranking, S))
    BY <1>5, <1>6, <1>7, <1>8 DEF IsInjective
<1>12. size \in 0 .. N
    BY <1>2, <1>3
<1>13. QED BY <1>9, <1>10, <1>11, <1>12

(* Top: the first places of a ranking.                                     *)
LEMMA TopKeeps ==
    ASSUME NEW N \in Nat, NEW ranking \in [1 .. N -> Chunks], NEW limit \in Nat
    PROVE  \E m \in 0 .. N :
              /\ m = (IF limit < N THEN limit ELSE N)
              /\ Top(limit, ranking) = [i \in 1 .. m |-> ranking[i]]
              /\ Top(limit, ranking) \in [1 .. m -> Chunks]
              /\ ToSet(Top(limit, ranking)) \subseteq ToSet(ranking)
              /\ IsInjective(ranking) => IsInjective(Top(limit, ranking))
<1> DEFINE m == IF limit < N THEN limit ELSE N
<1>1. ranking \in Seq(Chunks) /\ Len(ranking) = N
    OBVIOUS
<1>2. m \in 0 .. N
    OBVIOUS
<1>3. Top(limit, ranking) = SubSeq(ranking, 1, m)
    BY <1>1 DEF Top
<1>4. SubSeq(ranking, 1, m) = [i \in 1 .. m |-> ranking[i]]
    BY <1>1, <1>2
<1>5. \A i \in 1 .. m : i \in 1 .. N
    BY <1>2
<1> HIDE DEF m
<1>6. Top(limit, ranking) \in [1 .. m -> Chunks]
    BY <1>3, <1>4, <1>5
<1>7. ToSet(Top(limit, ranking)) \subseteq ToSet(ranking)
    BY <1>2, <1>3, <1>4 DEF ToSet
<1>8. IsInjective(ranking) => IsInjective(Top(limit, ranking))
    BY <1>2, <1>3, <1>4 DEF IsInjective
<1>9. QED BY <1>2, <1>3, <1>4, <1>6, <1>7, <1>8 DEF m

-----------------------------------------------------------------------------
(* The scores of fusion.                                                   *)

(* What the n-th place of a search adds to the score of a chunk.            *)
Share(n) == Unit \div (RrfK + n)
LongestSearch == Larger(SearchTopK, FinalTopK)

LEMMA Division == ASSUME NEW u \in Nat, NEW d \in Nat \ {0}, u % d = 0
                  PROVE  u \div d \in Nat /\ u = d * (u \div d)
    OBVIOUS

LEMMA ShareDivides ==
    ASSUME NEW n \in 1 .. LongestSearch
    PROVE  Share(n) \in Nat \ {0} /\ (RrfK + n) * Share(n) = Unit
<1>1. Unit \in Nat \ {0} /\ RrfK + n \in Nat \ {0} /\ Unit % (RrfK + n) = 0
    BY ScoresAssumption DEF LongestSearch, Larger
<1> DEFINE d == RrfK + n
<1> HIDE DEF d
<1>2. d \in Nat \ {0} /\ Unit % d = 0
    BY <1>1 DEF d
<1>3. Unit \div d \in Nat /\ Unit = d * (Unit \div d)
    BY <1>1, <1>2, Division
<1>4. Unit \div d # 0
    BY <1>1, <1>2, <1>3
<1>5. QED BY <1>3, <1>4 DEF Share, d

(* Products of numbers, for the two comparisons below.                     *)
LEMMA ProductOrder ==
    ASSUME NEW a \in Nat \ {0}, NEW b \in Nat \ {0}, NEW p \in Nat \ {0}, NEW q \in Nat \ {0},
           a * p = b * q, a < b
    PROVE  q < p
<1> SUFFICES ASSUME p <= q PROVE FALSE
    OBVIOUS
<1>1. a * p <= a * q
    OBVIOUS
<1>2. a * q < b * q
    OBVIOUS
<1>3. a * p \in Nat /\ a * q \in Nat /\ b * q \in Nat
    OBVIOUS
<1>4. QED BY <1>1, <1>2, <1>3

LEMMA ProductSum ==
    ASSUME NEW a \in Nat \ {0}, NEW b \in Nat \ {0}, NEW p \in Nat \ {0}, NEW q \in Nat \ {0},
           a * p = b * q, b < 2 * a
    PROVE  p < 2 * q
<1> SUFFICES ASSUME 2 * q <= p PROVE FALSE
    OBVIOUS
<1>1. a * (2 * q) <= a * p
    OBVIOUS
<1>2. a * (2 * q) = (2 * a) * q
    OBVIOUS
<1>3. b * q < (2 * a) * q
    OBVIOUS
<1>4. a * p \in Nat /\ b * q \in Nat /\ (2 * a) * q \in Nat
    OBVIOUS
<1>5. QED BY <1>1, <1>2, <1>3, <1>4

(* A better rank adds more.                                                *)
LEMMA ShareFalls ==
    ASSUME NEW m \in 1 .. LongestSearch, NEW n \in 1 .. LongestSearch, m < n
    PROVE  Share(n) < Share(m)
<1>1. RrfK + m \in Nat \ {0} /\ RrfK + n \in Nat \ {0} /\ RrfK + m < RrfK + n
    BY ScoresAssumption DEF LongestSearch, Larger
<1>2. /\ Share(m) \in Nat \ {0} /\ (RrfK + m) * Share(m) = Unit
      /\ Share(n) \in Nat \ {0} /\ (RrfK + n) * Share(n) = Unit
    BY ShareDivides
<1>3. QED BY <1>1, <1>2, ProductOrder

(* Two ranks up to rrf_k add more than any one.                            *)
LEMMA SharesOutweigh ==
    ASSUME NEW i \in 1 .. LongestSearch, NEW j \in 1 .. LongestSearch,
           NEW n \in 1 .. LongestSearch, i <= RrfK, j <= RrfK
    PROVE  Share(n) < Share(i) + Share(j)
<1>1. ASSUME NEW k \in 1 .. LongestSearch, k <= RrfK PROVE Share(n) < 2 * Share(k)
    <2>1. RrfK + n \in Nat \ {0} /\ RrfK + k \in Nat \ {0} /\ RrfK + k < 2 * (RrfK + n)
        BY <1>1, ScoresAssumption DEF LongestSearch, Larger
    <2>2. /\ Share(n) \in Nat \ {0} /\ (RrfK + n) * Share(n) = Unit
          /\ Share(k) \in Nat \ {0} /\ (RrfK + k) * Share(k) = Unit
        BY <1>1, ShareDivides
    <2>3. QED BY <2>1, <2>2, ProductSum
<1>2. Share(n) < 2 * Share(i) /\ Share(n) < 2 * Share(j)
    BY <1>1
<1>3. Share(n) \in Nat /\ Share(i) \in Nat /\ Share(j) \in Nat
    BY ShareDivides
<1>4. QED BY <1>2, <1>3

-----------------------------------------------------------------------------
(* Rankings as functions from 1 .. n.                                      *)

LEMMA RankingShape ==
    ASSUME NEW s
    PROVE  s \in Rankings <=> \E n \in 0 .. Cardinality(Chunks) : s \in [1 .. n -> Chunks]
    BY DEF Rankings

LEMMA ChunkCount == Cardinality(Chunks) \in Nat
    BY ChunksAssumption, FS_CardinalityType

LEMMA RankingParts ==
    ASSUME NEW s \in Rankings
    PROVE  /\ Len(s) \in Nat /\ Len(s) <= Cardinality(Chunks) /\ s \in [1 .. Len(s) -> Chunks]
           /\ ToSet(s) \subseteq Chunks
           /\ \A c \in ToSet(s) : RankIn(s, c) \in 1 .. Len(s) /\ s[RankIn(s, c)] = c
<1>1. PICK n \in 0 .. Cardinality(Chunks) : s \in [1 .. n -> Chunks]
    BY RankingShape
<1>2. n \in Nat /\ Len(s) = n
    BY <1>1, ChunkCount
<1>3. ToSet(s) \subseteq Chunks
    BY <1>1 DEF ToSet
<1>4. ASSUME NEW c \in ToSet(s) PROVE RankIn(s, c) \in 1 .. Len(s) /\ s[RankIn(s, c)] = c
    <2>1. \E i \in 1 .. Len(s) : s[i] = c
        BY <1>1, <1>2 DEF ToSet
    <2>2. QED BY <2>1 DEF RankIn
<1>5. QED BY <1>1, <1>2, <1>3, <1>4, ChunkCount

LEMMA EmptyRanking ==
    <<>> \in Rankings /\ ToSet(<<>>) = {} /\ IsInjective(<<>>)
<1>1. <<>> \in [1 .. 0 -> Chunks]
    OBVIOUS
<1>2. 0 \in 0 .. Cardinality(Chunks)
    BY ChunkCount
<1>3. <<>> \in Rankings
    BY <1>1, <1>2, RankingShape
<1>4. DOMAIN <<>> = {}
    OBVIOUS
<1>5. ToSet(<<>>) = {}
    BY <1>4 DEF ToSet
<1>6. IsInjective(<<>>)
    BY <1>4 DEF IsInjective
<1>7. QED BY <1>3, <1>5, <1>6

LEMMA RankOf ==
    ASSUME NEW s \in Rankings, IsInjective(s), NEW i \in 1 .. Len(s)
    PROVE  s[i] \in ToSet(s) /\ RankIn(s, s[i]) = i
<1>1. s \in [1 .. Len(s) -> Chunks]
    BY RankingParts
<1>2. s[i] \in ToSet(s)
    BY <1>1 DEF ToSet
<1>3. RankIn(s, s[i]) \in 1 .. Len(s) /\ s[RankIn(s, s[i])] = s[i]
    BY <1>2, RankingParts
<1>4. QED BY <1>1, <1>2, <1>3 DEF IsInjective

LEMMA KeepRanking ==
    ASSUME NEW s \in Rankings, NEW S
    PROVE  /\ Keep(s, S) \in Rankings
           /\ ToSet(Keep(s, S)) = ToSet(s) \cap S
           /\ IsInjective(s) => IsInjective(Keep(s, S))
<1>1. PICK n \in 0 .. Cardinality(Chunks) : s \in [1 .. n -> Chunks]
    BY RankingShape
<1>2. n \in Nat
    BY ChunkCount
<1>3. PICK m \in 0 .. n : Keep(s, S) \in [1 .. m -> Chunks]
    BY <1>1, <1>2, KeepKeeps
<1>4. m \in 0 .. Cardinality(Chunks)
    BY <1>1, <1>3, ChunkCount
<1>5. Keep(s, S) \in Rankings
    BY <1>3, <1>4, RankingShape
<1>6. QED BY <1>1, <1>2, <1>5, KeepKeeps

LEMMA TopRanking ==
    ASSUME NEW s \in Rankings, NEW limit \in Nat
    PROVE  /\ Top(limit, s) \in Rankings
           /\ Len(Top(limit, s)) = IF limit < Len(s) THEN limit ELSE Len(s)
           /\ \A i \in 1 .. Len(Top(limit, s)) : Top(limit, s)[i] = s[i]
           /\ ToSet(Top(limit, s)) \subseteq ToSet(s)
           /\ IsInjective(s) => IsInjective(Top(limit, s))
<1>1. Len(s) \in Nat /\ Len(s) <= Cardinality(Chunks) /\ s \in [1 .. Len(s) -> Chunks]
    BY RankingParts
<1>2. PICK m \in 0 .. Len(s) :
              /\ m = (IF limit < Len(s) THEN limit ELSE Len(s))
              /\ Top(limit, s) = [i \in 1 .. m |-> s[i]]
              /\ Top(limit, s) \in [1 .. m -> Chunks]
              /\ ToSet(Top(limit, s)) \subseteq ToSet(s)
              /\ IsInjective(s) => IsInjective(Top(limit, s))
    BY <1>1, TopKeeps
<1>3. m \in 0 .. Cardinality(Chunks) /\ m \in Nat
    <2>1. m \in 0 .. Len(s)
        BY <1>2
    <2>2. QED BY <1>1, <2>1, ChunkCount
<1>4. Top(limit, s) \in Rankings
    BY <1>2, <1>3, RankingShape
<1>5. Len(Top(limit, s)) = m
    BY <1>2, <1>3
<1>6. QED BY <1>2, <1>4, <1>5

-----------------------------------------------------------------------------
(* reciprocal_rank_fusion.                                                 *)

LEMMA InverseRankType ==
    ASSUME NEW s \in Rankings, Len(s) <= LongestSearch, NEW c
    PROVE  /\ InverseRank(s, c) \in Nat
           /\ c \in ToSet(s) => /\ RankIn(s, c) \in 1 .. LongestSearch
                                /\ InverseRank(s, c) = Share(RankIn(s, c))
                                /\ InverseRank(s, c) # 0
           /\ c \notin ToSet(s) => InverseRank(s, c) = 0
<1>1. CASE c \in ToSet(s)
    <2>1. LongestSearch \in Nat
        BY ScoresAssumption DEF LongestSearch, Larger
    <2>2. RankIn(s, c) \in 1 .. LongestSearch
        BY <1>1, <2>1, RankingParts
    <2>3. QED BY <1>1, <2>2, ShareDivides DEF InverseRank, Share
<1>2. CASE c \notin ToSet(s)
    BY <1>2 DEF InverseRank
<1>3. QED BY <1>1, <1>2

(* The fused ranking before it is cut.                                     *)
FusionOrder(lexical, semantic) ==
    LET found == ToSet(lexical) \cup ToSet(semantic)
        score(c) == FusedScore(lexical, semantic, c)
    IN InOrder(found, [c \in found |->
               {d \in found : score(d) > score(c) \/ (score(d) = score(c) /\ d < c)}])

LEMMA FusionSorts ==
    ASSUME NEW lexical \in Rankings, NEW semantic \in Rankings,
           Len(lexical) <= LongestSearch, Len(semantic) <= LongestSearch
    PROVE  /\ FusionOrder(lexical, semantic) \in Rankings
           /\ IsInjective(FusionOrder(lexical, semantic))
           /\ ToSet(FusionOrder(lexical, semantic)) = ToSet(lexical) \cup ToSet(semantic)
           /\ \A m, n \in 1 .. Len(FusionOrder(lexical, semantic)) :
                 FusedScore(lexical, semantic, FusionOrder(lexical, semantic)[m])
                     > FusedScore(lexical, semantic, FusionOrder(lexical, semantic)[n]) => m < n
<1> DEFINE found == ToSet(lexical) \cup ToSet(semantic)
           score(c) == FusedScore(lexical, semantic, c)
           before == [c \in found |->
                         {d \in found : score(d) > score(c) \/ (score(d) = score(c) /\ d < c)}]
           order == FusionOrder(lexical, semantic)
           size == Cardinality(found)
<1>1. found \subseteq Chunks /\ found \subseteq Nat
    BY RankingParts, ChunksAssumption
<1>2. \A c \in found : score(c) \in Nat
    BY InverseRankType DEF FusedScore
<1>3. IsFiniteSet(found) /\ size <= Cardinality(Chunks)
    BY <1>1, ChunksAssumption, FS_Subset
<1>4. size \in Nat /\ size \in 0 .. Cardinality(Chunks)
    <2>1. size \in Nat
        BY <1>3, FS_CardinalityType
    <2>2. QED BY <1>3, <2>1, ChunkCount
<1> HIDE DEF score
<1>5. IsOrder(found, before)
    <2>1. before \in [found -> SUBSET found]
        OBVIOUS
    <2>2. \A c \in found : c \notin before[c]
        BY <1>1, <1>2
    <2>3. \A c, d \in found : d \in before[c] => before[d] \subseteq before[c]
        BY <1>1, <1>2
    <2>4. \A c, d \in found : c = d \/ c \in before[d] \/ d \in before[c]
        BY <1>1, <1>2
    <2>5. QED BY <2>1, <2>2, <2>3, <2>4 DEF IsOrder
<1>6. order = InOrder(found, before)
    BY DEF FusionOrder, score
<1>7. \A c, d \in found : score(d) > score(c) => d \in before[c] /\ c \notin before[d]
    BY <1>1, <1>2
<1> HIDE DEF before, found, order
<1>8. /\ order \in [1 .. size -> found]
      /\ \A c \in found : \E n \in 1 .. size : order[n] = c
      /\ \A m, n \in 1 .. size : m < n <=> order[m] \in before[order[n]]
    BY <1>3, <1>5, <1>6, InOrderLists
<1>9. order \in [1 .. size -> Chunks]
    BY <1>1, <1>8
<1>10. order \in Rankings
    BY <1>4, <1>9, RankingShape
<1>11. Len(order) = size
    BY <1>4, <1>9
<1>12. IsInjective(order)
    <2>1. \A c \in found : c \notin before[c]
        BY <1>5 DEF IsOrder
    <2>2. \A m, n \in 1 .. size : order[m] = order[n] => m = n
        BY <1>4, <1>8, <2>1
    <2>3. QED BY <1>9, <2>2 DEF IsInjective
<1>13. ToSet(order) = found
    BY <1>8 DEF ToSet
<1>14. ASSUME NEW m \in 1 .. size, NEW n \in 1 .. size, score(order[m]) > score(order[n])
       PROVE  m < n
    BY <1>7, <1>8, <1>14
<1>15. QED BY <1>10, <1>11, <1>12, <1>13, <1>14 DEF score, order, found

LEMMA FusionRanks ==
    ASSUME NEW lexical \in Rankings, NEW semantic \in Rankings,
           Len(lexical) <= LongestSearch, Len(semantic) <= LongestSearch
    PROVE  /\ Fusion(lexical, semantic) \in Rankings
           /\ IsInjective(Fusion(lexical, semantic))
           /\ ToSet(Fusion(lexical, semantic)) \subseteq ToSet(lexical) \cup ToSet(semantic)
           /\ \A c, d \in ToSet(lexical) \cup ToSet(semantic) :
                 FusedScore(lexical, semantic, c) > FusedScore(lexical, semantic, d) =>
                     \/ Better(Fusion(lexical, semantic), c, d)
                     \/ Absent(Fusion(lexical, semantic), c, d)
<1> DEFINE order == FusionOrder(lexical, semantic)
           limit == Larger(RerankTopK, FinalTopK)
           fused == Fusion(lexical, semantic)
           found == ToSet(lexical) \cup ToSet(semantic)
<1>1. limit \in Nat
    BY ScoresAssumption DEF Larger
<1>2. fused = Top(limit, order)
    BY DEF Fusion, FusionOrder
<1>3. /\ order \in Rankings /\ IsInjective(order) /\ ToSet(order) = found
      /\ \A m, n \in 1 .. Len(order) :
            FusedScore(lexical, semantic, order[m]) > FusedScore(lexical, semantic, order[n])
               => m < n
    BY FusionSorts
<1> HIDE DEF order, limit, fused
<1>4. /\ fused \in Rankings /\ IsInjective(fused) /\ ToSet(fused) \subseteq found
      /\ Len(fused) = IF limit < Len(order) THEN limit ELSE Len(order)
      /\ \A i \in 1 .. Len(fused) : fused[i] = order[i]
    BY <1>1, <1>2, <1>3, TopRanking
<1>5. Len(order) \in Nat /\ Len(fused) \in Nat
    BY <1>3, <1>4, RankingParts
<1>6. ASSUME NEW c \in found, NEW d \in found,
             FusedScore(lexical, semantic, c) > FusedScore(lexical, semantic, d)
      PROVE  Better(fused, c, d) \/ Absent(fused, c, d)
    <2>1. /\ RankIn(order, c) \in 1 .. Len(order) /\ order[RankIn(order, c)] = c
          /\ RankIn(order, d) \in 1 .. Len(order) /\ order[RankIn(order, d)] = d
        BY <1>3, RankingParts
    <2>2. RankIn(order, c) < RankIn(order, d)
        BY <1>3, <1>6, <2>1
    <2>3. ASSUME d \in ToSet(fused)
          PROVE  c \in ToSet(fused) /\ RankIn(fused, c) < RankIn(fused, d)
        <3>1. RankIn(fused, d) \in 1 .. Len(fused) /\ fused[RankIn(fused, d)] = d
            BY <1>4, <2>3, RankingParts
        <3>2. RankIn(fused, d) \in 1 .. Len(order) /\ order[RankIn(fused, d)] = d
            BY <1>1, <1>4, <1>5, <3>1
        <3>3. RankIn(fused, d) = RankIn(order, d)
            BY <1>3, <3>2, RankOf
        <3>4. RankIn(order, c) \in 1 .. Len(fused) /\ fused[RankIn(order, c)] = c
            BY <1>4, <1>5, <2>1, <2>2, <3>1, <3>3
        <3>5. c \in ToSet(fused) /\ RankIn(fused, c) = RankIn(order, c)
            BY <1>4, <3>4, RankOf
        <3>6. QED BY <2>2, <3>3, <3>5
    <2>4. QED BY <2>3 DEF Better, Absent
<1>7. QED BY <1>4, <1>6 DEF fused


-----------------------------------------------------------------------------
(* What the record of a request satisfies, by itself.                      *)

(* Rankings hold a chunk once; those that were fused are still at hand.     *)
SearchSound(s) ==
    /\ Len(s.lexical) <= LongestSearch /\ Len(s.semantic) <= LongestSearch
    /\ IsInjective(s.lexical) /\ IsInjective(s.semantic)
    /\ IsInjective(s.fused) /\ IsInjective(s.final)
    /\ s.pc = "rerank" => s.fused = Fusion(s.lexical, s.semantic)

(* Nothing that was deleted before the request came is in what it holds.    *)
Holds(s) ==
    s.index \cup ToSet(s.lexical) \cup ToSet(s.semantic) \cup ToSet(s.fused) \cup ToSet(s.final)
        \cup s.citable \cup s.answer.citations
GoneStays(s) == s.gone \cap Holds(s) = {}

(* A chunk that an answer may cite.                                        *)
Sourced(s, c) ==
    /\ c \in ToSet(s.final)
    /\ Fact(c).official
    /\ \E a \in Aspects : Reaches(Fact(c).terms[a], MinimumContribution)
    /\ \A d \in s.eligible :
          Fact(c).policy = Fact(d).policy => Fact(c).date \in {0} \cup Fact(d).date .. 2

(* Chunks that cover the question.                                         *)
Covered(S) ==
    \A a \in Aspects :
        /\ Reaches(TermsIn(S, a), MinimumConfidence)
        /\ Demanded(a) \subseteq (UNION {Fact(c).meets[a] : c \in S}) \ {"closed"}

(* Before the evidence is judged nothing may be cited; then only what is    *)
(* sourced; an answer is made of it and covers the question.               *)
Early == {"route", "count", "embed", "vector", "rerank"}
EvidenceSound(s) ==
    /\ s.pc \in Early => s.citable = {}
    /\ s.pc = "generate" => \A c \in s.citable : Sourced(s, c)
    /\ s.pc \in {"persist", "answered"} /\ ~s.answer.refusal /\ s.kind = "rag" =>
          /\ s.answer.citations # {}
          /\ s.answer.urls \subseteq s.answer.citations
          /\ \A c \in s.answer.citations : Sourced(s, c)
          /\ settings.model # "extractive" => Covered(s.answer.citations)

Sound(s) == s \in Served /\ SearchSound(s) /\ GoneStays(s) /\ EvidenceSound(s)

Reasons == {"none", "insufficient_evidence", "insufficient", "official_source_required",
            "question_not_covered", "model_output_invalid", "model_refusal",
            "answer_not_supported"}

LEMMA AnswerTypes ==
    /\ NoAnswer \in Answers /\ NoAnswer.refusal /\ NoAnswer.citations = {}
    /\ \A reason \in Reasons : /\ Refusal(reason) \in Answers /\ Refusal(reason).refusal
                               /\ Refusal(reason).citations = {} /\ Refusal(reason).urls = {}
    /\ \A C \in SUBSET Chunks, U \in SUBSET (Chunks \cup {0}) :
          /\ Answered(C, U) \in Answers /\ ~Answered(C, U).refusal
          /\ Answered(C, U).citations = C /\ Answered(C, U).urls = U
BY DEF NoAnswer, Answers, Refusal, Answered, Reasons

LEMMA FreshSound ==
    /\ Sound(Fresh)
    /\ Fresh.pc = "idle" /\ Fresh.gone = {} /\ Holds(Fresh) = {}
<1> DEFINE t == Fresh
<1>1. (CHOOSE q \in Queries : TRUE) \in Queries
    BY QueriesAssumption
<1>2. t \in Served
    BY <1>1, EmptyRanking, AnswerTypes DEF Fresh, Served, Steps, Over, Kinds, Modes
<1>3. /\ t.pc = "idle" /\ t.gone = {} /\ t.index = {} /\ t.citable = {}
      /\ t.lexical = <<>> /\ t.semantic = <<>> /\ t.fused = <<>> /\ t.final = <<>>
      /\ t.answer = NoAnswer
    BY DEF Fresh
<1> HIDE DEF t
<1>4. Holds(t) = {}
    BY <1>3, EmptyRanking, AnswerTypes DEF Holds
<1>5. SearchSound(t)
    <2>1. Len(<<>>) = 0 /\ LongestSearch \in Nat
        BY ScoresAssumption DEF LongestSearch, Larger
    <2>2. QED BY <1>3, <2>1, EmptyRanking DEF SearchSound
<1>6. GoneStays(t)
    BY <1>3 DEF GoneStays
<1>7. EvidenceSound(t)
    BY <1>3 DEF EvidenceSound, Early
<1>8. QED BY <1>2, <1>3, <1>4, <1>5, <1>6, <1>7 DEF Sound, t

LEMMA FactTypes ==
    ASSUME corpus \in Corpora
    PROVE  /\ corpus.facts \in [Chunks -> Facts]
           /\ corpus.demands \in [Aspects -> SUBSET Demands]
           /\ corpus.lexical \in Rankings /\ IsInjective(corpus.lexical)
           /\ corpus.semantic \in Rankings /\ IsInjective(corpus.semantic)
           /\ \A c \in Chunks : /\ Fact(c) \in Facts /\ Fact(c).date \in 0 .. 2
                                /\ Fact(c).meets \in [Aspects -> SUBSET Demands]
<1>1. /\ corpus.facts \in [Chunks -> Facts]
      /\ corpus.demands \in [Aspects -> SUBSET Demands]
      /\ corpus.lexical \in Rankings /\ IsInjective(corpus.lexical)
      /\ corpus.semantic \in Rankings /\ IsInjective(corpus.semantic)
    BY CorporaAssumption
<1>2. \A c \in Chunks : Fact(c) \in Facts
    BY <1>1 DEF Fact
<1>3. \A f \in Facts : f.date \in 0 .. 2 /\ f.meets \in [Aspects -> SUBSET Demands]
    BY DEF Facts
<1>4. QED BY <1>1, <1>2, <1>3

(* What a search of an index returns.                                      *)
LEMMA RankedSound ==
    ASSUME NEW order \in Rankings, IsInjective(order), NEW index
    PROVE  /\ Ranked(order, index) \in Rankings /\ IsInjective(Ranked(order, index))
           /\ ToSet(Ranked(order, index)) \subseteq index
           /\ Len(Ranked(order, index)) <= LongestSearch
<1> DEFINE kept == Keep(order, index)
<1>1. kept \in Rankings /\ IsInjective(kept) /\ ToSet(kept) \subseteq index
    BY KeepRanking
<1>2. LongestSearch \in Nat
    BY ScoresAssumption DEF LongestSearch, Larger
<1>3. Ranked(order, index) = Top(LongestSearch, kept)
    BY DEF Ranked, LongestSearch
<1> HIDE DEF kept
<1>4. Len(kept) \in Nat
    BY <1>1, RankingParts
<1>5. QED BY <1>1, <1>2, <1>3, <1>4, TopRanking

(* What is left of the hits when the threshold has cut them.               *)
LEMMA FinalHitsSound ==
    ASSUME NEW hits, hits.order \in Rankings, IsInjective(hits.order)
    PROVE  /\ FinalHits(hits) \in Rankings /\ IsInjective(FinalHits(hits))
           /\ ToSet(FinalHits(hits)) \subseteq ToSet(hits.order)
<1> DEFINE kept == Keep(hits.order, {c \in Chunks : hits.score[c] >= settings.threshold})
<1>1. kept \in Rankings /\ IsInjective(kept) /\ ToSet(kept) \subseteq ToSet(hits.order)
    BY KeepRanking
<1>2. FinalTopK \in Nat
    BY ScoresAssumption
<1>3. FinalHits(hits) = Top(FinalTopK, kept)
    BY DEF FinalHits
<1> HIDE DEF kept
<1>4. QED BY <1>1, <1>2, <1>3, TopRanking

LEMMA SearchedFields ==
    ASSUME NEW s \in Served, NEW pc \in Steps, NEW final \in Rankings
    PROVE  LET t == Searched(s, pc, final)
           IN /\ t \in Served
              /\ t.pc = pc /\ t.kind = s.kind /\ t.index = {} /\ t.lexical = <<>>
              /\ t.semantic = <<>> /\ t.fused = <<>> /\ t.final = final
              /\ t.eligible = s.eligible /\ t.citable = s.citable
              /\ t.answer = s.answer /\ t.gone = s.gone
BY EmptyRanking DEF Served, Searched

LEMMA StoringFields ==
    ASSUME NEW s \in Served, NEW answer \in Answers
    PROVE  LET t == Storing(s, answer)
           IN /\ t \in Served
              /\ t.pc = "persist" /\ t.kind = s.kind /\ t.index = s.index
              /\ t.lexical = s.lexical /\ t.semantic = s.semantic /\ t.fused = s.fused
              /\ t.final = s.final /\ t.eligible = s.eligible /\ t.citable = s.citable
              /\ t.answer = answer /\ t.gone = s.gone
BY DEF Served, Storing, Steps

(* A refusal cites nothing.                                                *)
LEMMA RefusalSound ==
    ASSUME NEW s, Sound(s), NEW answer \in Answers, answer.refusal, answer.citations = {}
    PROVE  /\ Sound(Storing(s, answer))
           /\ Storing(s, answer).pc = "persist" /\ Storing(s, answer).gone = s.gone
<1> DEFINE t == Storing(s, answer)
<1>1. s \in Served
    BY DEF Sound
<1>2. /\ t \in Served
      /\ t.pc = "persist" /\ t.kind = s.kind /\ t.index = s.index
      /\ t.lexical = s.lexical /\ t.semantic = s.semantic /\ t.fused = s.fused
      /\ t.final = s.final /\ t.eligible = s.eligible /\ t.citable = s.citable
      /\ t.answer = answer /\ t.gone = s.gone
    BY <1>1, StoringFields
<1> HIDE DEF t
<1>3. SearchSound(t)
    BY <1>2 DEF SearchSound, Sound
<1>4. GoneStays(t)
    BY <1>2 DEF GoneStays, Holds, Sound
<1>5. EvidenceSound(t)
    BY <1>2 DEF EvidenceSound, Early
<1>6. QED BY <1>2, <1>3, <1>4, <1>5 DEF Sound, t

LEMMA SearchedSound ==
    ASSUME NEW s, Sound(s), NEW pc \in {"searched", "generate"}, NEW final \in Rankings,
           IsInjective(final), s.gone \cap ToSet(final) = {}, pc = "generate" => s.citable = {}
    PROVE  /\ Sound(Searched(s, pc, final))
           /\ Searched(s, pc, final).pc = pc /\ Searched(s, pc, final).gone = s.gone
<1> DEFINE t == Searched(s, pc, final)
<1>0. s \in Served /\ pc \in Steps
    BY DEF Sound, Steps, Over
<1>1. /\ t \in Served
      /\ t.pc = pc /\ t.kind = s.kind /\ t.index = {} /\ t.lexical = <<>>
      /\ t.semantic = <<>> /\ t.fused = <<>> /\ t.final = final
      /\ t.eligible = s.eligible /\ t.citable = s.citable
      /\ t.answer = s.answer /\ t.gone = s.gone
    BY <1>0, SearchedFields
<1> HIDE DEF t
<1>2. SearchSound(t)
    <2>1. Len(<<>>) = 0 /\ LongestSearch \in Nat
        BY ScoresAssumption DEF LongestSearch, Larger
    <2>2. QED BY <1>1, <2>1, EmptyRanking DEF SearchSound
<1>3. GoneStays(t)
    <2>1. Holds(t) \subseteq Holds(s) \cup ToSet(final)
        BY <1>1, EmptyRanking DEF Holds
    <2>2. QED BY <1>1, <2>1 DEF GoneStays, Sound
<1>4. EvidenceSound(t)
    BY <1>1 DEF EvidenceSound, Early
<1>5. QED BY <1>1, <1>2, <1>3, <1>4 DEF Sound, t

-----------------------------------------------------------------------------
(* The evidence.                                                           *)

LEMMA ContributingHits ==
    ASSUME NEW S, NEW c \in SupportedHits(S)
    PROVE  c \in S /\ \E a \in Aspects : Reaches(Fact(c).terms[a], MinimumContribution)
<1>1. PICK a \in Aspects : c \in Supporting(S, a)
    BY DEF SupportedHits
<1>2. c \in ConstraintHits(S, a) /\ Reaches(Fact(c).terms[a], MinimumContribution)
    BY <1>1 DEF Supporting
<1>3. ConstraintHits(S, a) \subseteq S
    BY DEF ConstraintHits
<1>4. QED BY <1>2, <1>3

(* Not every hit is outdated, and none that is not has a later one.         *)
LEMMA LatestCitable ==
    ASSUME corpus \in Corpora, NEW S \in SUBSET Chunks
    PROVE  /\ Citable(S) \subseteq S
           /\ \A c \in Citable(S), d \in S :
                 Fact(c).policy = Fact(d).policy => Fact(c).date \in {0} \cup Fact(d).date .. 2
           /\ S # {} => Citable(S) # {}
<1>1. \A c \in S : Fact(c).date \in 0 .. 2
    BY FactTypes
<1>2. Citable(S) \subseteq S
    BY DEF Citable
<1>3. ASSUME NEW c \in Citable(S), NEW d \in S, Fact(c).policy = Fact(d).policy
      PROVE  Fact(c).date \in {0} \cup Fact(d).date .. 2
    BY <1>1, <1>3 DEF Citable, Outdated
<1>4. ASSUME S # {} PROVE Citable(S) # {}
    <2>1. CASE \E c \in S : Fact(c).date = 0
        BY <2>1 DEF Citable, Outdated
    <2>2. CASE \E c \in S : Fact(c).date = 2
        BY <1>1, <2>2 DEF Citable, Outdated
    <2>3. CASE \A c \in S : Fact(c).date = 1
        BY <1>4, <2>3 DEF Citable, Outdated
    <2>4. QED BY <1>1, <2>1, <2>2, <2>3
<1>5. QED BY <1>2, <1>3, <1>4

(* EvidenceSufficiencyGate: chunks that suffice cover the question.         *)
LEMMA SufficientCovers ==
    ASSUME corpus \in Corpora, NEW S, Sufficient(S)
    PROVE  Covered(S)
<1> SUFFICES ASSUME NEW a \in Aspects
             PROVE  /\ Reaches(TermsIn(S, a), MinimumConfidence)
                    /\ Demanded(a) \subseteq (UNION {Fact(c).meets[a] : c \in S}) \ {"closed"}
    BY DEF Covered
<1>1. AspectSupported(S, a)
    BY DEF Sufficient
<1>2. Reaches(TermsIn(S, a), MinimumConfidence) /\ "closed" \notin Demanded(a)
    BY <1>1 DEF AspectSupported
<1>3. Demanded(a) \subseteq Relations \cup {"scope", "values", "shape", "closed"}
    BY FactTypes DEF Demanded, Demands
<1>4. ASSUME NEW e \in Demanded(a) PROVE \E c \in S : e \in Fact(c).meets[a]
    <2>1. CASE e \in Relations
        BY <1>1, <2>1 DEF AspectSupported, RelationMet
    <2>2. CASE e = "scope"
        BY <1>1, <2>2 DEF AspectSupported, ScopeMet
    <2>3. CASE e \in {"values", "shape"}
        <3>1. e \in UNION {Fact(c).meets[a] : c \in ConstraintHits(S, a)}
            BY <1>1, <2>3 DEF AspectSupported, Stated
        <3>2. ConstraintHits(S, a) \subseteq S
            BY DEF ConstraintHits
        <3>3. QED BY <3>1, <3>2
    <2>4. QED BY <1>2, <1>3, <2>1, <2>2, <2>3
<1>5. Demanded(a) \subseteq (UNION {Fact(c).meets[a] : c \in S}) \ {"closed"}
    BY <1>2, <1>4
<1>6. QED BY <1>2, <1>5

(* The extractive answer quotes chunks that may be cited, at least one.     *)
LEMMA ExtractiveQuotes ==
    ASSUME NEW final \in Rankings, NEW citable, citable \subseteq ToSet(final), citable # {}
    PROVE  LET answer == Extractive(final, citable)
           IN /\ answer \in Answers /\ ~answer.refusal /\ answer.urls = {}
              /\ answer.citations # {} /\ answer.citations \subseteq citable
<1> DEFINE kept == Keep(final, citable)
           top == Top(3, kept)
           answer == Extractive(final, citable)
<1>1. kept \in Rankings /\ ToSet(kept) = ToSet(final) \cap citable
    BY KeepRanking
<1>2. answer = Answered(ToSet(top), {})
    BY DEF Extractive
<1> HIDE DEF kept
<1>3. /\ top \in Rankings /\ ToSet(top) \subseteq ToSet(kept)
      /\ Len(top) = IF 3 < Len(kept) THEN 3 ELSE Len(kept)
    BY <1>1, TopRanking
<1> HIDE DEF top, answer
<1>4. Len(kept) \in Nat /\ kept \in [1 .. Len(kept) -> Chunks]
    BY <1>1, RankingParts
<1> DEFINE n == Len(kept)
<1>5. n # 0
    <2>1. PICK c : c \in ToSet(kept)
        BY <1>1
    <2>2. RankIn(kept, c) \in 1 .. n
        BY <1>1, <2>1, RankingParts
    <2>3. QED BY <1>4, <2>2
<1> HIDE DEF n
<1>6. Len(top) \in Nat /\ Len(top) # 0
    BY <1>3, <1>4, <1>5 DEF n
<1>7. ToSet(top) # {}
    <2>1. top \in [1 .. Len(top) -> Chunks]
        BY <1>3, RankingParts
    <2>2. top[1] \in ToSet(top)
        BY <1>6, <2>1 DEF ToSet
    <2>3. QED BY <2>2
<1>8. ToSet(top) \in SUBSET Chunks
    BY <1>3, RankingParts
<1>9. answer \in Answers /\ ~answer.refusal /\ answer.citations = ToSet(top) /\ answer.urls = {}
    BY <1>2, <1>8, AnswerTypes
<1>10. QED BY <1>1, <1>3, <1>7, <1>9 DEF answer

(* GroundingService: what may be cited when it has no reason to refuse.     *)
LEMMA GroundedSourced ==
    ASSUME corpus \in Corpora, NEW final \in Rankings, NEW score,
           GroundingReason(SupportedHits(ToSet(final)), score) = "none"
    PROVE  LET eligible == Eligible(SupportedHits(ToSet(final)), score)
           IN /\ eligible \in SUBSET Chunks
              /\ Citable(eligible) \subseteq ToSet(final) /\ Citable(eligible) # {}
              /\ \A c \in Citable(eligible) :
                    /\ Fact(c).official
                    /\ \E a \in Aspects : Reaches(Fact(c).terms[a], MinimumContribution)
                    /\ \A d \in eligible : Fact(c).policy = Fact(d).policy =>
                                              Fact(c).date \in {0} \cup Fact(d).date .. 2
<1> DEFINE supported == SupportedHits(ToSet(final))
           eligible == Eligible(supported, score)
<1>1. supported \subseteq ToSet(final) /\ ToSet(final) \subseteq Chunks
    BY ContributingHits, RankingParts
<1>2. \A c \in supported : \E a \in Aspects : Reaches(Fact(c).terms[a], MinimumContribution)
    BY ContributingHits
<1>3. eligible # {}
    BY DEF GroundingReason
<1>4. eligible \subseteq supported /\ \A c \in eligible : Fact(c).official
    BY DEF Eligible
<1> HIDE DEF supported, eligible
<1>5. eligible \in SUBSET Chunks
    BY <1>1, <1>4
<1>6. /\ Citable(eligible) \subseteq eligible /\ Citable(eligible) # {}
      /\ \A c \in Citable(eligible), d \in eligible :
            Fact(c).policy = Fact(d).policy => Fact(c).date \in {0} \cup Fact(d).date .. 2
    BY <1>3, <1>5, LatestCitable
<1>7. Citable(eligible) \subseteq ToSet(final)
    BY <1>1, <1>4, <1>6
<1>8. ASSUME NEW c \in Citable(eligible)
      PROVE  /\ Fact(c).official
             /\ \E a \in Aspects : Reaches(Fact(c).terms[a], MinimumContribution)
    BY <1>2, <1>4, <1>6
<1>9. QED BY <1>5, <1>6, <1>7, <1>8 DEF eligible, supported

(* ChatService judges the hits: a refusal, quotes, or a context to ask the  *)
(* model with.                                                             *)
LEMMA JudgedSound ==
    ASSUME corpus \in Corpora, NEW s, Sound(s), s.citable = {}, NEW final \in Rankings,
           IsInjective(final), s.gone \cap ToSet(final) = {}, NEW score
    PROVE  /\ Sound(Judged(s, final, score))
           /\ Judged(s, final, score).pc \in {"persist", "generate"}
           /\ Judged(s, final, score).gone = s.gone
<1> DEFINE found == Searched(s, "generate", final)
           supported == SupportedHits(ToSet(final))
           eligible == Eligible(supported, score)
           citable == Citable(eligible)
           grounded == [found EXCEPT !.eligible = eligible, !.citable = citable]
           reason == IF Sufficient(ToSet(final)) THEN GroundingReason(supported, score)
                     ELSE "insufficient_evidence"
           judged == Judged(s, final, score)
<1>1. Sound(found) /\ found.pc = "generate" /\ found.gone = s.gone
    BY SearchedSound
<1>2. s \in Served /\ "generate" \in Steps
    BY DEF Sound, Steps
<1>3. found.final = final /\ found.answer = s.answer
    BY <1>2, SearchedFields
<1>4. judged = IF reason # "none" THEN Storing(found, Refusal(reason))
               ELSE IF settings.model = "extractive"
               THEN Storing(grounded, Extractive(final, citable))
               ELSE grounded
    BY DEF Judged
<1>5. CASE reason # "none"
    <2>1. reason \in Reasons
        BY DEF GroundingReason, Reasons
    <2> HIDE DEF reason, found
    <2>2. Refusal(reason) \in Answers /\ Refusal(reason).refusal /\ Refusal(reason).citations = {}
        BY <2>1, AnswerTypes
    <2>3. judged = Storing(found, Refusal(reason))
        BY <1>4, <1>5
    <2> HIDE DEF judged
    <2>4. /\ Sound(judged) /\ judged.pc = "persist" /\ judged.gone = found.gone
        BY <1>1, <2>2, <2>3, RefusalSound
    <2>5. QED BY <1>1, <2>4 DEF judged
<1>6. CASE reason = "none"
    <2>1. GroundingReason(supported, score) = "none"
        BY <1>6
    <2>2. /\ eligible \in SUBSET Chunks
          /\ citable \subseteq ToSet(final) /\ citable # {}
          /\ \A c \in citable :
                /\ Fact(c).official
                /\ \E a \in Aspects : Reaches(Fact(c).terms[a], MinimumContribution)
                /\ \A d \in eligible : Fact(c).policy = Fact(d).policy =>
                                          Fact(c).date \in {0} \cup Fact(d).date .. 2
        BY <2>1, GroundedSourced
    <2>3. citable \in SUBSET Chunks
        BY <2>2, RankingParts
    <2> HIDE DEF reason, supported, eligible, citable, found, judged
    <2>4. found \in Served
        BY <1>1 DEF Sound
    <2>5. /\ grounded \in Served
          /\ grounded.pc = found.pc /\ grounded.kind = found.kind /\ grounded.index = found.index
          /\ grounded.lexical = found.lexical /\ grounded.semantic = found.semantic
          /\ grounded.fused = found.fused /\ grounded.final = found.final
          /\ grounded.eligible = eligible /\ grounded.citable = citable
          /\ grounded.answer = found.answer /\ grounded.gone = found.gone
        BY <2>2, <2>3, <2>4 DEF Served
    <2> HIDE DEF grounded
    <2>6. SearchSound(grounded)
        BY <1>1, <2>5 DEF SearchSound, Sound
    <2>7. Holds(grounded) \subseteq Holds(found)
        BY <1>3, <2>2, <2>5 DEF Holds
    <2>8. GoneStays(grounded)
        BY <1>1, <2>5, <2>7 DEF GoneStays, Sound
    <2>9. \A c \in citable : Sourced(grounded, c)
        BY <1>3, <2>2, <2>5 DEF Sourced
    <2>10. CASE settings.model = "extractive"
        <3> DEFINE answer == Extractive(final, citable)
        <3>1. /\ answer \in Answers /\ ~answer.refusal /\ answer.urls = {}
              /\ answer.citations # {} /\ answer.citations \subseteq citable
            BY <2>2, ExtractiveQuotes
        <3>2. judged = Storing(grounded, answer)
            BY <1>4, <1>6, <2>10
        <3> HIDE DEF answer
        <3>3. /\ judged \in Served
              /\ judged.pc = "persist" /\ judged.kind = grounded.kind
              /\ judged.index = grounded.index
              /\ judged.lexical = grounded.lexical /\ judged.semantic = grounded.semantic
              /\ judged.fused = grounded.fused /\ judged.final = grounded.final
              /\ judged.eligible = grounded.eligible /\ judged.citable = grounded.citable
              /\ judged.answer = answer /\ judged.gone = grounded.gone
            BY <2>5, <3>1, <3>2, StoringFields
        <3>4. SearchSound(judged)
            BY <2>6, <3>3 DEF SearchSound
        <3>5. Holds(judged) \subseteq Holds(grounded)
            BY <2>5, <3>1, <3>3 DEF Holds
        <3>6. GoneStays(judged)
            BY <2>8, <3>3, <3>5 DEF GoneStays
        <3>7. \A c \in citable : Sourced(judged, c)
            BY <2>9, <3>3 DEF Sourced
        <3>8. EvidenceSound(judged)
            BY <2>10, <3>1, <3>3, <3>7 DEF EvidenceSound, Early
        <3>9. QED BY <1>1, <2>5, <3>3, <3>4, <3>6, <3>8 DEF Sound, judged
    <2>11. CASE settings.model # "extractive"
        <3>1. judged = grounded
            BY <1>4, <1>6, <2>11
        <3>2. EvidenceSound(grounded)
            BY <1>1, <2>5, <2>9 DEF EvidenceSound, Early
        <3>3. QED BY <1>1, <2>5, <2>6, <2>8, <3>1, <3>2 DEF Sound, judged
    <2>12. QED BY <2>10, <2>11
<1>7. QED BY <1>5, <1>6

-----------------------------------------------------------------------------
(* The shared embedding provider, by itself.                               *)

(* The invariant is inductive as it stands: when no task is registered for *)
(* a query, no task works on it, so a new one is the only one; and a task   *)
(* that is cleared has ended, so no other that runs was registered there.   *)
EmbeddingInvariant == EmbeddingTypeOK /\ OneCallPerQuery

LEMMA StateKinds ==
    /\ Unused \notin Awaiting
    /\ \A s \in Ended : s \notin Awaiting
    /\ \A s \in {"load", "embed", "store_valid", "store_invalid"} : s \in Awaiting
BY DEF Unused, Awaiting, Ended, Vectors

LEMMA EmbeddingInitHolds == EmbeddingInit => EmbeddingInvariant
<1> SUFFICES ASSUME EmbeddingInit PROVE EmbeddingInvariant
    OBVIOUS
<1>1. (CHOOSE q \in Queries : TRUE) \in Queries
    BY QueriesAssumption
<1>2. EmbeddingTypeOK
    BY <1>1 DEF EmbeddingInit, EmbeddingTypeOK
<1>3. OneCallPerQuery
    BY StateKinds DEF EmbeddingInit, OneCallPerQuery, Running
<1> QED BY <1>2, <1>3 DEF EmbeddingInvariant

(* A task that nobody refers to may be used for a query without one.        *)
LEMMA BeginKeeps ==
    ASSUME EmbeddingInvariant, NEW r \in Requests, NEW q \in Queries,
           inflight[q] = NoTask, Begin(r, q)
    PROVE  EmbeddingInvariant' /\ \E t \in Tasks : caller' = [caller EXCEPT ![r] = t]
<1> DEFINE t == CHOOSE t \in Tasks : Forgotten(t)
<1>1. t \in Tasks /\ Forgotten(t)
    BY DEF Begin
<1>2. /\ task' = [task EXCEPT ![t] = [state |-> "load", query |-> q]]
      /\ inflight' = [inflight EXCEPT ![q] = t]
      /\ caller' = [caller EXCEPT ![r] = t]
      /\ cache' = cache
    BY DEF Begin
<1> HIDE DEF t
<1>3. EmbeddingTypeOK'
    BY <1>1, <1>2 DEF EmbeddingInvariant, EmbeddingTypeOK, Awaiting
<1>4. ASSUME NEW u \in Tasks, Running(u)' PROVE inflight'[task'[u].query] = u
    <2>1. CASE u = t
        BY <1>1, <1>2, <2>1 DEF EmbeddingInvariant, EmbeddingTypeOK
    <2>2. CASE u # t
        <3>1. Running(u) /\ task'[u] = task[u] /\ task[u].query \in Queries
            BY <1>1, <1>2, <1>4, <2>2 DEF EmbeddingInvariant, EmbeddingTypeOK, Running
        <3>2. inflight[task[u].query] = u
            BY <3>1 DEF EmbeddingInvariant, OneCallPerQuery
        <3>3. task[u].query # q
            BY <3>2, NoTaskAssumption
        <3> QED BY <1>2, <3>1, <3>2, <3>3 DEF EmbeddingInvariant, EmbeddingTypeOK
    <2> QED BY <2>1, <2>2
<1>5. OneCallPerQuery'
    BY <1>4 DEF OneCallPerQuery
<1> QED BY <1>1, <1>2, <1>3, <1>5 DEF EmbeddingInvariant

LEMMA embed_queryKeeps ==
    ASSUME EmbeddingInvariant, NEW r \in Requests, NEW q \in Queries, embed_query(r, q)
    PROVE  EmbeddingInvariant' /\ \E t \in Tasks : caller' = [caller EXCEPT ![r] = t]
<1>1. CASE /\ inflight[q] # NoTask
           /\ caller' = [caller EXCEPT ![r] = inflight[q]]
           /\ UNCHANGED <<task, inflight, cache>>
    <2>1. inflight[q] \in Tasks
        BY <1>1 DEF EmbeddingInvariant, EmbeddingTypeOK
    <2> QED BY <1>1, <2>1 DEF EmbeddingInvariant, EmbeddingTypeOK, OneCallPerQuery, Running
<1>2. CASE inflight[q] = NoTask /\ Begin(r, q)
    BY <1>2, BeginKeeps
<1> QED BY <1>1, <1>2 DEF embed_query

(* A step of a task that stays what it works on and stays registered.       *)
LEMMA GoesKeeps ==
    ASSUME EmbeddingInvariant, NEW t \in Tasks, Running(t),
           NEW state \in Awaiting \cup Ended, Goes(t, state), UNCHANGED inflight
    PROVE  /\ task' \in [Tasks -> [state : Awaiting \cup Ended \cup {Unused}, query : Queries]]
           /\ OneCallPerQuery'
<1>1. task' \in [Tasks -> [state : Awaiting \cup Ended \cup {Unused}, query : Queries]]
    BY DEF EmbeddingInvariant, EmbeddingTypeOK, Goes
<1>2. \A u \in Tasks : task'[u].query = task[u].query /\ (u # t => task'[u] = task[u])
    BY DEF EmbeddingInvariant, EmbeddingTypeOK, Goes
<1>3. OneCallPerQuery'
    BY <1>2 DEF EmbeddingInvariant, OneCallPerQuery, Running
<1> QED BY <1>1, <1>3

LEMMA AdvanceKeeps ==
    ASSUME EmbeddingInvariant, NEW t \in Tasks, Advance(t)
    PROVE  EmbeddingInvariant' /\ UNCHANGED caller
<1>1. CASE LoadFromCache(t)
    <2>1. Running(t)
        BY <1>1, StateKinds DEF LoadFromCache, Running
    <2>2. PICK state \in {"valid", "embed"} : Goes(t, state)
        BY <1>1 DEF LoadFromCache
    <2>3. state \in Awaiting \cup Ended
        BY <2>2 DEF Awaiting, Ended, Vectors
    <2> QED BY <1>1, <2>1, <2>2, <2>3, GoesKeeps
            DEF LoadFromCache, EmbeddingInvariant, EmbeddingTypeOK
<1>2. CASE CallProvider(t)
    <2>1. Running(t)
        BY <1>2, StateKinds DEF CallProvider, Running
    <2>2. PICK state \in {"store_valid", "store_invalid", "failed"} : Goes(t, state)
        BY <1>2 DEF CallProvider
    <2>3. state \in Awaiting \cup Ended
        BY <2>2 DEF Awaiting, Ended
    <2> QED BY <1>2, <2>1, <2>2, <2>3, GoesKeeps
            DEF CallProvider, EmbeddingInvariant, EmbeddingTypeOK
<1>3. CASE StoreInCache(t)
    <2>1. Running(t)
        BY <1>3, StateKinds DEF StoreInCache, Running
    <2>2. PICK vector \in Vectors :
              Goes(t, vector)
              /\ (cache' = [cache EXCEPT ![task[t].query] = vector] \/ UNCHANGED cache)
        BY <1>3 DEF StoreInCache, Vectors
    <2>3. cache' \in [Queries -> {"absent"} \cup Vectors]
        BY <2>2 DEF EmbeddingInvariant, EmbeddingTypeOK
    <2>4. vector \in Awaiting \cup Ended
        BY <2>2 DEF Ended
    <2> QED BY <1>3, <2>1, <2>2, <2>3, <2>4, GoesKeeps
            DEF StoreInCache, EmbeddingInvariant, EmbeddingTypeOK
<1>4. CASE ClearInflight(t)
    <2>1. ~Running(t)
        BY <1>4, StateKinds DEF ClearInflight, Running
    <2>2. EmbeddingTypeOK'
        BY <1>4 DEF ClearInflight, EmbeddingInvariant, EmbeddingTypeOK
    <2>3. ASSUME NEW u \in Tasks, Running(u)' PROVE inflight'[task'[u].query] = u
        <3>1. Running(u) /\ task'[u] = task[u] /\ task[u].query \in Queries
            BY <1>4, <2>3 DEF ClearInflight, EmbeddingInvariant, EmbeddingTypeOK, Running
        <3>2. inflight[task[u].query] = u /\ u # t
            BY <2>1, <3>1 DEF EmbeddingInvariant, OneCallPerQuery
        <3>3. task[u].query # task[t].query
            BY <1>4, <3>2 DEF ClearInflight
        <3> QED BY <1>4, <3>1, <3>2, <3>3 DEF ClearInflight, EmbeddingInvariant, EmbeddingTypeOK
    <2> QED BY <1>4, <2>2, <2>3 DEF ClearInflight, EmbeddingInvariant, OneCallPerQuery
<1> QED BY <1>1, <1>2, <1>3, <1>4 DEF Advance

LEMMA EmbeddingNextHolds ==
    EmbeddingInvariant /\ [EmbeddingNext]_embeddingVars => EmbeddingInvariant'
<1> SUFFICES ASSUME EmbeddingInvariant, [EmbeddingNext]_embeddingVars PROVE EmbeddingInvariant'
    OBVIOUS
<1>1. ASSUME NEW r \in Requests, NEW q \in Queries, Ask(r, q) PROVE EmbeddingInvariant'
    BY <1>1, embed_queryKeeps DEF Ask
<1>2. ASSUME NEW r \in Requests, CancelCaller(r) PROVE EmbeddingInvariant'
    BY <1>2 DEF CancelCaller, EmbeddingInvariant, EmbeddingTypeOK, OneCallPerQuery, Running
<1>3. ASSUME NEW r \in Requests, NEW outcome \in Ended, Resume(r, outcome)
      PROVE  EmbeddingInvariant'
    BY <1>3 DEF Resume, EmbeddingInvariant, EmbeddingTypeOK, OneCallPerQuery, Running
<1>4. ASSUME NEW t \in Tasks, Advance(t) PROVE EmbeddingInvariant'
    BY <1>4, AdvanceKeeps
<1>5. ASSUME NEW q \in Queries, ExpireEntry(q) PROVE EmbeddingInvariant'
    BY <1>5 DEF ExpireEntry, EmbeddingInvariant, EmbeddingTypeOK, OneCallPerQuery, Running
<1>6. CASE UNCHANGED embeddingVars
    BY <1>6 DEF embeddingVars, EmbeddingInvariant, EmbeddingTypeOK, OneCallPerQuery, Running
<1> QED BY <1>1, <1>2, <1>3, <1>4, <1>5, <1>6 DEF EmbeddingNext

(* Every variable of the shared embedding provider keeps its type.          *)
THEOREM EmbeddingTyping == EmbeddingSpec => []EmbeddingTypeOK
<1>1. EmbeddingInvariant => EmbeddingTypeOK
    BY DEF EmbeddingInvariant
<1> QED BY EmbeddingInitHolds, EmbeddingNextHolds, <1>1, PTL DEF EmbeddingSpec

(* At most one task works on a query, the registered one, whatever the      *)
(* numbers of callers, queries and tasks (CachedQueryEmbeddingProvider.     *)
(* embed_query, _clear_inflight).                                          *)
THEOREM SharedOnce == EmbeddingSpec => []OneCallPerQuery
<1>1. EmbeddingInvariant => OneCallPerQuery
    BY DEF EmbeddingInvariant
<1> QED BY EmbeddingInitHolds, EmbeddingNextHolds, <1>1, PTL DEF EmbeddingSpec

(* No caller that is cancelled or served ends a task others may await       *)
(* (asyncio.shield in embed_query).                                        *)
THEOREM TasksOutliveCallers == EmbeddingSpec => CallersLeaveTasksAlone
<1> DEFINE Leaves == (\E r \in Requests : caller[r] # NoTask /\ caller'[r] = NoTask)
                        => \A t \in Tasks : Running(t) => task'[t] = task[t]
<1>1. ASSUME EmbeddingInvariant, [EmbeddingNext]_embeddingVars PROVE [Leaves]_embeddingVars
    <2>1. ASSUME NEW r \in Requests, NEW q \in Queries, Ask(r, q) PROVE Leaves
        <3>1. PICK t \in Tasks : caller' = [caller EXCEPT ![r] = t]
            BY <1>1, <2>1, embed_queryKeeps DEF Ask
        <3>2. \A s \in Requests : caller'[s] = NoTask => caller[s] = NoTask
            BY <1>1, <3>1, NoTaskAssumption DEF EmbeddingInvariant, EmbeddingTypeOK
        <3> QED BY <3>2
    <2>2. ASSUME NEW r \in Requests, CancelCaller(r) PROVE Leaves
        BY <2>2 DEF CancelCaller
    <2>3. ASSUME NEW r \in Requests, NEW outcome \in Ended, Resume(r, outcome) PROVE Leaves
        BY <2>3 DEF Resume
    <2>4. ASSUME NEW t \in Tasks, Advance(t) PROVE Leaves
        BY <1>1, <2>4, AdvanceKeeps
    <2>5. ASSUME NEW q \in Queries, ExpireEntry(q) PROVE Leaves
        BY <2>5 DEF ExpireEntry
    <2> QED BY <1>1, <2>1, <2>2, <2>3, <2>4, <2>5 DEF EmbeddingNext
<1> QED BY EmbeddingInitHolds, EmbeddingNextHolds, <1>1, PTL
        DEF EmbeddingSpec, CallersLeaveTasksAlone

-----------------------------------------------------------------------------
(* The invariant: the requests, the embedding provider and the stores.     *)

StoresTypeOK ==
    /\ points \in SUBSET Chunks /\ rows \in SUBSET Chunks /\ bm25 \in SUBSET Chunks
    /\ admin \in [step : {"idle", "drop_row", "add_row", "rebuild"}, chunk : Chunks]

(* The stores agree but for the step that the administrator is in.          *)
StoresAgree ==
    /\ admin.step = "idle" => points = rows /\ bm25 = rows
    /\ admin.step = "drop_row" => points = rows \ {admin.chunk}
    /\ admin.step = "add_row" => points = rows \cup {admin.chunk}
    /\ admin.step = "rebuild" => points = rows

(* A request awaits a task exactly while it embeds.                        *)
Link(r) == (caller[r] # NoTask) <=> At(r, "embed")

(* The record is sound, and what was deleted is not in the vector store.    *)
RequestSound(r) == Sound(request[r]) /\ request[r].gone \cap points = {} /\ Link(r)

Invariant ==
    /\ EmbeddingInvariant
    /\ corpus \in Corpora /\ settings \in Deployments
    /\ StoresTypeOK /\ StoresAgree
    /\ request \in [Requests -> Served]
    /\ \A r \in Requests : RequestSound(r)

(* Sound looks at nothing that changes but the record.                     *)
LEMMA SoundKept ==
    ASSUME UNCHANGED worldVars, NEW s, Sound(s)
    PROVE  Sound(s)'
<1>1. corpus' = corpus /\ settings' = settings
    BY DEF worldVars
<1>2. Served' = Served
    BY DEF Served, Rankings, Answers, Steps, Over, Kinds, Modes
<1>3. SearchSound(s)'
    BY DEF Sound, SearchSound
<1>4. GoneStays(s)'
    BY DEF Sound, GoneStays, Holds
<1>5. \A c : Fact(c)' = Fact(c)
    BY <1>1 DEF Fact
<1>6. \A c : Sourced(s, c) => Sourced(s, c)'
    BY <1>5 DEF Sourced, Reaches
<1>7. \A S : Covered(S) => Covered(S)'
    BY <1>1, <1>5 DEF Covered, Reaches, TermsIn, Demanded, Fact
<1>8. EvidenceSound(s)'
    BY <1>1, <1>6, <1>7 DEF Sound, EvidenceSound
<1>9. QED BY <1>2, <1>3, <1>4, <1>8 DEF Sound

(* One request goes on, with a sound record.                               *)
LEMMA BecomesKeeps ==
    ASSUME Invariant, UNCHANGED <<worldVars, storeVars>>, EmbeddingInvariant',
           NEW r \in Requests, NEW t, Sound(t), t.gone \cap points = {}, Becomes(r, t),
           (caller'[r] # NoTask) <=> t.pc = "embed",
           \A s \in Requests \ {r} : caller'[s] = caller[s]
    PROVE  Invariant'
<1>1. request' = [request EXCEPT ![r] = t] /\ request \in [Requests -> Served]
    BY DEF Becomes, Invariant
<1>2. request'[r] = t /\ \A s \in Requests \ {r} : request'[s] = request[s]
    BY <1>1
<1>3. t \in Served
    BY DEF Sound
<1>4. Served' = Served
    BY DEF worldVars, Served, Rankings, Answers, Steps, Over, Kinds, Modes
<1>5. request' \in [Requests -> Served']
    BY <1>1, <1>3, <1>4
<1>6. UNCHANGED worldVars /\ points' = points /\ rows' = rows /\ bm25' = bm25 /\ admin' = admin
    BY DEF storeVars
<1>7. ASSUME NEW s \in Requests PROVE RequestSound(s)'
    <2>1. CASE s = r
        <3>1. Sound(t)'
            BY <1>6, SoundKept
        <3>2. QED BY <1>2, <1>6, <2>1, <3>1 DEF RequestSound, Link, At
    <2>2. CASE s # r
        <3>1. RequestSound(s)
            BY DEF Invariant
        <3> DEFINE old == request[s]
        <3>2. \A u : Sound(u) => Sound(u)'
            BY <1>6, SoundKept
        <3>3. request'[s] = request[s] /\ caller'[s] = caller[s]
            BY <1>2, <2>2
        <3>4. QED BY <1>6, <3>1, <3>2, <3>3 DEF RequestSound, Link, At
    <2>3. QED BY <2>1, <2>2
<1>8. corpus' \in Corpora /\ settings' \in Deployments /\ StoresTypeOK' /\ StoresAgree'
    BY <1>6 DEF Invariant, StoresTypeOK, StoresAgree, worldVars
<1>9. QED BY <1>5, <1>7, <1>8 DEF Invariant

(* It neither embeds nor comes to.                                         *)
LEMMA QuietKeeps ==
    ASSUME Invariant, UNCHANGED <<embeddingVars, worldVars, storeVars>>,
           NEW r \in Requests, ~At(r, "embed"),
           NEW t, Sound(t), t.gone \cap points = {}, t.pc # "embed", Becomes(r, t)
    PROVE  Invariant'
<1>1. UNCHANGED embeddingVars
    OBVIOUS
<1>2. EmbeddingInvariant'
    BY <1>1, EmbeddingNextHolds DEF Invariant
<1>3. caller' = caller
    BY <1>1 DEF embeddingVars
<1>4. caller[r] = NoTask
    BY DEF Invariant, RequestSound, Link
<1>5. QED BY <1>2, <1>3, <1>4, BecomesKeeps

LEMMA FailedSound ==
    ASSUME NEW trace \in Answers
    PROVE  LET t == [Fresh EXCEPT !.pc = "failed"]
               u == [Fresh EXCEPT !.pc = "failed", !.trace = trace]
           IN /\ Sound(t) /\ t.gone = {} /\ t.pc = "failed"
              /\ Sound(u) /\ u.gone = {} /\ u.pc = "failed"
<1> DEFINE f == Fresh
<1>1. Sound(f) /\ f.gone = {}
    BY FreshSound
<1>2. f \in Served /\ "failed" \in Steps
    BY <1>1 DEF Sound, Steps, Over
<1> HIDE DEF f
<1>3. ASSUME NEW g \in {f.trace, trace}
      PROVE  LET u == [f EXCEPT !.pc = "failed", !.trace = g]
             IN Sound(u) /\ u.gone = {} /\ u.pc = "failed"
    <2> DEFINE u == [f EXCEPT !.pc = "failed", !.trace = g]
    <2>1. g \in Answers
        BY <1>2 DEF Served
    <2>2. /\ u \in Served
          /\ u.pc = "failed" /\ u.kind = f.kind /\ u.index = f.index
          /\ u.lexical = f.lexical /\ u.semantic = f.semantic /\ u.fused = f.fused
          /\ u.final = f.final /\ u.eligible = f.eligible /\ u.citable = f.citable
          /\ u.answer = f.answer /\ u.gone = f.gone
        BY <1>2, <2>1 DEF Served
    <2> HIDE DEF u
    <2>3. SearchSound(u)
        BY <1>1, <2>2 DEF SearchSound, Sound
    <2>4. GoneStays(u)
        BY <1>1, <2>2 DEF GoneStays
    <2>5. EvidenceSound(u)
        BY <2>2 DEF EvidenceSound, Early
    <2>6. QED BY <1>1, <2>2, <2>3, <2>4, <2>5 DEF Sound, u
<1>4. [f EXCEPT !.pc = "failed"] = [f EXCEPT !.pc = "failed", !.trace = f.trace]
    BY <1>2 DEF Served
<1>5. QED BY <1>3, <1>4 DEF f

LEMMA FailKeeps ==
    ASSUME Invariant, UNCHANGED <<embeddingVars, worldVars, storeVars>>,
           NEW r \in Requests, ~At(r, "embed"), Fail(r)
    PROVE  Invariant'
<1> DEFINE t == [Fresh EXCEPT !.pc = "failed"]
<1>1. Sound(t) /\ t.gone = {} /\ t.pc = "failed"
    BY AnswerTypes, FailedSound
<1>2. Becomes(r, t)
    BY DEF Fail
<1> HIDE DEF t
<1>3. QED BY <1>1, <1>2, QuietKeeps

(* A request that embeds is cancelled or goes on.                          *)
LEMMA WakeKeeps ==
    ASSUME Invariant, UNCHANGED <<worldVars, storeVars>>, NEW r \in Requests,
           CancelCaller(r) \/ \E outcome \in Ended : Resume(r, outcome),
           NEW t, Sound(t), t.gone \cap points = {}, t.pc # "embed", Becomes(r, t)
    PROVE  Invariant'
<1>1. EmbeddingNext
    BY DEF EmbeddingNext
<1>2. EmbeddingInvariant'
    BY <1>1, EmbeddingNextHolds DEF Invariant
<1>3. caller' = [caller EXCEPT ![r] = NoTask]
    BY DEF CancelCaller, Resume
<1>4. caller'[r] = NoTask /\ \A s \in Requests \ {r} : caller'[s] = caller[s]
    BY <1>3 DEF Invariant, EmbeddingInvariant, EmbeddingTypeOK
<1>5. QED BY <1>2, <1>4, BecomesKeeps

LEMMA InitInvariant == Init => Invariant
<1> SUFFICES ASSUME Init PROVE Invariant
    OBVIOUS
<1>1. EmbeddingInvariant
    BY EmbeddingInitHolds DEF Init
<1>2. corpus \in Corpora /\ settings \in Deployments
    BY DEF Init
<1>3. StoresTypeOK /\ StoresAgree
    BY ChunksAssumption DEF Init, StoresTypeOK, StoresAgree
<1>4. \A r \in Requests : request[r] = Fresh
    BY DEF Init
<1>5. Fresh \in Served
    BY FreshSound DEF Sound
<1>6. request \in [Requests -> Served]
    BY <1>5 DEF Init
<1>7. ASSUME NEW r \in Requests PROVE RequestSound(r)
    <2>1. caller[r] = NoTask
        BY DEF Init, EmbeddingInit
    <2>2. QED BY <1>4, <2>1, FreshSound DEF RequestSound, Link, At
<1>8. QED BY <1>1, <1>2, <1>3, <1>6, <1>7 DEF Invariant

-----------------------------------------------------------------------------
(* The searches of a request.                                              *)

LEMMA FusedHitsSound ==
    ASSUME NEW lexical \in Rankings, NEW semantic \in Rankings,
           Len(lexical) <= LongestSearch, Len(semantic) <= LongestSearch
    PROVE  LET hits == FusedHits(lexical, semantic)
           IN /\ hits.order \in Rankings /\ IsInjective(hits.order)
              /\ ToSet(hits.order) \subseteq ToSet(lexical) \cup ToSet(semantic)
<1>1. FusedHits(lexical, semantic).order = Fusion(lexical, semantic)
    BY DEF FusedHits
<1>2. QED BY <1>1, FusionRanks

(* _validated_rerank: positions of the fused ranking, none of them twice.   *)
LEMMA RerankedSound ==
    ASSUME NEW fused \in Rankings, IsInjective(fused), NEW hits \in RerankResults(fused)
    PROVE  /\ hits.order \in Rankings /\ IsInjective(hits.order)
           /\ ToSet(hits.order) \subseteq ToSet(fused)
<1>1. PICK ordering \in Orderings(Len(fused)) :
          /\ ValidOrdering(ordering)
          /\ \E low : hits = Reranked(fused, ordering, low)
    BY DEF RerankResults
<1>2. hits.order = [i \in DOMAIN ordering |-> fused[ordering[i]]]
    BY <1>1 DEF Reranked
<1>3. /\ Len(fused) \in Nat /\ Len(fused) <= Cardinality(Chunks)
      /\ fused \in [1 .. Len(fused) -> Chunks]
    BY RankingParts
<1> DEFINE n == Len(fused)
<1>4. PICK m \in 0 .. (IF n < RerankTopK THEN n ELSE RerankTopK) : ordering \in [1 .. m -> 0 .. n]
    BY DEF Orderings
<1>5. m \in 0 .. Cardinality(Chunks)
    BY <1>3, <1>4, ChunkCount, ScoresAssumption
<1>6. \A i \in 1 .. m : ordering[i] \in 1 .. n
    BY <1>1, <1>3, <1>4 DEF ValidOrdering, ToSet
<1>7. \A i, j \in 1 .. m : ordering[i] = ordering[j] => i = j
    BY <1>1, <1>4 DEF ValidOrdering
<1> HIDE DEF n
<1>8. hits.order = [i \in 1 .. m |-> fused[ordering[i]]]
    BY <1>2, <1>4
<1>9. hits.order \in [1 .. m -> Chunks]
    BY <1>3, <1>6, <1>8 DEF n
<1>10. hits.order \in Rankings
    BY <1>5, <1>9, RankingShape
<1>11. \A i, j \in 1 .. n : fused[i] = fused[j] => i = j
    BY <1>3 DEF n, IsInjective
<1>12. IsInjective(hits.order)
    BY <1>6, <1>7, <1>8, <1>11 DEF IsInjective
<1>13. ToSet(hits.order) \subseteq ToSet(fused)
    <2>1. \A i \in 1 .. n : fused[i] \in ToSet(fused)
        BY <1>3 DEF ToSet, n
    <2>2. \A i \in 1 .. m : hits.order[i] \in ToSet(fused)
        BY <1>6, <1>8, <2>1
    <2>3. QED BY <1>9, <2>2 DEF ToSet
<1>14. QED BY <1>10, <1>12, <1>13

LEMMA LexicalSound ==
    ASSUME corpus \in Corpora, NEW index
    PROVE  /\ Lexical(index) \in Rankings /\ IsInjective(Lexical(index))
           /\ ToSet(Lexical(index)) \subseteq index
           /\ Len(Lexical(index)) <= LongestSearch
<1> DEFINE matching == {c \in index : \E a \in Aspects : Fact(c).terms[a] # {}}
<1>1. Lexical(index) = Ranked(corpus.lexical, matching) /\ matching \subseteq index
    BY DEF Lexical
<1> HIDE DEF matching
<1>2. QED BY <1>1, FactTypes, RankedSound

LEMMA SemanticSound ==
    ASSUME corpus \in Corpora
    PROVE  /\ Semantic \in Rankings /\ IsInjective(Semantic)
           /\ ToSet(Semantic) \subseteq points
           /\ Len(Semantic) <= LongestSearch
BY FactTypes, RankedSound DEF Semantic

LEMMA FirstOnes ==
    ASSUME NEW ranking \in Rankings, NEW n \in 0 .. Len(ranking), IsInjective(ranking)
    PROVE  LET first == Top(FinalTopK, Top(n, ranking))
           IN /\ first \in Rankings /\ IsInjective(first)
              /\ ToSet(first) \subseteq ToSet(ranking)
<1> DEFINE some == Top(n, ranking)
<1>1. n \in Nat /\ FinalTopK \in Nat
    BY RankingParts, ScoresAssumption
<1>2. some \in Rankings /\ IsInjective(some) /\ ToSet(some) \subseteq ToSet(ranking)
    BY <1>1, TopRanking
<1> HIDE DEF some
<1>3. /\ Top(FinalTopK, some) \in Rankings /\ IsInjective(Top(FinalTopK, some))
      /\ ToSet(Top(FinalTopK, some)) \subseteq ToSet(some)
    BY <1>1, <1>2, TopRanking
<1>4. QED BY <1>2, <1>3 DEF some

(* A search of one index alone ends with the first of its ranking.          *)
LEMMA OneSearchKeeps ==
    ASSUME Invariant, UNCHANGED <<embeddingVars, worldVars, storeVars>>,
           NEW r \in Requests, ~At(r, "embed"),
           NEW ranking \in Rankings, IsInjective(ranking),
           request[r].gone \cap ToSet(ranking) = {}, NEW n \in 0 .. Len(ranking),
           Becomes(r, Searched(request[r], "searched", Top(FinalTopK, Top(n, ranking))))
    PROVE  Invariant'
<1> DEFINE s == request[r]
           final == Top(FinalTopK, Top(n, ranking))
           t == Searched(s, "searched", final)
<1>1. Sound(s) /\ s.gone \cap points = {}
    BY DEF Invariant, RequestSound
<1>2. final \in Rankings /\ IsInjective(final) /\ ToSet(final) \subseteq ToSet(ranking)
    BY FirstOnes
<1>3. s.gone \cap ToSet(final) = {}
    BY <1>2
<1>4. Becomes(r, t)
    OBVIOUS
<1> HIDE DEF s, final
<1>5. Sound(t) /\ t.pc = "searched" /\ t.gone = s.gone
    BY <1>1, <1>2, <1>3, SearchedSound
<1> HIDE DEF t
<1>6. QED BY <1>1, <1>4, <1>5, QuietKeeps

(* The final hits are returned to a search, or judged.                     *)
LEMMA FoundSound ==
    ASSUME Invariant, NEW r \in Requests, request[r].pc \in {"vector", "rerank"},
           NEW final \in Rankings, IsInjective(final),
           request[r].gone \cap ToSet(final) = {}, NEW score
    PROVE  /\ Sound(Found(r, final, score))
           /\ Found(r, final, score).pc # "embed"
           /\ Found(r, final, score).gone = request[r].gone
<1> DEFINE s == request[r]
<1>1. Sound(s) /\ corpus \in Corpora
    BY DEF Invariant, RequestSound
<1>2. s.citable = {} /\ s.gone \cap ToSet(final) = {}
    BY <1>1 DEF Sound, EvidenceSound, Early
<1>3. Found(r, final, score) = IF IsChat(r) THEN Judged(s, final, score)
                               ELSE Searched(s, "searched", final)
    BY DEF Found
<1> HIDE DEF s
<1>4. /\ Sound(Judged(s, final, score)) /\ Judged(s, final, score).gone = s.gone
      /\ Judged(s, final, score).pc \in {"persist", "generate"}
    BY <1>1, <1>2, JudgedSound
<1>5. /\ Sound(Searched(s, "searched", final)) /\ Searched(s, "searched", final).pc = "searched"
      /\ Searched(s, "searched", final).gone = s.gone
    BY <1>1, <1>2, SearchedSound
<1>6. CASE IsChat(r)
    <2>1. Found(r, final, score) = Judged(s, final, score)
        BY <1>3, <1>6
    <2>2. QED BY <1>4, <2>1 DEF s
<1>7. CASE ~IsChat(r)
    <2>1. Found(r, final, score) = Searched(s, "searched", final)
        BY <1>3, <1>7
    <2>2. QED BY <1>5, <2>1 DEF s
<1>8. QED BY <1>6, <1>7

LEMMA FoundKeeps ==
    ASSUME Invariant, UNCHANGED <<embeddingVars, worldVars, storeVars>>,
           NEW r \in Requests, request[r].pc \in {"vector", "rerank"},
           NEW hits, hits.order \in Rankings, IsInjective(hits.order),
           request[r].gone \cap ToSet(hits.order) = {}, Finds(r, hits)
    PROVE  Invariant'
<1> DEFINE final == FinalHits(hits)
           t == Found(r, final, hits.score)
<1>1. Becomes(r, t)
    BY DEF Finds
<1>2. final \in Rankings /\ IsInjective(final) /\ ToSet(final) \subseteq ToSet(hits.order)
    BY FinalHitsSound
<1>3. request[r].gone \cap ToSet(final) = {}
    BY <1>2
<1> HIDE DEF final
<1>4. Sound(t) /\ t.pc # "embed" /\ t.gone = request[r].gone
    BY <1>2, <1>3, FoundSound
<1> HIDE DEF t
<1>5. request[r].gone \cap points = {}
    BY DEF Invariant, RequestSound
<1>6. ~At(r, "embed")
    BY DEF At
<1>7. QED BY <1>1, <1>4, <1>5, <1>6, QuietKeeps

-----------------------------------------------------------------------------
(* The steps of a request: until the vector search.                        *)

LEMMA MovedSound ==
    ASSUME NEW s, Sound(s), s.pc \in Early, NEW pc \in Early, pc # "rerank"
    PROVE  LET t == [s EXCEPT !.pc = pc]
           IN Sound(t) /\ t.pc = pc /\ t.gone = s.gone
<1> DEFINE t == [s EXCEPT !.pc = pc]
<1>1. s \in Served /\ pc \in Steps
    BY DEF Sound, Early, Steps
<1>2. /\ t \in Served
      /\ t.pc = pc /\ t.kind = s.kind /\ t.index = s.index
      /\ t.lexical = s.lexical /\ t.semantic = s.semantic /\ t.fused = s.fused
      /\ t.final = s.final /\ t.eligible = s.eligible /\ t.citable = s.citable
      /\ t.answer = s.answer /\ t.gone = s.gone
    BY <1>1 DEF Served
<1> HIDE DEF t
<1>3. SearchSound(t)
    BY <1>2 DEF SearchSound, Sound
<1>4. GoneStays(t)
    BY <1>2 DEF GoneStays, Holds, Sound
<1>5. EvidenceSound(t)
    BY <1>2 DEF EvidenceSound, Sound, Early
<1>6. QED BY <1>2, <1>3, <1>4, <1>5 DEF Sound, t

LEMMA ArriveKeeps ==
    ASSUME Invariant, NEW r \in Requests, NEW kind \in Kinds \cup Modes, Arrive(r, kind)
    PROVE  Invariant'
<1>1. PICK q \in Queries :
          Becomes(r, [Fresh EXCEPT !.pc = "route", !.kind = kind, !.query = q,
                                   !.index = bm25, !.gone = Deleted])
    BY DEF Arrive
<1> DEFINE f == Fresh
           t == [f EXCEPT !.pc = "route", !.kind = kind, !.query = q,
                          !.index = bm25, !.gone = Deleted]
<1>2. Sound(f) /\ Holds(f) = {}
    BY FreshSound
<1>3. Becomes(r, t)
    BY <1>1
<1>4. bm25 \in SUBSET Chunks /\ Deleted \in SUBSET Chunks
    BY DEF Invariant, StoresTypeOK, Deleted
<1>5. Deleted \cap bm25 = {} /\ Deleted \cap points = {}
    BY DEF Invariant, StoresAgree, Deleted
<1>6. f \in Served /\ "route" \in Steps
    BY <1>2 DEF Sound, Steps
<1> HIDE DEF f
<1>7. /\ t \in Served
      /\ t.pc = "route" /\ t.kind = kind /\ t.index = bm25
      /\ t.lexical = f.lexical /\ t.semantic = f.semantic /\ t.fused = f.fused
      /\ t.final = f.final /\ t.eligible = f.eligible /\ t.citable = f.citable
      /\ t.answer = f.answer /\ t.gone = Deleted
    BY <1>4, <1>6 DEF Served
<1> HIDE DEF t
<1>8. SearchSound(t)
    BY <1>2, <1>7 DEF SearchSound, Sound
<1>9. GoneStays(t)
    BY <1>2, <1>5, <1>7 DEF GoneStays, Holds
<1>10. EvidenceSound(t)
    BY <1>2, <1>7 DEF EvidenceSound, Early, Holds
<1>11. Sound(t)
    BY <1>7, <1>8, <1>9, <1>10 DEF Sound
<1>12. UNCHANGED <<embeddingVars, worldVars, storeVars>> /\ ~At(r, "embed")
    BY DEF Arrive, At
<1>13. QED BY <1>3, <1>5, <1>7, <1>11, <1>12, QuietKeeps

(* What a request keeps while it embeds.                                   *)
LEMMA AskingSound ==
    ASSUME NEW s, Sound(s), s.pc \in Early, NEW kind \in Kinds \cup Modes,
           NEW lexical \in Rankings, IsInjective(lexical), Len(lexical) <= LongestSearch,
           ToSet(lexical) \subseteq s.index
    PROVE  LET t == [s EXCEPT !.pc = "embed", !.index = {}, !.lexical = lexical, !.kind = kind]
           IN Sound(t) /\ t.pc = "embed" /\ t.gone = s.gone
<1> DEFINE t == [s EXCEPT !.pc = "embed", !.index = {}, !.lexical = lexical, !.kind = kind]
<1>1. s \in Served /\ "embed" \in Steps
    BY DEF Sound, Steps
<1>2. /\ t \in Served
      /\ t.pc = "embed" /\ t.index = {}
      /\ t.lexical = lexical /\ t.semantic = s.semantic /\ t.fused = s.fused
      /\ t.final = s.final /\ t.eligible = s.eligible /\ t.citable = s.citable
      /\ t.answer = s.answer /\ t.gone = s.gone
    BY <1>1 DEF Served
<1> HIDE DEF t
<1>3. SearchSound(t)
    BY <1>2 DEF SearchSound, Sound
<1>4. Holds(t) \subseteq Holds(s)
    BY <1>2 DEF Holds
<1>5. GoneStays(t)
    BY <1>2, <1>4 DEF GoneStays, Sound
<1>6. EvidenceSound(t)
    BY <1>2 DEF EvidenceSound, Sound, Early
<1>7. QED BY <1>2, <1>3, <1>5, <1>6 DEF Sound, t

LEMMA RetrieveKeeps ==
    ASSUME Invariant, UNCHANGED <<worldVars, storeVars>>,
           NEW r \in Requests, request[r].pc \in {"route", "count"}, Retrieve(r)
    PROVE  Invariant'
<1> DEFINE s == request[r]
           lexical == IF Mode(r) = "vector" THEN <<>> ELSE Lexical(s.index)
<1>1. Sound(s) /\ s.gone \cap points = {} /\ corpus \in Corpora
    BY DEF Invariant, RequestSound
<1>2. s \in Served /\ s.gone \cap s.index = {}
    BY <1>1 DEF Sound, GoneStays, Holds
<1>3. /\ lexical \in Rankings /\ IsInjective(lexical) /\ Len(lexical) <= LongestSearch
      /\ ToSet(lexical) \subseteq s.index
    <2>1. CASE Mode(r) = "vector"
        <3>1. Len(<<>>) = 0 /\ LongestSearch \in Nat
            BY ScoresAssumption DEF LongestSearch, Larger
        <3>2. lexical = <<>>
            BY <2>1
        <3> HIDE DEF lexical
        <3>3. QED BY <3>1, <3>2, EmptyRanking
    <2>2. CASE Mode(r) # "vector"
        <3>1. lexical = Lexical(s.index)
            BY <2>2
        <3> HIDE DEF lexical
        <3>2. QED BY <1>1, <3>1, LexicalSound
    <2>3. QED BY <2>1, <2>2
<1>4. request[r].gone \cap ToSet(lexical) = {} /\ ~At(r, "embed")
    BY <1>2, <1>3 DEF At
<1>5. CASE Mode(r) = "bm25"
    <2>1. UNCHANGED embeddingVars
        BY <1>5 DEF Retrieve
    <2>2. PICK n \in 0 .. Len(lexical) :
              Becomes(r, Searched(request[r], "searched", Top(FinalTopK, Top(n, lexical))))
        BY <1>5 DEF Retrieve
    <2> HIDE DEF lexical
    <2>3. QED BY <1>3, <1>4, <2>1, <2>2, OneSearchKeeps
<1>6. CASE Mode(r) # "bm25"
    <2> DEFINE kind == IF IsChat(r) THEN "rag" ELSE s.kind
               t == [s EXCEPT !.pc = "embed", !.index = {}, !.lexical = lexical, !.kind = kind]
    <2>1. embed_query(r, s.query) /\ Becomes(r, t)
        BY <1>6 DEF Retrieve
    <2>2. s.query \in Queries /\ kind \in Kinds \cup Modes
        BY <1>2 DEF Served, Kinds
    <2>3. EmbeddingInvariant' /\ \E u \in Tasks : caller' = [caller EXCEPT ![r] = u]
        BY <2>1, <2>2, embed_queryKeeps DEF Invariant
    <2>4. caller'[r] # NoTask /\ \A q \in Requests \ {r} : caller'[q] = caller[q]
        BY <2>3, NoTaskAssumption DEF Invariant, EmbeddingInvariant, EmbeddingTypeOK
    <2>5. s.pc \in Early
        BY DEF Early
    <2> HIDE DEF kind, lexical, s
    <2>6. Sound(t) /\ t.pc = "embed" /\ t.gone = s.gone
        BY <1>1, <1>3, <2>2, <2>5, AskingSound
    <2> HIDE DEF t
    <2>7. QED BY <1>1, <2>1, <2>3, <2>4, <2>6, BecomesKeeps
<1>7. QED BY <1>5, <1>6

LEMMA RouteKeeps == ASSUME Invariant, NEW r \in Requests, Route(r) PROVE Invariant'
<1>1. UNCHANGED <<worldVars, storeVars>> /\ request[r].pc = "route" /\ ~At(r, "embed")
    BY DEF Route, At
<1>2. CASE Fail(r) /\ UNCHANGED embeddingVars
    BY <1>1, <1>2, FailKeeps
<1>3. CASE Goto(r, "count") /\ UNCHANGED embeddingVars
    <2> DEFINE s == request[r]
               t == [s EXCEPT !.pc = "count"]
    <2>1. Sound(s) /\ s.gone \cap points = {} /\ s.pc \in Early /\ "count" \in Early
        BY <1>1 DEF Invariant, RequestSound, Early
    <2>2. Becomes(r, t)
        BY <1>3 DEF Goto
    <2> HIDE DEF s
    <2>3. Sound(t) /\ t.pc = "count" /\ t.gone = s.gone
        BY <2>1, MovedSound
    <2> HIDE DEF t
    <2>4. QED BY <1>1, <1>3, <2>1, <2>2, <2>3, QuietKeeps
<1>4. CASE Retrieve(r)
    BY <1>1, <1>4, RetrieveKeeps
<1>5. QED BY <1>2, <1>3, <1>4 DEF Route

LEMMA CountKeeps == ASSUME Invariant, NEW r \in Requests, Count(r) PROVE Invariant'
<1>1. UNCHANGED <<worldVars, storeVars>> /\ request[r].pc = "count" /\ ~At(r, "embed")
    BY DEF Count, At
<1>2. CASE Fail(r) /\ UNCHANGED embeddingVars
    BY <1>1, <1>2, FailKeeps
<1>3. CASE /\ request[r].kind = "sql"
           /\ Becomes(r, Storing([request[r] EXCEPT !.index = {}], Answered({}, {})))
           /\ UNCHANGED embeddingVars
    <2> DEFINE s == request[r]
               c == [s EXCEPT !.index = {}]
               answer == Answered({}, {})
               t == Storing(c, answer)
    <2>1. Sound(s) /\ s.gone \cap points = {} /\ s.kind = "sql"
        BY <1>3 DEF Invariant, RequestSound
    <2>2. Becomes(r, t)
        BY <1>3
    <2>3. answer \in Answers /\ answer.citations = {}
        BY AnswerTypes
    <2> HIDE DEF answer, s
    <2>4. s \in Served
        BY <2>1 DEF Sound
    <2>5. /\ c \in Served
          /\ c.kind = s.kind /\ c.index = {} /\ c.lexical = s.lexical
          /\ c.semantic = s.semantic /\ c.fused = s.fused /\ c.final = s.final
          /\ c.citable = s.citable /\ c.gone = s.gone
        BY <2>4 DEF Served
    <2> HIDE DEF c
    <2>6. /\ t \in Served
          /\ t.pc = "persist" /\ t.kind = c.kind /\ t.index = c.index
          /\ t.lexical = c.lexical /\ t.semantic = c.semantic /\ t.fused = c.fused
          /\ t.final = c.final /\ t.citable = c.citable
          /\ t.answer = answer /\ t.gone = c.gone
        BY <2>3, <2>5, StoringFields
    <2> HIDE DEF t
    <2>7. SearchSound(t)
        BY <2>1, <2>5, <2>6 DEF SearchSound, Sound
    <2>8. Holds(t) \subseteq Holds(s)
        BY <2>3, <2>5, <2>6 DEF Holds
    <2>9. GoneStays(t)
        BY <2>1, <2>5, <2>6, <2>8 DEF GoneStays, Sound
    <2>10. EvidenceSound(t)
        BY <2>1, <2>5, <2>6 DEF EvidenceSound, Early
    <2>11. Sound(t)
        BY <2>6, <2>7, <2>9, <2>10 DEF Sound
    <2>12. QED BY <1>1, <1>3, <2>1, <2>2, <2>5, <2>6, <2>11, QuietKeeps
<1>4. CASE Retrieve(r)
    BY <1>1, <1>4, RetrieveKeeps
<1>5. QED BY <1>2, <1>3, <1>4 DEF Count

LEMMA WokenFails ==
    ASSUME Invariant, UNCHANGED <<worldVars, storeVars>>, NEW r \in Requests,
           CancelCaller(r) \/ \E outcome \in Ended : Resume(r, outcome), Fail(r)
    PROVE  Invariant'
<1> DEFINE t == [Fresh EXCEPT !.pc = "failed"]
<1>1. Sound(t) /\ t.gone = {} /\ t.pc = "failed"
    BY AnswerTypes, FailedSound
<1>2. Becomes(r, t)
    BY DEF Fail
<1> HIDE DEF t
<1>3. QED BY <1>1, <1>2, WakeKeeps

LEMMA EmbeddedKeeps == ASSUME Invariant, NEW r \in Requests, Embedded(r) PROVE Invariant'
<1>1. UNCHANGED <<worldVars, storeVars>> /\ request[r].pc = "embed"
    BY DEF Embedded, At
<1>2. {"valid", "invalid", "failed"} \subseteq Ended
    BY DEF Ended, Vectors
<1>3. CASE Resume(r, "valid") /\ Goto(r, "vector")
    <2> DEFINE s == request[r]
               t == [s EXCEPT !.pc = "vector"]
    <2>1. Sound(s) /\ s.gone \cap points = {} /\ s.pc \in Early /\ "vector" \in Early
        BY <1>1 DEF Invariant, RequestSound, Early
    <2>2. Becomes(r, t)
        BY <1>3 DEF Goto
    <2> HIDE DEF s
    <2>3. Sound(t) /\ t.pc = "vector" /\ t.gone = s.gone
        BY <2>1, MovedSound
    <2> HIDE DEF t
    <2>4. QED BY <1>1, <1>2, <1>3, <2>1, <2>2, <2>3, WakeKeeps
<1>4. CASE (Resume(r, "invalid") \/ Resume(r, "failed")) /\ Fail(r)
    BY <1>1, <1>2, <1>4, WokenFails
<1>5. QED BY <1>3, <1>4 DEF Embedded

LEMMA CancelledKeeps == ASSUME Invariant, NEW r \in Requests, Cancelled(r) PROVE Invariant'
    BY WokenFails DEF Cancelled

-----------------------------------------------------------------------------
(* The steps of a request: the vector search, reranking and the answer.     *)

LEMMA VectorSearchKeeps ==
    ASSUME Invariant, NEW r \in Requests, VectorSearch(r) PROVE Invariant'
<1> DEFINE s == request[r]
<1>1. /\ UNCHANGED <<embeddingVars, worldVars, storeVars>>
      /\ s.pc = "vector" /\ ~At(r, "embed")
    BY DEF VectorSearch, At
<1>2. Sound(s) /\ s.gone \cap points = {} /\ corpus \in Corpora
    BY DEF Invariant, RequestSound
<1>3. CASE Fail(r)
    BY <1>1, <1>3, FailKeeps
<1>4. CASE SearchVectors(r, Semantic)
    <2> DEFINE semantic == Semantic
               lexical == s.lexical
    <2>1. /\ semantic \in Rankings /\ IsInjective(semantic) /\ ToSet(semantic) \subseteq points
          /\ Len(semantic) <= LongestSearch
        BY <1>2, SemanticSound
    <2>2. SearchVectors(r, semantic)
        BY <1>4
    <2> HIDE DEF semantic
    <2>3. /\ lexical \in Rankings /\ IsInjective(lexical) /\ Len(lexical) <= LongestSearch
        BY <1>2 DEF Sound, Served, SearchSound
    <2>4. s.gone \cap ToSet(lexical) = {} /\ s.gone \cap ToSet(semantic) = {}
        BY <1>2, <2>1 DEF Sound, GoneStays, Holds
    <2>5. CASE Mode(r) = "vector"
        <3>1. PICK n \in 0 .. Len(semantic) :
                  Becomes(r, Searched(request[r], "searched", Top(FinalTopK, Top(n, semantic))))
            BY <2>2, <2>5 DEF SearchVectors
        <3>2. QED BY <1>1, <2>1, <2>4, <3>1, OneSearchKeeps
    <2>6. CASE Becomes(r, [request[r] EXCEPT !.pc = "rerank", !.semantic = semantic,
                                             !.fused = Fusion(lexical, semantic)])
        <3> DEFINE fused == Fusion(lexical, semantic)
                   t == [s EXCEPT !.pc = "rerank", !.semantic = semantic, !.fused = fused]
        <3>1. Becomes(r, t)
            BY <2>6
        <3>2. /\ fused \in Rankings /\ IsInjective(fused)
              /\ ToSet(fused) \subseteq ToSet(lexical) \cup ToSet(semantic)
            BY <2>1, <2>3, FusionRanks
        <3>3. s \in Served /\ "rerank" \in Steps /\ s.citable = {}
            BY <1>1, <1>2 DEF Sound, Steps, EvidenceSound, Early
        <3>4. fused = Fusion(s.lexical, semantic)
            OBVIOUS
        <3>5. ToSet(fused) \cap s.gone = {}
            BY <2>4, <3>2
        <3> HIDE DEF fused, s
        <3>6. /\ t \in Served
              /\ t.pc = "rerank" /\ t.index = s.index
              /\ t.lexical = s.lexical /\ t.semantic = semantic /\ t.fused = fused
              /\ t.final = s.final /\ t.eligible = s.eligible /\ t.citable = s.citable
              /\ t.answer = s.answer /\ t.gone = s.gone
            BY <2>1, <3>2, <3>3 DEF Served
        <3> HIDE DEF t
        <3>7. SearchSound(t)
            BY <1>2, <2>1, <3>2, <3>4, <3>6 DEF SearchSound, Sound
        <3>8. GoneStays(t)
            <4>1. Holds(t) \subseteq Holds(s) \cup ToSet(semantic) \cup ToSet(fused)
                BY <3>6 DEF Holds
            <4>2. QED BY <1>2, <2>4, <3>5, <3>6, <4>1 DEF GoneStays, Sound
        <3>9. EvidenceSound(t)
            BY <3>3, <3>6 DEF EvidenceSound, Early
        <3>10. Sound(t)
            BY <3>6, <3>7, <3>8, <3>9 DEF Sound
        <3>11. QED BY <1>1, <1>2, <3>1, <3>6, <3>10, QuietKeeps
    <2>7. CASE Finds(r, FusedHits(lexical, semantic))
        <3> DEFINE hits == FusedHits(lexical, semantic)
        <3>1. /\ hits.order \in Rankings /\ IsInjective(hits.order)
              /\ ToSet(hits.order) \subseteq ToSet(lexical) \cup ToSet(semantic)
            BY <2>1, <2>3, FusedHitsSound
        <3>2. Finds(r, hits)
            BY <2>7
        <3> HIDE DEF hits
        <3>3. request[r].gone \cap ToSet(hits.order) = {}
            BY <2>4, <3>1
        <3>4. QED BY <1>1, <3>1, <3>2, <3>3, FoundKeeps
    <2>8. QED BY <2>2, <2>5, <2>6, <2>7 DEF SearchVectors
<1>5. QED BY <1>3, <1>4 DEF VectorSearch

LEMMA RerankKeeps == ASSUME Invariant, NEW r \in Requests, Rerank(r) PROVE Invariant'
<1> DEFINE s == request[r]
<1>1. /\ UNCHANGED <<embeddingVars, worldVars, storeVars>>
      /\ s.pc = "rerank" /\ ~At(r, "embed")
    BY DEF Rerank, At
<1>2. Sound(s) /\ corpus \in Corpora
    BY DEF Invariant, RequestSound
<1>3. /\ s.lexical \in Rankings /\ s.semantic \in Rankings
      /\ Len(s.lexical) <= LongestSearch /\ Len(s.semantic) <= LongestSearch
      /\ s.fused \in Rankings /\ IsInjective(s.fused)
    BY <1>2 DEF Sound, Served, SearchSound
<1>4. /\ s.gone \cap ToSet(s.fused) = {}
      /\ s.gone \cap (ToSet(s.lexical) \cup ToSet(s.semantic)) = {}
    BY <1>2 DEF Sound, GoneStays, Holds
<1>5. CASE Fail(r)
    BY <1>1, <1>5, FailKeeps
<1>6. CASE \E hits \in {FusedHits(request[r].lexical, request[r].semantic)} : Finds(r, hits)
    <2> DEFINE hits == FusedHits(s.lexical, s.semantic)
    <2>1. /\ hits.order \in Rankings /\ IsInjective(hits.order)
          /\ ToSet(hits.order) \subseteq ToSet(s.lexical) \cup ToSet(s.semantic)
        BY <1>3, FusedHitsSound
    <2>2. Finds(r, hits)
        BY <1>6
    <2> HIDE DEF hits
    <2>3. request[r].gone \cap ToSet(hits.order) = {}
        BY <1>4, <2>1
    <2>4. QED BY <1>1, <2>1, <2>2, <2>3, FoundKeeps
<1>7. CASE \E hits \in RerankResults(request[r].fused) : Finds(r, hits)
    <2>1. PICK hits \in RerankResults(s.fused) : Finds(r, hits)
        BY <1>7
    <2>2. /\ hits.order \in Rankings /\ IsInjective(hits.order)
          /\ ToSet(hits.order) \subseteq ToSet(s.fused)
        BY <1>3, RerankedSound
    <2>3. request[r].gone \cap ToSet(hits.order) = {}
        BY <1>4, <2>2
    <2>4. QED BY <1>1, <2>1, <2>2, <2>3, FoundKeeps
<1>8. QED BY <1>5, <1>6, <1>7 DEF Rerank, RerankFails

(* An answer that cites what may be cited, and covers the question.         *)
LEMMA CitedSound ==
    ASSUME NEW s, Sound(s), s.pc = "generate", NEW answer \in Answers,
           answer.citations # {}, answer.citations \subseteq s.citable,
           answer.urls \subseteq answer.citations, Covered(answer.citations)
    PROVE  LET t == Storing(s, answer)
           IN Sound(t) /\ t.pc = "persist" /\ t.gone = s.gone
<1> DEFINE t == Storing(s, answer)
<1>1. s \in Served
    BY DEF Sound
<1>2. /\ t \in Served
      /\ t.pc = "persist" /\ t.kind = s.kind /\ t.index = s.index
      /\ t.lexical = s.lexical /\ t.semantic = s.semantic /\ t.fused = s.fused
      /\ t.final = s.final /\ t.eligible = s.eligible /\ t.citable = s.citable
      /\ t.answer = answer /\ t.gone = s.gone
    BY <1>1, StoringFields
<1> HIDE DEF t
<1>3. SearchSound(t)
    BY <1>2 DEF SearchSound, Sound
<1>4. Holds(t) \subseteq Holds(s)
    BY <1>2 DEF Holds
<1>5. GoneStays(t)
    BY <1>2, <1>4 DEF GoneStays, Sound
<1>6. \A c \in answer.citations : Sourced(s, c)
    BY DEF Sound, EvidenceSound
<1>7. \A c \in answer.citations : Sourced(t, c)
    BY <1>2, <1>6 DEF Sourced
<1>8. EvidenceSound(t)
    BY <1>2, <1>7 DEF EvidenceSound, Early
<1>9. QED BY <1>2, <1>3, <1>5, <1>8 DEF Sound, t

LEMMA StoresKeeps ==
    ASSUME Invariant, UNCHANGED <<embeddingVars, worldVars, storeVars>>,
           NEW r \in Requests, request[r].pc = "generate", NEW answer \in Answers,
           \/ answer.refusal /\ answer.citations = {}
           \/ /\ answer.citations # {} /\ answer.citations \subseteq request[r].citable
              /\ answer.urls \subseteq answer.citations /\ Covered(answer.citations),
           Stores(r, answer)
    PROVE  Invariant'
<1> DEFINE s == request[r]
           t == Storing(s, answer)
<1>1. Sound(s) /\ s.gone \cap points = {} /\ ~At(r, "embed")
    BY DEF Invariant, RequestSound, At
<1>2. Becomes(r, t)
    BY DEF Stores
<1>3. s.pc = "generate"
    OBVIOUS
<1>4. \/ answer.refusal /\ answer.citations = {}
      \/ /\ answer.citations # {} /\ answer.citations \subseteq s.citable
         /\ answer.urls \subseteq answer.citations /\ Covered(answer.citations)
    OBVIOUS
<1> HIDE DEF s
<1>5. Sound(t) /\ t.pc = "persist" /\ t.gone = s.gone
    BY <1>1, <1>3, <1>4, RefusalSound, CitedSound
<1> HIDE DEF t
<1>6. QED BY <1>1, <1>2, <1>5, QuietKeeps

LEMMA GenerateKeeps == ASSUME Invariant, NEW r \in Requests, Generate(r) PROVE Invariant'
<1>1. /\ UNCHANGED <<embeddingVars, worldVars, storeVars>>
      /\ request[r].pc = "generate" /\ ~At(r, "embed")
    BY DEF Generate, At
<1>2. CASE Fail(r)
    BY <1>1, <1>2, FailKeeps
<1>3. ASSUME NEW reason \in {"model_output_invalid", "answer_not_supported"},
             Stores(r, Refusal(reason))
      PROVE  Invariant'
    <2> DEFINE answer == Refusal(reason)
    <2>1. answer \in Answers /\ answer.refusal /\ answer.citations = {}
        BY AnswerTypes DEF Reasons
    <2>2. Stores(r, answer)
        BY <1>3
    <2> HIDE DEF answer
    <2>3. QED BY <1>1, <2>1, <2>2, StoresKeeps
<1>4. ASSUME NEW urls \in {{}, {0}}, Stores(r, [Refusal("model_refusal") EXCEPT !.urls = urls])
      PROVE  Invariant'
    <2> DEFINE answer == [Refusal("model_refusal") EXCEPT !.urls = urls]
    <2>1. answer \in Answers /\ answer.refusal /\ answer.citations = {}
        BY DEF Refusal, Answers
    <2>2. Stores(r, answer)
        BY <1>4
    <2> HIDE DEF answer
    <2>3. QED BY <1>1, <2>1, <2>2, StoresKeeps
<1>5. ASSUME NEW text \in Texts(request[r].citable), Accept(r, text) PROVE Invariant'
    <2>1. corpus \in Corpora /\ request[r].citable \in SUBSET Chunks
        BY DEF Invariant, Served
    <2>2. CASE /\ CitationsValid(r, text) /\ UrlsAllowed(r, text) /\ AnswerSupported(text)
               /\ Stores(r, Answered(text.cited, text.urls))
        <3> DEFINE answer == Answered(text.cited, text.urls)
        <3>1. /\ text.cited # {} /\ text.cited \subseteq request[r].citable
              /\ text.urls \subseteq text.cited
            BY <2>2 DEF CitationsValid, UrlsAllowed
        <3>2. text.cited \in SUBSET Chunks /\ text.urls \in SUBSET (Chunks \cup {0})
            BY <2>1, <3>1
        <3>3. answer \in Answers /\ answer.citations = text.cited /\ answer.urls = text.urls
            BY <3>2, AnswerTypes
        <3>4. Covered(text.cited)
            BY <2>1, <2>2, SufficientCovers DEF AnswerSupported
        <3>5. Stores(r, answer)
            BY <2>2
        <3> HIDE DEF answer
        <3>6. QED BY <1>1, <3>1, <3>3, <3>4, <3>5, StoresKeeps
    <2>3. CASE Stores(r, Refusal("answer_not_supported"))
               \/ Stores(r, Refusal("model_output_invalid"))
        BY <1>3, <2>3
    <2>4. CASE Fail(r)
        BY <1>1, <2>4, FailKeeps
    <2>5. QED BY <1>5, <2>2, <2>3, <2>4 DEF Accept
<1>6. QED BY <1>2, <1>3, <1>4, <1>5 DEF Generate

LEMMA PersistKeeps == ASSUME Invariant, NEW r \in Requests, Persist(r) PROVE Invariant'
<1> DEFINE s == request[r]
<1>1. /\ UNCHANGED <<embeddingVars, worldVars, storeVars>>
      /\ s.pc = "persist" /\ ~At(r, "embed")
    BY DEF Persist, At
<1>2. Sound(s) /\ s.gone \cap points = {} /\ s \in Served
    BY DEF Invariant, RequestSound, Sound
<1>3. CASE Fail(r)
    BY <1>1, <1>3, FailKeeps
<1>4. CASE Becomes(r, [s EXCEPT !.pc = "answered", !.trace = s.answer])
    <2> DEFINE t == [s EXCEPT !.pc = "answered", !.trace = s.answer]
    <2>1. Becomes(r, t)
        BY <1>4
    <2>2. "answered" \in Steps
        BY DEF Steps, Over
    <2> HIDE DEF s
    <2>3. /\ t \in Served
          /\ t.pc = "answered" /\ t.kind = s.kind /\ t.index = s.index
          /\ t.lexical = s.lexical /\ t.semantic = s.semantic /\ t.fused = s.fused
          /\ t.final = s.final /\ t.eligible = s.eligible /\ t.citable = s.citable
          /\ t.answer = s.answer /\ t.gone = s.gone
        BY <1>2, <2>2 DEF Served
    <2> HIDE DEF t
    <2>4. SearchSound(t)
        BY <1>2, <2>3 DEF SearchSound, Sound
    <2>5. GoneStays(t)
        BY <1>2, <2>3 DEF GoneStays, Holds, Sound
    <2>6. \A c : Sourced(s, c) => Sourced(t, c)
        BY <2>3 DEF Sourced
    <2>7. EvidenceSound(t)
        BY <1>1, <1>2, <2>3, <2>6 DEF EvidenceSound, Sound, Early
    <2>8. Sound(t)
        BY <2>3, <2>4, <2>5, <2>7 DEF Sound
    <2>9. QED BY <1>1, <1>2, <2>1, <2>3, <2>8, QuietKeeps
<1>5. CASE Becomes(r, [Fresh EXCEPT !.pc = "failed", !.trace = s.answer])
    <2> DEFINE u == [Fresh EXCEPT !.pc = "failed", !.trace = s.answer]
    <2>1. s.answer \in Answers
        BY <1>2 DEF Served
    <2>2. Sound(u) /\ u.gone = {} /\ u.pc = "failed"
        BY <2>1, FailedSound
    <2>3. Becomes(r, u)
        BY <1>5
    <2> HIDE DEF u
    <2>4. QED BY <1>1, <2>2, <2>3, QuietKeeps
<1>6. QED BY <1>3, <1>4, <1>5 DEF Persist

LEMMA LeaveKeeps == ASSUME Invariant, NEW r \in Requests, Leave(r) PROVE Invariant'
<1>1. /\ UNCHANGED <<embeddingVars, worldVars, storeVars>>
      /\ ~At(r, "embed") /\ Becomes(r, Fresh)
    BY DEF Leave, At, Over
<1> DEFINE t == Fresh
<1>2. Sound(t) /\ t.gone = {} /\ t.pc = "idle" /\ Becomes(r, t)
    BY <1>1, FreshSound
<1> HIDE DEF t
<1>3. QED BY <1>1, <1>2, QuietKeeps

-----------------------------------------------------------------------------
(* The steps of the tasks and of the administrator.                        *)

LEMMA RequestsKept ==
    ASSUME Invariant, UNCHANGED <<worldVars, request, caller>>,
           NEW r \in Requests, request[r].gone \cap points' = {}
    PROVE  RequestSound(r)'
<1>1. RequestSound(r) /\ request'[r] = request[r]
    BY DEF Invariant
<1>2. \A u : Sound(u) => Sound(u)'
    BY SoundKept
<1>3. QED BY <1>1, <1>2 DEF RequestSound, Link, At

LEMMA TaskKeeps ==
    ASSUME Invariant, UNCHANGED <<worldVars, storeVars, request>>,
           (\E t \in Tasks : Advance(t)) \/ (\E q \in Queries : ExpireEntry(q))
    PROVE  Invariant'
<1>1. EmbeddingNext
    BY DEF EmbeddingNext
<1>2. EmbeddingInvariant'
    BY <1>1, EmbeddingNextHolds DEF Invariant
<1>3. caller' = caller
    BY AdvanceKeeps DEF Invariant, ExpireEntry
<1>4. corpus' = corpus /\ settings' = settings /\ request' = request
      /\ points' = points /\ rows' = rows /\ bm25' = bm25 /\ admin' = admin
    BY DEF worldVars, storeVars
<1>5. \A r \in Requests : RequestSound(r)'
    <2> TAKE r \in Requests
    <2>1. request[r].gone \cap points' = {}
        BY <1>4 DEF Invariant, RequestSound
    <2>2. QED BY <1>3, <2>1, RequestsKept
<1>6. Served' = Served
    BY DEF Served, Rankings, Answers, Steps, Over, Kinds, Modes
<1>7. QED BY <1>2, <1>4, <1>5, <1>6 DEF Invariant, StoresTypeOK, StoresAgree

(* A step of the administrator that indexes no points.                     *)
LEMMA StoreStepKeeps ==
    ASSUME Invariant,
           (\E c \in Moving : DeletePoints(c)) \/ DropRow \/ AddRow \/ RebuildBM25
    PROVE  Invariant'
<1>1. UNCHANGED <<embeddingVars, worldVars, request>>
    BY DEF DeletePoints, DropRow, AddRow, RebuildBM25
<1>2. UNCHANGED embeddingVars /\ corpus' = corpus /\ settings' = settings /\ request' = request
    BY <1>1 DEF worldVars
<1>3. EmbeddingInvariant' /\ caller' = caller
    BY <1>2, EmbeddingNextHolds DEF Invariant, embeddingVars
<1>4. points' \subseteq points
    BY DEF DeletePoints, DropRow, AddRow, RebuildBM25
<1>5. StoresTypeOK'
    <2>1. StoresTypeOK /\ 1 \in Chunks /\ Moving \subseteq Chunks
        BY ChunksAssumption DEF Invariant
    <2>2. CASE \E c \in Moving : DeletePoints(c)
        BY <2>1, <2>2 DEF StoresTypeOK, DeletePoints, Administer
    <2>3. CASE DropRow
        BY <2>1, <2>3 DEF StoresTypeOK, DropRow, Administer
    <2>4. CASE AddRow
        BY <2>1, <2>4 DEF StoresTypeOK, AddRow, Administer
    <2>5. CASE RebuildBM25
        BY <2>1, <2>5 DEF StoresTypeOK, RebuildBM25, Administer
    <2>6. QED BY <2>2, <2>3, <2>4, <2>5
<1>6. StoresAgree'
    <2>1. admin \in [step : {"idle", "drop_row", "add_row", "rebuild"}, chunk : Chunks]
        BY DEF Invariant, StoresTypeOK
    <2>2. CASE \E c \in Moving : DeletePoints(c)
        BY <2>1, <2>2 DEF Invariant, StoresAgree, DeletePoints, Administer
    <2>3. CASE DropRow
        BY <2>1, <2>3 DEF Invariant, StoresAgree, DropRow, Administer
    <2>4. CASE AddRow
        BY <2>1, <2>4 DEF Invariant, StoresAgree, AddRow, Administer
    <2>5. CASE RebuildBM25
        BY <2>1, <2>5 DEF Invariant, StoresAgree, RebuildBM25, Administer
    <2>6. QED BY <2>2, <2>3, <2>4, <2>5
<1>7. \A r \in Requests : RequestSound(r)'
    <2> TAKE r \in Requests
    <2>1. request[r].gone \cap points' = {}
        BY <1>4 DEF Invariant, RequestSound
    <2>2. QED BY <1>2, <1>3, <2>1, RequestsKept DEF worldVars
<1>8. Served' = Served
    BY DEF Served, Rankings, Answers, Steps, Over, Kinds, Modes
<1>9. QED BY <1>2, <1>3, <1>5, <1>6, <1>7, <1>8 DEF Invariant

(* A chunk that is indexed again is no longer gone.                        *)
LEMMA IndexPointsKeeps ==
    ASSUME Invariant, NEW c \in Moving, IndexPoints(c)
    PROVE  Invariant'
<1>1. /\ UNCHANGED embeddingVars /\ UNCHANGED worldVars /\ rows' = rows /\ bm25' = bm25
      /\ points' = points \cup {c} /\ c \in Chunks
      /\ request' = [r \in Requests |-> [request[r] EXCEPT !.gone = @ \ {c}]]
      /\ admin.step = "idle" /\ admin' = [step |-> "add_row", chunk |-> c]
    BY ChunksAssumption DEF IndexPoints, Administer
<1>2. EmbeddingInvariant' /\ caller' = caller
    BY <1>1, EmbeddingNextHolds DEF Invariant, embeddingVars
<1>3. StoresTypeOK' /\ StoresAgree'
    BY <1>1 DEF Invariant, StoresTypeOK, StoresAgree
<1>4. Served' = Served
    BY DEF Served, Rankings, Answers, Steps, Over, Kinds, Modes
<1>5. ASSUME NEW r \in Requests
      PROVE  request'[r] \in Served /\ RequestSound(r)'
    <2> DEFINE s == request[r]
               t == [s EXCEPT !.gone = @ \ {c}]
    <2>1. Sound(s) /\ s.gone \cap points = {} /\ s \in Served
        BY DEF Invariant, RequestSound, Sound
    <2>2. request'[r] = t
        BY <1>1
    <2>3. Link(r)
        BY DEF Invariant, RequestSound
    <2> HIDE DEF s
    <2>4. /\ t \in Served
          /\ t.pc = s.pc /\ t.kind = s.kind /\ t.index = s.index
          /\ t.lexical = s.lexical /\ t.semantic = s.semantic /\ t.fused = s.fused
          /\ t.final = s.final /\ t.eligible = s.eligible /\ t.citable = s.citable
          /\ t.answer = s.answer /\ t.gone = s.gone \ {c}
        BY <2>1 DEF Served
    <2> HIDE DEF t
    <2>5. SearchSound(t)
        BY <2>1, <2>4 DEF SearchSound, Sound
    <2>6. GoneStays(t)
        BY <2>1, <2>4 DEF GoneStays, Holds, Sound
    <2>7. \A d : Sourced(s, d) => Sourced(t, d)
        BY <2>4 DEF Sourced
    <2>8. EvidenceSound(t)
        BY <2>1, <2>4, <2>7 DEF EvidenceSound, Sound, Early
    <2>9. \A u : Sound(u) => Sound(u)'
        BY <1>1, SoundKept
    <2>10. Sound(t)
        BY <2>4, <2>5, <2>6, <2>8 DEF Sound
    <2>11. Sound(request[r])'
        BY <2>2, <2>9, <2>10
    <2>12. request'[r].gone \cap points' = {}
        BY <1>1, <2>1, <2>2, <2>4
    <2>13. Link(r)'
        <3>1. request'[r].pc = request[r].pc
            BY <2>2, <2>4 DEF s
        <3>2. QED BY <1>2, <2>3, <3>1 DEF Link, At
    <2>14. QED BY <2>2, <2>4, <2>11, <2>12, <2>13 DEF RequestSound
<1>6. request' \in [Requests -> Served]
    <2>1. request' = [r \in Requests |-> request'[r]]
        BY <1>1
    <2>2. QED BY <1>5, <2>1
<1>7. QED BY <1>1, <1>2, <1>3, <1>4, <1>5, <1>6 DEF Invariant, worldVars

LEMMA NextInvariant == Invariant /\ [Next]_vars => Invariant'
<1> SUFFICES ASSUME Invariant, [Next]_vars PROVE Invariant'
    OBVIOUS
<1>1. ASSUME NEW r \in Requests, NEW kind \in Kinds \cup Modes, Arrive(r, kind)
      PROVE  Invariant'
    BY <1>1, ArriveKeeps
<1>2. ASSUME NEW r \in Requests, Serve(r) PROVE Invariant'
    BY <1>2, RouteKeeps, CountKeeps, EmbeddedKeeps, VectorSearchKeeps, RerankKeeps,
       GenerateKeeps, PersistKeeps DEF Serve
<1>3. ASSUME NEW r \in Requests, Cancelled(r) \/ Leave(r) PROVE Invariant'
    BY <1>3, CancelledKeeps, LeaveKeeps
<1>4. ASSUME NEW t \in Tasks, AdvanceTask(t) PROVE Invariant'
    BY <1>4, TaskKeeps DEF AdvanceTask
<1>5. ASSUME NEW q \in Queries, ExpireEntry(q), UNCHANGED <<worldVars, storeVars, request>>
      PROVE  Invariant'
    BY <1>5, TaskKeeps
<1>6. ASSUME NEW c \in Moving, IndexPoints(c) PROVE Invariant'
    BY <1>6, IndexPointsKeeps
<1>7. CASE (\E c \in Moving : DeletePoints(c)) \/ DropRow \/ AddRow \/ RebuildBM25
    BY <1>7, StoreStepKeeps
<1>8. CASE UNCHANGED vars
    <2>1. /\ UNCHANGED embeddingVars /\ UNCHANGED worldVars /\ request' = request
          /\ points' = points /\ rows' = rows /\ bm25' = bm25 /\ admin' = admin
        BY <1>8 DEF vars, storeVars
    <2>2. EmbeddingInvariant' /\ caller' = caller
        BY <2>1, EmbeddingNextHolds DEF Invariant, embeddingVars
    <2>3. \A r \in Requests : RequestSound(r)'
        <3> TAKE r \in Requests
        <3>1. request[r].gone \cap points' = {}
            BY <2>1 DEF Invariant, RequestSound
        <3>2. QED BY <2>1, <2>2, <3>1, RequestsKept
    <2>4. Served' = Served
        BY DEF Served, Rankings, Answers, Steps, Over, Kinds, Modes
    <2>5. QED BY <2>1, <2>2, <2>3, <2>4 DEF Invariant, StoresTypeOK, StoresAgree, worldVars
<1>9. QED BY <1>1, <1>2, <1>3, <1>4, <1>5, <1>6, <1>7, <1>8 DEF Next

LEMMA SpecInvariant == Spec => []Invariant
    BY InitInvariant, NextInvariant, PTL DEF Spec

-----------------------------------------------------------------------------
(* What the invariant says.                                                *)

LEMMA NoChunkTwice ==
    ASSUME NEW ranking \in Rankings, IsInjective(ranking)
    PROVE  Cardinality(ToSet(ranking)) = Len(ranking)
<1> DEFINE n == Len(ranking)
<1>1. n \in Nat /\ ranking \in [1 .. n -> Chunks]
    BY RankingParts
<1> HIDE DEF n
<1>2. ranking \in [1 .. n -> ToSet(ranking)]
    BY <1>1 DEF ToSet
<1>3. ranking \in Surjection(1 .. n, ToSet(ranking))
    BY <1>1, <1>2 DEF Surjection, ToSet
<1>4. ranking \in Injection(1 .. n, ToSet(ranking))
    BY <1>2 DEF Injection, IsInjective
<1>5. IsFiniteSet(1 .. n) /\ Cardinality(1 .. n) = n
    BY <1>1, CountUpTo
<1>6. QED BY <1>3, <1>4, <1>5, FS_Surjection DEF n

(* A search adds more to a chunk that it ranks higher.                     *)
LEMMA BetterAddsMore ==
    ASSUME NEW ranking \in Rankings, Len(ranking) <= LongestSearch, NEW c, NEW d,
           Better(ranking, c, d)
    PROVE  InverseRank(ranking, c) > InverseRank(ranking, d)
<1>1. /\ c \in ToSet(ranking)
      /\ InverseRank(ranking, c) \in Nat /\ InverseRank(ranking, c) # 0
      /\ RankIn(ranking, c) \in 1 .. LongestSearch
      /\ InverseRank(ranking, c) = Share(RankIn(ranking, c))
    BY InverseRankType DEF Better
<1>2. CASE d \notin ToSet(ranking)
    <2>1. InverseRank(ranking, d) = 0
        BY <1>2, InverseRankType
    <2>2. QED BY <1>1, <2>1
<1>3. CASE d \in ToSet(ranking)
    <2>1. /\ RankIn(ranking, d) \in 1 .. LongestSearch
          /\ InverseRank(ranking, d) = Share(RankIn(ranking, d))
          /\ InverseRank(ranking, d) \in Nat
        BY <1>3, InverseRankType
    <2>2. RankIn(ranking, c) < RankIn(ranking, d)
        BY <1>3 DEF Better
    <2>3. Share(RankIn(ranking, d)) < Share(RankIn(ranking, c))
        BY <1>1, <2>1, <2>2, ShareFalls
    <2>4. QED BY <1>1, <2>1, <2>3
<1>4. QED BY <1>2, <1>3

(* A chunk that the searches prefer has the higher fused score.             *)
LEMMA PreferredScoresMore ==
    ASSUME NEW lexical \in Rankings, NEW semantic \in Rankings,
           Len(lexical) <= LongestSearch, Len(semantic) <= LongestSearch,
           NEW c \in ToSet(lexical) \cup ToSet(semantic),
           NEW d \in ToSet(lexical) \cup ToSet(semantic),
           \/ /\ c \in ToSet(lexical) \cap ToSet(semantic)
              /\ d \notin ToSet(lexical) \cap ToSet(semantic)
              /\ Len(lexical) <= RrfK /\ Len(semantic) <= RrfK
           \/ /\ Better(lexical, c, d) \/ Absent(lexical, c, d)
              /\ Better(semantic, c, d) \/ Absent(semantic, c, d)
    PROVE  FusedScore(lexical, semantic, c) > FusedScore(lexical, semantic, d)
<1> DEFINE lc == InverseRank(lexical, c)
           ld == InverseRank(lexical, d)
           sc == InverseRank(semantic, c)
           sd == InverseRank(semantic, d)
<1>1. lc \in Nat /\ ld \in Nat /\ sc \in Nat /\ sd \in Nat
    BY InverseRankType
<1>2. lc + sc > ld + sd
    <2>1. CASE /\ c \in ToSet(lexical) \cap ToSet(semantic)
               /\ d \notin ToSet(lexical) \cap ToSet(semantic)
               /\ Len(lexical) <= RrfK /\ Len(semantic) <= RrfK
        <3>1. /\ RankIn(lexical, c) \in 1 .. Len(lexical)
              /\ RankIn(semantic, c) \in 1 .. Len(semantic)
              /\ Len(lexical) \in Nat /\ Len(semantic) \in Nat /\ RrfK \in Nat
            BY <2>1, RankingParts, ScoresAssumption
        <3>2. RankIn(lexical, c) <= RrfK /\ RankIn(semantic, c) <= RrfK
            BY <2>1, <3>1
        <3>3. /\ RankIn(lexical, c) \in 1 .. LongestSearch /\ lc = Share(RankIn(lexical, c))
              /\ RankIn(semantic, c) \in 1 .. LongestSearch /\ sc = Share(RankIn(semantic, c))
            BY <2>1, InverseRankType
        <3>4. CASE d \in ToSet(lexical)
            <4>1. sd = 0
                BY <2>1, <3>4, InverseRankType
            <4>2. RankIn(lexical, d) \in 1 .. LongestSearch /\ ld = Share(RankIn(lexical, d))
                BY <3>4, InverseRankType
            <4>3. ld < lc + sc
                BY <3>2, <3>3, <4>2, SharesOutweigh
            <4> HIDE DEF lc, ld, sc, sd
            <4>4. QED BY <1>1, <4>1, <4>3
        <3>5. CASE d \in ToSet(semantic)
            <4>1. ld = 0
                BY <2>1, <3>5, InverseRankType
            <4>2. RankIn(semantic, d) \in 1 .. LongestSearch /\ sd = Share(RankIn(semantic, d))
                BY <3>5, InverseRankType
            <4>3. sd < lc + sc
                BY <3>2, <3>3, <4>2, SharesOutweigh
            <4> HIDE DEF lc, ld, sc, sd
            <4>4. QED BY <1>1, <4>1, <4>3
        <3>6. QED BY <3>4, <3>5
    <2>2. CASE /\ Better(lexical, c, d) \/ Absent(lexical, c, d)
               /\ Better(semantic, c, d) \/ Absent(semantic, c, d)
        <3>1. lc > ld \/ (lc = 0 /\ ld = 0 /\ c \notin ToSet(lexical))
            <4>1. CASE Better(lexical, c, d)
                BY <4>1, BetterAddsMore
            <4>2. CASE Absent(lexical, c, d)
                BY <4>2, InverseRankType DEF Absent
            <4>3. QED BY <2>2, <4>1, <4>2
        <3>2. sc > sd \/ (sc = 0 /\ sd = 0 /\ c \notin ToSet(semantic))
            <4>1. CASE Better(semantic, c, d)
                BY <4>1, BetterAddsMore
            <4>2. CASE Absent(semantic, c, d)
                BY <4>2, InverseRankType DEF Absent
            <4>3. QED BY <2>2, <4>1, <4>2
        <3> HIDE DEF lc, ld, sc, sd
        <3>3. QED BY <1>1, <3>1, <3>2
    <2>3. QED BY <2>1, <2>2
<1>3. QED BY <1>2 DEF FusedScore

LEMMA InvariantTypes == Invariant => TypeOK
<1> SUFFICES ASSUME Invariant PROVE TypeOK
    OBVIOUS
<1>1. EmbeddingTypeOK /\ corpus \in Corpora /\ settings \in Deployments
    BY DEF Invariant, EmbeddingInvariant
<1>2. request \in [Requests -> Served]
    BY DEF Invariant
<1>3. \A r \in Requests : (caller[r] # NoTask) <=> At(r, "embed")
    BY DEF Invariant, RequestSound, Link
<1>4. QED BY <1>1, <1>2, <1>3 DEF TypeOK, Invariant, StoresTypeOK

LEMMA InvariantFusion == Invariant => FusionRespectsSearches
<1> SUFFICES ASSUME Invariant, NEW r \in Requests
             PROVE
      /\ \A ranking \in {request[r].fused, request[r].final} :
            Cardinality(ToSet(ranking)) = Len(ranking)
      /\ At(r, "rerank") =>
        LET lexical == request[r].lexical
            semantic == request[r].semantic
            InBoth(c) == c \in ToSet(lexical) \cap ToSet(semantic)
        IN \A c, d \in ToSet(lexical) \cup ToSet(semantic) :
            \/ InBoth(c) /\ ~InBoth(d) /\ Len(lexical) <= RrfK /\ Len(semantic) <= RrfK
            \/ /\ Better(lexical, c, d) \/ Absent(lexical, c, d)
               /\ Better(semantic, c, d) \/ Absent(semantic, c, d)
            => Better(request[r].fused, c, d) \/ Absent(request[r].fused, c, d)
    BY DEF FusionRespectsSearches
<1> DEFINE s == request[r]
           lexical == s.lexical
           semantic == s.semantic
<1>1. Sound(s)
    BY DEF Invariant, RequestSound
<1>2. /\ s.fused \in Rankings /\ IsInjective(s.fused)
      /\ s.final \in Rankings /\ IsInjective(s.final)
      /\ lexical \in Rankings /\ semantic \in Rankings
      /\ Len(lexical) <= LongestSearch /\ Len(semantic) <= LongestSearch
    BY <1>1 DEF Sound, Served, SearchSound
<1>3. \A ranking \in {s.fused, s.final} : Cardinality(ToSet(ranking)) = Len(ranking)
    BY <1>2, NoChunkTwice
<1>4. ASSUME At(r, "rerank"),
             NEW c \in ToSet(lexical) \cup ToSet(semantic),
             NEW d \in ToSet(lexical) \cup ToSet(semantic),
             \/ /\ c \in ToSet(lexical) \cap ToSet(semantic)
                /\ d \notin ToSet(lexical) \cap ToSet(semantic)
                /\ Len(lexical) <= RrfK /\ Len(semantic) <= RrfK
             \/ /\ Better(lexical, c, d) \/ Absent(lexical, c, d)
                /\ Better(semantic, c, d) \/ Absent(semantic, c, d)
      PROVE  Better(s.fused, c, d) \/ Absent(s.fused, c, d)
    <2>1. s.fused = Fusion(lexical, semantic)
        BY <1>1, <1>4 DEF At, Sound, SearchSound
    <2> HIDE DEF lexical, semantic
    <2>2. FusedScore(lexical, semantic, c) > FusedScore(lexical, semantic, d)
        BY <1>2, <1>4, PreferredScoresMore
    <2>3. QED BY <1>2, <2>1, <2>2, FusionRanks
<1>5. QED BY <1>3, <1>4

LEMMA InvariantEvidence == Invariant => CitesSoundEvidence /\ CitationsCoverQuestion
<1> SUFFICES ASSUME Invariant PROVE CitesSoundEvidence /\ CitationsCoverQuestion
    OBVIOUS
<1>1. ASSUME NEW r \in Requests, Substantive(r)
      PROVE  /\ request[r].answer.citations # {}
             /\ request[r].answer.urls \subseteq request[r].answer.citations
             /\ \A c \in request[r].answer.citations : Sourced(request[r], c)
             /\ settings.model # "extractive" => Covered(request[r].answer.citations)
    BY <1>1 DEF Invariant, RequestSound, Sound, EvidenceSound, Substantive
<1>2. CitesSoundEvidence
    BY <1>1 DEF CitesSoundEvidence, Sourced
<1>3. CitationsCoverQuestion
    BY <1>1 DEF CitationsCoverQuestion, Covered
<1>4. QED BY <1>2, <1>3

LEMMA InvariantGone == Invariant => DeletedNotFound
    BY DEF Invariant, RequestSound, Sound, GoneStays, Holds, DeletedNotFound

(* Every step is one of the embedding provider's, or leaves it alone.       *)
LEMMA StepEmbeds == Invariant /\ [Next]_vars => [EmbeddingNext]_embeddingVars
<1> SUFFICES ASSUME Invariant, [Next]_vars PROVE [EmbeddingNext]_embeddingVars
    OBVIOUS
<1>1. ASSUME NEW r \in Requests, Retrieve(r), request[r].pc \in {"route", "count"}
      PROVE  [EmbeddingNext]_embeddingVars
    <2>1. CASE UNCHANGED embeddingVars
        BY <2>1
    <2>2. CASE embed_query(r, request[r].query)
        <3>1. request[r].query \in Queries /\ caller[r] = NoTask
            BY <1>1 DEF Invariant, RequestSound, Link, At, Served
        <3>2. Ask(r, request[r].query)
            BY <2>2, <3>1 DEF Ask
        <3>3. QED BY <3>1, <3>2 DEF EmbeddingNext
    <2>3. QED BY <1>1, <2>1, <2>2 DEF Retrieve
<1>2. ASSUME NEW r \in Requests, NEW kind \in Kinds \cup Modes, Arrive(r, kind)
      PROVE  [EmbeddingNext]_embeddingVars
    BY <1>2 DEF Arrive
<1>3. ASSUME NEW r \in Requests, Serve(r) PROVE [EmbeddingNext]_embeddingVars
    <2>1. CASE Route(r)
        BY <1>1, <2>1 DEF Route, At
    <2>2. CASE Count(r)
        BY <1>1, <2>2 DEF Count, At
    <2>3. CASE Embedded(r)
        BY <2>3 DEF Embedded, EmbeddingNext, Ended, Vectors
    <2>4. CASE VectorSearch(r) \/ Rerank(r) \/ Generate(r) \/ Persist(r)
        BY <2>4 DEF VectorSearch, Rerank, Generate, Persist
    <2>5. QED BY <1>3, <2>1, <2>2, <2>3, <2>4 DEF Serve
<1>4. ASSUME NEW r \in Requests, Cancelled(r) \/ Leave(r) PROVE [EmbeddingNext]_embeddingVars
    BY <1>4 DEF Cancelled, Leave, EmbeddingNext
<1>5. ASSUME NEW t \in Tasks, AdvanceTask(t) PROVE [EmbeddingNext]_embeddingVars
    BY <1>5 DEF AdvanceTask, EmbeddingNext
<1>6. ASSUME NEW q \in Queries, ExpireEntry(q) PROVE [EmbeddingNext]_embeddingVars
    BY <1>6 DEF EmbeddingNext
<1>7. CASE (\E c \in Moving : DeletePoints(c) \/ IndexPoints(c)) \/ DropRow \/ AddRow \/ RebuildBM25
    BY <1>7 DEF DeletePoints, IndexPoints, DropRow, AddRow, RebuildBM25
<1>8. CASE UNCHANGED vars
    BY <1>8 DEF vars
<1>9. QED BY <1>2, <1>3, <1>4, <1>5, <1>6, <1>7, <1>8 DEF Next

-----------------------------------------------------------------------------
(* The theorems.                                                           *)

(* Every variable keeps its type, and a request awaits a task exactly while *)
(* it embeds, whatever fails or is cancelled (ChatService._answer,          *)
(* RetrievalEngine.search, embed_query).                                   *)
THEOREM TypeCorrect == Spec => []TypeOK
    BY SpecInvariant, InvariantTypes, PTL

(* Fusion keeps what the searches agree on, two that agree outweigh one,    *)
(* and no ranking holds a chunk twice, for rankings of any length and any   *)
(* rrf_k (reciprocal_rank_fusion, _validated_rerank).                      *)
THEOREM FusionKeepsPreferences == Spec => []FusionRespectsSearches
    BY SpecInvariant, InvariantFusion, PTL

(* Whatever a model writes and whatever is indexed meanwhile, an answer     *)
(* about documents cites retrieved, official, contributing chunks that no   *)
(* other eligible hit supersedes, and only their URLs                      *)
(* (GroundingService.assess, _grounded_answer).                            *)
THEOREM AnswersCiteSoundEvidence == Spec => []CitesSoundEvidence
    BY SpecInvariant, InvariantEvidence, PTL

(* What an answer of a model cites covers every aspect of the question      *)
(* (EvidenceSufficiencyGate.validate_answer).                              *)
THEOREM AnswersAreCovered == Spec => []CitationsCoverQuestion
    BY SpecInvariant, InvariantEvidence, PTL

(* A document that was deleted before a request came is neither found nor   *)
(* cited, however deletions and indexings interleave with the request       *)
(* (ApplicationRuntime.retrieval_engine, rebuild_runtime_bm25).            *)
THEOREM DeletedStaysUnfound == Spec => []DeletedNotFound
    BY SpecInvariant, InvariantGone, PTL

(* The requests use the embedding provider as its specification says: the   *)
(* pipeline implements QueryEmbedding (get_chat_service and                 *)
(* get_retrieval_engine share one provider).                               *)
THEOREM PipelineEmbeds == Spec => EmbeddingSpec
<1>1. Init => EmbeddingInit
    BY DEF Init
<1>2. QED BY <1>1, SpecInvariant, StepEmbeds, PTL DEF Spec, EmbeddingSpec

(* So questions and searches never pay twice at a time for one query, and   *)
(* no request that is cancelled ends the task of others (embed_query,       *)
(* _clear_inflight).                                                       *)
THEOREM PipelineSharesTasks == Spec => []OneCallPerQuery /\ CallersLeaveTasksAlone
    BY PipelineEmbeds, SharedOnce, TasksOutliveCallers
=============================================================================
