------------------------ MODULE TournamentRoundProofs ------------------------
(***************************************************************************)
(* Proofs about a round of the tournament, for every pool, capacity, swap  *)
(* size and number of unranked traces.                                     *)
(***************************************************************************)
EXTENDS TournamentRound, TournamentProofs

\* What is known of a round before and after it is played.
RoundInv ==
    /\ IsFiniteSet(Pool) /\ \A i \in Pool : scores[i] \in Int
    /\ unscored \in Nat /\ warm \subseteq Pool
    /\ ~done => parents = <<>>
    /\ done => \E ranking \in Rankings(Pool, scores) :
                 /\ victims = RoundVictims(ranking, ActiveN, Capacity)
                 /\ parents \in RoundParents(ranking, ActiveN, Capacity, warm)

\* RoundInv is inductive.
LEMMA RoundInvHolds == RoundSpec => []RoundInv
<1>1. RoundInit => RoundInv
  <2> SUFFICES ASSUME RoundInit PROVE RoundInv
    OBVIOUS
  <2>1. PICK ids \in SUBSET Traces : scores \in [ids -> Scores]
    BY DEF RoundInit
  <2>2. Pool = ids /\ IsFiniteSet(ids)
    BY <2>1, FS_Subset, RoundAssumption DEF Pool
  <2>3. \A i \in Pool : scores[i] \in Int
    BY <2>1, <2>2, RoundAssumption
  <2>4. unscored \in Nat /\ ~done /\ warm \subseteq Pool /\ parents = <<>>
    BY RoundAssumption DEF RoundInit
  <2> QED
    BY <2>2, <2>3, <2>4 DEF RoundInv
<1>2. RoundInv /\ [PlayRound]_roundVars => RoundInv'
  <2> SUFFICES ASSUME RoundInv, [PlayRound]_roundVars PROVE RoundInv'
    OBVIOUS
  <2>1. CASE PlayRound
    BY <2>1 DEF RoundInv, PlayRound, Pool, ActiveN
  <2>2. CASE UNCHANGED roundVars
    BY <2>2 DEF RoundInv, roundVars, Pool, ActiveN
  <2> QED
    BY <2>1, <2>2
<1> QED
  BY <1>1, <1>2, PTL DEF RoundSpec

\* The round was played with this ranking, and its victims are the tail of it.
PlayedWith(q) ==
    /\ q \in Seq(Pool)
    /\ victims = {q[i] : i \in Cut(q, ActiveN, Capacity) + 1 .. Len(q)}
    /\ parents \in RoundParents(q, ActiveN, Capacity, warm)
    /\ ActiveN \in Nat

\* A round that was played was played with some ranking.
LEMMA VictimsAreTail ==
    ASSUME RoundInv, done
    PROVE  \E q \in Rankings(Pool, scores) : PlayedWith(q)
<1>1. ActiveN \in Nat /\ Capacity \in Nat
  BY FS_CardinalityType, RoundAssumption DEF ActiveN, RoundInv
<1>2. PICK q \in Rankings(Pool, scores) :
        /\ victims = RoundVictims(q, ActiveN, Capacity)
        /\ parents \in RoundParents(q, ActiveN, Capacity, warm)
  BY DEF RoundInv
<1>3. q \in Seq(Pool)
  BY RankingFacts DEF RoundInv
<1>4. victims = {q[i] : i \in Cut(q, ActiveN, Capacity) + 1 .. Len(q)}
  BY <1>1, <1>2, <1>3, RoundVictimsAreTheTail
<1>5. PlayedWith(q)
  BY <1>1, <1>2, <1>3, <1>4 DEF PlayedWith
<1> QED
  BY <1>5

\* A round prunes the excess and the swapped-out traces, no trace twice.
LEMMA VictimsCount ==
    ASSUME NEW S, IsFiniteSet(S), NEW f, NEW q \in Rankings(S, f), NEW active_n \in Nat,
           NEW V, V = {q[i] : i \in Cut(q, active_n, Capacity) + 1 .. Len(q)}
    PROVE  Cardinality(V) = Excess(q, active_n, Capacity) + SwapSize(q, active_n, Capacity)
<1> DEFINE cut == Cut(q, active_n, Capacity)
           e == Excess(q, active_n, Capacity)
           k == SwapSize(q, active_n, Capacity)
           low == cut + 1 .. Len(q)
           g == [i \in low |-> q[i]]
<1>1. Len(q) \in Nat /\ \A i, j \in 1 .. Len(q) : q[i] = q[j] => i = j
  BY RankingFacts
<1>2. /\ e \in 0 .. Len(q) /\ k \in 0 .. (Len(q) - e) \div 2 /\ cut = Len(q) - e - k
      /\ cut \in 0 .. Len(q)
  BY <1>1, CutFacts, RoundAssumption DEF Cut
<1> HIDE DEF cut, e, k
<1>3. cut + 1 \in Int /\ Len(q) \in Int
  BY <1>1, <1>2
<1>4. /\ IsFiniteSet(low)
      /\ Cardinality(low) = (IF cut + 1 > Len(q) THEN 0 ELSE Len(q) - (cut + 1) + 1)
  BY <1>3, FS_Interval
<1>5. (Len(q) - e) \div 2 \in Int
  BY <1>1, <1>2
<1>6. Cardinality(low) = e + k
  BY <1>1, <1>2, <1>4, <1>5
<1>7. low \subseteq 1 .. Len(q)
  BY <1>1, <1>2
<1>8. V = {q[i] : i \in low}
  BY DEF cut
<1> HIDE DEF low
<1>9. g \in [low -> V] /\ g \in Surjection(low, V)
  BY <1>8 DEF Surjection
<1>10. \A i, j \in low : g[i] = g[j] => i = j
  BY <1>1, <1>7
<1>11. g \in Bijection(low, V)
  BY <1>9, <1>10 DEF Bijection, Injection, IsInjective
<1>12. ExistsBijection(low, V)
  BY <1>11 DEF ExistsBijection
<1>13. Cardinality(V) = Cardinality(low)
  BY <1>4, <1>12, FS_Bijection
<1> QED
  BY <1>6, <1>13 DEF e, k

\* A round prunes no trace in favour of a worse one, whatever the scores, ties
\* included, the capacity and the swap size.
THEOREM RoundPrunesTheLowest == RoundSpec => []VictimsAreLowest
<1>1. RoundInv => VictimsAreLowest
  <2> SUFFICES ASSUME RoundInv, NEW v \in victims, NEW s \in Survivors, done
               PROVE  scores[v] <= scores[s]
    BY DEF VictimsAreLowest
  <2>0. PICK q \in Rankings(Pool, scores) : PlayedWith(q)
    BY VictimsAreTail
  <2>1. /\ q \in Seq(Pool) /\ ActiveN \in Nat
        /\ victims = {q[i] : i \in Cut(q, ActiveN, Capacity) + 1 .. Len(q)}
        /\ parents \in RoundParents(q, ActiveN, Capacity, warm)
    BY <2>0 DEF PlayedWith
  <2> DEFINE cut == Cut(q, ActiveN, Capacity)
  <2>2. /\ Len(q) \in Nat
        /\ \A i \in 1 .. Len(q) : q[i] \in Pool
        /\ \A x \in Pool : \E i \in 1 .. Len(q) : q[i] = x
        /\ \A i, j \in 1 .. Len(q) : i < j => scores[q[i]] >= scores[q[j]]
    BY RankingFacts DEF RoundInv
  <2>3. cut \in 0 .. Len(q)
    BY <2>1, <2>2, CutFacts, RoundAssumption
  <2> HIDE DEF cut
  <2>4. PICK j \in cut + 1 .. Len(q) : v = q[j]
    BY <2>1 DEF cut
  <2>5. PICK i \in 1 .. Len(q) : s = q[i]
    BY <2>2 DEF Survivors
  <2>6. i \notin cut + 1 .. Len(q)
    BY <2>1, <2>5 DEF Survivors, cut
  <2>7. i < j /\ j \in 1 .. Len(q)
    BY <2>2, <2>3, <2>4, <2>6
  <2>8. scores[s] >= scores[v] /\ scores[s] \in Int /\ scores[v] \in Int
    BY <2>2, <2>4, <2>5, <2>7 DEF RoundInv
  <2> QED
    BY <2>8
<1> QED
  BY <1>1, RoundInvHolds, PTL

\* The parents a round that was played asks for are warm traces, not swapped out by
\* it, and as many as it has slots for at most.
LEMMA ParentsOfRound ==
    ASSUME RoundInv, NEW q \in Rankings(Pool, scores), ActiveN \in Nat,
           parents \in RoundParents(q, ActiveN, Capacity, warm)
    PROVE  /\ Len(parents) \in Nat /\ DOMAIN parents = 1 .. Len(parents)
           /\ Len(parents) <= BranchSlots(q, ActiveN, Capacity)
           /\ \A i \in 1 .. Len(parents) :
                parents[i] \in warm \ BottomK(q, ActiveN, Capacity)
<1> DEFINE slots == BranchSlots(q, ActiveN, Capacity)
           candidates == warm \ BottomK(q, ActiveN, Capacity)
<1>1. IsFiniteSet(Pool) /\ candidates \subseteq Pool
  BY DEF RoundInv
<1>2. IsFiniteSet(candidates)
  BY <1>1, FS_Subset
<1>3. slots \in Nat
  <2>1. Len(q) \in Nat
    BY <1>1, RankingFacts
  <2>2. SwapSize(q, ActiveN, Capacity) \in 0 .. (Len(q) - Excess(q, ActiveN, Capacity)) \div 2
    BY <2>1, CutFacts, RoundAssumption
  <2> QED
    BY <2>2, RoundAssumption DEF BranchSlots
<1>4. parents \in Picks(q, candidates, slots)
  BY DEF RoundParents
<1> HIDE DEF candidates, slots
<1>5. /\ Len(parents) \in Nat /\ DOMAIN parents = 1 .. Len(parents) /\ Len(parents) <= slots
      /\ \A i \in 1 .. Len(parents) : parents[i] \in candidates
  BY <1>2, <1>3, <1>4, PicksFacts
<1> QED
  BY <1>5 DEF candidates, slots

\* A round brings the pool back to capacity, or prunes all it can rank, and the
\* branches it asks for fit, greedy or random.
THEOREM RoundRespectsCapacity == RoundSpec => []BackToCapacity
<1>1. RoundInv => BackToCapacity
  <2> DEFINE left == ActiveN - Cardinality(victims)
  <2> SUFFICES ASSUME RoundInv, done
               PROVE  left + Len(parents) <= Capacity \/ Survivors = {}
    BY DEF BackToCapacity
  <2>0. PICK q \in Rankings(Pool, scores) : PlayedWith(q)
    BY VictimsAreTail
  <2>1. /\ q \in Seq(Pool) /\ ActiveN \in Nat
        /\ victims = {q[i] : i \in Cut(q, ActiveN, Capacity) + 1 .. Len(q)}
        /\ parents \in RoundParents(q, ActiveN, Capacity, warm)
    BY <2>0 DEF PlayedWith
  <2> DEFINE e == Excess(q, ActiveN, Capacity)
             k == SwapSize(q, ActiveN, Capacity)
  <2>2. /\ Len(q) \in Nat
        /\ \A x \in Pool : \E i \in 1 .. Len(q) : q[i] = x
    BY RankingFacts DEF RoundInv
  <2>3. /\ e \in 0 .. Len(q) /\ k \in 0 .. (Len(q) - e) \div 2
        /\ Cut(q, ActiveN, Capacity) = Len(q) - e - k /\ Capacity \in Nat
    BY <2>1, <2>2, CutFacts, RoundAssumption DEF Cut
  <2>4. Cardinality(victims) = e + k
    BY <2>1, VictimsCount DEF RoundInv
  <2>5. Len(parents) \in Nat /\ Len(parents) <= BranchSlots(q, ActiveN, Capacity)
    BY <2>1, ParentsOfRound
  <2>6. CASE ActiveN < Capacity
    <3>1. e = 0 /\ k = 0
      BY <2>6 DEF Excess, SwapSize
    <3>2. Len(parents) <= Capacity - ActiveN
      BY <2>5, <2>6 DEF BranchSlots
    <3> HIDE DEF e, k
    <3>3. left = ActiveN
      BY <2>1, <2>4, <3>1
    <3> HIDE DEF left
    <3> QED
      BY <2>1, <2>3, <2>5, <3>2, <3>3
  <2>7. CASE ~(ActiveN < Capacity)
    <3>1. Len(parents) <= k
      BY <2>5, <2>7 DEF BranchSlots
    <3> DEFINE over == ActiveN - Capacity
               n == Len(q)
    <3>2. over \in Int /\ n \in Int /\ e = Min({over, n})
      BY <2>1, <2>2, <2>3, <2>7 DEF Excess
    <3>3. Min({over, n}) \in {over, n}
      <4> HIDE DEF over, n
      <4> QED
        BY <3>2, MinOfPair, Zenon
    <3>4. CASE e = over
      <4> HIDE DEF e, k
      <4>1. (Len(q) - e) \div 2 \in Int
        BY <2>2, <2>3
      <4>2. left + k = Capacity
        BY <2>1, <2>3, <2>4, <3>4, <4>1
      <4>3. left \in Int /\ k \in Int
        BY <2>1, <2>3, <2>4, <4>1
      <4> HIDE DEF left
      <4> QED
        BY <2>3, <2>5, <3>1, <4>2, <4>3
    <3>5. CASE e = n
      <4> HIDE DEF e, k
      <4>1. k = 0
        BY <2>2, <2>3, <3>5
      <4>2. victims = {q[i] : i \in 1 .. Len(q)}
        BY <2>1, <2>2, <2>3, <3>5, <4>1
      <4> QED
        BY <2>2, <4>2 DEF Survivors
    <3> QED
      BY <3>2, <3>3, <3>4, <3>5
  <2> QED
    BY <2>6, <2>7
<1> QED
  BY <1>1, RoundInvHolds, PTL

\* A greedy round asks a trace it prunes to branch only when every warm trace that
\* survives is asked as well.
LEMMA GreedyWastesNone ==
    ASSUME ~BranchRandom, RoundInv PROVE NoBranchIsWasted
<1> SUFFICES ASSUME NEW v \in Range(parents) \cap victims,
                    NEW s \in warm \cap Survivors
             PROVE  s \in Range(parents)
  BY DEF NoBranchIsWasted
<1>1. done
  BY DEF RoundInv, Range
<1>0. PICK q \in Rankings(Pool, scores) : PlayedWith(q)
  BY <1>1, VictimsAreTail
<1>2. /\ q \in Seq(Pool) /\ ActiveN \in Nat
      /\ victims = {q[i] : i \in Cut(q, ActiveN, Capacity) + 1 .. Len(q)}
      /\ parents \in RoundParents(q, ActiveN, Capacity, warm)
  BY <1>0 DEF PlayedWith
<1> DEFINE cut == Cut(q, ActiveN, Capacity)
           bottom_k == BottomK(q, ActiveN, Capacity)
<1>3. /\ Len(q) \in Nat
      /\ \A x \in Pool : \E i \in 1 .. Len(q) : q[i] = x
      /\ \A i, j \in 1 .. Len(q) : q[i] = q[j] => i = j
  BY RankingFacts DEF RoundInv
<1>4. cut \in 0 .. Len(q) /\ victims = {q[i] : i \in cut + 1 .. Len(q)}
  BY <1>2, <1>3, CutFacts, RoundAssumption
<1>5. DOMAIN parents = 1 .. Len(parents) /\ Len(parents) \in Nat
  BY <1>2, ParentsOfRound
<1>6. PICK m \in 1 .. Len(parents) : parents[m] = v
  BY <1>5 DEF Range
<1>7. bottom_k \subseteq victims
  <2>1. victims = RoundVictims(q, ActiveN, Capacity)
    BY <1>2, RoundVictimsAreTheTail, RoundAssumption
  <2> QED
    BY <2>1 DEF RoundVictims
<1>8. s \in warm \ bottom_k /\ s \in Pool /\ s \notin victims
  BY <1>7 DEF Survivors, RoundInv
<1>9. SUFFICES ASSUME s \notin {parents[j] : j \in 1 .. m} PROVE FALSE
  BY <1>5 DEF Range
<1>10. Above(q, v, s)
  BY <1>2, <1>6, <1>8, <1>9 DEF RoundParents, Picks
<1>11. PICK i \in 1 .. Len(q), j \in 1 .. Len(q) : i < j /\ q[i] = v /\ q[j] = s
  BY <1>10 DEF Above
<1> HIDE DEF cut
<1>12. j <= cut
  BY <1>3, <1>4, <1>8, <1>11
<1>13. PICK l \in cut + 1 .. Len(q) : q[l] = v
  BY <1>4
<1>14. l = i
  BY <1>3, <1>4, <1>11, <1>13
<1> QED
  BY <1>3, <1>4, <1>11, <1>12, <1>13, <1>14

\* A greedy round wastes no branch on a trace it prunes while a warm survivor is
\* left to ask.
THEOREM RoundWastesNoBranch ==
    ASSUME ~BranchRandom PROVE RoundSpec => []NoBranchIsWasted
<1>1. RoundInv => NoBranchIsWasted
  BY GreedyWastesNone
<1> QED
  BY <1>1, RoundInvHolds, PTL

\* As many traces are picked as there are slots for, or as there are candidates.
LEMMA PicksCount ==
    ASSUME NEW ranking, NEW candidates, IsFiniteSet(candidates), NEW n \in Nat,
           NEW q \in Picks(ranking, candidates, n), NEW m \in Nat, m <= n,
           m <= Cardinality(candidates)
    PROVE  m <= Cardinality(Range(q))
<1> DEFINE c == Cardinality(candidates)
<1>1. PICK S \in SUBSET candidates : q \in Orders(S)
  BY DEF Picks
<1>2. Cardinality(S) \in Nat /\ c \in Nat
  BY FS_Subset, FS_CardinalityType
<1>3. DOMAIN q = 1 .. Cardinality(S) /\ Range(q) = S
  BY <1>1 DEF Orders, Bijection, Injection, Surjection, Range
<1>4. q \in Seq(candidates)
  BY PicksAreCandidates
<1>5. Len(q) = Cardinality(S)
  <2>1. Len(q) \in Nat /\ DOMAIN q = 1 .. Len(q)
    BY <1>4, LenProperties
  <2> QED
    BY <1>2, <1>3, <2>1, SMT
<1>6. Len(q) = Min({n, c})
  BY DEF Picks
<1> HIDE DEF c
<1>7. n \in Int /\ c \in Int
  BY <1>2
<1>8. Min({n, c}) \in {n, c}
  BY <1>7, MinOfPair, Zenon
<1>9. m <= Min({n, c})
  BY <1>8 DEF c
<1> QED
  BY <1>3, <1>5, <1>6, <1>9

\* A greedy round over warm traces leaves the pool at capacity, or every ranked
\* trace branches: each trace swapped out is made up for by a branch of a survivor.
THEOREM RoundKeepsPoolFull ==
    ASSUME ~BranchRandom PROVE RoundSpec => []PoolStaysFull
<1>1. RoundInv => PoolStaysFull
  <2> DEFINE asked == Range(parents) \cap Survivors
             left == ActiveN - Cardinality(victims)
  <2> SUFFICES ASSUME RoundInv, done, Pool \subseteq warm
               PROVE  left + Cardinality(asked) >= Min({Capacity, ActiveN + Cardinality(Pool)})
    BY DEF PoolStaysFull
  <2>0. PICK q \in Rankings(Pool, scores) : PlayedWith(q)
    BY VictimsAreTail
  <2>1. /\ q \in Seq(Pool) /\ ActiveN \in Nat /\ Capacity \in Nat
        /\ victims = {q[i] : i \in Cut(q, ActiveN, Capacity) + 1 .. Len(q)}
        /\ parents \in RoundParents(q, ActiveN, Capacity, warm)
    BY <2>0, RoundAssumption DEF PlayedWith
  <2> DEFINE e == Excess(q, ActiveN, Capacity)
             k == SwapSize(q, ActiveN, Capacity)
  <2>2. /\ Len(q) \in Nat /\ Len(q) = Cardinality(Pool)
        /\ \A i \in 1 .. Len(q) : q[i] \in Pool
    BY RankingFacts DEF RoundInv
  <2>3. /\ e \in 0 .. Len(q) /\ k \in 0 .. (Len(q) - e) \div 2
        /\ Cut(q, ActiveN, Capacity) \in 0 .. Len(q)
    BY <2>1, <2>2, CutFacts
  <2>4. Cardinality(victims) = e + k
    BY <2>1, VictimsCount DEF RoundInv
  <2>5. victims \subseteq Pool /\ Pool \cap victims = victims
    BY <2>1, <2>2, <2>3
  <2>6. IsFiniteSet(Pool) /\ warm = Pool /\ Survivors \subseteq Pool
    BY DEF RoundInv, Survivors
  <2>7. IsFiniteSet(Survivors) /\ Cardinality(Survivors) = Cardinality(Pool) - Cardinality(victims)
    BY <2>5, <2>6, FS_Difference DEF Survivors
  <2>8. IsFiniteSet(asked) /\ Cardinality(asked) \in Nat
    BY <2>7, FS_Subset, FS_CardinalityType
  <2>9. k \in Nat /\ e \in Nat /\ k <= Cardinality(Survivors)
    <3> HIDE DEF e, k
    <3>1. (Len(q) - e) \div 2 \in Int /\ 2 * ((Len(q) - e) \div 2) <= Len(q) - e
      BY <2>2, <2>3, SMT
    <3> QED
      BY <2>2, <2>3, <2>4, <2>7, <3>1, SMT
  <2>10. /\ Min({Capacity, ActiveN + Cardinality(Pool)}) <= Capacity
         /\ Min({Capacity, ActiveN + Cardinality(Pool)}) <= ActiveN + Cardinality(Pool)
         /\ Min({Capacity, ActiveN + Cardinality(Pool)}) \in Int
    <3> DEFINE all == ActiveN + Cardinality(Pool)
    <3>1. Capacity \in Int /\ all \in Int
      BY <2>1, <2>2, SMT
    <3> HIDE DEF all
    <3>2. Min({Capacity, all}) \in {Capacity, all} /\ Min({Capacity, all}) <= Capacity
          /\ Min({Capacity, all}) <= all
      BY <3>1, MinOfPair, Zenon
    <3>3. Min({Capacity, all}) \in Int
      BY <3>1, <3>2, Zenon
    <3> QED
      BY <3>2, <3>3 DEF all
  <2>11. ASSUME NEW m \in Nat, m <= BranchSlots(q, ActiveN, Capacity),
                m <= Cardinality(Survivors), BranchSlots(q, ActiveN, Capacity) \in Nat
         PROVE  m <= Cardinality(asked)
    <3>1. CASE Range(parents) \cap victims # {}
      <4>1. asked = Survivors
        BY <2>6, <3>1, GreedyWastesNone DEF NoBranchIsWasted
      <4> QED
        BY <2>11, <4>1
    <3>2. CASE Range(parents) \cap victims = {}
      <4> DEFINE candidates == warm \ BottomK(q, ActiveN, Capacity)
                 slots == BranchSlots(q, ActiveN, Capacity)
      <4>1. DOMAIN parents = 1 .. Len(parents)
            /\ \A i \in 1 .. Len(parents) : parents[i] \in candidates
        BY <2>1, ParentsOfRound
      <4>2. Range(parents) \subseteq candidates
        BY <4>1 DEF Range
      <4>3. asked = Range(parents)
        BY <2>6, <3>2, <4>2 DEF Survivors
      <4>4. victims = RoundVictims(q, ActiveN, Capacity)
        BY <2>1, RoundVictimsAreTheTail
      <4>5. BottomK(q, ActiveN, Capacity) \subseteq victims
        BY <4>4 DEF RoundVictims
      <4>6. Survivors \subseteq candidates /\ candidates \subseteq Pool
        BY <2>6, <4>5 DEF Survivors
      <4>7. IsFiniteSet(candidates)
        BY <2>6, <4>6, FS_Subset
      <4>8. Cardinality(Survivors) <= Cardinality(candidates)
            /\ Cardinality(Survivors) \in Nat /\ Cardinality(candidates) \in Nat
        BY <2>7, <4>6, <4>7, FS_Subset, FS_CardinalityType
      <4>9. parents \in Picks(q, candidates, slots) /\ slots \in Nat /\ m <= slots
        BY <2>1, <2>11 DEF RoundParents
      <4> HIDE DEF candidates, slots, asked
      <4>10. m <= Cardinality(candidates)
        BY <2>11, <4>8, SMT
      <4> QED
        BY <4>3, <4>7, <4>9, <4>10, PicksCount
    <3> QED
      BY <3>1, <3>2
  <2>12. CASE ActiveN < Capacity
    <3> DEFINE empty == Capacity - ActiveN
    <3>1. e = 0 /\ k = 0
      BY <2>12 DEF Excess, SwapSize
    <3>2. empty \in Nat /\ BranchSlots(q, ActiveN, Capacity) = empty
      BY <2>1, <2>12 DEF BranchSlots
    <3> HIDE DEF e, k, asked
    <3>3. Cardinality(victims) = 0 /\ Cardinality(Survivors) = Cardinality(Pool)
          /\ Cardinality(Pool) \in Nat
      BY <2>2, <2>4, <2>7, <3>1, SMT
    <3> HIDE DEF empty
    <3>4. CASE empty <= Cardinality(Pool)
      <4>1. empty <= Cardinality(asked)
        BY <2>11, <3>2, <3>3, <3>4
      <4> QED
        BY <2>1, <2>8, <2>10, <3>3, <4>1, SMT DEF empty
    <3>5. CASE Cardinality(Pool) <= empty
      <4>1. Cardinality(Pool) <= Cardinality(asked)
        BY <2>11, <3>2, <3>3, <3>5
      <4> QED
        BY <2>1, <2>8, <2>10, <3>3, <4>1, SMT
    <3> QED
      BY <3>2, <3>3, <3>4, <3>5, SMT
  <2>13. CASE ~(ActiveN < Capacity)
    <3>1. k <= Cardinality(asked)
      <4>1. BranchSlots(q, ActiveN, Capacity) = k
        BY <2>13 DEF BranchSlots
      <4> HIDE DEF k, asked
      <4> QED
        BY <2>9, <2>11, <4>1
    <3>2. e <= ActiveN - Capacity
      <4> DEFINE over == ActiveN - Capacity
                 n == Len(q)
      <4>1. over \in Int /\ n \in Int /\ e = Min({over, n})
        BY <2>1, <2>2, <2>13 DEF Excess
      <4> HIDE DEF over, n, e
      <4>2. Min({over, n}) <= over
        BY <4>1, MinOfPair, Zenon
      <4> QED
        BY <4>1, <4>2 DEF over
    <3> HIDE DEF e, k, asked
    <3> QED
      BY <2>1, <2>4, <2>8, <2>9, <2>10, <3>1, <3>2, SMT
  <2> QED
    BY <2>12, <2>13
<1> QED
  BY <1>1, RoundInvHolds, PTL
=============================================================================
