-------------------------- MODULE TournamentProofs --------------------------
(***************************************************************************)
(* What a round of the tournament does to a ranking, for every ranking,    *)
(* every capacity and every swap size: it cuts the list at one place and   *)
(* prunes what is below the cut.                                           *)
(***************************************************************************)
EXTENDS Tournament, FiniteSetTheorems, SequenceTheorems, TLAPS

\* The smaller of two numbers.
LEMMA MinOfPair ==
    ASSUME NEW a \in Int, NEW b \in Int
    PROVE  Min({a, b}) \in {a, b} /\ Min({a, b}) <= a /\ Min({a, b}) <= b
<1>1. \E x \in {a, b} : \A y \in {a, b} : x <= y
  OBVIOUS
<1> QED
  BY <1>1 DEF Min

\* A ranking lists every member of the pool once, the best first.
LEMMA RankingFacts ==
    ASSUME NEW ids, IsFiniteSet(ids), NEW scores, NEW q \in Rankings(ids, scores)
    PROVE  /\ q \in Seq(ids) /\ Len(q) = Cardinality(ids) /\ Len(q) \in Nat
           /\ DOMAIN q = 1 .. Len(q)
           /\ \A i \in 1 .. Len(q) : q[i] \in ids
           /\ \A x \in ids : \E i \in 1 .. Len(q) : q[i] = x
           /\ \A i, j \in 1 .. Len(q) : q[i] = q[j] => i = j
           /\ \A i, j \in 1 .. Len(q) : i < j => scores[q[i]] >= scores[q[j]]
<1> DEFINE n == Cardinality(ids)
<1>1. n \in Nat
  BY FS_CardinalityType
<1>2. /\ q \in Bijection(1 .. n, ids)
      /\ \A i, j \in 1 .. Len(q) : i < j => scores[q[i]] >= scores[q[j]]
  BY DEF Rankings, Orders
<1>3. /\ q \in [1 .. n -> ids]
      /\ \A x \in ids : \E i \in 1 .. n : q[i] = x
      /\ \A i, j \in 1 .. n : q[i] = q[j] => i = j
  BY <1>2 DEF Bijection, Injection, Surjection, IsInjective
<1> HIDE DEF n
<1>4. q \in Seq(ids) /\ Len(q) = n
  BY <1>1, <1>3
<1> QED
  BY <1>1, <1>2, <1>3, <1>4 DEF n

\* What a slice of a list holds.
LEMMA SliceFacts ==
    ASSUME NEW S, NEW q \in Seq(S), NEW a \in 1 .. Len(q) + 1, NEW b \in 0 .. Len(q)
    PROVE  Range(SubSeq(q, a, b)) = {q[i] : i \in a .. b}
<1> DEFINE r == SubSeq(q, a, b)
           m == IF a <= b THEN b - a + 1 ELSE 0
<1>1. /\ Len(q) \in Nat /\ DOMAIN q = 1 .. Len(q)
      /\ \A i \in 1 .. Len(q) : q[i] \in S
  BY LenProperties, ElementOfSeq
<1>2. a \in Int /\ b \in Int /\ m \in Nat
  BY <1>1
<1>3. \A i \in a .. b : q[i] \in S
  BY <1>1
<1>4. /\ r \in Seq(S) /\ Len(r) = m
      /\ \A i \in 1 .. b - a + 1 : r[i] = q[a + i - 1]
  BY <1>2, <1>3, SubSeqProperties
<1>5. DOMAIN r = 1 .. m
  BY <1>4, LenProperties
<1> HIDE DEF r
<1>6. ASSUME NEW x \in Range(r) PROVE x \in {q[i] : i \in a .. b}
  <2>1. PICK i \in 1 .. m : x = r[i]
    BY <1>5 DEF Range
  <2>2. a <= b /\ i \in 1 .. b - a + 1 /\ a + i - 1 \in a .. b
    BY <1>2
  <2> QED
    BY <1>4, <2>1, <2>2
<1>7. ASSUME NEW i \in a .. b PROVE q[i] \in Range(r)
  <2>1. i - a + 1 \in 1 .. b - a + 1 /\ i - a + 1 \in 1 .. m /\ a + (i - a + 1) - 1 = i
    BY <1>2
  <2>2. r[i - a + 1] = q[i]
    BY <1>4, <2>1
  <2> QED
    BY <1>5, <2>1, <2>2 DEF Range
<1> QED
  BY <1>6, <1>7 DEF r

\* The place where a round cuts a ranking.
Cut(ranking, active_n, capacity) ==
    Len(ranking) - Excess(ranking, active_n, capacity)
      - SwapSize(ranking, active_n, capacity)

\* The excess and the swap are counts of ranked traces.
LEMMA CutFacts ==
    ASSUME NEW q, Len(q) \in Nat, NEW active_n \in Nat, NEW capacity \in Nat
    PROVE  /\ Excess(q, active_n, capacity) \in 0 .. Len(q)
           /\ SwapSize(q, active_n, capacity) \in
                0 .. (Len(q) - Excess(q, active_n, capacity)) \div 2
           /\ Cut(q, active_n, capacity) \in 0 .. Len(q)
<1> USE TournamentAssumption
<1> DEFINE e == Excess(q, active_n, capacity)
           k == SwapSize(q, active_n, capacity)
<1>1. e \in 0 .. Len(q)
  <2>1. CASE active_n < capacity
    BY <2>1 DEF Excess
  <2>2. CASE ~(active_n < capacity)
    <3>1. active_n - capacity \in Nat
      BY <2>2
    <3>2. e = Min({active_n - capacity, Len(q)})
      BY <2>2 DEF Excess
    <3> DEFINE over == active_n - capacity
               n == Len(q)
    <3>3. over \in Nat /\ n \in Nat /\ over \in Int /\ n \in Int
      BY <3>1
    <3>4. e = Min({over, n})
      BY <3>2
    <3> HIDE DEF e, over, n
    <3>5. Min({over, n}) \in {over, n} /\ Min({over, n}) <= over /\ Min({over, n}) <= n
      BY <3>3, MinOfPair, Zenon
    <3>6. e \in 0 .. n
      BY <3>3, <3>4, <3>5
    <3> QED
      BY <3>6 DEF n
  <2> QED
    BY <2>1, <2>2
<1>2. (Len(q) - e) \div 2 \in 0 .. Len(q) - e
  BY <1>1
<1>3. k = (IF active_n < capacity THEN 0 ELSE Min({SwapK, (Len(q) - e) \div 2}))
  BY DEF SwapSize, e, k
<1> HIDE DEF e, k
<1>4. k \in 0 .. (Len(q) - e) \div 2
  <2> DEFINE half == (Len(q) - e) \div 2
  <2>1. half \in Nat /\ k = (IF active_n < capacity THEN 0 ELSE Min({SwapK, half}))
    BY <1>1, <1>2, <1>3
  <2> HIDE DEF half
  <2>2. Min({SwapK, half}) \in {SwapK, half} /\ Min({SwapK, half}) <= half
    BY <2>1, MinOfPair
  <2>3. k \in 0 .. half
    BY <2>1, <2>2
  <2> QED
    BY <2>3 DEF half
<1>5. Len(q) - e - k \in 0 .. Len(q)
  BY <1>1, <1>2, <1>4
<1> QED
  BY <1>1, <1>4, <1>5 DEF e, k, Cut

\* A round prunes exactly what is ranked below the cut.
LEMMA RoundVictimsAreTheTail ==
    ASSUME NEW S, NEW q \in Seq(S), NEW active_n \in Nat, NEW capacity \in Nat
    PROVE  RoundVictims(q, active_n, capacity) =
             {q[i] : i \in Cut(q, active_n, capacity) + 1 .. Len(q)}
<1> DEFINE e == Excess(q, active_n, capacity)
           k == SwapSize(q, active_n, capacity)
           kept == Len(q) - e
<1>1. Len(q) \in Nat
  BY LenProperties
<1>2. /\ e \in 0 .. Len(q) /\ k \in 0 .. kept \div 2
      /\ Cut(q, active_n, capacity) = kept - k
  BY <1>1, CutFacts DEF Cut
<1>3. RoundVictims(q, active_n, capacity) =
        Range(SubSeq(q, kept - k + 1, kept)) \cup Range(SubSeq(q, kept + 1, Len(q)))
  BY DEF RoundVictims, BottomK
<1> HIDE DEF e, k
<1>4. /\ kept - k + 1 \in 1 .. Len(q) + 1 /\ kept \in 0 .. Len(q)
      /\ kept + 1 \in 1 .. Len(q) + 1 /\ Len(q) \in 0 .. Len(q) /\ k \in Nat
  BY <1>1, <1>2
<1>5. /\ Range(SubSeq(q, kept - k + 1, kept)) = {q[i] : i \in kept - k + 1 .. kept}
      /\ Range(SubSeq(q, kept + 1, Len(q))) = {q[i] : i \in kept + 1 .. Len(q)}
  BY <1>4, SliceFacts
<1>6. kept - k + 1 .. Len(q) = (kept - k + 1 .. kept) \cup (kept + 1 .. Len(q))
  BY <1>1, <1>4
<1> HIDE DEF kept
<1> QED
  BY <1>2, <1>3, <1>5, <1>6

\* The parents a round asks for are candidates.
LEMMA PicksAreCandidates ==
    ASSUME NEW ranking, NEW candidates, IsFiniteSet(candidates), NEW n,
           NEW q \in Picks(ranking, candidates, n)
    PROVE  /\ q \in Seq(candidates) /\ Len(q) \in Nat /\ DOMAIN q = 1 .. Len(q)
           /\ \A i \in 1 .. Len(q) : q[i] \in candidates
<1>1. PICK S \in SUBSET candidates : q \in Orders(S)
  BY DEF Picks
<1>2. Cardinality(S) \in Nat
  BY FS_Subset, FS_CardinalityType
<1>3. q \in [1 .. Cardinality(S) -> S]
  BY <1>1 DEF Orders, Bijection, Injection
<1>4. q \in Seq(S) /\ Len(q) = Cardinality(S)
  BY <1>2, <1>3, SeqDef
<1>5. \A i \in 1 .. Len(q) : q[i] \in S
  BY <1>3, <1>4
<1>6. q \in Seq(candidates)
  BY <1>4
<1> QED
  BY <1>2, <1>3, <1>4, <1>5, <1>6

\* There are no more of them than the round has slots for.
LEMMA PicksFacts ==
    ASSUME NEW ranking, NEW candidates, IsFiniteSet(candidates), NEW n \in Nat,
           NEW q \in Picks(ranking, candidates, n)
    PROVE  /\ q \in Seq(candidates) /\ Len(q) \in Nat /\ Len(q) <= n
           /\ DOMAIN q = 1 .. Len(q)
           /\ \A i \in 1 .. Len(q) : q[i] \in candidates
<1> DEFINE c == Cardinality(candidates)
<1>1. c \in Int /\ n \in Int
  BY FS_CardinalityType
<1>2. Len(q) = Min({n, c})
  BY DEF Picks
<1> HIDE DEF c
<1>3. Min({n, c}) <= n
  BY <1>1, MinOfPair, Zenon
<1> QED
  BY <1>2, <1>3, PicksAreCandidates
=============================================================================
