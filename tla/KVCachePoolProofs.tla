-------------------------- MODULE KVCachePoolProofs --------------------------
(***************************************************************************)
(* Proofs about the block pool, for every number of requests and blocks,   *)
(* every block size and maximal length and every scheduling policy: who    *)
(* holds which block, what the free queue has and which hash a block       *)
(* carries; from this, what requests share and that one request fits.      *)
(***************************************************************************)
EXTENDS KVCache, FiniteSetTheorems, TLAPS

-----------------------------------------------------------------------------
(***************************************************************************)
(* The inductive invariant.                                                *)
(***************************************************************************)

\* The batch is not computed yet.
Scheduling == phase \in {"running", "waiting", "scheduled"}

\* A request has at least one token, and stops before it has MaxLen of them.
RequestInv ==
    /\ \A r \in Live : tokens[r] \in Seq(Tokens) /\ Len(tokens[r]) \in 1 .. MaxLen - 1
    /\ DOMAIN computed = Live
    /\ \A r \in Live : computed[r] \in 0 .. Len(tokens[r]) /\ (r \notin running => computed[r] = 0)
    /\ running \subseteq Live /\ DOMAIN batch \subseteq running
    /\ \A r \in DOMAIN batch :
         batch[r] \in Nat /\ (Scheduling => computed[r] + batch[r] <= Len(tokens[r]))
    /\ phase \in {"idle", "running", "waiting", "scheduled", "executed", "stopping"}
    /\ phase = "idle" => DOMAIN batch = {}

PoolTypeInv ==
    /\ free \in Seq(Blocks) /\ IsInjective(free)
    /\ ref_cnt \in [Blocks -> Nat]
    /\ block_hash \in [Blocks -> Seq(Tokens)]
    /\ DOMAIN content = Blocks
    /\ \A h \in DOMAIN cached : cached[h] \in Seq(Blocks) /\ cached[h] # <<>>

\* Only running requests hold blocks, each block once.
HolderInv ==
    /\ IsFiniteSet(DOMAIN req_to_blocks)
    /\ running \subseteq DOMAIN req_to_blocks /\ DOMAIN num_cached_block = running
    /\ \A r \in DOMAIN req_to_blocks :
         /\ req_to_blocks[r] \in Seq(Blocks) /\ IsInjective(req_to_blocks[r])
         /\ r \notin running => req_to_blocks[r] = <<>>

Holders(b) == {r \in DOMAIN req_to_blocks : b \in Range(Held(r))}

AccountInv ==
    /\ \A b \in Blocks : ref_cnt[b] = Cardinality(Holders(b))
    /\ Range(free) = {b \in Blocks : ref_cnt[b] = 0}

\* The blocks a request counts as cached carry the hash of its own tokens, the
\* others none, and nobody else holds those.
HashInv ==
    /\ \A h \in DOMAIN cached : h # NoHash /\ \A b \in Range(cached[h]) : block_hash[b] = h
    /\ \A r \in running :
         /\ num_cached_block[r] \in 0 .. Len(req_to_blocks[r])
         /\ num_cached_block[r] * BlockSize <= Len(tokens[r])
         /\ \A k \in 1 .. Len(req_to_blocks[r]) :
              block_hash[req_to_blocks[r][k]] =
                  IF k <= num_cached_block[r] THEN Prefix(r, k * BlockSize) ELSE NoHash
    /\ \A r, q \in running : r # q =>
         \A k \in num_cached_block[r] + 1 .. Len(req_to_blocks[r]) :
            req_to_blocks[r][k] \notin Range(req_to_blocks[q])

PoolInv == RequestInv /\ PoolTypeInv /\ HolderInv /\ AccountInv /\ HashInv

-----------------------------------------------------------------------------
(***************************************************************************)
(* Sequences: domain, members and range, and what \o, SubSeq, Append do.   *)
(***************************************************************************)
LEMMA DomainOfSeq ==
    ASSUME NEW S, NEW s \in Seq(S)
    PROVE  Len(s) \in Nat /\ DOMAIN s = 1 .. Len(s) /\ s \in [1 .. Len(s) -> S]
  BY SMT

LEMMA MemberOfSeq ==
    ASSUME NEW S, NEW s \in Seq(S), NEW i \in 1 .. Len(s) PROVE s[i] \in S
  BY SMT

LEMMA FunctionIsSeq ==
    ASSUME NEW S, NEW n \in Nat, NEW s \in [1 .. n -> S] PROVE s \in Seq(S) /\ Len(s) = n
  BY SMT

LEMMA EmptyOrLong ==
    ASSUME NEW S
    PROVE  /\ <<>> \in Seq(S) /\ Len(<<>>) = 0
           /\ \A s \in Seq(S) : s # <<>> => Len(s) \in Nat \ {0}
  BY SMT

LEMMA EqualSeqs ==
    ASSUME NEW S, NEW s \in Seq(S), NEW t \in Seq(S), Len(s) = Len(t),
           \A i \in 1 .. Len(s) : s[i] = t[i]
    PROVE  s = t
  BY SMT

LEMMA ConcatFacts ==
    ASSUME NEW S, NEW s \in Seq(S), NEW t \in Seq(S)
    PROVE  /\ s \o t \in Seq(S) /\ Len(s \o t) = Len(s) + Len(t)
           /\ \A i \in 1 .. Len(s) + Len(t) :
                (s \o t)[i] = IF i <= Len(s) THEN s[i] ELSE t[i - Len(s)]
  BY SMT

LEMMA ConcatNone ==
    ASSUME NEW S, NEW s \in Seq(S) PROVE s \o <<>> = s /\ <<>> \o s = s
  BY SMT

LEMMA SubSeqFacts ==
    ASSUME NEW S, NEW s, NEW m \in Int, NEW n \in Int, \A i \in m .. n : s[i] \in S
    PROVE  /\ SubSeq(s, m, n) \in Seq(S)
           /\ Len(SubSeq(s, m, n)) = IF m <= n THEN n - m + 1 ELSE 0
           /\ \A i \in 1 .. n - m + 1 : SubSeq(s, m, n)[i] = s[m + i - 1]
  BY SMT

LEMMA AppendedFacts ==
    ASSUME NEW S, NEW s \in Seq(S), NEW e \in S
    PROVE  /\ Append(s, e) \in Seq(S) /\ Append(s, e) # <<>>
           /\ Len(Append(s, e)) = Len(s) + 1
           /\ \A i \in 1 .. Len(s) : Append(s, e)[i] = s[i]
           /\ Append(s, e)[Len(s) + 1] = e
  BY SMT

LEMMA RangeInSet ==
    ASSUME NEW S, NEW s \in Seq(S) PROVE Range(s) \subseteq S
  BY SMT DEF Range

LEMMA RangeOfConcat ==
    ASSUME NEW S, NEW s \in Seq(S), NEW t \in Seq(S)
    PROVE  Range(s \o t) = Range(s) \cup Range(t)
<1> DEFINE u == s \o t
<1>1. /\ DOMAIN s = 1 .. Len(s) /\ DOMAIN t = 1 .. Len(t) /\ DOMAIN u = 1 .. Len(s) + Len(t)
      /\ Len(s) \in Nat /\ Len(t) \in Nat
  BY SMT
<1>2. \A i \in DOMAIN s : i \in DOMAIN u /\ u[i] = s[i]
  BY SMT
<1>3. \A i \in DOMAIN t : Len(s) + i \in DOMAIN u /\ u[Len(s) + i] = t[i]
  BY SMT
<1>4. \A i \in DOMAIN u :
        (i \in DOMAIN s /\ u[i] = s[i]) \/ (i - Len(s) \in DOMAIN t /\ u[i] = t[i - Len(s)])
  BY SMT
<1> HIDE DEF u
<1>5. Range(s) \subseteq Range(u)
  BY <1>2 DEF Range
<1>6. Range(t) \subseteq Range(u)
  BY <1>3 DEF Range
<1>7. Range(u) \subseteq Range(s) \cup Range(t)
  BY <1>4 DEF Range
<1> QED
  BY <1>5, <1>6, <1>7 DEF u

-----------------------------------------------------------------------------
(***************************************************************************)
(* Sequences without repetition, and what Kept keeps of one.               *)
(***************************************************************************)
\* x stands before y in the list.
Before(list, x, y) == \E i, j \in DOMAIN list : i < j /\ list[i] = x /\ list[j] = y

USE Zenon

LEMMA MinOfTwo ==
    ASSUME NEW a \in Int, NEW b \in Int
    PROVE  Min({a, b}) = IF a <= b THEN a ELSE b
<1> DEFINE m == IF a <= b THEN a ELSE b
<1>1. m \in {a, b} /\ \A y \in {a, b} : m <= y
  BY SMT
<1>2. \A x \in {a, b} : (\A y \in {a, b} : x <= y) => x = m
  BY <1>1, SMT
<1> HIDE DEF m
<1>3. Min({a, b}) \in {a, b} /\ \A y \in {a, b} : Min({a, b}) <= y
  BY <1>1 DEF Min
<1>4. Min({a, b}) = m
  BY <1>2, <1>3
<1> QED
  BY <1>4 DEF m

LEMMA MaxOfTwo ==
    ASSUME NEW a \in Int, NEW b \in Int
    PROVE  Max({a, b}) = IF a >= b THEN a ELSE b
<1> DEFINE m == IF a >= b THEN a ELSE b
<1>1. m \in {a, b} /\ \A y \in {a, b} : m >= y
  BY SMT
<1>2. \A x \in {a, b} : (\A y \in {a, b} : x >= y) => x = m
  BY <1>1, SMT
<1> HIDE DEF m
<1>3. Max({a, b}) \in {a, b} /\ \A y \in {a, b} : Max({a, b}) >= y
  BY <1>1 DEF Max
<1>4. Max({a, b}) = m
  BY <1>2, <1>3
<1> QED
  BY <1>4 DEF m

\* A bounded set of numbers that is not empty has a greatest element.
LEMMA MaxOfBounded ==
    ASSUME NEW S \in SUBSET Nat, NEW n \in Nat, \A x \in S : x <= n, S # {}
    PROVE  Max(S) \in S /\ \A x \in S : x <= Max(S)
<1> DEFINE D == {n - x : x \in S}
<1>1. D \subseteq Nat /\ D # {}
  <2>1. \A x \in S : n - x \in Nat
    BY SMT
  <2> QED
    BY <2>1
<1>2. PICK d \in D : \A e \in D : ~(<<e, d>> \in OpToRel(<, Nat))
  BY <1>1, NatLessThanWellFounded, WFMin
<1>3. ASSUME NEW e \in D PROVE e >= d
  <2> HIDE DEF D
  <2>1. e \in Nat /\ d \in Nat /\ ~(<<e, d>> \in OpToRel(<, Nat))
    BY <1>1, <1>2
  <2> QED
    BY <2>1, SMT DEF OpToRel
<1>4. PICK x \in S : d = n - x
  BY <1>2
<1>5. \A y \in S : n - y \in D
  OBVIOUS
<1> HIDE DEF D
<1>6. \A y \in S : x >= y
  <2> SUFFICES ASSUME NEW y \in S PROVE x >= y
    OBVIOUS
  <2>1. n - y >= n - x
    BY <1>3, <1>4, <1>5
  <2>2. x \in Nat /\ y \in Nat
    OBVIOUS
  <2> QED
    BY <2>1, <2>2, SMT
<1>7. Max(S) \in S /\ \A y \in S : Max(S) >= y
  BY <1>6 DEF Max
<1>8. \A y \in S : y \in Nat /\ Max(S) \in Nat
  BY <1>7
<1> QED
  BY <1>7, <1>8, SMT

\* The range of a sequence without repetition is as large as the sequence is long.
LEMMA LengthOfInjective ==
    ASSUME NEW S, NEW s \in Seq(S), IsInjective(s)
    PROVE  IsFiniteSet(Range(s)) /\ Cardinality(Range(s)) = Len(s)
<1>1. Len(s) \in Nat /\ DOMAIN s = 1 .. Len(s) /\ s \in [1 .. Len(s) -> S]
  BY DomainOfSeq
<1>2. IsFiniteSet(1 .. Len(s)) /\ Cardinality(1 .. Len(s)) = Len(s)
  <2>1. Len(s) \in Int /\ 1 \in Int
    BY <1>1, SMT
  <2>2. /\ IsFiniteSet(1 .. Len(s))
        /\ Cardinality(1 .. Len(s)) = IF 1 > Len(s) THEN 0 ELSE Len(s) - 1 + 1
    BY <2>1, FS_Interval
  <2> QED
    BY <1>1, <2>2, SMT
<1>3. s \in [1 .. Len(s) -> Range(s)]
  BY <1>1 DEF Range
<1>4. \A t \in Range(s) : \E i \in 1 .. Len(s) : s[i] = t
  BY <1>1 DEF Range
<1>5. s \in Bijection(1 .. Len(s), Range(s))
  BY <1>3, <1>4 DEF Bijection, Injection, Surjection
<1> QED
  BY <1>2, <1>5, FS_Bijection DEF ExistsBijection

\* The n-th of finitely many numbers.
LEMMA PlaceOfRank ==
    ASSUME NEW P \in SUBSET Nat, IsFiniteSet(P)
    PROVE  /\ Cardinality(P) \in Nat
           /\ \A n \in 1 .. Cardinality(P) :
                \E i \in P : Cardinality({j \in P : j <= i}) = n
           /\ \A i \in P : Cardinality({j \in P : j <= i}) \in 1 .. Cardinality(P)
           /\ \A i, k \in P :
                Cardinality({j \in P : j <= i}) = Cardinality({j \in P : j <= k}) => i = k
           /\ \A i, k \in P : i < k =>
                Cardinality({j \in P : j <= i}) < Cardinality({j \in P : j <= k})
<1> DEFINE upto(i) == {j \in P : j <= i}
           rank == [i \in P |-> Cardinality(upto(i))]
<1>1. \A i \in P : upto(i) \in SUBSET P /\ i \in upto(i)
  BY SMT
<1>2. \A i, j \in P : i < j => upto(i) \in SUBSET upto(j) /\ j \notin upto(i)
  <2>1. \A i, j, m \in Nat : i < j => ~(j <= i) /\ (m <= i => m <= j)
    BY SMT
  <2> QED
    BY <2>1
<1>3. \A i \in P : rank[i] = Cardinality(upto(i))
  OBVIOUS
<1>4. Cardinality(P) \in Nat
  BY FS_CardinalityType
<1> HIDE DEF upto
<1>5. \A i \in P : IsFiniteSet(upto(i)) /\ Cardinality(upto(i)) \in Nat
                   /\ Cardinality(upto(i)) <= Cardinality(P) /\ Cardinality(upto(i)) # 0
  <2> SUFFICES ASSUME NEW i \in P
               PROVE  IsFiniteSet(upto(i)) /\ Cardinality(upto(i)) \in Nat
                      /\ Cardinality(upto(i)) <= Cardinality(P) /\ Cardinality(upto(i)) # 0
    OBVIOUS
  <2>1. IsFiniteSet(upto(i)) /\ Cardinality(upto(i)) <= Cardinality(P)
    BY <1>1, FS_Subset
  <2> QED
    BY <1>1, <2>1, FS_CardinalityType, FS_EmptySet
<1>6. \A i \in P : Cardinality(upto(i)) \in 1 .. Cardinality(P)
  BY <1>4, <1>5, SMT
<1>7. \A i, j \in P : i < j => Cardinality(upto(i)) # Cardinality(upto(j))
  <2> SUFFICES ASSUME NEW i \in P, NEW j \in P, i < j,
                      Cardinality(upto(j)) = Cardinality(upto(i))
               PROVE  FALSE
    OBVIOUS
  <2>1. upto(j) = upto(i)
    BY <1>2, <1>5, FS_Subset
  <2> QED
    BY <1>1, <1>2, <2>1
<1>8. \A i, j \in P : Cardinality(upto(i)) = Cardinality(upto(j)) => i = j
  <2> SUFFICES ASSUME NEW i \in P, NEW j \in P,
                      Cardinality(upto(i)) = Cardinality(upto(j))
               PROVE  i = j
    OBVIOUS
  <2>1. ~(i < j) /\ ~(j < i)
    BY <1>7
  <2>2. i \in Nat /\ j \in Nat
    OBVIOUS
  <2> QED
    BY <2>1, <2>2, SMT
<1>9. rank \in Injection(P, 1 .. Cardinality(P))
  BY <1>3, <1>6, <1>8 DEF Injection, IsInjective
<1>10. IsFiniteSet(1 .. Cardinality(P)) /\ Cardinality(1 .. Cardinality(P)) = Cardinality(P)
  <2>1. Cardinality(P) \in Int /\ 1 \in Int
    BY <1>4, SMT
  <2>2. /\ IsFiniteSet(1 .. Cardinality(P))
        /\ Cardinality(1 .. Cardinality(P)) =
             IF 1 > Cardinality(P) THEN 0 ELSE Cardinality(P) - 1 + 1
    BY <2>1, FS_Interval
  <2> QED
    BY <1>4, <2>2, SMT
<1>11. rank \in Surjection(P, 1 .. Cardinality(P))
  BY <1>9, <1>10, FS_Injection
<1>12. \A n \in 1 .. Cardinality(P) : \E i \in P : Cardinality(upto(i)) = n
  BY <1>3, <1>11 DEF Surjection
<1>13. \A i, j \in P : i < j => Cardinality(upto(i)) < Cardinality(upto(j))
  <2> SUFFICES ASSUME NEW i \in P, NEW j \in P, i < j
               PROVE  Cardinality(upto(i)) < Cardinality(upto(j))
    OBVIOUS
  <2>1. upto(i) \in SUBSET upto(j)
    BY <1>2
  <2>2. IsFiniteSet(upto(j))
    BY <1>5
  <2>3. Cardinality(upto(i)) <= Cardinality(upto(j))
    BY <2>1, <2>2, FS_Subset
  <2>4. Cardinality(upto(i)) \in Nat /\ Cardinality(upto(j)) \in Nat
    BY <1>5
  <2>5. Cardinality(upto(i)) # Cardinality(upto(j))
    BY <1>7
  <2> QED
    BY <2>3, <2>4, <2>5, SMT
<1> QED
  BY <1>4, <1>6, <1>8, <1>12, <1>13 DEF upto

\* Kept: the elements of the list that are in the set, in the order of the list,
\* and no repetition that the list has not.
LEMMA KeptProperties ==
    ASSUME NEW S, NEW list \in Seq(S), NEW set
    PROVE  /\ Kept(list, set) \in Seq(S)
           /\ Range(Kept(list, set)) = Range(list) \cap set
           /\ IsInjective(list) => IsInjective(Kept(list, set))
           /\ \A x, y \in set : Before(list, x, y) => Before(Kept(list, set), x, y)
<1> DEFINE P == {i \in DOMAIN list : list[i] \in set}
           place(n) == CHOOSE i \in P : Cardinality({j \in P : j <= i}) = n
           C == Cardinality(P)
           k == [n \in 1 .. C |-> list[place(n)]]
<1>1. Kept(list, set) = k
  BY DEF Kept
<1>2. DOMAIN list = 1 .. Len(list) /\ Len(list) \in Nat /\ list \in [1 .. Len(list) -> S]
  BY DomainOfSeq
<1>3. P \in SUBSET Nat /\ IsFiniteSet(P)
  <2>1. IsFiniteSet(1 .. Len(list))
    BY <1>2, FS_Interval, SMT
  <2>2. P \in SUBSET (1 .. Len(list))
    BY <1>2
  <2>3. 1 .. Len(list) \subseteq Nat
    BY <1>2, SMT
  <2> HIDE DEF P
  <2> QED
    BY <2>1, <2>2, <2>3, FS_Subset
<1>4. \A i \in P : i \in DOMAIN list /\ list[i] \in set /\ list[i] \in S
  BY <1>2
<1>5. \A i \in DOMAIN list : list[i] \in set => i \in P
  OBVIOUS
<1> HIDE DEF P
<1>6. /\ C \in Nat
      /\ \A n \in 1 .. C : \E i \in P : Cardinality({j \in P : j <= i}) = n
      /\ \A i \in P : Cardinality({j \in P : j <= i}) \in 1 .. C
      /\ \A i, m \in P :
           Cardinality({j \in P : j <= i}) = Cardinality({j \in P : j <= m}) => i = m
      /\ \A i, m \in P : i < m =>
           Cardinality({j \in P : j <= i}) < Cardinality({j \in P : j <= m})
  BY <1>3, PlaceOfRank
<1>7. \A n \in 1 .. C : place(n) \in P /\ Cardinality({j \in P : j <= place(n)}) = n
  BY <1>6
<1> HIDE DEF place, C
<1>8. DOMAIN k = 1 .. C /\ \A n \in 1 .. C : k[n] = list[place(n)]
  OBVIOUS
<1>9. k \in [1 .. C -> S]
  BY <1>4, <1>7, <1>8
<1>10. k \in Seq(S)
  BY <1>6, <1>9, FunctionIsSeq
<1> HIDE DEF k
<1>11. Range(k) = Range(list) \cap set
  <2>1. ASSUME NEW x \in Range(k) PROVE x \in Range(list) \cap set
    BY <1>4, <1>7, <1>8 DEF Range
  <2>2. ASSUME NEW x \in Range(list), x \in set PROVE x \in Range(k)
    <3>1. PICK i \in P : x = list[i]
      BY <1>5, <2>2 DEF Range
    <3>2. PICK n \in 1 .. C : Cardinality({j \in P : j <= i}) = n
      BY <1>6
    <3>3. place(n) = i
      BY <1>6, <1>7, <3>2
    <3> QED
      BY <1>8, <3>1, <3>3 DEF Range
  <2> QED
    BY <2>1, <2>2
<1>12. ASSUME IsInjective(list) PROVE IsInjective(k)
  <2> SUFFICES ASSUME NEW a \in 1 .. C, NEW b \in 1 .. C, k[a] = k[b]
               PROVE  a = b
    BY <1>8 DEF IsInjective
  <2>1. place(a) = place(b)
    BY <1>4, <1>7, <1>8, <1>12 DEF IsInjective
  <2>2. a = Cardinality({j \in P : j <= place(a)}) /\ b = Cardinality({j \in P : j <= place(b)})
    BY <1>7
  <2> QED
    BY <2>1, <2>2
<1>13. ASSUME NEW x \in set, NEW y \in set, Before(list, x, y) PROVE Before(k, x, y)
  <2>1. PICK i \in DOMAIN list, j \in DOMAIN list : i < j /\ list[i] = x /\ list[j] = y
    BY <1>13 DEF Before
  <2>2. i \in P /\ j \in P
    BY <1>5, <2>1
  <2> DEFINE a == Cardinality({l \in P : l <= i})
             b == Cardinality({l \in P : l <= j})
  <2>3. a \in 1 .. C /\ b \in 1 .. C /\ a < b
    BY <1>6, <2>1, <2>2
  <2>4. place(a) = i /\ place(b) = j
    BY <1>6, <1>7, <2>2, <2>3
  <2> HIDE DEF a, b
  <2>5. k[a] = x /\ k[b] = y
    BY <1>8, <2>1, <2>3, <2>4
  <2> QED
    BY <1>8, <2>3, <2>5 DEF Before
<1> QED
  BY <1>1, <1>10, <1>11, <1>12, <1>13
-----------------------------------------------------------------------------
(***************************************************************************)
(* Multiples of the block size.                                            *)
(***************************************************************************)

LEMMA BlockSizeType == BlockSize \in Nat /\ BlockSize > 0
BY KVCacheAssumption, SMT

\* Linear facts about products with the block size.
LEMMA Multiples ==
    ASSUME NEW a \in Int, NEW b \in Int
    PROVE  /\ a * BlockSize \in Int
           /\ a <= b => a * BlockSize <= b * BlockSize
           /\ a < b => a * BlockSize + BlockSize <= b * BlockSize
           /\ (a + 1) * BlockSize = a * BlockSize + BlockSize
           /\ (a - 1) * BlockSize = a * BlockSize - BlockSize
           /\ (a + b) * BlockSize = a * BlockSize + b * BlockSize
<1>1. BlockSize \in Nat /\ BlockSize > 0
  BY BlockSizeType
<1>2. /\ (a + 1) * BlockSize = a * BlockSize + BlockSize
      /\ (a - 1) * BlockSize = a * BlockSize - BlockSize
      /\ (a + b) * BlockSize = a * BlockSize + b * BlockSize
      /\ a * BlockSize \in Int
  BY <1>1, SMT
<1>3. a <= b => a * BlockSize <= b * BlockSize
  BY <1>1, SMT
<1>4. a < b => a * BlockSize + BlockSize <= b * BlockSize
  BY <1>1, SMT
<1> QED
  BY <1>2, <1>3, <1>4

LEMMA Quotient ==
    ASSUME NEW n \in Nat
    PROVE  /\ n \div BlockSize \in Nat
           /\ (n \div BlockSize) * BlockSize <= n
           /\ n < (n \div BlockSize) * BlockSize + BlockSize
<1>1. BlockSize \in Nat /\ BlockSize > 0
  BY BlockSizeType
<1> QED
  BY <1>1, SMT

\* Cdiv: as many blocks as n tokens need.
LEMMA CdivBounds ==
    ASSUME NEW n \in Nat
    PROVE  /\ Cdiv(n) \in Nat
           /\ n <= Cdiv(n) * BlockSize
           /\ Cdiv(n) * BlockSize < n + BlockSize
<1>1. BlockSize \in Nat /\ BlockSize > 0
  BY BlockSizeType
<1>2. n + BlockSize - 1 \in Nat
  BY <1>1, SMT
<1>3. /\ Cdiv(n) \in Nat /\ Cdiv(n) * BlockSize <= n + BlockSize - 1
      /\ n + BlockSize - 1 < Cdiv(n) * BlockSize + BlockSize
  BY <1>2, Quotient DEF Cdiv
<1>4. Cdiv(n) * BlockSize \in Int
  BY <1>1, <1>3, SMT
<1> QED
  BY <1>1, <1>3, <1>4, SMT

\* The quotient is the only number between those bounds.
LEMMA QuotientUnique ==
    ASSUME NEW n \in Nat, NEW k \in Nat, k * BlockSize <= n, n < k * BlockSize + BlockSize
    PROVE  n \div BlockSize = k
<1> DEFINE q == n \div BlockSize
<1>1. q \in Nat /\ q * BlockSize <= n /\ n < q * BlockSize + BlockSize
  BY Quotient
<1>2. BlockSize \in Nat
  BY BlockSizeType
<1> HIDE DEF q
<1>3. /\ q * BlockSize \in Int /\ k * BlockSize \in Int
      /\ q < k => q * BlockSize + BlockSize <= k * BlockSize
      /\ k < q => k * BlockSize + BlockSize <= q * BlockSize
  <2>1. q \in Int /\ k \in Int
    BY <1>1, SMT
  <2> QED
    BY <2>1, Multiples
<1>4. q = k
  BY <1>1, <1>2, <1>3, SMT
<1> QED
  BY <1>4 DEF q

-----------------------------------------------------------------------------
(***************************************************************************)
(* Cutting and joining sequences without repetition.                       *)
(***************************************************************************)

\* The first elements of a sequence.
LEMMA FirstOfSeq ==
    ASSUME NEW S, NEW s \in Seq(S), NEW m \in 0 .. Len(s)
    PROVE  /\ SubSeq(s, 1, m) \in Seq(S) /\ Len(SubSeq(s, 1, m)) = m
           /\ \A i \in 1 .. m : SubSeq(s, 1, m)[i] = s[i]
<1> DEFINE L == Len(s)
<1>1. L \in Nat /\ \A i \in 1 .. L : s[i] \in S
  BY DomainOfSeq
<1>2. \A i \in 1 .. m : s[i] \in S
  BY <1>1, SMT
<1>3. 1 \in Int /\ m \in Int /\ m \in Nat
  BY <1>1, SMT
<1>4. /\ SubSeq(s, 1, m) \in Seq(S) /\ Len(SubSeq(s, 1, m)) = IF 1 <= m THEN m - 1 + 1 ELSE 0
      /\ \A i \in 1 .. m - 1 + 1 : SubSeq(s, 1, m)[i] = s[1 + i - 1]
  BY <1>2, <1>3, SubSeqFacts, SMT
<1>5. m - 1 + 1 = m /\ (~(1 <= m) => m = 0) /\ \A i \in 1 .. m : 1 + i - 1 = i
  BY <1>3, SMT
<1> QED
  BY <1>4, <1>5

LEMMA SameFirst ==
    ASSUME NEW S, NEW s \in Seq(S), NEW t \in Seq(S),
           NEW m \in 0 .. Len(s), m \in 0 .. Len(t), \A i \in 1 .. m : s[i] = t[i]
    PROVE  SubSeq(s, 1, m) = SubSeq(t, 1, m)
<1> DEFINE a == SubSeq(s, 1, m)
           b == SubSeq(t, 1, m)
<1>1. a \in Seq(S) /\ Len(a) = m /\ \A i \in 1 .. m : a[i] = s[i]
  BY FirstOfSeq
<1>2. b \in Seq(S) /\ Len(b) = m /\ \A i \in 1 .. m : b[i] = t[i]
  BY FirstOfSeq
<1> HIDE DEF a, b
<1>3. \A i \in 1 .. Len(a) : a[i] = b[i]
  BY <1>1, <1>2
<1>4. a = b
  BY <1>1, <1>2, <1>3, EqualSeqs
<1> QED
  BY <1>4 DEF a, b

LEMMA FirstOfFirst ==
    ASSUME NEW S, NEW s \in Seq(S), NEW m \in 0 .. Len(s), NEW n \in 0 .. m
    PROVE  SubSeq(SubSeq(s, 1, m), 1, n) = SubSeq(s, 1, n)
<1>1. Len(s) \in Nat
  BY DomainOfSeq
<1>2. n \in 0 .. Len(s) /\ \A i \in 1 .. n : i \in 1 .. m
  BY <1>1, SMT
<1>3. /\ SubSeq(s, 1, m) \in Seq(S) /\ Len(SubSeq(s, 1, m)) = m
      /\ \A i \in 1 .. m : SubSeq(s, 1, m)[i] = s[i]
  BY FirstOfSeq
<1> QED
  BY <1>2, <1>3, SameFirst

\* A list cut into two.
CutInto(S, s, a, b) ==
    /\ a \in Seq(S) /\ IsInjective(a)
    /\ b \in Seq(S) /\ IsInjective(b)
    /\ Range(a) \cap Range(b) = {} /\ Range(a) \cup Range(b) = Range(s)
    /\ \A x, y : Before(s, x, y) /\ x \in Range(b) => Before(b, x, y)

LEMMA CutInTwo ==
    ASSUME NEW S, NEW s \in Seq(S), IsInjective(s), NEW m \in 0 .. Len(s)
    PROVE  /\ CutInto(S, s, SubSeq(s, 1, m), SubSeq(s, m + 1, Len(s)))
           /\ Len(SubSeq(s, 1, m)) = m
<1> DEFINE a == SubSeq(s, 1, m)
           b == SubSeq(s, m + 1, Len(s))
           L == Len(s)
<1>1. L \in Nat /\ DOMAIN s = 1 .. L /\ \A i \in 1 .. L : s[i] \in S
  BY DomainOfSeq
<1> HIDE DEF L
<1>2. m \in Nat /\ m <= L
  BY <1>1, SMT DEF L
<1>3. /\ a \in Seq(S) /\ Len(a) = m /\ \A i \in 1 .. m : a[i] = s[i]
  BY FirstOfSeq
<1>4. /\ b \in Seq(S) /\ Len(b) = L - m /\ \A i \in 1 .. L - m : b[i] = s[m + i]
  <2>1. \A i \in m + 1 .. L : s[i] \in S
    BY <1>1, <1>2, SMT
  <2>2. m + 1 \in Int /\ L \in Int
    BY <1>1, <1>2, SMT
  <2>3. /\ b \in Seq(S) /\ Len(b) = IF m + 1 <= L THEN L - (m + 1) + 1 ELSE 0
        /\ \A i \in 1 .. L - (m + 1) + 1 : b[i] = s[m + 1 + i - 1]
    BY <2>1, <2>2, SubSeqFacts, SMT DEF L
  <2>4. /\ L - (m + 1) + 1 = L - m /\ (~(m + 1 <= L) => L - m = 0)
        /\ \A i \in 1 .. L - m : m + 1 + i - 1 = m + i
    BY <1>1, <1>2, SMT
  <2> QED
    BY <2>3, <2>4
<1> HIDE DEF a, b
<1>5. DOMAIN a = 1 .. m /\ DOMAIN b = 1 .. L - m
  BY <1>3, <1>4, DomainOfSeq
<1>6. \A i \in 1 .. m : i \in 1 .. L
  BY <1>1, <1>2, SMT
<1>7. \A i \in 1 .. L - m : m + i \in 1 .. L /\ \A j \in 1 .. m : m + i # j
  BY <1>1, <1>2, SMT
<1>8. \A i, j \in 1 .. L - m : m + i = m + j => i = j
  BY <1>1, <1>2, SMT
<1>9. \A i \in 1 .. L : i \in 1 .. m \/ \E j \in 1 .. L - m : i = m + j
  <2> SUFFICES ASSUME NEW i \in 1 .. L, i \notin 1 .. m
               PROVE  i - m \in 1 .. L - m /\ i = m + (i - m)
    OBVIOUS
  <2> QED
    BY <1>1, <1>2, SMT
<1>10. \A i, j \in 1 .. L : s[i] = s[j] => i = j
  BY <1>1 DEF IsInjective
<1>11. IsInjective(a)
  <2> SUFFICES ASSUME NEW i \in 1 .. m, NEW j \in 1 .. m, a[i] = a[j] PROVE i = j
    BY <1>5 DEF IsInjective
  <2> QED
    BY <1>3, <1>6, <1>10
<1>12. IsInjective(b)
  <2> SUFFICES ASSUME NEW i \in 1 .. L - m, NEW j \in 1 .. L - m, b[i] = b[j] PROVE i = j
    BY <1>5 DEF IsInjective
  <2>1. m + i = m + j
    BY <1>4, <1>7, <1>10
  <2> QED
    BY <1>8, <2>1
<1>13. Range(a) \cap Range(b) = {}
  <2> SUFFICES ASSUME NEW i \in 1 .. m, NEW j \in 1 .. L - m, a[i] = b[j] PROVE FALSE
    BY <1>5 DEF Range
  <2>1. a[i] = s[i] /\ b[j] = s[m + j]
    BY <1>3, <1>4
  <2>2. i \in 1 .. L /\ m + j \in 1 .. L /\ m + j # i
    BY <1>6, <1>7
  <2> QED
    BY <1>10, <2>1, <2>2
<1>14. Range(a) \cup Range(b) = Range(s)
  <2>1. ASSUME NEW i \in 1 .. m PROVE a[i] \in Range(s)
    BY <1>1, <1>3, <1>6 DEF Range
  <2>2. ASSUME NEW i \in 1 .. L - m PROVE b[i] \in Range(s)
    BY <1>1, <1>4, <1>7 DEF Range
  <2>3. ASSUME NEW i \in 1 .. L PROVE s[i] \in Range(a) \cup Range(b)
    <3>1. CASE i \in 1 .. m
      BY <1>3, <1>5, <3>1 DEF Range
    <3>2. CASE i \notin 1 .. m
      BY <1>4, <1>5, <1>9, <3>2 DEF Range
    <3> QED
      BY <3>1, <3>2
  <2>4. Range(a) \subseteq Range(s)
    <3>1. \A x \in Range(a) : \E i \in 1 .. m : x = a[i]
      BY <1>5 DEF Range
    <3> QED
      BY <2>1, <3>1
  <2>5. Range(b) \subseteq Range(s)
    <3>1. \A x \in Range(b) : \E i \in 1 .. L - m : x = b[i]
      BY <1>5 DEF Range
    <3> QED
      BY <2>2, <3>1
  <2>6. Range(s) \subseteq Range(a) \cup Range(b)
    <3>1. \A x \in Range(s) : \E i \in 1 .. L : x = s[i]
      BY <1>1 DEF Range
    <3> QED
      BY <2>3, <3>1
  <2> QED
    BY <2>4, <2>5, <2>6
<1>15. ASSUME NEW x, NEW y, Before(s, x, y), x \in Range(b) PROVE Before(b, x, y)
  <2>1. PICK i \in 1 .. L, j \in 1 .. L : i < j /\ s[i] = x /\ s[j] = y
    BY <1>1, <1>15 DEF Before
  <2>2. PICK k \in 1 .. L - m : b[k] = x
    BY <1>5, <1>15 DEF Range
  <2>3. s[m + k] = x /\ m + k \in 1 .. L
    BY <1>4, <1>7, <2>2
  <2>4. i = m + k
    BY <1>10, <2>1, <2>3
  <2>5. j - m \in 1 .. L - m /\ k < j - m /\ m + (j - m) = j
    BY <1>1, <1>2, <2>1, <2>4, SMT
  <2>6. b[j - m] = y
    BY <1>4, <2>1, <2>5
  <2> QED
    BY <1>5, <2>2, <2>5, <2>6 DEF Before
<1> QED
  BY <1>3, <1>4, <1>11, <1>12, <1>13, <1>14, <1>15 DEF CutInto, a, b, L

LEMMA JoinedFacts ==
    ASSUME NEW S, NEW s \in Seq(S), NEW t \in Seq(S)
    PROVE  /\ s \o t \in Seq(S) /\ Len(s \o t) = Len(s) + Len(t)
           /\ Range(s \o t) = Range(s) \cup Range(t)
           /\ \A i \in 1 .. Len(s) : (s \o t)[i] = s[i]
           /\ \A i \in 1 .. Len(s) + Len(t) : i \notin 1 .. Len(s) =>
                 i - Len(s) \in 1 .. Len(t) /\ (s \o t)[i] = t[i - Len(s)]
           /\ IsInjective(s) /\ IsInjective(t) /\ Range(s) \cap Range(t) = {}
                => IsInjective(s \o t)
           /\ \A x, y : Before(s, x, y) => Before(s \o t, x, y)
           /\ \A x, y : Before(t, x, y) => Before(s \o t, x, y)
           /\ \A x \in Range(s), y \in Range(t) : Before(s \o t, x, y)
<1> DEFINE u == s \o t
<1>1. /\ Len(s) \in Nat /\ DOMAIN s = 1 .. Len(s)
      /\ Len(t) \in Nat /\ DOMAIN t = 1 .. Len(t)
  BY DomainOfSeq
<1>2. /\ u \in Seq(S) /\ Len(u) = Len(s) + Len(t)
      /\ \A i \in 1 .. Len(s) + Len(t) : u[i] = IF i <= Len(s) THEN s[i] ELSE t[i - Len(s)]
  BY ConcatFacts
<1>3. Range(u) = Range(s) \cup Range(t)
  BY RangeOfConcat
<1> HIDE DEF u
<1>4. \A i \in 1 .. Len(s) : i <= Len(s) /\ i \in 1 .. Len(s) + Len(t)
  BY <1>1, SMT
<1>5. \A i \in 1 .. Len(s) + Len(t) : i \notin 1 .. Len(s) =>
         i - Len(s) \in 1 .. Len(t) /\ ~(i <= Len(s))
  BY <1>1, SMT
<1>6. \A i \in 1 .. Len(s) : u[i] = s[i]
  BY <1>2, <1>4
<1>7. \A i \in 1 .. Len(s) + Len(t) : i \notin 1 .. Len(s) =>
         i - Len(s) \in 1 .. Len(t) /\ u[i] = t[i - Len(s)]
  BY <1>2, <1>5
<1>8. ASSUME IsInjective(s), IsInjective(t), Range(s) \cap Range(t) = {}
      PROVE  IsInjective(u)
  <2>1. DOMAIN u = 1 .. Len(s) + Len(t)
    BY <1>2, DomainOfSeq
  <2> SUFFICES ASSUME NEW i \in 1 .. Len(s) + Len(t), NEW j \in 1 .. Len(s) + Len(t),
                      u[i] = u[j]
               PROVE  i = j
    BY <2>1 DEF IsInjective
  <2>2. \A x \in 1 .. Len(s) : s[x] \in Range(s)
    BY <1>1 DEF Range
  <2>3. \A x \in 1 .. Len(t) : t[x] \in Range(t)
    BY <1>1 DEF Range
  <2>4. CASE i \in 1 .. Len(s) /\ j \in 1 .. Len(s)
    BY <1>1, <1>6, <1>8, <2>4 DEF IsInjective
  <2>5. CASE i \notin 1 .. Len(s) /\ j \notin 1 .. Len(s)
    <3>1. i - Len(s) = j - Len(s)
      BY <1>1, <1>7, <1>8, <2>5 DEF IsInjective
    <3> QED
      BY <1>1, <3>1, SMT
  <2>6. CASE i \in 1 .. Len(s) /\ j \notin 1 .. Len(s)
    BY <1>6, <1>7, <1>8, <2>2, <2>3, <2>6
  <2>7. CASE i \notin 1 .. Len(s) /\ j \in 1 .. Len(s)
    BY <1>6, <1>7, <1>8, <2>2, <2>3, <2>7
  <2> QED
    BY <2>4, <2>5, <2>6, <2>7
<1>9. DOMAIN u = 1 .. Len(s) + Len(t)
  BY <1>2, DomainOfSeq
<1>10. \A i \in 1 .. Len(t) : Len(s) + i \in 1 .. Len(s) + Len(t) /\ u[Len(s) + i] = t[i]
  <2> SUFFICES ASSUME NEW i \in 1 .. Len(t)
               PROVE  Len(s) + i \in 1 .. Len(s) + Len(t) /\ u[Len(s) + i] = t[i]
    OBVIOUS
  <2>1. /\ Len(s) + i \in 1 .. Len(s) + Len(t) /\ Len(s) + i \notin 1 .. Len(s)
        /\ (Len(s) + i) - Len(s) = i
    BY <1>1, SMT
  <2>2. u[Len(s) + i] = t[(Len(s) + i) - Len(s)]
    BY <1>7, <2>1
  <2> QED
    BY <2>1, <2>2
<1>11. \A x, y : Before(s, x, y) => Before(u, x, y)
  BY <1>1, <1>4, <1>6, <1>9 DEF Before
<1>12. ASSUME NEW x, NEW y, Before(t, x, y) PROVE Before(u, x, y)
  <2>1. PICK i \in 1 .. Len(t), j \in 1 .. Len(t) : i < j /\ t[i] = x /\ t[j] = y
    BY <1>1, <1>12 DEF Before
  <2>2. Len(s) + i < Len(s) + j
    BY <1>1, <2>1, SMT
  <2>3. u[Len(s) + i] = x /\ u[Len(s) + j] = y
    BY <1>10, <2>1
  <2>4. Len(s) + i \in DOMAIN u /\ Len(s) + j \in DOMAIN u
    BY <1>9, <1>10
  <2> QED
    BY <2>2, <2>3, <2>4 DEF Before
<1>13. ASSUME NEW x \in Range(s), NEW y \in Range(t) PROVE Before(u, x, y)
  <2>1. PICK i \in 1 .. Len(s) : s[i] = x
    BY <1>1 DEF Range
  <2>2. PICK j \in 1 .. Len(t) : t[j] = y
    BY <1>1 DEF Range
  <2>3. i < Len(s) + j
    BY <1>1, SMT
  <2>4. u[i] = x /\ u[Len(s) + j] = y
    BY <1>6, <1>10, <2>1, <2>2
  <2>5. i \in DOMAIN u /\ Len(s) + j \in DOMAIN u
    BY <1>4, <1>9, <1>10
  <2> QED
    BY <2>3, <2>4, <2>5 DEF Before
<1> QED
  BY <1>2, <1>3, <1>6, <1>7, <1>8, <1>11, <1>12, <1>13 DEF u

\* The same in three parts.
LEMMA Joined ==
    ASSUME NEW S, NEW s \in Seq(S), NEW t \in Seq(S)
    PROVE  /\ s \o t \in Seq(S) /\ Len(s \o t) = Len(s) + Len(t)
           /\ Range(s \o t) = Range(s) \cup Range(t)
           /\ \A i \in 1 .. Len(s) : (s \o t)[i] = s[i]
           /\ \A i \in 1 .. Len(s) + Len(t) : i \notin 1 .. Len(s) =>
                 i - Len(s) \in 1 .. Len(t) /\ (s \o t)[i] = t[i - Len(s)]
BY JoinedFacts

LEMMA JoinedInjective ==
    ASSUME NEW S, NEW s \in Seq(S), NEW t \in Seq(S),
           IsInjective(s), IsInjective(t), Range(s) \cap Range(t) = {}
    PROVE  IsInjective(s \o t)
BY JoinedFacts

LEMMA JoinedBefore ==
    ASSUME NEW S, NEW s \in Seq(S), NEW t \in Seq(S)
    PROVE  /\ \A x, y : Before(s, x, y) => Before(s \o t, x, y)
           /\ \A x, y : Before(t, x, y) => Before(s \o t, x, y)
           /\ \A x \in Range(s), y \in Range(t) : Before(s \o t, x, y)
BY JoinedFacts

LEMMA EmptyFacts ==
    ASSUME NEW S
    PROVE  << >> \in Seq(S) /\ Len(<< >>) = 0 /\ DOMAIN << >> = {} /\ Range(<< >>) = {}
           /\ IsInjective(<< >>)
<1>1. << >> \in Seq(S) /\ Len(<< >>) = 0
  BY EmptyOrLong
<1>2. DOMAIN << >> = 1 .. 0
  BY <1>1, DomainOfSeq
<1>3. 1 .. 0 = {}
  BY SMT
<1> QED
  BY <1>1, <1>2, <1>3 DEF Range, IsInjective

-----------------------------------------------------------------------------
(***************************************************************************)
(* Who holds what.                                                         *)
(***************************************************************************)

LEMMA HeldFacts ==
    ASSUME HolderInv, NEW q
    PROVE  /\ Held(q) \in Seq(Blocks) /\ IsInjective(Held(q))
           /\ q \notin running => Held(q) = <<>>
           /\ q \in running => q \in DOMAIN req_to_blocks /\ Held(q) = req_to_blocks[q]
<1>1. CASE q \in DOMAIN req_to_blocks
  BY <1>1 DEF HolderInv, Held, Get
<1>2. CASE q \notin DOMAIN req_to_blocks
  <2>1. Held(q) = <<>> /\ q \notin running
    BY <1>2 DEF HolderInv, Held, Get
  <2> QED
    BY <2>1, EmptyFacts
<1> QED
  BY <1>1, <1>2

LEMMA HoldersFinite ==
    ASSUME HolderInv, NEW b
    PROVE  IsFiniteSet(Holders(b)) /\ Cardinality(Holders(b)) \in Nat
<1>1. Holders(b) \in SUBSET DOMAIN req_to_blocks /\ IsFiniteSet(DOMAIN req_to_blocks)
  BY DEF Holders, HolderInv
<1> QED
  BY <1>1, FS_Subset, FS_CardinalityType

\* A block somebody holds is not in the queue.
LEMMA FreeNotHeld ==
    ASSUME HolderInv, AccountInv, NEW b \in Range(free), NEW q
    PROVE  b \notin Range(Held(q))
<1>1. b \in Blocks /\ Cardinality(Holders(b)) = 0
  BY DEF AccountInv
<1>2. Holders(b) = {}
  BY <1>1, HoldersFinite, FS_EmptySet
<1>3. CASE q \in DOMAIN req_to_blocks
  BY <1>2, <1>3 DEF Holders
<1>4. CASE q \notin DOMAIN req_to_blocks
  <2>1. Held(q) = <<>>
    BY <1>4 DEF Held, Get
  <2> QED
    BY <2>1, EmptyFacts
<1> QED
  BY <1>3, <1>4

-----------------------------------------------------------------------------
(***************************************************************************)
(* What AllocateSlots computes, by the names of its parts.                 *)
(***************************************************************************)
NumNew(r, hit, n) == Max({0, RequiredBlocks(r, hit, n) - Len(Held(r) \o hit)})

New(r, hit, n) == SubSeq(Touched(hit), 1, NumNew(r, hit, n))

Rest(r, hit, n) == SubSeq(Touched(hit), NumNew(r, hit, n) + 1, Len(Touched(hit)))

Given(r, hit, n) == Held(r) \o hit \o New(r, hit, n)

NumCached(r, hit) == Get(num_cached_block, r, Len(hit))

NumFull(r, hit, n) == Max({NumCached(r, hit), NumTokensToCache(r, hit, n) \div BlockSize})

Filled(r, hit, n) == NumCached(r, hit) + 1 .. NumFull(r, hit, n)

Hashes(r, hit, n) ==
    [h \in {Prefix(r, k * BlockSize) : k \in Filled(r, hit, n)} |->
        Given(r, hit, n)[Len(h) \div BlockSize]]

Rehashed(hashes, evicted) ==
    [b \in Blocks |->
        IF \E h \in DOMAIN hashes : hashes[h] = b THEN CHOOSE h \in DOMAIN hashes : hashes[h] = b
        ELSE IF b \in evicted THEN NoHash ELSE block_hash[b]]

Referenced(blocks) == [b \in Blocks |-> IF b \in blocks THEN ref_cnt[b] + 1 ELSE ref_cnt[b]]

Allocated(r, hit, n) ==
    /\ free' = Rest(r, hit, n)
    /\ ref_cnt' = Referenced(Range(hit \o New(r, hit, n)))
    /\ block_hash' = Rehashed(Hashes(r, hit, n), Range(New(r, hit, n)))
    /\ cached' = WithBlocks(WithoutBlocks(cached, Range(New(r, hit, n))), Hashes(r, hit, n))
    /\ req_to_blocks' = Update(req_to_blocks, [q \in {r} |-> Given(r, hit, n)])
    /\ num_cached_block' = Update(num_cached_block, [q \in {r} |-> NumFull(r, hit, n)])
    /\ computed' = [computed EXCEPT ![r] = ComputedWith(r, hit)]
    /\ batch' = Update(batch, [q \in {r} |-> n])

LEMMA AllocateSlotsParts ==
    ASSUME NEW r, NEW hit, NEW n, AllocateSlots(r, hit, n)
    PROVE  Allocated(r, hit, n)
BY DEF Allocated, AllocateSlots, NumNew, New, Rest, Given, NumCached, NumFull, Filled, Hashes,
       Rehashed, Referenced, MaybeEvictCached

\* The calls that schedule() makes: blocks of the prefix cache come with a request
\* that is not running, and the new tokens are tokens the request has.
Allocating(r, hit, n) ==
    /\ r \in Live /\ n \in Nat
    /\ hit \in Seq(Blocks) /\ IsInjective(hit)
    /\ r \in running => hit = <<>>
    /\ Len(hit) * BlockSize <= Len(tokens[r])
    /\ \A k \in 1 .. Len(hit) : block_hash[hit[k]] = Prefix(r, k * BlockSize)
    /\ ComputedWith(r, hit) + n <= Len(tokens[r])
    /\ CanAllocate(r, hit, n)

\* touch takes as many blocks out of the queue as NumBlocksToAllocate counted.
LEMMA TouchedFacts ==
    ASSUME PoolTypeInv, AccountInv, NEW hit \in Seq(Blocks), IsInjective(hit)
    PROVE  /\ Touched(hit) \in Seq(Blocks) /\ IsInjective(Touched(hit))
           /\ Range(Touched(hit)) = Range(free) \ Range(hit)
           /\ Cardinality({k \in DOMAIN hit : ref_cnt[hit[k]] = 0}) \in Nat
           /\ Len(Touched(hit)) =
                Len(free) - Cardinality({k \in DOMAIN hit : ref_cnt[hit[k]] = 0})
           /\ \A x, y \in Blocks \ Range(hit) : Before(free, x, y) => Before(Touched(hit), x, y)
<1> DEFINE T == Touched(hit)
           K == {k \in DOMAIN hit : ref_cnt[hit[k]] = 0}
           F == Range(free)
           H == Range(hit)
<1>1. free \in Seq(Blocks) /\ IsInjective(free)
  BY DEF PoolTypeInv
<1>2. /\ T \in Seq(Blocks) /\ IsInjective(T) /\ Range(T) = F \cap (Blocks \ H)
      /\ \A x, y \in Blocks \ H : Before(free, x, y) => Before(T, x, y)
  BY <1>1, KeptProperties DEF Touched
<1>3. F = {b \in Blocks : ref_cnt[b] = 0}
  BY DEF AccountInv
<1>4. Range(T) = F \ H
  BY <1>2, <1>3
<1>5. IsFiniteSet(F) /\ Cardinality(F) = Len(free)
  BY <1>1, LengthOfInjective
<1>6. Cardinality(Range(T)) = Len(T)
  BY <1>2, LengthOfInjective
<1>7. Cardinality(F \ H) = Cardinality(F) - Cardinality(F \cap H)
  BY <1>5, FS_Difference
<1>8. \A k \in DOMAIN hit : hit[k] \in Blocks /\ hit[k] \in H
  BY DomainOfSeq DEF Range
<1>9. IsFiniteSet(F \cap H) /\ Cardinality(F \cap H) \in Nat
  BY <1>5, FS_Subset, FS_CardinalityType
<1> DEFINE f == [k \in K |-> hit[k]]
<1>10. f \in [K -> F \cap H]
  BY <1>3, <1>8
<1>11. \A x \in F \cap H : \E k \in K : f[k] = x
  BY <1>3 DEF Range
<1>12. \A j, k \in K : f[j] = f[k] => j = k
  BY DEF IsInjective
<1>13. f \in Injection(K, F \cap H) /\ f \in Surjection(K, F \cap H)
  <2> HIDE DEF f, K, F, H
  <2> QED
    BY <1>10, <1>11, <1>12 DEF Injection, Surjection, IsInjective
<1> HIDE DEF f, K, F, H, T
<1>14. Cardinality(K) = Cardinality(F \cap H)
  BY <1>9, <1>13, FS_Injection
<1>15. Len(T) = Len(free) - Cardinality(K)
  BY <1>4, <1>5, <1>6, <1>7, <1>14
<1> QED
  BY <1>2, <1>4, <1>9, <1>14, <1>15 DEF T, K, F, H

\* The blocks a request has before it gets new ones: those it holds when it runs,
\* the hits when it does not.
Own(r, hit) == Held(r) \o hit

OwnShape(r, hit) ==
    /\ Own(r, hit) = IF r \in running THEN Held(r) ELSE hit
    /\ Own(r, hit) \in Seq(Blocks) /\ IsInjective(Own(r, hit))
    /\ Len(Own(r, hit)) = Len(Held(r)) + Len(hit)
    /\ NumCached(r, hit) \in 0 .. Len(Own(r, hit))
    /\ NumCached(r, hit) * BlockSize <= Len(tokens[r])
    /\ \A k \in 1 .. Len(Own(r, hit)) :
         block_hash[Own(r, hit)[k]] =
             IF k <= NumCached(r, hit) THEN Prefix(r, k * BlockSize) ELSE NoHash
    /\ Range(Held(r)) \cap Range(hit) = {}
    /\ \A q \in running \ {r} : \A k \in 1 .. Len(Own(r, hit)) :
         k > NumCached(r, hit) => Own(r, hit)[k] \notin Range(Held(q))

LEMMA OwnFacts ==
    ASSUME PoolInv, NEW r, NEW hit, NEW n, Allocating(r, hit, n)
    PROVE  OwnShape(r, hit)
<1>1. /\ hit \in Seq(Blocks) /\ IsInjective(hit)
      /\ r \in running => hit = <<>>
      /\ Len(hit) * BlockSize <= Len(tokens[r])
      /\ \A k \in 1 .. Len(hit) : block_hash[hit[k]] = Prefix(r, k * BlockSize)
  BY DEF Allocating
<1>2. HolderInv /\ HashInv
  BY DEF PoolInv
<1>3. /\ Held(r) \in Seq(Blocks) /\ IsInjective(Held(r))
      /\ r \notin running => Held(r) = <<>>
      /\ r \in running => Held(r) = req_to_blocks[r]
  BY <1>2, HeldFacts
<1>4. Len(Held(r)) \in Nat /\ Len(hit) \in Nat
  BY <1>1, <1>3, DomainOfSeq
<1>5. Own(r, hit) \in Seq(Blocks) /\ Len(Own(r, hit)) = Len(Held(r)) + Len(hit)
  <2>1. Held(r) \in Seq(Blocks) /\ hit \in Seq(Blocks)
    BY <1>1, <1>3
  <2> QED
    BY <2>1, Joined DEF Own
<1>6. CASE r \in running
  <2>1. hit = <<>> /\ Range(hit) = {}
    BY <1>1, <1>6, EmptyFacts
  <2>2. Own(r, hit) = Held(r)
    BY <1>3, <2>1, ConcatNone DEF Own
  <2>3. NumCached(r, hit) = num_cached_block[r]
    BY <1>2, <1>6 DEF NumCached, Get, HolderInv
  <2>4. /\ num_cached_block[r] \in 0 .. Len(Held(r))
        /\ num_cached_block[r] * BlockSize <= Len(tokens[r])
        /\ \A k \in 1 .. Len(Held(r)) :
              block_hash[Held(r)[k]] =
                  IF k <= num_cached_block[r] THEN Prefix(r, k * BlockSize) ELSE NoHash
    BY <1>2, <1>3, <1>6 DEF HashInv
  <2>5. ASSUME NEW q \in running \ {r}, NEW k \in 1 .. Len(Held(r)), k > num_cached_block[r]
        PROVE  Held(r)[k] \notin Range(Held(q))
    <3>1. k \in num_cached_block[r] + 1 .. Len(Held(r))
      BY <1>4, <2>4, <2>5, SMT
    <3>2. Held(q) = req_to_blocks[q]
      BY <1>2, HeldFacts
    <3> QED
      BY <1>2, <1>3, <1>6, <3>1, <3>2 DEF HashInv
  <2> QED
    BY <1>3, <1>5, <1>6, <2>1, <2>2, <2>3, <2>4, <2>5 DEF OwnShape
<1>7. CASE r \notin running
  <2>1. Held(r) = <<>> /\ Range(Held(r)) = {}
    BY <1>3, <1>7, EmptyFacts
  <2>2. Own(r, hit) = hit
    BY <1>1, <2>1, ConcatNone DEF Own
  <2>3. NumCached(r, hit) = Len(hit)
    BY <1>2, <1>7 DEF NumCached, Get, HolderInv
  <2>4. Len(hit) \in 0 .. Len(hit) /\ \A k \in 1 .. Len(hit) : k <= Len(hit) /\ ~(k > Len(hit))
    BY <1>4, SMT
  <2> QED
    BY <1>1, <1>5, <1>7, <2>1, <2>2, <2>3, <2>4 DEF OwnShape
<1> QED
  BY <1>6, <1>7

\* The tokens that are computed once the new ones are.
LEMMA WantedFacts ==
    ASSUME RequestInv, NEW r, NEW hit, NEW n, Allocating(r, hit, n)
    PROVE  /\ computed[r] \in Nat /\ Len(tokens[r]) \in Nat /\ Len(hit) * BlockSize \in Nat
           /\ ComputedWith(r, hit) \in Nat /\ n \in Nat
           /\ ComputedWith(r, hit) + n <= Len(tokens[r])
           /\ RequiredBlocks(r, hit, n) = Cdiv(ComputedWith(r, hit) + n)
           /\ NumTokensToCache(r, hit, n) = ComputedWith(r, hit) + n
           /\ RequiredBlocks(r, hit, n) \in Nat
<1> DEFINE c == ComputedWith(r, hit)
           L == Len(tokens[r])
           m == Len(hit) * BlockSize
<1>1. r \in Live /\ n \in Nat /\ hit \in Seq(Blocks) /\ c + n <= L
  BY DEF Allocating
<1>2. L \in 1 .. MaxLen - 1 /\ computed[r] \in 0 .. L
  BY <1>1 DEF RequestInv
<1>3. Len(hit) \in Nat /\ BlockSize \in Nat /\ MaxLen \in Nat
  BY <1>1, DomainOfSeq, KVCacheAssumption
<1>4. m \in Nat
  BY <1>3, SMT
<1>5. c = computed[r] + m
  BY DEF ComputedWith
<1> HIDE DEF c, L, m
<1>6. c \in Nat /\ L \in Nat /\ computed[r] \in Nat /\ c + n \in Nat
      /\ c + n \in Int /\ MaxLen \in Int /\ L \in Int /\ c + n <= MaxLen
  BY <1>1, <1>2, <1>3, <1>4, <1>5, SMT
<1>7. Min({c + n, MaxLen}) = c + n /\ Min({c + n, L}) = c + n
  BY <1>1, <1>6, MinOfTwo
<1>8. Cdiv(c + n) \in Nat
  BY <1>6, CdivBounds
<1> QED
  BY <1>1, <1>4, <1>6, <1>7, <1>8 DEF RequiredBlocks, NumTokensToCache, c, L, m

NewShape(r, hit, n) ==
    /\ New(r, hit, n) \in Seq(Blocks) /\ IsInjective(New(r, hit, n))
    /\ Range(New(r, hit, n)) \subseteq Range(free)
    /\ Range(New(r, hit, n)) \cap Range(hit) = {}
    /\ Rest(r, hit, n) \in Seq(Blocks) /\ IsInjective(Rest(r, hit, n))
    /\ Range(Rest(r, hit, n)) = Range(free) \ (Range(hit) \cup Range(New(r, hit, n)))
    /\ \A x, y \in Blocks \ Range(hit) : Before(free, x, y) /\ x \in Range(Rest(r, hit, n))
         => Before(Rest(r, hit, n), x, y)
    /\ RequiredBlocks(r, hit, n) <= Len(Own(r, hit)) + Len(New(r, hit, n))

LEMMA NewFacts ==
    ASSUME PoolInv, NEW r, NEW hit, NEW n, Allocating(r, hit, n)
    PROVE  NewShape(r, hit, n)
<1> DEFINE T == Touched(hit)
           m == NumNew(r, hit, n)
           c == Cardinality({k \in DOMAIN hit : ref_cnt[hit[k]] = 0})
           R == RequiredBlocks(r, hit, n)
           a == New(r, hit, n)
           b == Rest(r, hit, n)
           o == Own(r, hit)
<1>1. hit \in Seq(Blocks) /\ IsInjective(hit) /\ CanAllocate(r, hit, n)
  BY DEF Allocating
<1>2. PoolTypeInv /\ AccountInv /\ RequestInv
  BY DEF PoolInv
<1>3. /\ T \in Seq(Blocks) /\ IsInjective(T) /\ Range(T) = Range(free) \ Range(hit)
      /\ c \in Nat /\ Len(T) = Len(free) - c
      /\ \A x, y \in Blocks \ Range(hit) : Before(free, x, y) => Before(T, x, y)
  BY <1>1, <1>2, TouchedFacts
<1>4. R \in Nat
  BY <1>2, WantedFacts
<1>5. Len(o) = Len(Held(r)) + Len(hit) /\ Len(o) \in Nat
  BY OwnFacts, DomainOfSeq DEF OwnShape
<1>6. Len(free) \in Nat /\ Len(T) \in Nat /\ Len(hit) \in Nat
  BY <1>1, <1>2, <1>3, DomainOfSeq DEF PoolTypeInv
<1>7. R - Len(hit) - Len(Held(r)) + c <= Len(free)
  BY <1>1 DEF CanAllocate, NumBlocksToAllocate
<1>8. m = Max({0, R - Len(o)})
  BY DEF NumNew, Own
<1>9. Len(Held(r)) \in Nat
  BY <1>2, HeldFacts, DomainOfSeq DEF PoolInv
<1> HIDE DEF m, c, R, o
<1>10. 0 \in Int /\ R - Len(o) \in Int
  BY <1>4, <1>5, SMT
<1>11. m = IF 0 >= R - Len(o) THEN 0 ELSE R - Len(o)
  BY <1>8, <1>10, MaxOfTwo
<1>12. m \in 0 .. Len(T) /\ R <= Len(o) + m
  <2>1. c \in Nat /\ Len(T) = Len(free) - c
    BY <1>3
  <2> HIDE DEF T
  <2> DEFINE f == Len(free)
             h == Len(hit)
             l == Len(Held(r))
             t == Len(T)
             u == Len(o)
  <2>2. c \in Nat /\ f \in Nat /\ t \in Nat /\ h \in Nat /\ l \in Nat /\ u \in Nat
    BY <1>5, <1>6, <1>9, <2>1
  <2>3. u = l + h /\ R - h - l + c <= f /\ t = f - c /\ m = IF 0 >= R - u THEN 0 ELSE R - u
    BY <1>5, <1>7, <1>11, <2>1
  <2> HIDE DEF f, h, l, t, u
  <2>4. m \in 0 .. t /\ R <= u + m
    BY <1>4, <2>2, <2>3, SMT
  <2> QED
    BY <2>4 DEF t, u
<1>13. a = SubSeq(T, 1, m) /\ b = SubSeq(T, m + 1, Len(T))
  BY DEF New, Rest, m
<1> HIDE DEF a, b, T
<1>14. /\ a \in Seq(Blocks) /\ IsInjective(a) /\ Len(a) = m
       /\ b \in Seq(Blocks) /\ IsInjective(b)
       /\ Range(a) \cap Range(b) = {} /\ Range(a) \cup Range(b) = Range(T)
       /\ \A x, y : Before(T, x, y) /\ x \in Range(b) => Before(b, x, y)
  <2>1. T \in Seq(Blocks) /\ IsInjective(T)
    BY <1>3
  <2>2. CutInto(Blocks, T, a, b) /\ Len(a) = m
    BY <1>12, <1>13, <2>1, CutInTwo
  <2> QED
    BY <2>2 DEF CutInto
<1>15. \A x, y \in Blocks \ Range(hit) : Before(free, x, y) /\ x \in Range(b) => Before(b, x, y)
  BY <1>3, <1>14
<1>16. /\ Range(a) \subseteq Range(free) /\ Range(a) \cap Range(hit) = {}
       /\ Range(b) = Range(free) \ (Range(hit) \cup Range(a))
  BY <1>3, <1>14
<1>17. R <= Len(o) + Len(a)
  BY <1>12, <1>14
<1> QED
  BY <1>14, <1>15, <1>16, <1>17 DEF NewShape, a, b, R, o

GivenShape(r, hit, n) ==
    /\ Given(r, hit, n) \in Seq(Blocks) /\ IsInjective(Given(r, hit, n))
    /\ Len(Given(r, hit, n)) = Len(Own(r, hit)) + Len(New(r, hit, n))
    /\ Range(Given(r, hit, n)) =
         Range(Held(r)) \cup Range(hit) \cup Range(New(r, hit, n))
    /\ Range(hit \o New(r, hit, n)) = Range(hit) \cup Range(New(r, hit, n))
    /\ (Range(hit) \cup Range(New(r, hit, n))) \cap Range(Held(r)) = {}
    /\ \A k \in 1 .. Len(Own(r, hit)) :
         /\ k \in 1 .. Len(Given(r, hit, n)) /\ Given(r, hit, n)[k] = Own(r, hit)[k]
         /\ Given(r, hit, n)[k] \notin Range(New(r, hit, n))
    /\ \A k \in 1 .. Len(Given(r, hit, n)) : k \notin 1 .. Len(Own(r, hit)) =>
         Given(r, hit, n)[k] \in Range(New(r, hit, n))

LEMMA GivenFacts ==
    ASSUME PoolInv, NEW r, NEW hit, NEW n, Allocating(r, hit, n)
    PROVE  GivenShape(r, hit, n)
<1> DEFINE o == Own(r, hit)
           a == New(r, hit, n)
           g == Given(r, hit, n)
           L == Range(Held(r))
           H == Range(hit)
<1>1. o \in Seq(Blocks) /\ IsInjective(o) /\ L \cap H = {}
  BY OwnFacts DEF OwnShape
<1>2. /\ a \in Seq(Blocks) /\ IsInjective(a)
      /\ Range(a) \subseteq Range(free) /\ Range(a) \cap H = {}
  BY NewFacts DEF NewShape
<1>3. HolderInv /\ AccountInv /\ hit \in Seq(Blocks) /\ Held(r) \in Seq(Blocks)
  BY HeldFacts DEF PoolInv, Allocating
<1>4. Range(a) \cap L = {}
  BY <1>2, <1>3, FreeNotHeld
<1>5. Range(o) = L \cup H
  BY <1>3, RangeOfConcat DEF Own
<1>6. Range(o) \cap Range(a) = {}
  BY <1>2, <1>4, <1>5
<1>7. g = o \o a
  BY DEF Given, Own
<1>8. Range(hit \o a) = H \cup Range(a)
  BY <1>2, <1>3, RangeOfConcat
<1> HIDE DEF o, a, g, L, H
<1>9. /\ g \in Seq(Blocks) /\ Len(g) = Len(o) + Len(a) /\ Range(g) = Range(o) \cup Range(a)
      /\ \A i \in 1 .. Len(o) : g[i] = o[i]
      /\ \A i \in 1 .. Len(o) + Len(a) : i \notin 1 .. Len(o) =>
            i - Len(o) \in 1 .. Len(a) /\ g[i] = a[i - Len(o)]
      /\ IsInjective(g)
  <2>1. o \in Seq(Blocks) /\ a \in Seq(Blocks)
    BY <1>1, <1>2
  <2>2. /\ o \o a \in Seq(Blocks) /\ Len(o \o a) = Len(o) + Len(a)
        /\ Range(o \o a) = Range(o) \cup Range(a)
        /\ \A i \in 1 .. Len(o) : (o \o a)[i] = o[i]
        /\ \A i \in 1 .. Len(o) + Len(a) : i \notin 1 .. Len(o) =>
              i - Len(o) \in 1 .. Len(a) /\ (o \o a)[i] = a[i - Len(o)]
    BY <2>1, Joined
  <2>3. IsInjective(o) /\ IsInjective(a)
    BY <1>1, <1>2
  <2>4. IsInjective(o \o a)
    BY <1>6, <2>1, <2>3, JoinedInjective
  <2> QED
    BY <1>7, <2>2, <2>4
<1>10. Len(o) \in Nat /\ Len(a) \in Nat /\ DOMAIN a = 1 .. Len(a) /\ DOMAIN o = 1 .. Len(o)
  BY <1>1, <1>2, DomainOfSeq
<1>11. \A k \in 1 .. Len(o) : k \in 1 .. Len(o) + Len(a)
  BY <1>10, SMT
<1>12. \A k \in 1 .. Len(o) : o[k] \notin Range(a)
  BY <1>6, <1>10 DEF Range
<1>13. \A k \in 1 .. Len(a) : a[k] \in Range(a)
  BY <1>10 DEF Range
<1>14. \A k \in 1 .. Len(o) : k \in 1 .. Len(g) /\ g[k] = o[k] /\ g[k] \notin Range(a)
  BY <1>9, <1>11, <1>12
<1>15. \A k \in 1 .. Len(g) : k \notin 1 .. Len(o) => g[k] \in Range(a)
  BY <1>9, <1>13
<1>16. Range(g) = L \cup H \cup Range(a) /\ (H \cup Range(a)) \cap L = {}
  BY <1>1, <1>4, <1>5, <1>9
<1> QED
  BY <1>8, <1>9, <1>14, <1>15, <1>16 DEF GivenShape, o, a, g, L, H

FullShape(r, hit, n) ==
    /\ NumCached(r, hit) \in Nat /\ NumFull(r, hit, n) \in Nat
    /\ NumCached(r, hit) <= NumFull(r, hit, n)
    /\ NumFull(r, hit, n) <= Len(Given(r, hit, n))
    /\ NumFull(r, hit, n) * BlockSize <= Len(tokens[r])
    /\ Len(Given(r, hit, n)) \in Nat
    /\ \/ NumFull(r, hit, n) = NumCached(r, hit)
       \/ NumFull(r, hit, n) * BlockSize <= ComputedWith(r, hit) + n
    /\ ComputedWith(r, hit) + n < (NumFull(r, hit, n) + 1) * BlockSize
    /\ ComputedWith(r, hit) + n <= Len(Given(r, hit, n)) * BlockSize

LEMMA FullFacts ==
    ASSUME PoolInv, NEW r, NEW hit, NEW n, Allocating(r, hit, n)
    PROVE  FullShape(r, hit, n)
<1> DEFINE c == NumCached(r, hit)
           f == NumFull(r, hit, n)
           o == Len(Own(r, hit))
           g == Len(Given(r, hit, n))
           w == ComputedWith(r, hit) + n
           d == w \div BlockSize
           R == RequiredBlocks(r, hit, n)
           T == Len(tokens[r])
           a == Len(New(r, hit, n))
<1>1. RequestInv
  BY DEF PoolInv
<1>2. ComputedWith(r, hit) \in Nat /\ n \in Nat /\ w <= T /\ T \in Nat
      /\ NumTokensToCache(r, hit, n) = w /\ R = Cdiv(w)
  BY <1>1, WantedFacts
<1>3. w \in Nat
  BY <1>2, SMT
<1>4. o \in Nat /\ a \in Nat /\ c \in 0 .. o /\ c * BlockSize <= T
  BY OwnFacts, NewFacts, DomainOfSeq DEF OwnShape, NewShape
<1>5. R <= o + a /\ g = o + a
  BY NewFacts, GivenFacts DEF NewShape, GivenShape
<1>6. R \in Nat /\ w <= R * BlockSize /\ R * BlockSize < w + BlockSize
  BY <1>2, <1>3, CdivBounds
<1>7. d \in Nat /\ d * BlockSize <= w /\ w < d * BlockSize + BlockSize
  BY <1>3, Quotient
<1>8. f = Max({c, d})
  BY <1>2 DEF NumFull
<1>9. BlockSize \in Nat /\ BlockSize > 0
  BY BlockSizeType
<1> HIDE DEF c, f, o, g, w, d, R, T, a
<1>10. c \in Int /\ d \in Int /\ c \in Nat /\ g \in Int /\ R \in Int /\ g \in Nat
       /\ d + 1 \in Int /\ c <= g /\ R <= g
  BY <1>4, <1>5, <1>6, <1>7, SMT
<1>11. f = IF c >= d THEN c ELSE d
  BY <1>8, <1>10, MaxOfTwo
<1>12. d <= R
  <2>1. R < d => R * BlockSize + BlockSize <= d * BlockSize
    BY <1>10, Multiples
  <2>2. R * BlockSize \in Int /\ d * BlockSize \in Int
    BY <1>10, Multiples
  <2> QED
    BY <1>3, <1>6, <1>7, <1>9, <2>1, <2>2, <1>10, SMT
<1>13. f \in Nat /\ c <= f /\ f <= g /\ (f = c \/ f = d) /\ d <= f /\ f \in Int
  BY <1>7, <1>10, <1>11, <1>12, SMT
<1>14. f * BlockSize <= T /\ (f = c \/ f * BlockSize <= w)
  <2>1. d * BlockSize <= T
    <3>1. d * BlockSize \in Int
      BY <1>10, Multiples
    <3> QED
      BY <1>2, <1>3, <1>7, <3>1, SMT
  <2> QED
    BY <1>4, <1>7, <1>13, <2>1
<1>15. w < (f + 1) * BlockSize
  <2>1. (f + 1) * BlockSize = f * BlockSize + BlockSize /\ f * BlockSize \in Int
        /\ d * BlockSize \in Int /\ d * BlockSize <= f * BlockSize
    BY <1>10, <1>13, Multiples
  <2> QED
    BY <1>3, <1>7, <1>9, <2>1, SMT
<1>16. w <= g * BlockSize
  <2>1. R * BlockSize <= g * BlockSize /\ R * BlockSize \in Int /\ g * BlockSize \in Int
    BY <1>10, Multiples
  <2> QED
    BY <1>3, <1>6, <2>1, SMT
<1> QED
  BY <1>10, <1>13, <1>14, <1>15, <1>16 DEF FullShape, c, f, g, w, T

LEMMA RangeOfAppend ==
    ASSUME NEW S, NEW s \in Seq(S), NEW e \in S
    PROVE  Range(Append(s, e)) = Range(s) \cup {e}
<1> DEFINE t == Append(s, e)
           L == Len(s)
<1>1. /\ t \in Seq(S) /\ Len(t) = L + 1 /\ \A i \in 1 .. L : t[i] = s[i]
      /\ t[L + 1] = e
  BY AppendedFacts, SMTT(15)
<1>2. L \in Nat /\ DOMAIN s = 1 .. L
  BY DomainOfSeq
<1>3. DOMAIN t = 1 .. L + 1
  BY <1>1, DomainOfSeq
<1>4. \A i \in 1 .. L + 1 : i \in 1 .. L \/ i = L + 1
  BY <1>2, SMT
<1>5. L + 1 \in 1 .. L + 1 /\ \A i \in 1 .. L : i \in 1 .. L + 1
  BY <1>2, SMT
<1> HIDE DEF t, L
<1>6. ASSUME NEW x \in Range(t) PROVE x \in Range(s) \cup {e}
  <2>1. PICK i \in 1 .. L + 1 : x = t[i]
    BY <1>3, <1>6 DEF Range
  <2>2. CASE i \in 1 .. L
    BY <1>1, <1>2, <2>1, <2>2 DEF Range
  <2>3. CASE i = L + 1
    BY <1>1, <2>1, <2>3
  <2> QED
    BY <1>4, <2>2, <2>3
<1>7. ASSUME NEW x \in Range(s) PROVE x \in Range(t)
  <2>1. PICK i \in 1 .. L : x = s[i]
    BY <1>2, <1>7 DEF Range
  <2> QED
    BY <1>1, <1>3, <1>5, <2>1 DEF Range
<1>8. e \in Range(t)
  BY <1>1, <1>3, <1>5 DEF Range
<1>9. Range(t) = Range(s) \cup {e}
  BY <1>6, <1>7, <1>8
<1> QED
  BY <1>9 DEF t

LEMMA EmptyOrNot ==
    ASSUME NEW S, NEW s \in Seq(S)
    PROVE  (s # <<>>) <=> (Range(s) # {})
<1>1. CASE s = <<>>
  BY <1>1, EmptyFacts
<1>2. CASE s # <<>>
  <2>1. Len(s) \in Nat \ {0}
    BY <1>2, EmptyOrLong
  <2>2. 1 \in 1 .. Len(s)
    BY <2>1, SMT
  <2>3. DOMAIN s = 1 .. Len(s)
    BY DomainOfSeq
  <2> QED
    BY <1>2, <2>2, <2>3 DEF Range
<1> QED
  BY <1>1, <1>2

Popped(W, map, set) ==
    /\ \A h \in DOMAIN W : /\ h \in DOMAIN map /\ W[h] \in Seq(Blocks) /\ W[h] # <<>>
                           /\ Range(W[h]) = Range(map[h]) \ set
    /\ \A h \in DOMAIN map : \A b \in Range(map[h]) : b \notin set => h \in DOMAIN W

Inserted(W, map, new) ==
    /\ DOMAIN W = DOMAIN map \cup DOMAIN new
    /\ \A h \in DOMAIN W : /\ W[h] \in Seq(Blocks) /\ W[h] # <<>>
                           /\ \A b \in Range(W[h]) : \/ h \in DOMAIN map /\ b \in Range(map[h])
                                                     \/ h \in DOMAIN new /\ b = new[h]
    /\ \A h \in DOMAIN map : \A b \in Range(map[h]) : b \in Range(W[h])
    /\ \A h \in DOMAIN new : new[h] \in Range(W[h])

\* pop: only the given blocks disappear.
LEMMA WithoutBlocksFacts ==
    ASSUME NEW map, \A h \in DOMAIN map : map[h] \in Seq(Blocks), NEW set
    PROVE  Popped(WithoutBlocks(map, set), map, set)
<1> DEFINE W == WithoutBlocks(map, set)
           K(h) == Kept(map[h], Blocks \ set)
<1>1. W = [h \in {g \in DOMAIN map : K(g) # <<>>} |-> K(h)]
  BY DEF WithoutBlocks
<1>2. \A h \in DOMAIN map : K(h) \in Seq(Blocks) /\ Range(K(h)) = Range(map[h]) \cap (Blocks \ set)
  BY KeptProperties
<1>3. \A h \in DOMAIN map : \A b \in Range(map[h]) : b \in Blocks
  BY RangeInSet
<1> HIDE DEF K
<1>4. \A h \in DOMAIN map : Range(K(h)) = Range(map[h]) \ set
  BY <1>2, <1>3
<1>5. DOMAIN W = {g \in DOMAIN map : K(g) # <<>>} /\ \A h \in DOMAIN W : W[h] = K(h)
  BY <1>1
<1> HIDE DEF W
<1>6. \A h \in DOMAIN W : h \in DOMAIN map /\ W[h] \in Seq(Blocks) /\ W[h] # <<>>
                          /\ Range(W[h]) = Range(map[h]) \ set
  BY <1>2, <1>4, <1>5
<1>7. ASSUME NEW h \in DOMAIN map, NEW b \in Range(map[h]), b \notin set PROVE h \in DOMAIN W
  <2>1. Range(K(h)) # {}
    BY <1>4, <1>7
  <2>2. K(h) # <<>>
    BY <1>2, <2>1, EmptyFacts
  <2> QED
    BY <1>5, <2>2
<1> QED
  BY <1>6, <1>7 DEF Popped, W

\* insert: the new blocks come after the old ones.
LEMMA WithBlocksFacts ==
    ASSUME NEW map, \A h \in DOMAIN map : map[h] \in Seq(Blocks) /\ map[h] # <<>>,
           NEW new, \A h \in DOMAIN new : new[h] \in Blocks
    PROVE  Inserted(WithBlocks(map, new), map, new)
<1> DEFINE W == WithBlocks(map, new)
           A(h) == Append(Get(map, h, <<>>), new[h])
<1>1. /\ DOMAIN W = DOMAIN map \cup DOMAIN new
      /\ \A h \in DOMAIN new : W[h] = A(h)
      /\ \A h \in DOMAIN map : h \notin DOMAIN new => W[h] = map[h]
  BY DEF WithBlocks, Update
<1> HIDE DEF W
<1>2. \A h \in DOMAIN new : Get(map, h, <<>>) \in Seq(Blocks)
  BY EmptyFacts DEF Get
<1>3. \A h \in DOMAIN new : A(h) \in Seq(Blocks) /\ A(h) # <<>>
  BY <1>2, AppendedFacts
<1>4. \A h \in DOMAIN new : Range(A(h)) = Range(Get(map, h, <<>>)) \cup {new[h]}
  <2> SUFFICES ASSUME NEW h \in DOMAIN new
               PROVE  Range(A(h)) = Range(Get(map, h, <<>>)) \cup {new[h]}
    OBVIOUS
  <2> DEFINE g == Get(map, h, <<>>)
             e == new[h]
  <2>1. g \in Seq(Blocks) /\ e \in Blocks
    BY <1>2
  <2> HIDE DEF g, e
  <2>2. Range(Append(g, e)) = Range(g) \cup {e}
    BY <2>1, RangeOfAppend
  <2> QED
    BY <2>2 DEF g, e
<1>5. \A h : Range(Get(map, h, <<>>)) = IF h \in DOMAIN map THEN Range(map[h]) ELSE {}
  BY EmptyFacts DEF Get
<1> HIDE DEF A
<1>6. ASSUME NEW h \in DOMAIN new
      PROVE  /\ W[h] \in Seq(Blocks) /\ W[h] # <<>> /\ new[h] \in Range(W[h])
             /\ \A b \in Range(W[h]) : (h \in DOMAIN map /\ b \in Range(map[h])) \/ b = new[h]
             /\ h \in DOMAIN map => \A b \in Range(map[h]) : b \in Range(W[h])
  BY <1>1, <1>3, <1>4, <1>5
<1> QED
  BY <1>1, <1>6 DEF Inserted, W

-----------------------------------------------------------------------------
(***************************************************************************)
(* What allocate_slots caches.                                             *)
(***************************************************************************)

LEMMA PrefixFacts ==
    ASSUME RequestInv, NEW r \in Live, NEW k \in Nat, k * BlockSize <= Len(tokens[r])
    PROVE  /\ Prefix(r, k * BlockSize) \in Seq(Tokens)
           /\ Len(Prefix(r, k * BlockSize)) = k * BlockSize
           /\ Len(Prefix(r, k * BlockSize)) \div BlockSize = k
           /\ k # 0 => Prefix(r, k * BlockSize) # NoHash
<1> DEFINE m == k * BlockSize
<1>1. tokens[r] \in Seq(Tokens)
  BY DEF RequestInv
<1>2. Len(tokens[r]) \in Nat /\ BlockSize \in Nat /\ BlockSize > 0
  BY <1>1, DomainOfSeq, BlockSizeType
<1>3. m \in Nat /\ (k # 0 => m # 0) /\ m < m + BlockSize /\ m <= m
  BY <1>2, SMT
<1>4. m \div BlockSize = k
  BY <1>3, QuotientUnique
<1> HIDE DEF m
<1>5. m \in 0 .. Len(tokens[r])
  <2>1. m <= Len(tokens[r])
    BY DEF m
  <2> QED
    BY <1>2, <1>3, <2>1, SMT
<1>6. Prefix(r, m) \in Seq(Tokens) /\ Len(Prefix(r, m)) = m
  BY <1>1, <1>5, FirstOfSeq DEF Prefix
<1>7. k # 0 => Prefix(r, m) # NoHash
  BY <1>3, <1>6, EmptyFacts DEF NoHash
<1>8. Len(Prefix(r, m)) \div BlockSize = k
  BY <1>4, <1>6
<1> QED
  BY <1>6, <1>7, <1>8 DEF m

Hashing(r, hit, n) ==
    /\ DOMAIN Hashes(r, hit, n) = {Prefix(r, k * BlockSize) : k \in Filled(r, hit, n)}
    /\ \A k \in Filled(r, hit, n) :
         /\ k \in Nat /\ k # 0 /\ k \in 1 .. Len(Given(r, hit, n))
         /\ k > NumCached(r, hit) /\ k <= NumFull(r, hit, n)
         /\ k * BlockSize <= Len(tokens[r])
         /\ Prefix(r, k * BlockSize) \in Seq(Tokens)
         /\ Prefix(r, k * BlockSize) # NoHash
         /\ Hashes(r, hit, n)[Prefix(r, k * BlockSize)] = Given(r, hit, n)[k]
         /\ Given(r, hit, n)[k] \in Blocks
    /\ \A k \in 1 .. Len(Given(r, hit, n)) :
         (k > NumCached(r, hit) /\ k <= NumFull(r, hit, n)) <=> k \in Filled(r, hit, n)

LEMMA HashesFacts ==
    ASSUME PoolInv, NEW r, NEW hit, NEW n, Allocating(r, hit, n)
    PROVE  Hashing(r, hit, n)
<1> DEFINE F == Filled(r, hit, n)
           g == Given(r, hit, n)
           c == NumCached(r, hit)
           f == NumFull(r, hit, n)
           T == Len(tokens[r])
<1>1. RequestInv /\ r \in Live
  BY DEF PoolInv, Allocating
<1>2. c \in Nat /\ f \in Nat /\ c <= f /\ f <= Len(g) /\ f * BlockSize <= T /\ Len(g) \in Nat
  BY FullFacts DEF FullShape
<1>3. F = c + 1 .. f
  BY DEF Filled
<1>4. g \in Seq(Blocks)
  BY GivenFacts DEF GivenShape
<1>5. T \in Nat
  BY <1>1, DomainOfSeq DEF RequestInv
<1>6. Hashes(r, hit, n) = [h \in {Prefix(r, k * BlockSize) : k \in F} |-> g[Len(h) \div BlockSize]]
  BY DEF Hashes
<1> HIDE DEF F, g, c, f, T
<1>7. \A k \in F : k \in Nat /\ k # 0 /\ k \in 1 .. Len(g) /\ k > c /\ k <= f
                   /\ k \in Int /\ f \in Int
  BY <1>2, <1>3, SMT
<1>8. \A k \in 1 .. Len(g) : (k > c /\ k <= f) <=> k \in F
  BY <1>2, <1>3, SMT
<1>9. \A k \in F : k * BlockSize <= T
  <2> SUFFICES ASSUME NEW k \in F PROVE k * BlockSize <= T
    OBVIOUS
  <2>1. k \in Int /\ f \in Int /\ k <= f
    BY <1>7
  <2>2. k * BlockSize <= f * BlockSize /\ k * BlockSize \in Int /\ f * BlockSize \in Int
    BY <2>1, Multiples
  <2> QED
    BY <1>2, <1>5, <2>2, SMT
<1>10. \A k \in F : /\ Prefix(r, k * BlockSize) \in Seq(Tokens)
                    /\ Prefix(r, k * BlockSize) # NoHash
                    /\ Len(Prefix(r, k * BlockSize)) \div BlockSize = k
  BY <1>1, <1>7, <1>9, PrefixFacts DEF T
<1>11. \A k \in F : Hashes(r, hit, n)[Prefix(r, k * BlockSize)] = g[k]
  BY <1>6, <1>10
<1>12. \A k \in F : g[k] \in Blocks
  BY <1>4, <1>7, MemberOfSeq
<1>13. DOMAIN Hashes(r, hit, n) = {Prefix(r, k * BlockSize) : k \in F}
  BY <1>6
<1> QED
  BY <1>7, <1>8, <1>9, <1>10, <1>11, <1>12, <1>13 DEF Hashing, F, g, c, f, T

HashedRight(r, hit, n) ==
    /\ block_hash' \in [Blocks -> Seq(Tokens)]
    /\ \A k \in Filled(r, hit, n) :
         block_hash'[Given(r, hit, n)[k]] = Prefix(r, k * BlockSize)
    /\ \A b \in Blocks : (\A k \in Filled(r, hit, n) : Given(r, hit, n)[k] # b) =>
         block_hash'[b] = IF b \in Range(New(r, hit, n)) THEN NoHash ELSE block_hash[b]

LEMMA HashAfter ==
    ASSUME PoolInv, NEW r, NEW hit, NEW n, Allocating(r, hit, n), AllocateSlots(r, hit, n)
    PROVE  HashedRight(r, hit, n)
<1> DEFINE F == Filled(r, hit, n)
           g == Given(r, hit, n)
           H == Hashes(r, hit, n)
           N == Range(New(r, hit, n))
           p(k) == Prefix(r, k * BlockSize)
<1>1. block_hash' = Rehashed(H, N)
  BY AllocateSlotsParts DEF Allocated
<1>2. /\ DOMAIN H = {p(k) : k \in F}
      /\ \A k \in F : k \in 1 .. Len(g) /\ p(k) \in Seq(Tokens) /\ H[p(k)] = g[k] /\ g[k] \in Blocks
  <2> Hashing(r, hit, n)
    BY HashesFacts
  <2>1. DOMAIN H = {p(k) : k \in F}
    BY DEF Hashing
  <2>2. ASSUME NEW k \in F
        PROVE  k \in 1 .. Len(g) /\ p(k) \in Seq(Tokens) /\ H[p(k)] = g[k] /\ g[k] \in Blocks
    BY DEF Hashing
  <2> QED
    BY <2>1, <2>2
<1>3. g \in Seq(Blocks) /\ IsInjective(g) /\ DOMAIN g = 1 .. Len(g)
  BY GivenFacts, DomainOfSeq DEF GivenShape
<1>4. block_hash \in [Blocks -> Seq(Tokens)] /\ NoHash \in Seq(Tokens)
  BY EmptyFacts DEF PoolInv, PoolTypeInv, NoHash
<1> HIDE DEF F, g, H, N, p
<1>5. \A h \in DOMAIN H : \E k \in F : h = p(k) /\ H[h] = g[k]
  BY <1>2
<1>6. \A j, k \in F : g[j] = g[k] => j = k
  BY <1>2, <1>3 DEF IsInjective
<1>7. ASSUME NEW k \in F PROVE block_hash'[g[k]] = p(k)
  <2>1. p(k) \in DOMAIN H /\ H[p(k)] = g[k] /\ g[k] \in Blocks
    BY <1>2
  <2>2. \A h \in DOMAIN H : H[h] = g[k] => h = p(k)
    BY <1>5, <1>6
  <2>3. block_hash'[g[k]] = CHOOSE h \in DOMAIN H : H[h] = g[k]
    BY <1>1, <2>1 DEF Rehashed
  <2> QED
    BY <2>1, <2>2, <2>3
<1>8. ASSUME NEW b \in Blocks, \A k \in F : g[k] # b
      PROVE  block_hash'[b] = IF b \in N THEN NoHash ELSE block_hash[b]
  <2>1. ~\E h \in DOMAIN H : H[h] = b
    BY <1>5, <1>8
  <2> QED
    BY <1>1, <2>1 DEF Rehashed
<1>9. \A b \in Blocks : block_hash'[b] \in Seq(Tokens)
  <2> SUFFICES ASSUME NEW b \in Blocks PROVE block_hash'[b] \in Seq(Tokens)
    OBVIOUS
  <2>1. CASE \E k \in F : g[k] = b
    BY <1>2, <1>7, <2>1
  <2>2. CASE \A k \in F : g[k] # b
    BY <1>4, <1>8, <2>2
  <2> QED
    BY <2>1, <2>2
<1>10. block_hash' \in [Blocks -> Seq(Tokens)]
  <2>1. DOMAIN block_hash' = Blocks /\ block_hash' = [b \in Blocks |-> block_hash'[b]]
    BY <1>1 DEF Rehashed
  <2> QED
    BY <1>9, <2>1
<1> QED
  BY <1>7, <1>8, <1>10 DEF HashedRight, F, g, N, p

CachedRight(r, hit, n) ==
    /\ \A h \in DOMAIN cached' : cached'[h] \in Seq(Blocks) /\ cached'[h] # <<>>
    /\ \A h \in DOMAIN cached' : \A b \in Range(cached'[h]) :
         \/ h \in DOMAIN cached /\ b \in Range(cached[h]) /\ b \notin Range(New(r, hit, n))
         \/ \E k \in Filled(r, hit, n) :
               h = Prefix(r, k * BlockSize) /\ b = Given(r, hit, n)[k]
    /\ \A h \in DOMAIN cached : \A b \in Range(cached[h]) :
         b \notin Range(New(r, hit, n)) => h \in DOMAIN cached' /\ b \in Range(cached'[h])
    /\ \A k \in Filled(r, hit, n) :
         /\ Prefix(r, k * BlockSize) \in DOMAIN cached'
         /\ Given(r, hit, n)[k] \in Range(cached'[Prefix(r, k * BlockSize)])

LEMMA CachedAfter ==
    ASSUME PoolInv, NEW r, NEW hit, NEW n, Allocating(r, hit, n), AllocateSlots(r, hit, n)
    PROVE  CachedRight(r, hit, n)
<1> DEFINE F == Filled(r, hit, n)
           g == Given(r, hit, n)
           H == Hashes(r, hit, n)
           N == Range(New(r, hit, n))
           p(k) == Prefix(r, k * BlockSize)
           W == WithoutBlocks(cached, N)
<1>1. cached' = WithBlocks(W, H)
  BY AllocateSlotsParts DEF Allocated
<1>2. /\ DOMAIN H = {p(k) : k \in F}
      /\ \A k \in F : H[p(k)] = g[k] /\ g[k] \in Blocks
  <2> Hashing(r, hit, n)
    BY HashesFacts
  <2>1. DOMAIN H = {p(k) : k \in F}
    BY DEF Hashing
  <2>2. ASSUME NEW k \in F PROVE H[p(k)] = g[k] /\ g[k] \in Blocks
    BY DEF Hashing
  <2> QED
    BY <2>1, <2>2
<1>3. \A h \in DOMAIN cached : cached[h] \in Seq(Blocks)
  BY DEF PoolInv, PoolTypeInv
<1> HIDE DEF F, g, H, N, p
<1>4. /\ \A h \in DOMAIN W : /\ h \in DOMAIN cached /\ W[h] \in Seq(Blocks) /\ W[h] # <<>>
                             /\ Range(W[h]) = Range(cached[h]) \ N
      /\ \A h \in DOMAIN cached : \A b \in Range(cached[h]) : b \notin N => h \in DOMAIN W
  BY <1>3, WithoutBlocksFacts DEF Popped
<1> HIDE DEF W
<1>5. \A h \in DOMAIN H : H[h] \in Blocks /\ \E k \in F : h = p(k) /\ H[h] = g[k]
  BY <1>2
<1>6. \A k \in F : p(k) \in DOMAIN H /\ H[p(k)] = g[k]
  BY <1>2
<1>7. /\ DOMAIN cached' = DOMAIN W \cup DOMAIN H
      /\ \A h \in DOMAIN cached' : /\ cached'[h] \in Seq(Blocks) /\ cached'[h] # <<>>
                                   /\ \A b \in Range(cached'[h]) :
                                         \/ h \in DOMAIN W /\ b \in Range(W[h])
                                         \/ h \in DOMAIN H /\ b = H[h]
      /\ \A h \in DOMAIN W : \A b \in Range(W[h]) : b \in Range(cached'[h])
      /\ \A h \in DOMAIN H : H[h] \in Range(cached'[h])
  <2>1. \A h \in DOMAIN W : W[h] \in Seq(Blocks) /\ W[h] # <<>>
    BY <1>4
  <2>2. \A h \in DOMAIN H : H[h] \in Blocks
    BY <1>5
  <2>3. Inserted(cached', W, H)
    BY <1>1, <2>1, <2>2, WithBlocksFacts
  <2> QED
    BY <2>3 DEF Inserted
<1>8. \A h \in DOMAIN cached' : cached'[h] \in Seq(Blocks) /\ cached'[h] # <<>>
  BY <1>7
<1>9. ASSUME NEW h \in DOMAIN cached', NEW b \in Range(cached'[h])
      PROVE  \/ h \in DOMAIN cached /\ b \in Range(cached[h]) /\ b \notin N
             \/ \E k \in F : h = p(k) /\ b = g[k]
  <2>1. CASE h \in DOMAIN W /\ b \in Range(W[h])
    BY <1>4, <2>1
  <2>2. CASE h \in DOMAIN H /\ b = H[h]
    BY <1>5, <2>2
  <2>3. (h \in DOMAIN W /\ b \in Range(W[h])) \/ (h \in DOMAIN H /\ b = H[h])
    BY <1>7, <1>9
  <2> QED
    BY <2>1, <2>2, <2>3
<1>10. ASSUME NEW h \in DOMAIN cached, NEW b \in Range(cached[h]), b \notin N
       PROVE  h \in DOMAIN cached' /\ b \in Range(cached'[h])
  BY <1>4, <1>7, <1>10
<1>11. \A k \in F : p(k) \in DOMAIN cached' /\ g[k] \in Range(cached'[p(k)])
  BY <1>6, <1>7
<1> QED
  BY <1>8, <1>9, <1>10, <1>11 DEF CachedRight, F, g, N, p

-----------------------------------------------------------------------------
(***************************************************************************)
(* A step that allocates keeps the invariant of the pool.                  *)
(***************************************************************************)
Allocates(r, hit, n) ==
    /\ Allocating(r, hit, n) /\ AllocateSlots(r, hit, n)
    /\ running' = running \cup {r}
    /\ UNCHANGED <<tokens, phase, content>> /\ phase # "idle"

HeldRight(r, hit, n) ==
    /\ DOMAIN req_to_blocks' = DOMAIN req_to_blocks \cup {r}
    /\ req_to_blocks'[r] = Given(r, hit, n)
    /\ \A q \in DOMAIN req_to_blocks : q # r => req_to_blocks'[q] = req_to_blocks[q]
    /\ Held(r)' = Given(r, hit, n) /\ \A q : q # r => Held(q)' = Held(q)
    /\ DOMAIN num_cached_block' = DOMAIN num_cached_block \cup {r}
    /\ num_cached_block'[r] = NumFull(r, hit, n)
    /\ \A q \in DOMAIN num_cached_block : q # r => num_cached_block'[q] = num_cached_block[q]

LEMMA HeldAfter ==
    ASSUME NEW r, NEW hit, NEW n, Allocates(r, hit, n)
    PROVE  HeldRight(r, hit, n)
<1>1. Allocated(r, hit, n)
  BY AllocateSlotsParts DEF Allocates
<1>2. /\ req_to_blocks' = Update(req_to_blocks, [q \in {r} |-> Given(r, hit, n)])
      /\ num_cached_block' = Update(num_cached_block, [q \in {r} |-> NumFull(r, hit, n)])
  BY <1>1 DEF Allocated
<1>3. /\ DOMAIN req_to_blocks' = DOMAIN req_to_blocks \cup {r}
      /\ req_to_blocks'[r] = Given(r, hit, n)
      /\ \A q \in DOMAIN req_to_blocks : q # r => req_to_blocks'[q] = req_to_blocks[q]
  BY <1>2 DEF Update
<1>4. /\ DOMAIN num_cached_block' = DOMAIN num_cached_block \cup {r}
      /\ num_cached_block'[r] = NumFull(r, hit, n)
      /\ \A q \in DOMAIN num_cached_block : q # r => num_cached_block'[q] = num_cached_block[q]
  BY <1>2 DEF Update
<1>5. Held(r)' = Given(r, hit, n)
  BY <1>3 DEF Held, Get
<1>6. ASSUME NEW q, q # r PROVE Held(q)' = Held(q)
  BY <1>3, <1>6 DEF Held, Get
<1> QED
  BY <1>3, <1>4, <1>5, <1>6 DEF HeldRight

LEMMA AllocateTypes ==
    ASSUME PoolInv, NEW r, NEW hit, NEW n, Allocates(r, hit, n)
    PROVE  PoolTypeInv' /\ HolderInv'
<1>1. Allocating(r, hit, n) /\ AllocateSlots(r, hit, n)
      /\ running' = running \cup {r} /\ content' = content
  BY DEF Allocates
<1>2. PoolTypeInv /\ HolderInv
  BY DEF PoolInv
<1> Allocated(r, hit, n) /\ HeldRight(r, hit, n)
  BY <1>1, AllocateSlotsParts, HeldAfter
<1>3. free' \in Seq(Blocks) /\ IsInjective(free')
  <2>1. free' = Rest(r, hit, n)
    BY DEF Allocated
  <2>2. Rest(r, hit, n) \in Seq(Blocks) /\ IsInjective(Rest(r, hit, n))
    BY <1>1, NewFacts DEF NewShape
  <2> QED
    BY <2>1, <2>2
<1>4. ref_cnt' \in [Blocks -> Nat]
  <2>1. ref_cnt' = Referenced(Range(hit \o New(r, hit, n)))
    BY DEF Allocated
  <2>2. \A b \in Blocks : ref_cnt[b] \in Nat
    BY <1>2 DEF PoolTypeInv
  <2>3. \A x \in Nat : x + 1 \in Nat
    BY SMT
  <2> QED
    BY <2>1, <2>2, <2>3 DEF Referenced
<1>5. block_hash' \in [Blocks -> Seq(Tokens)]
  BY <1>1, HashAfter DEF HashedRight
<1>6. \A h \in DOMAIN cached' : cached'[h] \in Seq(Blocks) /\ cached'[h] # <<>>
  BY <1>1, CachedAfter DEF CachedRight
<1>7. PoolTypeInv'
  BY <1>1, <1>2, <1>3, <1>4, <1>5, <1>6 DEF PoolTypeInv, Blocks
<1>8. IsFiniteSet(DOMAIN req_to_blocks')
  <2>1. IsFiniteSet(DOMAIN req_to_blocks) /\ DOMAIN req_to_blocks' = DOMAIN req_to_blocks \cup {r}
    BY <1>2 DEF HolderInv, HeldRight
  <2> QED
    BY <2>1, FS_AddElement
<1>9. DOMAIN num_cached_block' = running' /\ running' \subseteq DOMAIN req_to_blocks'
  BY <1>1, <1>2 DEF HolderInv, HeldRight
<1>10. ASSUME NEW q \in DOMAIN req_to_blocks'
       PROVE  /\ req_to_blocks'[q] \in Seq(Blocks) /\ IsInjective(req_to_blocks'[q])
              /\ q \notin running' => req_to_blocks'[q] = <<>>
  <2>1. CASE q = r
    <3>1. Given(r, hit, n) \in Seq(Blocks) /\ IsInjective(Given(r, hit, n))
      BY <1>1, GivenFacts DEF GivenShape
    <3> QED
      BY <1>1, <2>1, <3>1 DEF HeldRight
  <2>2. CASE q # r
    <3>1. q \in DOMAIN req_to_blocks /\ req_to_blocks'[q] = req_to_blocks[q]
      BY <2>2 DEF HeldRight
    <3> QED
      BY <1>1, <1>2, <3>1 DEF HolderInv
  <2> QED
    BY <2>1, <2>2
<1>11. HolderInv'
  BY <1>8, <1>9, <1>10 DEF HolderInv, Blocks
<1> QED
  BY <1>7, <1>11

LEMMA AllocateAccounts ==
    ASSUME PoolInv, NEW r, NEW hit, NEW n, Allocates(r, hit, n)
    PROVE  AccountInv'
<1> DEFINE N == Range(New(r, hit, n))
           H == Range(hit)
           L == Range(Held(r))
<1>1. Allocating(r, hit, n) /\ AllocateSlots(r, hit, n)
  BY DEF Allocates
<1>2. HolderInv /\ AccountInv /\ PoolTypeInv
  BY DEF PoolInv
<1> Allocated(r, hit, n) /\ HeldRight(r, hit, n)
  BY <1>1, AllocateSlotsParts, HeldAfter
<1> GivenShape(r, hit, n)
  BY <1>1, GivenFacts
<1>3. /\ Range(Given(r, hit, n)) = L \cup H \cup N
      /\ Range(hit \o New(r, hit, n)) = H \cup N
      /\ (H \cup N) \cap L = {}
  BY DEF GivenShape
<1>4. Range(Rest(r, hit, n)) = Range(free) \ (H \cup N)
  BY <1>1, NewFacts DEF NewShape
<1>5. ref_cnt' = Referenced(H \cup N) /\ free' = Rest(r, hit, n)
  BY <1>3 DEF Allocated
<1>6. /\ DOMAIN req_to_blocks' = DOMAIN req_to_blocks \cup {r}
      /\ Range(Held(r)') = L \cup H \cup N
  BY <1>3 DEF HeldRight
<1>7. r \notin DOMAIN req_to_blocks => L = {}
  BY EmptyFacts DEF Held, Get
<1> HIDE DEF N, H, L
<1>8. \A b \in Blocks : b \in H \cup N => ref_cnt'[b] = ref_cnt[b] + 1
  BY <1>5 DEF Referenced
<1>9. \A b \in Blocks : b \notin H \cup N => ref_cnt'[b] = ref_cnt[b]
  BY <1>5 DEF Referenced
<1>10. ASSUME NEW b \in Blocks PROVE ref_cnt'[b] = Cardinality(Holders(b)')
  <2>1. r \in Holders(b)' <=> b \in L \cup H \cup N
    BY <1>6 DEF Holders
  <2>5. ASSUME NEW q, q # r PROVE q \in Holders(b)' <=> q \in Holders(b)
    <3>1. Held(q)' = Held(q)
      BY <2>5 DEF HeldRight
    <3>2. q \in DOMAIN req_to_blocks' <=> q \in DOMAIN req_to_blocks
      BY <1>6, <2>5
    <3> QED
      BY <3>1, <3>2 DEF Holders
  <2>2. ref_cnt[b] = Cardinality(Holders(b))
    BY <1>2 DEF AccountInv
  <2>3. CASE b \in H \cup N
    <3>1. b \notin L
      BY <1>3, <2>3 DEF N, H, L
    <3>2. r \notin Holders(b)
      BY <3>1 DEF Holders, L
    <3>3. Holders(b)' = Holders(b) \cup {r}
      BY <2>1, <2>3, <2>5
    <3>4. Cardinality(Holders(b) \cup {r}) = Cardinality(Holders(b)) + 1
      BY <1>2, <3>2, HoldersFinite, FS_AddElement
    <3> QED
      BY <1>8, <2>2, <2>3, <3>3, <3>4
  <2>4. CASE b \notin H \cup N
    <3>1. Holders(b)' = Holders(b)
      <4>1. r \in Holders(b) <=> b \in L
        BY <1>7 DEF Holders, L
      <4>2. r \in Holders(b)' <=> r \in Holders(b)
        BY <2>1, <2>4, <4>1
      <4>3. \A q : q \in Holders(b)' <=> q \in Holders(b)
        BY <2>5, <4>2
      <4> QED
        BY <4>3
    <3> QED
      BY <1>9, <2>2, <2>4, <3>1
  <2> QED
    BY <2>3, <2>4
<1>11. Range(free') = {b \in Blocks : ref_cnt'[b] = 0}
  <2>1. \A b \in Range(free) : b \in Blocks /\ ref_cnt[b] = 0
    BY <1>2 DEF AccountInv
  <2>2. \A b \in Blocks : ref_cnt[b] = 0 => b \in Range(free)
    BY <1>2 DEF AccountInv
  <2>3. \A b \in Blocks : ref_cnt[b] + 1 # 0
    <3>1. \A b \in Blocks : ref_cnt[b] \in Nat
      BY <1>2 DEF PoolTypeInv
    <3>2. \A x \in Nat : x + 1 # 0
      BY SMT
    <3> QED
      BY <3>1, <3>2
  <2>4. \A b : b \in Range(free') <=> b \in Range(free) /\ b \notin H \cup N
    BY <1>4, <1>5 DEF H, N
  <2> QED
    BY <1>8, <1>9, <2>1, <2>2, <2>3, <2>4
<1> QED
  BY <1>10, <1>11 DEF AccountInv, Blocks

\* Every hash of a full block is one.
LEMMA HitHasHash ==
    ASSUME RequestInv, NEW r \in Live, NEW m \in Nat, m * BlockSize <= Len(tokens[r]),
           NEW j \in 1 .. m
    PROVE  /\ j \in Nat /\ j # 0 /\ j * BlockSize <= Len(tokens[r])
           /\ Prefix(r, j * BlockSize) # NoHash
<1>1. j \in Nat /\ j # 0 /\ j \in Int /\ m \in Int /\ j <= m
  BY SMT
<1>2. j * BlockSize <= m * BlockSize /\ j * BlockSize \in Int /\ m * BlockSize \in Int
  BY <1>1, Multiples
<1>3. Len(tokens[r]) \in Nat
  BY DomainOfSeq DEF RequestInv
<1>4. j * BlockSize <= Len(tokens[r])
  BY <1>2, <1>3, SMT
<1> QED
  BY <1>1, <1>4, PrefixFacts

\* The hashes of the blocks after the step, and why nobody else notices.
RightHashes(r, hit, n) ==
    /\ \A k \in 1 .. Len(Given(r, hit, n)) : block_hash'[Given(r, hit, n)[k]] =
          IF k <= NumFull(r, hit, n) THEN Prefix(r, k * BlockSize) ELSE NoHash
    /\ \A k \in 1 .. Len(Given(r, hit, n)) : k > NumCached(r, hit) =>
          /\ Given(r, hit, n)[k] \in Range(New(r, hit, n))
             \/ block_hash[Given(r, hit, n)[k]] = NoHash
          /\ \A q \in running \ {r} : Given(r, hit, n)[k] \notin Range(Held(q))
    /\ \A k \in 1 .. Len(Given(r, hit, n)) : ~(k > NumCached(r, hit)) =>
          /\ k \in 1 .. Len(Own(r, hit)) /\ Given(r, hit, n)[k] \notin Range(New(r, hit, n))
          /\ block_hash[Given(r, hit, n)[k]] = Prefix(r, k * BlockSize)
    /\ \A b \in Blocks : b \notin Range(New(r, hit, n)) /\ block_hash[b] # NoHash =>
          block_hash'[b] = block_hash[b]
    /\ \A q \in running \ {r} : \A b \in Range(Held(q)) :
          b \in Blocks /\ b \notin Range(New(r, hit, n)) /\ block_hash'[b] = block_hash[b]

LEMMA RightHashesFacts ==
    ASSUME PoolInv, NEW r, NEW hit, NEW n, Allocates(r, hit, n)
    PROVE  RightHashes(r, hit, n)
<1> DEFINE g == Given(r, hit, n)
           o == Own(r, hit)
           N == Range(New(r, hit, n))
           c == NumCached(r, hit)
           f == NumFull(r, hit, n)
           F == Filled(r, hit, n)
           p(k) == Prefix(r, k * BlockSize)
<1>1. Allocating(r, hit, n) /\ AllocateSlots(r, hit, n) /\ HolderInv /\ AccountInv
  BY DEF Allocates, PoolInv
<1>2. OwnShape(r, hit) /\ NewShape(r, hit, n) /\ GivenShape(r, hit, n)
  BY <1>1, OwnFacts, NewFacts, GivenFacts
<1>3. FullShape(r, hit, n) /\ Hashing(r, hit, n) /\ HashedRight(r, hit, n)
  BY <1>1, FullFacts, HashesFacts, HashAfter
<1>4. c \in Nat /\ f \in Nat /\ c <= f /\ Len(g) \in Nat
  BY <1>3 DEF FullShape
<1>5. c \in 0 .. Len(o) /\ Len(o) \in Nat
  BY <1>2, DomainOfSeq DEF OwnShape
<1>6. \A k \in 1 .. Len(o) : block_hash[o[k]] = IF k <= c THEN p(k) ELSE NoHash
  BY <1>2 DEF OwnShape
<1>7. \A q \in running \ {r} : \A k \in 1 .. Len(o) : k > c => o[k] \notin Range(Held(q))
  BY <1>2 DEF OwnShape
<1>8. \A k \in 1 .. Len(o) : k \in 1 .. Len(g) /\ g[k] = o[k] /\ g[k] \notin N
  BY <1>2 DEF GivenShape
<1>9. \A k \in 1 .. Len(g) : k \notin 1 .. Len(o) => g[k] \in N
  BY <1>2 DEF GivenShape
<1>10. g \in Seq(Blocks) /\ IsInjective(g) /\ DOMAIN g = 1 .. Len(g)
  BY <1>2, DomainOfSeq DEF GivenShape
<1>11. \A k \in 1 .. Len(g) : (k > c /\ k <= f) <=> k \in F
  BY <1>3 DEF Hashing
<1>12. \A k \in F : block_hash'[g[k]] = p(k) /\ k \in 1 .. Len(g)
  BY <1>3 DEF HashedRight, Hashing
<1>13. \A b \in Blocks : (\A k \in F : g[k] # b) =>
          block_hash'[b] = IF b \in N THEN NoHash ELSE block_hash[b]
  BY <1>3 DEF HashedRight
<1>14. \A q : \A b \in N : b \notin Range(Held(q))
  BY <1>1, <1>2, FreeNotHeld DEF NewShape
<1>15. \A q : \A b \in Range(Held(q)) : b \in Blocks
  BY <1>1, HeldFacts, RangeInSet
<1>16. \A k \in 1 .. Len(g) : g[k] \in Blocks
  BY <1>10, MemberOfSeq
<1> HIDE DEF g, o, N, c, f, F, p
<1>17. \A k \in 1 .. Len(g) : /\ ~(k > c) => k <= c /\ k <= f /\ k \in 1 .. Len(o)
                              /\ k > c => ~(k <= c)
                              /\ k \notin 1 .. Len(o) => k > c
  BY <1>4, <1>5, SMT
<1>18. \A j, k \in 1 .. Len(g) : g[j] = g[k] => j = k
  BY <1>10 DEF IsInjective
<1>19. ASSUME NEW k \in 1 .. Len(g), k > c
       PROVE  (g[k] \in N \/ block_hash[g[k]] = NoHash)
              /\ \A q \in running \ {r} : g[k] \notin Range(Held(q))
  <2>1. CASE k \in 1 .. Len(o)
    BY <1>6, <1>7, <1>8, <1>17, <1>19, <2>1
  <2>2. CASE k \notin 1 .. Len(o)
    BY <1>9, <1>14, <2>2
  <2> QED
    BY <2>1, <2>2
<1>20. ASSUME NEW k \in 1 .. Len(g), ~(k > c)
       PROVE  k \in 1 .. Len(o) /\ g[k] \notin N /\ block_hash[g[k]] = p(k)
  BY <1>6, <1>8, <1>17, <1>20
<1>21. ASSUME NEW k \in 1 .. Len(g)
       PROVE  block_hash'[g[k]] = IF k <= f THEN p(k) ELSE NoHash
  <2>1. CASE k \in F
    BY <1>11, <1>12, <2>1
  <2>2. CASE k \notin F
    <3>1. \A j \in F : g[j] # g[k]
      BY <1>12, <1>18, <2>2
    <3>2. block_hash'[g[k]] = IF g[k] \in N THEN NoHash ELSE block_hash[g[k]]
      BY <1>13, <1>16, <3>1
    <3>3. CASE k > c
      BY <1>11, <1>19, <2>2, <3>2, <3>3
    <3>4. CASE ~(k > c)
      BY <1>17, <1>20, <3>2, <3>4
    <3> QED
      BY <3>3, <3>4
  <2> QED
    BY <2>1, <2>2
<1>22. ASSUME NEW b \in Blocks, b \notin N, block_hash[b] # NoHash
       PROVE  block_hash'[b] = block_hash[b]
  <2>1. \A k \in F : g[k] # b
    BY <1>11, <1>12, <1>19, <1>22
  <2> QED
    BY <1>13, <1>22, <2>1
<1>23. ASSUME NEW q \in running \ {r}, NEW b \in Range(Held(q))
       PROVE  b \in Blocks /\ b \notin N /\ block_hash'[b] = block_hash[b]
  <2>1. b \in Blocks /\ b \notin N
    BY <1>14, <1>15
  <2>2. \A k \in F : g[k] # b
    BY <1>11, <1>12, <1>19
  <2> QED
    BY <1>13, <2>1, <2>2
<1> QED
  BY <1>19, <1>20, <1>21, <1>22, <1>23 DEF RightHashes, g, o, N, c, f, p

LEMMA AllocateHashes ==
    ASSUME PoolInv, NEW r, NEW hit, NEW n, Allocates(r, hit, n)
    PROVE  HashInv'
<1> DEFINE g == Given(r, hit, n)
           N == Range(New(r, hit, n))
           c == NumCached(r, hit)
           f == NumFull(r, hit, n)
           F == Filled(r, hit, n)
<1>1. /\ Allocating(r, hit, n) /\ AllocateSlots(r, hit, n) /\ HolderInv /\ AccountInv /\ HashInv
      /\ running' = running \cup {r} /\ tokens' = tokens
  BY DEF Allocates, PoolInv
<1>2. CachedRight(r, hit, n) /\ FullShape(r, hit, n) /\ Hashing(r, hit, n)
  BY <1>1, CachedAfter, FullFacts, HashesFacts
<1>3. RightHashes(r, hit, n) /\ HeldRight(r, hit, n) /\ GivenShape(r, hit, n) /\ HolderInv'
  BY <1>1, RightHashesFacts, HeldAfter, GivenFacts, AllocateTypes
<1>4. \A q, m : Prefix(q, m)' = Prefix(q, m)
  BY <1>1 DEF Prefix
<1>5. req_to_blocks'[r] = g /\ num_cached_block'[r] = f
  BY <1>3 DEF HeldRight
<1>6. ASSUME NEW q \in running, q # r
      PROVE  /\ req_to_blocks'[q] = req_to_blocks[q] /\ Held(q) = req_to_blocks[q]
             /\ num_cached_block'[q] = num_cached_block[q]
             /\ q \in running \ {r}
  <2>1. q \in DOMAIN req_to_blocks /\ q \in DOMAIN num_cached_block
    BY <1>1 DEF HolderInv
  <2> QED
    BY <1>1, <1>3, <1>6, <2>1, HeldFacts DEF HeldRight
<1>7. ASSUME NEW h \in DOMAIN cached'
      PROVE  h # NoHash /\ \A b \in Range(cached'[h]) : block_hash'[b] = h
  <2>1. cached'[h] # <<>> /\ cached'[h] \in Seq(Blocks)
    BY <1>2 DEF CachedRight
  <2>2. ASSUME NEW b \in Range(cached'[h]) PROVE h # NoHash /\ block_hash'[b] = h
    <3>1. \/ h \in DOMAIN cached /\ b \in Range(cached[h]) /\ b \notin N
          \/ \E k \in F : h = Prefix(r, k * BlockSize) /\ b = g[k]
      BY <1>2, <2>2 DEF CachedRight
    <3>2. CASE h \in DOMAIN cached /\ b \in Range(cached[h]) /\ b \notin N
      <4>1. h # NoHash /\ block_hash[b] = h
        BY <1>1, <3>2 DEF HashInv
      <4>2. b \in Blocks
        BY <2>1, <2>2, RangeInSet
      <4> QED
        BY <1>3, <3>2, <4>1, <4>2 DEF RightHashes
    <3>3. CASE \E k \in F : h = Prefix(r, k * BlockSize) /\ b = g[k]
      <4>1. PICK k \in F : h = Prefix(r, k * BlockSize) /\ b = g[k]
        BY <3>3
      <4>2. k \in 1 .. Len(g) /\ k <= f /\ Prefix(r, k * BlockSize) # NoHash
        BY <1>2 DEF Hashing
      <4>3. block_hash'[g[k]] = Prefix(r, k * BlockSize)
        BY <1>3, <4>2 DEF RightHashes
      <4> QED
        BY <4>1, <4>2, <4>3
    <3> QED
      BY <3>1, <3>2, <3>3
  <2>3. Range(cached'[h]) # {}
    BY <2>1, EmptyOrNot
  <2> QED
    BY <2>2, <2>3
<1>8. /\ f \in 0 .. Len(g) /\ f * BlockSize <= Len(tokens[r])
      /\ \A k \in 1 .. Len(g) :
            block_hash'[g[k]] = IF k <= f THEN Prefix(r, k * BlockSize) ELSE NoHash
  <2>1. f \in Nat /\ f <= Len(g) /\ Len(g) \in Nat /\ f * BlockSize <= Len(tokens[r])
    BY <1>2 DEF FullShape
  <2>2. f \in 0 .. Len(g)
    <3> HIDE DEF f, g
    <3> QED
      BY <2>1, SMT
  <2> QED
    BY <1>3, <2>1, <2>2 DEF RightHashes
<1>9. ASSUME NEW q \in running, q # r
      PROVE  /\ num_cached_block[q] \in 0 .. Len(req_to_blocks[q])
             /\ num_cached_block[q] * BlockSize <= Len(tokens[q])
             /\ \A k \in 1 .. Len(req_to_blocks[q]) : block_hash'[req_to_blocks[q][k]] =
                   IF k <= num_cached_block[q] THEN Prefix(q, k * BlockSize) ELSE NoHash
  <2>1. /\ num_cached_block[q] \in 0 .. Len(req_to_blocks[q])
        /\ num_cached_block[q] * BlockSize <= Len(tokens[q])
        /\ \A k \in 1 .. Len(req_to_blocks[q]) : block_hash[req_to_blocks[q][k]] =
              IF k <= num_cached_block[q] THEN Prefix(q, k * BlockSize) ELSE NoHash
    BY <1>1 DEF HashInv
  <2>2. req_to_blocks[q] \in Seq(Blocks)
    BY <1>1 DEF HolderInv
  <2>3. \A k \in 1 .. Len(req_to_blocks[q]) : req_to_blocks[q][k] \in Range(Held(q))
    BY <1>6, <1>9, <2>2, DomainOfSeq DEF Range
  <2>4. \A k \in 1 .. Len(req_to_blocks[q]) :
           block_hash'[req_to_blocks[q][k]] = block_hash[req_to_blocks[q][k]]
    BY <1>3, <1>6, <1>9, <2>3 DEF RightHashes
  <2> QED
    BY <2>1, <2>4
<1>10. ASSUME NEW q \in running', NEW s \in running', q # s,
              NEW k \in num_cached_block'[q] + 1 .. Len(req_to_blocks'[q])
       PROVE  req_to_blocks'[q][k] \notin Range(req_to_blocks'[s])
  <2>1. CASE q = r
    <3>1. s \in running /\ s # r
      BY <1>1, <1>10, <2>1
    <3>2. k \in 1 .. Len(g) /\ k > c
      <4>1. c \in Nat /\ f \in Nat /\ c <= f /\ Len(g) \in Nat /\ k \in f + 1 .. Len(g)
        BY <1>2, <1>5, <1>10, <2>1 DEF FullShape
      <4> HIDE DEF c, f, g
      <4> QED
        BY <4>1, SMT
    <3>3. g[k] \notin Range(Held(s))
      BY <1>3, <3>1, <3>2 DEF RightHashes
    <3> QED
      BY <1>5, <1>6, <2>1, <3>1, <3>3
  <2>2. CASE q # r
    <3>1. q \in running
      BY <1>1, <2>2
    <3>2. /\ num_cached_block'[q] = num_cached_block[q]
          /\ req_to_blocks'[q] = req_to_blocks[q] /\ Held(q) = req_to_blocks[q]
      BY <1>6, <2>2, <3>1
    <3>3. k \in num_cached_block[q] + 1 .. Len(req_to_blocks[q])
      BY <1>10, <3>2
    <3>4. CASE s # r
      <4>1. s \in running /\ req_to_blocks'[s] = req_to_blocks[s]
        BY <1>1, <1>6, <3>4
      <4> QED
        BY <1>1, <1>10, <3>1, <3>2, <3>3, <4>1 DEF HashInv
    <3>5. CASE s = r
      <4> DEFINE b == req_to_blocks[q][k]
      <4>1. num_cached_block[q] \in 0 .. Len(req_to_blocks[q]) /\ Len(req_to_blocks[q]) \in Nat
        BY <1>1, <3>1, DomainOfSeq DEF HashInv, HolderInv
      <4>2. k \in 1 .. Len(req_to_blocks[q]) /\ ~(k <= num_cached_block[q])
        BY <3>3, <4>1, SMT
      <4>3. block_hash[b] = NoHash
        BY <1>1, <3>1, <4>2 DEF HashInv
      <4>4. b \in Range(Held(q))
        <5>1. DOMAIN req_to_blocks[q] = 1 .. Len(req_to_blocks[q])
          BY <1>1, <3>1, DomainOfSeq DEF HolderInv
        <5> QED
          BY <3>2, <4>2, <5>1 DEF Range
      <4>5. b \notin N
        BY <1>3, <1>6, <2>2, <3>1, <4>4 DEF RightHashes
      <4>6. b \notin Range(Held(r))
        <5>1. CASE r \in running
          BY <1>1, <2>2, <3>1, <3>3, <5>1, HeldFacts DEF HashInv
        <5>2. CASE r \notin running
          BY <1>1, <5>2, HeldFacts, EmptyFacts
        <5> QED
          BY <5>1, <5>2
      <4>7. b \notin Range(hit)
        <5> SUFFICES ASSUME b \in Range(hit) PROVE FALSE
          OBVIOUS
        <5>1. hit \in Seq(Blocks) /\ DOMAIN hit = 1 .. Len(hit) /\ Len(hit) \in Nat
              /\ Len(hit) * BlockSize <= Len(tokens[r]) /\ r \in Live
          BY <1>1, DomainOfSeq DEF Allocating
        <5>2. PICK j \in 1 .. Len(hit) : b = hit[j]
          BY <5>1 DEF Range
        <5>3. block_hash[b] = Prefix(r, j * BlockSize)
          BY <1>1, <5>2 DEF Allocating
        <5>4. Prefix(r, j * BlockSize) # NoHash
          BY <5>1, HitHasHash DEF PoolInv
        <5> QED
          BY <4>3, <5>3, <5>4
      <4>8. Range(g) = Range(Held(r)) \cup Range(hit) \cup N
        BY <1>3 DEF GivenShape
      <4>9. b \notin Range(g)
        BY <4>5, <4>6, <4>7, <4>8
      <4> QED
        BY <1>5, <3>2, <3>5, <4>9
    <3> QED
      BY <3>4, <3>5
  <2> QED
    BY <2>1, <2>2
<1>11. ASSUME NEW q \in running'
       PROVE  /\ num_cached_block'[q] \in 0 .. Len(req_to_blocks'[q])
              /\ num_cached_block'[q] * BlockSize <= Len(tokens'[q])
              /\ \A k \in 1 .. Len(req_to_blocks'[q]) : block_hash'[req_to_blocks'[q][k]] =
                    IF k <= num_cached_block'[q] THEN Prefix(q, k * BlockSize)' ELSE NoHash
  <2>1. CASE q = r
    BY <1>1, <1>4, <1>5, <1>8, <2>1
  <2>2. CASE q # r
    <3>1. q \in running
      BY <1>1, <2>2
    <3>2. req_to_blocks'[q] = req_to_blocks[q] /\ num_cached_block'[q] = num_cached_block[q]
      BY <1>6, <2>2, <3>1
    <3>3. /\ num_cached_block[q] \in 0 .. Len(req_to_blocks[q])
          /\ num_cached_block[q] * BlockSize <= Len(tokens[q])
          /\ \A k \in 1 .. Len(req_to_blocks[q]) : block_hash'[req_to_blocks[q][k]] =
                IF k <= num_cached_block[q] THEN Prefix(q, k * BlockSize) ELSE NoHash
      BY <1>9, <2>2, <3>1
    <3> QED
      BY <1>1, <1>4, <3>2, <3>3
  <2> QED
    BY <2>1, <2>2
<1> QED
  BY <1>7, <1>10, <1>11 DEF HashInv, NoHash

-----------------------------------------------------------------------------
(***************************************************************************)
(* A step that frees the blocks of a request keeps the invariant.          *)
(***************************************************************************)
Reversed(s) == [i \in DOMAIN s |-> s[Len(s) + 1 - i]]

LEMMA ReversedFacts ==
    ASSUME NEW S, NEW s \in Seq(S)
    PROVE  /\ Reversed(s) \in Seq(S) /\ Range(Reversed(s)) = Range(s)
           /\ IsInjective(s) => IsInjective(Reversed(s))
           /\ \A i, j \in 1 .. Len(s) : i < j => Before(Reversed(s), s[j], s[i])
<1> DEFINE L == Len(s)
           t == Reversed(s)
<1>1. L \in Nat /\ DOMAIN s = 1 .. L /\ \A i \in 1 .. L : s[i] \in S
  BY DomainOfSeq
<1>2. DOMAIN t = 1 .. L /\ \A i \in 1 .. L : t[i] = s[L + 1 - i]
  BY <1>1 DEF Reversed
<1>3. t = [i \in 1 .. L |-> s[L + 1 - i]]
  BY <1>1 DEF Reversed
<1> HIDE DEF L, t
<1>4. \A i \in 1 .. L : L + 1 - i \in 1 .. L /\ L + 1 - (L + 1 - i) = i
  BY <1>1, SMT
<1>5. \A i, j \in 1 .. L : /\ L + 1 - i = L + 1 - j => i = j
                           /\ i < j => L + 1 - j < L + 1 - i
  BY <1>1, SMT
<1>6. t \in Seq(S)
  <2>1. t \in [1 .. L -> S]
    BY <1>1, <1>3, <1>4
  <2> QED
    BY <1>1, <2>1, FunctionIsSeq
<1>7. Range(t) = Range(s)
  <2>1. \A i \in 1 .. L : t[i] \in Range(s)
    BY <1>1, <1>2, <1>4 DEF Range
  <2>2. \A i \in 1 .. L : s[i] \in Range(t)
    <3> SUFFICES ASSUME NEW i \in 1 .. L PROVE s[i] \in Range(t)
      OBVIOUS
    <3>1. L + 1 - i \in 1 .. L /\ t[L + 1 - i] = s[L + 1 - (L + 1 - i)]
      BY <1>2, <1>4
    <3>2. t[L + 1 - i] = s[i]
      BY <1>4, <3>1
    <3> QED
      BY <1>2, <3>1, <3>2 DEF Range
  <2>3. \A x \in Range(t) : \E i \in 1 .. L : x = t[i]
    BY <1>2 DEF Range
  <2>4. \A x \in Range(s) : \E i \in 1 .. L : x = s[i]
    BY <1>1 DEF Range
  <2>5. \A x \in Range(t) : x \in Range(s)
    BY <2>1, <2>3
  <2>6. \A x \in Range(s) : x \in Range(t)
    BY <2>2, <2>4
  <2> QED
    BY <2>5, <2>6
<1>8. ASSUME IsInjective(s) PROVE IsInjective(t)
  <2> SUFFICES ASSUME NEW i \in 1 .. L, NEW j \in 1 .. L, t[i] = t[j] PROVE i = j
    BY <1>2 DEF IsInjective
  <2>1. s[L + 1 - i] = s[L + 1 - j] /\ L + 1 - i \in 1 .. L /\ L + 1 - j \in 1 .. L
    BY <1>2, <1>4
  <2>2. L + 1 - i = L + 1 - j
    BY <1>1, <1>8, <2>1 DEF IsInjective
  <2> QED
    BY <1>5, <2>2
<1>9. ASSUME NEW i \in 1 .. L, NEW j \in 1 .. L, i < j PROVE Before(t, s[j], s[i])
  <2>1. /\ L + 1 - j \in 1 .. L /\ L + 1 - i \in 1 .. L /\ L + 1 - j < L + 1 - i
        /\ L + 1 - (L + 1 - j) = j /\ L + 1 - (L + 1 - i) = i
    BY <1>4, <1>5, <1>9
  <2>2. t[L + 1 - j] = s[L + 1 - (L + 1 - j)] /\ t[L + 1 - i] = s[L + 1 - (L + 1 - i)]
    BY <1>2, <2>1
  <2>3. t[L + 1 - j] = s[j] /\ t[L + 1 - i] = s[i]
    BY <2>1, <2>2
  <2> QED
    BY <1>2, <2>1, <2>3 DEF Before
<1> QED
  BY <1>6, <1>7, <1>8, <1>9 DEF t, L

Unused(r) == Kept(FreedOrder(r), {b \in Blocks : ref_cnt[b] = 1})

LEMMA UnusedFacts ==
    ASSUME HolderInv, NEW r
    PROVE  /\ Range(FreedOrder(r)) = Range(Held(r))
           /\ Unused(r) \in Seq(Blocks) /\ IsInjective(Unused(r))
           /\ Range(Unused(r)) = {b \in Range(Held(r)) : b \in Blocks /\ ref_cnt[b] = 1}
           /\ \A i, j \in 1 .. Len(Held(r)) :
                i < j /\ Held(r)[i] \in Range(Unused(r)) /\ Held(r)[j] \in Range(Unused(r))
                   => Before(Unused(r), Held(r)[j], Held(r)[i])
<1> DEFINE s == Held(r)
           t == FreedOrder(r)
           R == {b \in Blocks : ref_cnt[b] = 1}
           u == Unused(r)
<1>1. s \in Seq(Blocks) /\ IsInjective(s)
  BY HeldFacts
<1>2. t = Reversed(s) /\ u = Kept(t, R)
  BY DEF FreedOrder, Reversed, Unused
<1>3. /\ t \in Seq(Blocks) /\ IsInjective(t) /\ Range(t) = Range(s)
      /\ \A i, j \in 1 .. Len(s) : i < j => Before(t, s[j], s[i])
  BY <1>1, <1>2, ReversedFacts
<1> HIDE DEF s, t, u
<1>4. t \in Seq(Blocks) /\ IsInjective(t)
  BY <1>3
<1>5. /\ u \in Seq(Blocks) /\ IsInjective(u) /\ Range(u) = Range(t) \cap R
      /\ \A x, y \in R : Before(t, x, y) => Before(u, x, y)
  BY <1>2, <1>4, KeptProperties
<1>6. Range(u) = {b \in Range(s) : b \in Blocks /\ ref_cnt[b] = 1}
  BY <1>3, <1>5
<1>7. ASSUME NEW i \in 1 .. Len(s), NEW j \in 1 .. Len(s), i < j,
             s[i] \in Range(u), s[j] \in Range(u)
      PROVE  Before(u, s[j], s[i])
  BY <1>3, <1>5, <1>7
<1> QED
  BY <1>3, <1>5, <1>6, <1>7 DEF s, t, u

Frees(r) ==
    /\ Free(r)
    /\ running' = running \ {r} /\ content' = content
    /\ \A q \in running \ {r} : q \in DOMAIN tokens' /\ tokens'[q] = tokens[q]

\* What the step leaves to the others.
FreedRight(r) ==
    /\ DOMAIN req_to_blocks' = DOMAIN req_to_blocks \ {r}
    /\ \A q \in DOMAIN req_to_blocks \ {r} : req_to_blocks'[q] = req_to_blocks[q]
    /\ DOMAIN num_cached_block' = DOMAIN num_cached_block \ {r}
    /\ \A q \in DOMAIN num_cached_block \ {r} : num_cached_block'[q] = num_cached_block[q]
    /\ \A b \in Blocks : b \in Range(Held(r)) => ref_cnt'[b] = ref_cnt[b] - 1
    /\ \A b \in Blocks : b \notin Range(Held(r)) => ref_cnt'[b] = ref_cnt[b]
    /\ DOMAIN ref_cnt' = Blocks /\ ref_cnt' = [b \in Blocks |-> ref_cnt'[b]]
    /\ free' = free \o Unused(r)
    /\ block_hash' = block_hash /\ cached' = cached

LEMMA FreeParts ==
    ASSUME HolderInv, NEW r, Free(r)
    PROVE  FreedRight(r)
<1>1. Range(FreedOrder(r)) = Range(Held(r))
  BY UnusedFacts
<1>2. /\ req_to_blocks' = Drop(req_to_blocks, {r})
      /\ num_cached_block' = Drop(num_cached_block, {r})
      /\ free' = free \o Unused(r) /\ block_hash' = block_hash /\ cached' = cached
  BY DEF Free, Unused
<1>3. ref_cnt' = [b \in Blocks |-> IF b \in Range(Held(r)) THEN ref_cnt[b] - 1 ELSE ref_cnt[b]]
  BY <1>1 DEF Free
<1>4. /\ DOMAIN req_to_blocks' = DOMAIN req_to_blocks \ {r}
      /\ \A q \in DOMAIN req_to_blocks \ {r} : req_to_blocks'[q] = req_to_blocks[q]
      /\ DOMAIN num_cached_block' = DOMAIN num_cached_block \ {r}
      /\ \A q \in DOMAIN num_cached_block \ {r} : num_cached_block'[q] = num_cached_block[q]
  BY <1>2 DEF Drop
<1>5. /\ \A b \in Blocks : b \in Range(Held(r)) => ref_cnt'[b] = ref_cnt[b] - 1
      /\ \A b \in Blocks : b \notin Range(Held(r)) => ref_cnt'[b] = ref_cnt[b]
      /\ DOMAIN ref_cnt' = Blocks
  BY <1>3
<1>6. ref_cnt' = [b \in Blocks |-> ref_cnt'[b]]
  BY <1>3
<1> QED
  BY <1>2, <1>4, <1>5, <1>6 DEF FreedRight

LEMMA FreeKeepsPool ==
    ASSUME PoolInv, NEW r, Frees(r)
    PROVE  PoolTypeInv' /\ HolderInv' /\ AccountInv' /\ HashInv'
<1> DEFINE L == Range(Held(r))
           u == Unused(r)
<1>1. PoolTypeInv /\ HolderInv /\ AccountInv /\ HashInv
  BY DEF PoolInv
<1>2. running' = running \ {r} /\ content' = content /\ FreedRight(r)
  BY <1>1, FreeParts DEF Frees
<1>3. u \in Seq(Blocks) /\ IsInjective(u) /\ Range(u) = {b \in L : b \in Blocks /\ ref_cnt[b] = 1}
  BY <1>1, UnusedFacts
<1>4. free \in Seq(Blocks) /\ IsInjective(free) /\ Range(free) = {b \in Blocks : ref_cnt[b] = 0}
  BY <1>1 DEF PoolTypeInv, AccountInv
<1>5. \A b \in Blocks : ref_cnt[b] \in Nat /\ ref_cnt[b] = Cardinality(Holders(b))
  BY <1>1 DEF PoolTypeInv, AccountInv
<1>6. \A b \in L : b \in Blocks
  BY <1>1, HeldFacts, RangeInSet
<1>7. r \notin DOMAIN req_to_blocks => L = {}
  BY EmptyFacts DEF Held, Get
<1>8. \A q : q # r => Held(q)' = Held(q)
  BY <1>2 DEF FreedRight, Held, Get
<1> HIDE DEF L, u
<1>9. ASSUME NEW b \in Blocks
      PROVE  ref_cnt'[b] = Cardinality(Holders(b)') /\ ref_cnt'[b] \in Nat
  <2>1. Holders(b)' = Holders(b) \ {r}
    <3>1. r \notin Holders(b)'
      BY <1>2 DEF Holders, FreedRight
    <3>2. ASSUME NEW q, q # r PROVE q \in Holders(b)' <=> q \in Holders(b)
      <4>1. Held(q)' = Held(q)
        BY <1>8, <3>2
      <4>2. q \in DOMAIN req_to_blocks' <=> q \in DOMAIN req_to_blocks
        BY <1>2, <3>2 DEF FreedRight
      <4> QED
        BY <4>1, <4>2 DEF Holders
    <3>3. \A q : q \in Holders(b)' <=> q \in Holders(b) /\ q # r
      BY <3>1, <3>2
    <3> QED
      BY <3>3
  <2>2. IsFiniteSet(Holders(b)) /\ Cardinality(Holders(b)) \in Nat
    BY <1>1, HoldersFinite
  <2>3. IsFiniteSet(Holders(b)') /\ Cardinality(Holders(b)') \in Nat
    <3>1. IsFiniteSet(Holders(b) \ {r})
      BY <2>2, FS_RemoveElement
    <3>2. IsFiniteSet(Holders(b)')
      BY <2>1, <3>1
    <3> QED
      BY <3>2, FS_CardinalityType
  <2>4. r \in Holders(b) <=> b \in L
    BY <1>7 DEF Holders, L
  <2>5. CASE b \in L
    <3>1. Cardinality(Holders(b) \ {r}) = Cardinality(Holders(b)) - 1
      BY <2>2, <2>4, <2>5, FS_RemoveElement
    <3>2. ref_cnt'[b] = ref_cnt[b] - 1
      BY <1>2, <2>5 DEF FreedRight, L
    <3>3. ref_cnt[b] = Cardinality(Holders(b))
      BY <1>5
    <3>4. ref_cnt'[b] = Cardinality(Holders(b)')
      BY <2>1, <3>1, <3>2, <3>3
    <3> QED
      BY <2>3, <3>4
  <2>6. CASE b \notin L
    <3>1. Holders(b)' = Holders(b)
      BY <2>1, <2>4, <2>6
    <3>2. ref_cnt'[b] = ref_cnt[b]
      BY <1>2, <2>6 DEF FreedRight, L
    <3> QED
      BY <1>5, <3>1, <3>2
  <2> QED
    BY <2>5, <2>6
<1>10. Range(free) \cap Range(u) = {}
  <2>1. \A b : ~(ref_cnt[b] = 0 /\ ref_cnt[b] = 1)
    <3>1. 0 # 1
      BY SMT
    <3> QED
      BY <3>1
  <2> QED
    BY <1>3, <1>4, <2>1
<1>11. /\ free' \in Seq(Blocks) /\ Range(free') = Range(free) \cup Range(u)
       /\ IsInjective(free')
  <2>1. free' = free \o u
    BY <1>2 DEF FreedRight, u
  <2>2. free \in Seq(Blocks) /\ u \in Seq(Blocks) /\ IsInjective(free) /\ IsInjective(u)
    BY <1>3, <1>4
  <2> free \in Seq(Blocks) /\ u \in Seq(Blocks)
    BY <2>2
  <2>3. free \o u \in Seq(Blocks) /\ Range(free \o u) = Range(free) \cup Range(u)
    <3>1. free \o u \in Seq(Blocks)
      BY ConcatFacts
    <3>2. Range(free \o u) = Range(free) \cup Range(u)
      BY RangeOfConcat, SMT
    <3> QED
      BY <3>1, <3>2
  <2>4. IsInjective(free \o u)
    BY <1>10, <2>2, JoinedInjective
  <2> QED
    BY <2>1, <2>3, <2>4
<1>12. PoolTypeInv'
  <2>1. ref_cnt' \in [Blocks -> Nat]
    BY <1>2, <1>9 DEF FreedRight
  <2> QED
    BY <1>1, <1>2, <1>11, <2>1 DEF PoolTypeInv, FreedRight, Blocks
<1>13. HolderInv'
  <2>1. IsFiniteSet(DOMAIN req_to_blocks')
    <3>1. IsFiniteSet(DOMAIN req_to_blocks) /\ DOMAIN req_to_blocks' = DOMAIN req_to_blocks \ {r}
      BY <1>1, <1>2 DEF HolderInv, FreedRight
    <3> QED
      BY <3>1, FS_RemoveElement
  <2>2. running' \subseteq DOMAIN req_to_blocks' /\ DOMAIN num_cached_block' = running'
    BY <1>1, <1>2 DEF HolderInv, FreedRight
  <2>3. ASSUME NEW q \in DOMAIN req_to_blocks'
        PROVE  /\ req_to_blocks'[q] \in Seq(Blocks) /\ IsInjective(req_to_blocks'[q])
               /\ q \notin running' => req_to_blocks'[q] = <<>>
    <3>1. q \in DOMAIN req_to_blocks /\ q # r /\ req_to_blocks'[q] = req_to_blocks[q]
      BY <1>2 DEF FreedRight
    <3> QED
      BY <1>1, <1>2, <3>1 DEF HolderInv
  <2> QED
    BY <2>1, <2>2, <2>3 DEF HolderInv, Blocks
<1>14. Range(free') = {b \in Blocks : ref_cnt'[b] = 0}
  <2>1. ASSUME NEW b \in Blocks PROVE b \in Range(free') <=> ref_cnt'[b] = 0
    <3>1. CASE b \in L
      <4>1. ref_cnt'[b] = ref_cnt[b] - 1 /\ ref_cnt[b] \in Nat /\ ref_cnt'[b] \in Nat
        BY <1>2, <1>5, <1>9, <3>1 DEF FreedRight, L
      <4>2. (ref_cnt'[b] = 0 <=> ref_cnt[b] = 1) /\ ref_cnt[b] # 0
        BY <4>1, SMT
      <4> QED
        BY <1>3, <1>4, <1>11, <3>1, <4>2
    <3>2. CASE b \notin L
      <4>1. ref_cnt'[b] = ref_cnt[b]
        BY <1>2, <3>2 DEF FreedRight, L
      <4> QED
        BY <1>3, <1>4, <1>11, <3>2, <4>1
    <3> QED
      BY <3>1, <3>2
  <2>2. \A b \in Range(free') : b \in Blocks
    BY <1>11, RangeInSet
  <2> QED
    BY <2>1, <2>2
<1>15. AccountInv'
  BY <1>9, <1>14 DEF AccountInv, Blocks
<1>16. ASSUME NEW q \in running'
       PROVE  /\ q \in running /\ req_to_blocks'[q] = req_to_blocks[q]
              /\ num_cached_block'[q] = num_cached_block[q] /\ tokens'[q] = tokens[q]
  <2>1. q \in running /\ q # r /\ tokens'[q] = tokens[q]
    BY <1>2 DEF Frees
  <2>2. q \in DOMAIN req_to_blocks /\ q \in DOMAIN num_cached_block
    BY <1>1, <2>1 DEF HolderInv
  <2> QED
    BY <1>2, <2>1, <2>2 DEF FreedRight
<1>17. HashInv'
  <2>1. \A h \in DOMAIN cached' :
           h # NoHash' /\ \A b \in Range(cached'[h]) : block_hash'[b] = h
    BY <1>1, <1>2 DEF HashInv, FreedRight, NoHash
  <2>2. ASSUME NEW q \in running'
        PROVE  /\ num_cached_block'[q] \in 0 .. Len(req_to_blocks'[q])
               /\ num_cached_block'[q] * BlockSize <= Len(tokens'[q])
               /\ \A k \in 1 .. Len(req_to_blocks'[q]) : block_hash'[req_to_blocks'[q][k]] =
                     IF k <= num_cached_block'[q] THEN Prefix(q, k * BlockSize)' ELSE NoHash'
    <3>1. \A m : Prefix(q, m)' = Prefix(q, m)
      BY <1>16 DEF Prefix
    <3>2. /\ q \in running /\ req_to_blocks'[q] = req_to_blocks[q]
          /\ num_cached_block'[q] = num_cached_block[q] /\ tokens'[q] = tokens[q]
      BY <1>16
    <3>3. /\ num_cached_block[q] \in 0 .. Len(req_to_blocks[q])
          /\ num_cached_block[q] * BlockSize <= Len(tokens[q])
          /\ \A k \in 1 .. Len(req_to_blocks[q]) : block_hash[req_to_blocks[q][k]] =
                IF k <= num_cached_block[q] THEN Prefix(q, k * BlockSize) ELSE NoHash
      BY <1>1, <3>2 DEF HashInv
    <3>4. block_hash' = block_hash
      BY <1>2 DEF FreedRight
    <3> QED
      BY <3>1, <3>2, <3>3, <3>4 DEF NoHash
  <2>3. ASSUME NEW q \in running', NEW s \in running', q # s,
               NEW k \in num_cached_block'[q] + 1 .. Len(req_to_blocks'[q])
        PROVE  req_to_blocks'[q][k] \notin Range(req_to_blocks'[s])
    <3>1. /\ q \in running /\ req_to_blocks'[q] = req_to_blocks[q]
          /\ num_cached_block'[q] = num_cached_block[q]
      BY <1>16
    <3>2. s \in running /\ req_to_blocks'[s] = req_to_blocks[s]
      BY <1>16
    <3>3. k \in num_cached_block[q] + 1 .. Len(req_to_blocks[q])
      BY <2>3, <3>1
    <3> QED
      BY <1>1, <2>3, <3>1, <3>2, <3>3 DEF HashInv
  <2> QED
    BY <2>1, <2>2, <2>3 DEF HashInv
<1> QED
  BY <1>12, <1>13, <1>15, <1>17


-----------------------------------------------------------------------------
(***************************************************************************)
(* What the prefix cache offers a request.                                 *)
(***************************************************************************)
HitShape(r) ==
    /\ ComputedBlocks(r) \in Seq(Blocks) /\ IsInjective(ComputedBlocks(r))
    /\ Len(ComputedBlocks(r)) \in Nat
    /\ Len(ComputedBlocks(r)) * BlockSize < Len(tokens[r])
    /\ \A k \in 1 .. Len(ComputedBlocks(r)) :
         block_hash[ComputedBlocks(r)[k]] = Prefix(r, k * BlockSize)

LEMMA ComputedFacts ==
    ASSUME PoolInv, NEW r \in Live
    PROVE  HitShape(r)
<1> DEFINE m == MaxHit(r)
           S == {n \in 0 .. m : \A k \in 1 .. n : Prefix(r, k * BlockSize) \in DOMAIN cached}
           N == HitLength(r)
           s == ComputedBlocks(r)
           L == Len(tokens[r])
<1>1. RequestInv /\ PoolTypeInv /\ HashInv
  BY DEF PoolInv
<1>2. L \in 1 .. MaxLen - 1 /\ MaxLen \in Nat /\ BlockSize \in Nat
  BY <1>1, KVCacheAssumption DEF RequestInv
<1> HIDE DEF L
<1>3. L - 1 \in Nat /\ L \in Nat
  BY <1>2, SMT
<1>4. m \in Nat /\ m * BlockSize <= L - 1
  BY <1>3, Quotient DEF MaxHit, L
<1> HIDE DEF m
<1>5. N \in 0 .. m /\ \A k \in 1 .. N : Prefix(r, k * BlockSize) \in DOMAIN cached
  <2>1. S \in SUBSET Nat /\ \A n \in S : n <= m
    <3>1. \A n \in 0 .. m : n \in Nat /\ n <= m
      BY <1>4, SMT
    <3> QED
      BY <3>1
  <2>2. 0 \in S
    <3>1. 0 \in 0 .. m /\ 1 .. 0 = {}
      BY <1>4, SMT
    <3> QED
      BY <3>1
  <2>3. N = Max(S)
    BY DEF HitLength, m
  <2>4. S # {}
    BY <2>2
  <2>5. N \in S
    <3> HIDE DEF S, N
    <3> QED
      BY <1>4, <2>1, <2>3, <2>4, MaxOfBounded
  <2> QED
    BY <2>5
<1> HIDE DEF S, N
<1>6. N \in Nat /\ N <= m /\ N \in Int /\ m \in Int
  BY <1>4, <1>5, SMT
<1>7. N * BlockSize < L /\ N * BlockSize <= L
  <2>1. N * BlockSize <= m * BlockSize /\ N * BlockSize \in Int /\ m * BlockSize \in Int
    BY <1>6, Multiples
  <2> QED
    BY <1>3, <1>4, <2>1, SMT
<1>8. \A k \in 1 .. N : /\ s[k] \in Blocks /\ s[k] = Head(cached[Prefix(r, k * BlockSize)])
                        /\ block_hash[s[k]] = Prefix(r, k * BlockSize)
  <2> SUFFICES ASSUME NEW k \in 1 .. N
               PROVE  LET h == Prefix(r, k * BlockSize)
                      IN  s[k] = Head(cached[h]) /\ s[k] \in Blocks /\ block_hash[s[k]] = h
    OBVIOUS
  <2> DEFINE h == Prefix(r, k * BlockSize)
  <2>1. s[k] = Head(cached[h])
    BY DEF ComputedBlocks, N
  <2>2. h \in DOMAIN cached
    BY <1>5
  <2> HIDE DEF h, s
  <2>3. cached[h] \in Seq(Blocks) /\ cached[h] # <<>>
    BY <1>1, <2>2 DEF PoolTypeInv
  <2>4. Head(cached[h]) \in Blocks /\ Head(cached[h]) \in Range(cached[h])
    <3>1. Len(cached[h]) \in Nat \ {0} /\ DOMAIN cached[h] = 1 .. Len(cached[h])
      BY <2>3, EmptyOrLong, DomainOfSeq
    <3>2. 1 \in 1 .. Len(cached[h])
      BY <3>1, SMT
    <3>3. Head(cached[h]) = cached[h][1]
      BY <2>3, SMT
    <3>4. cached[h][1] \in Blocks
      BY <2>3, <3>2, MemberOfSeq
    <3> QED
      BY <3>1, <3>2, <3>3, <3>4 DEF Range
  <2>5. block_hash[Head(cached[h])] = h
    BY <1>1, <2>2, <2>4 DEF HashInv
  <2> QED
    BY <2>1, <2>4, <2>5 DEF h
<1>9. s \in [1 .. N -> Blocks]
  BY <1>8 DEF ComputedBlocks, N
<1> HIDE DEF s
<1>10. s \in Seq(Blocks) /\ Len(s) = N /\ DOMAIN s = 1 .. N
  BY <1>6, <1>9, FunctionIsSeq
<1>11. IsInjective(s)
  <2> SUFFICES ASSUME NEW i \in 1 .. N, NEW j \in 1 .. N, s[i] = s[j]
               PROVE  i = j
    BY <1>10 DEF IsInjective
  <2>1. Prefix(r, i * BlockSize) = Prefix(r, j * BlockSize)
    BY <1>8
  <2>2. /\ i \in Nat /\ j \in Nat
        /\ i * BlockSize <= Len(tokens[r]) /\ j * BlockSize <= Len(tokens[r])
    BY <1>1, <1>6, <1>7, HitHasHash DEF L
  <2>3. /\ Len(Prefix(r, i * BlockSize)) \div BlockSize = i
        /\ Len(Prefix(r, j * BlockSize)) \div BlockSize = j
    BY <1>1, <2>2, PrefixFacts
  <2> QED
    BY <2>1, <2>3
<1> QED
  BY <1>6, <1>7, <1>8, <1>10, <1>11 DEF HitShape, s, L

-----------------------------------------------------------------------------
(***************************************************************************)
(* The calls of schedule() allocate as they should.                        *)
(***************************************************************************)
LEMMA NewTokensFacts ==
    ASSUME NEW missing \in Nat, NEW n \in NumNewTokens(missing)
    PROVE  n \in Nat /\ n <= missing
<1>1. PICK budget \in Budgets : n = Min({missing, budget})
  BY DEF NumNewTokens
<1>2. budget \in Nat
  BY KVCacheAssumption
<1>3. missing \in Int /\ budget \in Int
  BY <1>2, SMT
<1>4. n = IF missing <= budget THEN missing ELSE budget
  BY <1>1, <1>3, MinOfTwo
<1> QED
  BY <1>2, <1>4, SMT

LEMMA RunningAllocates ==
    ASSUME PoolInv, NEW r \in running, NEW n \in NumNewTokens(Len(tokens[r]) - computed[r]),
           ScheduleRunning(r, n)
    PROVE  Allocates(r, <<>>, n)
<1>1. RequestInv
  BY DEF PoolInv
<1>2. r \in Live /\ Len(tokens[r]) \in 1 .. MaxLen - 1 /\ computed[r] \in 0 .. Len(tokens[r])
  BY <1>1 DEF RequestInv
<1>3. Len(tokens[r]) \in Nat /\ computed[r] \in Nat /\ Len(tokens[r]) - computed[r] \in Nat
  BY <1>2, KVCacheAssumption, SMT
<1>4. n \in Nat /\ n <= Len(tokens[r]) - computed[r]
  BY <1>3, NewTokensFacts
<1>5. <<>> \in Seq(Blocks) /\ IsInjective(<<>>) /\ Len(<<>>) = 0
  BY EmptyFacts
<1>6. /\ 0 * BlockSize <= Len(tokens[r]) /\ computed[r] + 0 * BlockSize + n <= Len(tokens[r])
      /\ 1 .. 0 = {}
  BY <1>3, <1>4, BlockSizeType, SMT
<1>7. ComputedWith(r, <<>>) + n <= Len(tokens[r]) /\ Len(<<>>) * BlockSize <= Len(tokens[r])
  BY <1>5, <1>6 DEF ComputedWith
<1>8. \A k \in 1 .. Len(<<>>) : block_hash[<<>>[k]] = Prefix(r, k * BlockSize)
  BY <1>5, <1>6
<1>9. Allocating(r, <<>>, n)
  BY <1>2, <1>4, <1>5, <1>7, <1>8 DEF Allocating, ScheduleRunning
<1>10. "running" # "idle" /\ running \cup {r} = running
  OBVIOUS
<1> QED
  BY <1>9, <1>10 DEF Allocates, ScheduleRunning

LEMMA AdmissionAllocates ==
    ASSUME PoolInv, NEW r \in Waiting,
           NEW n \in NumNewTokens(Len(tokens[r]) - Len(ComputedBlocks(r)) * BlockSize),
           AdmitWaiting(r, n)
    PROVE  Allocates(r, ComputedBlocks(r), n)
<1> DEFINE s == ComputedBlocks(r)
           m == Len(s) * BlockSize
           L == Len(tokens[r])
<1>1. RequestInv /\ r \in Live /\ r \notin running
  BY DEF PoolInv, Waiting
<1>2. computed[r] = 0 /\ L \in 1 .. MaxLen - 1
  BY <1>1 DEF RequestInv
<1>3. HitShape(r)
  BY <1>1, ComputedFacts
<1>4. /\ s \in Seq(Blocks) /\ IsInjective(s) /\ Len(s) \in Nat /\ m < L
      /\ \A k \in 1 .. Len(s) : block_hash[s[k]] = Prefix(r, k * BlockSize)
  BY <1>3 DEF HitShape
<1>5. m \in Nat /\ L \in Nat
  BY <1>2, <1>4, KVCacheAssumption, SMT
<1>6. ComputedWith(r, s) = 0 + m
  BY <1>2 DEF ComputedWith
<1>7. n \in NumNewTokens(L - m) /\ CanAllocate(r, s, n) /\ AllocateSlots(r, s, n)
  BY DEF AdmitWaiting
<1> HIDE DEF s, m, L
<1>8. L - m \in Nat
  BY <1>4, <1>5, SMT
<1>9. n \in Nat /\ n <= L - m
  BY <1>7, <1>8, NewTokensFacts
<1>10. 0 + m + n <= L /\ m <= L
  BY <1>4, <1>5, <1>9, SMT
<1>11. Allocating(r, s, n)
  BY <1>1, <1>4, <1>6, <1>7, <1>9, <1>10 DEF Allocating, m, L
<1>12. "waiting" # "idle"
  OBVIOUS
<1> QED
  BY <1>7, <1>11, <1>12 DEF Allocates, AdmitWaiting, s

-----------------------------------------------------------------------------
(***************************************************************************)
(* The requests.                                                           *)
(***************************************************************************)
Phases == {"idle", "running", "waiting", "scheduled", "executed", "stopping"}

\* A step that changes no request.
LEMMA RequestsKept ==
    ASSUME RequestInv, UNCHANGED <<tokens, computed, running, batch>>, phase' \in Phases,
           Scheduling' => Scheduling \/ DOMAIN batch = {}, phase' = "idle" => DOMAIN batch = {}
    PROVE  RequestInv'
BY DEF RequestInv, Live, Phases

LEMMA RequestAdded ==
    ASSUME RequestInv, NEW r, NEW toks \in Seq(Tokens), Len(toks) \in 1 .. MaxLen - 1,
           AddRequest(r, toks)
    PROVE  RequestInv' /\ \A q \in Live : q \in Live' /\ tokens'[q] = tokens[q]
<1>1. /\ r \notin Live /\ tokens' = Update(tokens, [q \in {r} |-> toks])
      /\ computed' = Update(computed, [q \in {r} |-> 0])
      /\ running' = running /\ batch' = batch /\ phase' = phase
  BY DEF AddRequest, loopVars
<1>2. /\ Live' = Live \cup {r} /\ tokens'[r] = toks
      /\ \A q \in Live : q # r /\ tokens'[q] = tokens[q]
  BY <1>1 DEF Update, Live
<1>3. /\ DOMAIN computed' = DOMAIN computed \cup {r} /\ computed'[r] = 0
      /\ \A q \in DOMAIN computed : q # r => computed'[q] = computed[q]
  BY <1>1 DEF Update
<1>4. 0 \in 0 .. Len(toks)
  BY KVCacheAssumption, SMT
<1>5. Scheduling' = Scheduling
  BY <1>1 DEF Scheduling
<1>6. ASSUME NEW q \in Live'
      PROVE  /\ tokens'[q] \in Seq(Tokens) /\ Len(tokens'[q]) \in 1 .. MaxLen - 1
             /\ computed'[q] \in 0 .. Len(tokens'[q]) /\ (q \notin running' => computed'[q] = 0)
  <2>1. CASE q = r
    BY <1>2, <1>3, <1>4, <2>1
  <2>2. CASE q # r
    <3>1. q \in Live /\ tokens'[q] = tokens[q] /\ computed'[q] = computed[q]
      BY <1>2, <1>3, <1>6, <2>2 DEF RequestInv
    <3> QED
      BY <1>1, <3>1 DEF RequestInv
  <2> QED
    BY <2>1, <2>2
<1>7. \A q \in DOMAIN batch : q \in Live /\ computed'[q] = computed[q] /\ tokens'[q] = tokens[q]
  BY <1>1, <1>2, <1>3 DEF RequestInv
<1> QED
  BY <1>1, <1>2, <1>3, <1>5, <1>6, <1>7 DEF RequestInv

LEMMA PromptFacts ==
    ASSUME NEW prompt \in Prompts
    PROVE  prompt \in Seq(Tokens) /\ Len(prompt) \in 1 .. MaxLen - 1
<1>1. PICK n \in 1 .. MaxLen - 1 : prompt \in [1 .. n -> Tokens]
  BY KVCacheAssumption
<1>2. n \in Nat
  BY SMT
<1> QED
  BY <1>1, <1>2, FunctionIsSeq

\* A request leaves the batch, with or without its tokens.
LEMMA RequestLeaves ==
    ASSUME RequestInv, NEW r, phase' \in Phases, Scheduling' => Scheduling,
           running' = running \ {r}, DOMAIN batch' = DOMAIN batch \ {r},
           \A q \in DOMAIN batch \ {r} : batch'[q] = batch[q],
           Live \ {r} \subseteq Live', Live' \subseteq Live, DOMAIN computed' = Live',
           \A q \in Live' : tokens'[q] = tokens[q],
           \A q \in Live' : q # r => computed'[q] = computed[q],
           r \in Live' => computed'[r] = 0,
           phase' = "idle" => DOMAIN batch \subseteq {r}
    PROVE  RequestInv'
<1>1. ASSUME NEW q \in Live'
      PROVE  /\ tokens'[q] \in Seq(Tokens) /\ Len(tokens'[q]) \in 1 .. MaxLen - 1
             /\ computed'[q] \in 0 .. Len(tokens'[q]) /\ (q \notin running' => computed'[q] = 0)
  <2>1. q \in Live /\ tokens[q] \in Seq(Tokens) /\ Len(tokens[q]) \in 1 .. MaxLen - 1
        /\ tokens'[q] = tokens[q]
    BY <1>1 DEF RequestInv
  <2>2. CASE q = r
    <3>1. 0 \in 0 .. Len(tokens[q])
      BY <2>1, KVCacheAssumption, SMT
    <3> QED
      BY <1>1, <2>1, <2>2, <3>1
  <2>3. CASE q # r
    BY <1>1, <2>1, <2>3 DEF RequestInv
  <2> QED
    BY <2>2, <2>3
<1>2. running' \subseteq Live' /\ DOMAIN batch' \subseteq running'
  BY DEF RequestInv
<1>3. ASSUME NEW q \in DOMAIN batch'
      PROVE  batch'[q] \in Nat /\ (Scheduling' => computed'[q] + batch'[q] <= Len(tokens'[q]))
  <2>1. q \in DOMAIN batch /\ q # r /\ q \in Live' /\ batch'[q] = batch[q]
    BY <1>2, <1>3
  <2> QED
    BY <2>1 DEF RequestInv
<1>4. phase' = "idle" => DOMAIN batch' = {}
  OBVIOUS
<1> QED
  BY <1>1, <1>2, <1>3, <1>4 DEF RequestInv, Phases

LEMMA AllocateRequests ==
    ASSUME PoolInv, NEW r, NEW hit, NEW n, Allocates(r, hit, n)
    PROVE  RequestInv'
<1> DEFINE w == ComputedWith(r, hit)
<1>1. /\ Allocating(r, hit, n) /\ RequestInv /\ running' = running \cup {r}
      /\ tokens' = tokens /\ phase' = phase /\ phase # "idle"
  BY DEF Allocates, PoolInv
<1>2. r \in Live /\ n \in Nat /\ w \in Nat /\ w + n <= Len(tokens[r]) /\ Len(tokens[r]) \in Nat
  BY <1>1, WantedFacts DEF Allocating
<1>3. Allocated(r, hit, n)
  BY AllocateSlotsParts DEF Allocates
<1>4. computed' = [computed EXCEPT ![r] = w] /\ batch' = Update(batch, [q \in {r} |-> n])
  BY <1>3 DEF Allocated
<1>5. /\ DOMAIN batch' = DOMAIN batch \cup {r} /\ batch'[r] = n
      /\ \A q \in DOMAIN batch : q # r => batch'[q] = batch[q]
  BY <1>4 DEF Update
<1>6. /\ DOMAIN computed' = DOMAIN computed /\ computed'[r] = w
      /\ \A q \in Live : q # r => computed'[q] = computed[q]
  BY <1>1, <1>2, <1>4 DEF RequestInv
<1>7. w \in 0 .. Len(tokens[r])
  BY <1>2, SMT
<1>8. Scheduling' = Scheduling /\ Live' = Live
  BY <1>1 DEF Scheduling, Live
<1> HIDE DEF w
<1>9. ASSUME NEW q \in Live
      PROVE  computed'[q] \in 0 .. Len(tokens[q]) /\ (q \notin running' => computed'[q] = 0)
  <2>1. CASE q = r
    BY <1>1, <1>6, <1>7, <2>1
  <2>2. CASE q # r
    BY <1>1, <1>6, <2>2 DEF RequestInv
  <2> QED
    BY <2>1, <2>2
<1>10. ASSUME NEW q \in DOMAIN batch'
       PROVE  batch'[q] \in Nat /\ (Scheduling => computed'[q] + batch'[q] <= Len(tokens[q]))
  <2>1. CASE q = r
    BY <1>2, <1>5, <1>6, <2>1
  <2>2. CASE q # r
    <3>1. q \in DOMAIN batch /\ q \in Live
      BY <1>1, <1>5, <1>10, <2>2 DEF RequestInv
    <3> QED
      BY <1>1, <1>5, <1>6, <2>2, <3>1 DEF RequestInv
  <2> QED
    BY <2>1, <2>2
<1>11. running' \subseteq Live /\ DOMAIN batch' \subseteq running'
  BY <1>1, <1>2, <1>5 DEF RequestInv
<1> QED
  BY <1>1, <1>6, <1>8, <1>9, <1>10, <1>11 DEF RequestInv

\* _update_after_schedule counts the tokens of the batch as computed.
LEMMA ExecuteRequests ==
    ASSUME RequestInv, ExecuteModel
    PROVE  RequestInv'
<1>1. /\ computed' = [r \in Live |-> computed[r] + Get(batch, r, 0)] /\ tokens' = tokens
      /\ running' = running /\ batch' = batch /\ phase = "scheduled" /\ phase' = "executed"
  BY DEF ExecuteModel
<1>2. Scheduling /\ ~Scheduling' /\ phase' # "idle" /\ Live' = Live
  BY <1>1 DEF Scheduling, Live
<1>3. ASSUME NEW q \in Live
      PROVE  computed'[q] \in 0 .. Len(tokens[q]) /\ (q \notin running => computed'[q] = 0)
  <2>1. /\ computed[q] \in 0 .. Len(tokens[q]) /\ Len(tokens[q]) \in 1 .. MaxLen - 1
        /\ q \notin running => computed[q] = 0 /\ q \notin DOMAIN batch
    BY DEF RequestInv
  <2>2. CASE q \in DOMAIN batch
    <3>1. computed'[q] = computed[q] + batch[q] /\ q \in running
      BY <1>1, <2>1, <2>2 DEF Get
    <3>2. batch[q] \in Nat /\ computed[q] + batch[q] <= Len(tokens[q])
      BY <1>2, <2>2 DEF RequestInv
    <3>3. computed[q] + batch[q] \in 0 .. Len(tokens[q])
      BY <2>1, <3>2, KVCacheAssumption, SMT
    <3> QED
      BY <3>1, <3>3
  <2>3. CASE q \notin DOMAIN batch
    <3>1. computed'[q] = computed[q] + 0
      BY <1>1, <2>3 DEF Get
    <3>2. computed[q] + 0 = computed[q]
      BY <2>1, SMT
    <3> QED
      BY <2>1, <3>1, <3>2
  <2> QED
    BY <2>2, <2>3
<1>4. DOMAIN computed' = Live
  BY <1>1
<1> QED
  BY <1>1, <1>2, <1>3, <1>4 DEF RequestInv

\* A request of the list keeps the tokens it has, and may get more.
Grown(s, t) ==
    /\ s \in Seq(Tokens) /\ t \in Seq(Tokens) /\ Len(s) \in Nat /\ Len(t) \in Nat
    /\ Len(s) <= Len(t) /\ \A i \in 1 .. Len(s) : t[i] = s[i]

LEMMA SameIsGrown ==
    ASSUME NEW s \in Seq(Tokens)
    PROVE  Grown(s, s)
<1>1. Len(s) \in Nat
  BY DomainOfSeq
<1>2. Len(s) <= Len(s)
  BY <1>1, SMT
<1> QED
  BY <1>1, <1>2 DEF Grown

LEMMA AppendGrows ==
    ASSUME NEW s \in Seq(Tokens), NEW t \in Tokens
    PROVE  Grown(s, Append(s, t)) /\ Len(Append(s, t)) = Len(s) + 1
<1>1. /\ Append(s, t) \in Seq(Tokens) /\ Len(Append(s, t)) = Len(s) + 1
      /\ \A i \in 1 .. Len(s) : Append(s, t)[i] = s[i]
  BY AppendedFacts, SMTT(15)
<1>2. Len(s) \in Nat
  BY DomainOfSeq
<1>3. Len(s) + 1 \in Nat /\ Len(s) <= Len(s) + 1
  BY <1>2, SMT
<1> QED
  BY <1>1, <1>2, <1>3 DEF Grown

LEMMA UpdateRequests ==
    ASSUME RequestInv, NEW stopped \in SUBSET DOMAIN batch, NEW new \in [Sampled \ stopped -> Tokens],
           UpdateFromOutput(new, stopped)
    PROVE  RequestInv' /\ \A q \in Live : q \in Live' /\ Grown(tokens[q], tokens'[q])
<1>1. /\ phase = "executed" /\ phase' = "stopping" /\ running' = running /\ computed' = computed
      /\ \A r \in Sampled : Len(tokens[r]) + 1 >= MaxLen => r \in stopped
      /\ tokens' = [r \in Live |->
                       IF r \in DOMAIN new THEN Append(tokens[r], new[r]) ELSE tokens[r]]
      /\ batch' = [r \in stopped |-> batch[r]]
  BY DEF UpdateFromOutput
<1>2. Sampled \subseteq DOMAIN batch /\ Live' = Live /\ ~Scheduling' /\ phase' # "idle"
  BY <1>1 DEF Sampled, Live, Scheduling
<1>3. ASSUME NEW q \in Live
      PROVE  /\ Grown(tokens[q], tokens'[q]) /\ Len(tokens'[q]) \in 1 .. MaxLen - 1
             /\ computed[q] \in 0 .. Len(tokens'[q])
  <2>1. /\ tokens[q] \in Seq(Tokens) /\ Len(tokens[q]) \in 1 .. MaxLen - 1
        /\ computed[q] \in 0 .. Len(tokens[q])
    BY DEF RequestInv
  <2>2. CASE q \in DOMAIN new
    <3>1. tokens'[q] = Append(tokens[q], new[q]) /\ new[q] \in Tokens
      BY <1>1, <2>2
    <3>2. Grown(tokens[q], tokens'[q]) /\ Len(tokens'[q]) = Len(tokens[q]) + 1
      BY <2>1, <3>1, AppendGrows
    <3>3. ~(Len(tokens[q]) + 1 >= MaxLen)
      BY <1>1, <2>2
    <3>4. /\ Len(tokens[q]) + 1 \in 1 .. MaxLen - 1
          /\ computed[q] \in 0 .. Len(tokens[q]) + 1
      BY <2>1, <3>3, KVCacheAssumption, SMT
    <3> QED
      BY <3>2, <3>4
  <2>3. CASE q \notin DOMAIN new
    <3>1. tokens'[q] = tokens[q]
      BY <1>1, <2>3
    <3> QED
      BY <2>1, <3>1, SameIsGrown
  <2> QED
    BY <2>2, <2>3
<1>4. \A q \in Live : tokens'[q] \in Seq(Tokens)
  BY <1>3 DEF Grown
<1>5. DOMAIN batch' \subseteq DOMAIN batch /\ \A q \in DOMAIN batch' : batch'[q] = batch[q]
  BY <1>1, <1>2
<1>6. RequestInv'
  BY <1>1, <1>2, <1>3, <1>4, <1>5 DEF RequestInv
<1> QED
  BY <1>2, <1>3, <1>6

-----------------------------------------------------------------------------
(***************************************************************************)
(* The steps that allocate and free nothing.                               *)
(***************************************************************************)
LEMMA GrownPrefix ==
    ASSUME RequestInv, NEW q \in Live, Grown(tokens[q], tokens'[q]), NEW m \in 0 .. Len(tokens[q])
    PROVE  Prefix(q, m)' = Prefix(q, m)
<1>1. /\ tokens[q] \in Seq(Tokens) /\ tokens'[q] \in Seq(Tokens)
      /\ Len(tokens[q]) \in Nat /\ Len(tokens'[q]) \in Nat /\ Len(tokens[q]) <= Len(tokens'[q])
      /\ \A i \in 1 .. Len(tokens[q]) : tokens'[q][i] = tokens[q][i]
  BY DEF Grown
<1>2. m \in 0 .. Len(tokens'[q]) /\ \A i \in 1 .. m : i \in 1 .. Len(tokens[q])
  BY <1>1, SMT
<1> QED
  BY <1>1, <1>2, SameFirst DEF Prefix

LEMMA PoolKept ==
    ASSUME PoolInv, UNCHANGED <<free, ref_cnt, block_hash, cached>>,
           UNCHANGED <<req_to_blocks, num_cached_block, running>>, DOMAIN content' = Blocks,
           \A q \in running : Grown(tokens[q], tokens'[q])
    PROVE  PoolTypeInv' /\ HolderInv' /\ AccountInv' /\ HashInv'
<1>1. RequestInv /\ PoolTypeInv /\ HolderInv /\ AccountInv /\ HashInv
  BY DEF PoolInv
<1>2. PoolTypeInv' /\ HolderInv'
  BY <1>1 DEF PoolTypeInv, HolderInv, Blocks
<1>3. AccountInv'
  BY <1>1 DEF AccountInv, Holders, Held, Blocks
<1>4. ASSUME NEW q \in running
      PROVE  /\ num_cached_block[q] * BlockSize <= Len(tokens'[q])
             /\ \A k \in 1 .. Len(req_to_blocks[q]) : k <= num_cached_block[q] =>
                   Prefix(q, k * BlockSize)' = Prefix(q, k * BlockSize)
  <2> DEFINE c == num_cached_block[q]
  <2>1. /\ q \in Live /\ c \in 0 .. Len(req_to_blocks[q]) /\ c * BlockSize <= Len(tokens[q])
        /\ req_to_blocks[q] \in Seq(Blocks)
    BY <1>1 DEF RequestInv, HashInv, HolderInv
  <2>2. Len(req_to_blocks[q]) \in Nat /\ Grown(tokens[q], tokens'[q])
    BY <2>1, DomainOfSeq
  <2>3. Len(tokens[q]) \in Nat /\ Len(tokens'[q]) \in Nat /\ Len(tokens[q]) <= Len(tokens'[q])
    BY <2>2 DEF Grown
  <2> HIDE DEF c
  <2>4. c \in Nat /\ c \in Int
    BY <2>1, <2>2, SMT
  <2>5. c * BlockSize <= Len(tokens'[q])
    <3>1. c * BlockSize \in Int
      BY <2>4, Multiples
    <3> QED
      BY <2>1, <2>3, <3>1, SMT
  <2>6. ASSUME NEW k \in 1 .. Len(req_to_blocks[q]), k <= c
        PROVE  Prefix(q, k * BlockSize)' = Prefix(q, k * BlockSize)
    <3>1. k \in 1 .. c
      BY <2>2, <2>4, <2>6, SMT
    <3>2. k \in Nat /\ k * BlockSize <= Len(tokens[q])
      BY <1>1, <2>1, <2>4, <3>1, HitHasHash
    <3>3. k * BlockSize \in 0 .. Len(tokens[q])
      BY <2>3, <3>2, BlockSizeType, SMT
    <3> QED
      BY <1>1, <2>1, <2>2, <3>3, GrownPrefix
  <2> QED
    BY <2>5, <2>6 DEF c
<1>5. ASSUME NEW q \in running
      PROVE  \A k \in 1 .. Len(req_to_blocks[q]) : block_hash[req_to_blocks[q][k]] =
                IF k <= num_cached_block[q] THEN Prefix(q, k * BlockSize)' ELSE NoHash
  <2>1. \A k \in 1 .. Len(req_to_blocks[q]) : block_hash[req_to_blocks[q][k]] =
           IF k <= num_cached_block[q] THEN Prefix(q, k * BlockSize) ELSE NoHash
    BY <1>1 DEF HashInv
  <2> QED
    BY <1>4, <2>1
<1>6. HashInv'
  BY <1>1, <1>4, <1>5 DEF HashInv, NoHash
<1> QED
  BY <1>2, <1>3, <1>6

\* The entry that a failed admission leaves is empty.
LEMMA PoolAfterFailure ==
    ASSUME PoolInv, NEW r \in Waiting, NEW n, AdmissionFails(r, n)
    PROVE  PoolTypeInv' /\ HolderInv' /\ AccountInv' /\ HashInv'
<1>1. RequestInv /\ PoolTypeInv /\ HolderInv /\ AccountInv /\ HashInv /\ r \notin running
  BY DEF PoolInv, Waiting
<1>2. /\ req_to_blocks' = Update(req_to_blocks, [q \in {r} |-> Held(r)])
      /\ UNCHANGED <<free, ref_cnt, block_hash, cached, num_cached_block, running>>
      /\ UNCHANGED <<tokens, content>>
  BY DEF AdmissionFails, poolVars, requestVars
<1>3. Held(r) = <<>>
  BY <1>1, HeldFacts
<1>4. /\ DOMAIN req_to_blocks' = DOMAIN req_to_blocks \cup {r} /\ req_to_blocks'[r] = <<>>
      /\ \A q \in DOMAIN req_to_blocks : q # r => req_to_blocks'[q] = req_to_blocks[q]
  BY <1>2, <1>3 DEF Update
<1>5. PoolTypeInv'
  BY <1>1, <1>2 DEF PoolTypeInv, Blocks
<1>6. HolderInv'
  <2>1. IsFiniteSet(DOMAIN req_to_blocks')
    <3>1. IsFiniteSet(DOMAIN req_to_blocks)
      BY <1>1 DEF HolderInv
    <3>2. IsFiniteSet(DOMAIN req_to_blocks \cup {r})
      BY <3>1, FS_AddElement
    <3> QED
      BY <1>4, <3>2
  <2>2. ASSUME NEW q \in DOMAIN req_to_blocks'
        PROVE  /\ req_to_blocks'[q] \in Seq(Blocks) /\ IsInjective(req_to_blocks'[q])
               /\ q \notin running => req_to_blocks'[q] = <<>>
    <3>1. CASE q = r
      BY <1>4, <3>1, EmptyFacts
    <3>2. CASE q # r
      BY <1>1, <1>4, <2>2, <3>2 DEF HolderInv
    <3> QED
      BY <3>1, <3>2
  <2> QED
    BY <1>1, <1>2, <1>4, <2>1, <2>2 DEF HolderInv, Blocks
<1>7. AccountInv'
  <2>1. ASSUME NEW b PROVE Holders(b)' = Holders(b)
    <3>1. ASSUME NEW q PROVE Held(q)' = Held(q)
      <4>1. CASE q = r
        BY <1>3, <1>4, <4>1 DEF Held, Get
      <4>2. CASE q # r
        BY <1>4, <4>2 DEF Held, Get
      <4> QED
        BY <4>1, <4>2
    <3>2. r \notin Holders(b)
      BY <1>3, EmptyFacts DEF Holders
    <3>3. \A q : q \in Holders(b)' => q \in Holders(b)
      <4> SUFFICES ASSUME NEW q, q \in Holders(b)' PROVE q \in Holders(b)
        OBVIOUS
      <4>1. q \in DOMAIN req_to_blocks' /\ b \in Range(Held(q)')
        BY DEF Holders
      <4>2. b \in Range(Held(q))
        BY <3>1, <4>1
      <4>3. q # r
        BY <1>3, <4>2, EmptyFacts
      <4> QED
        BY <1>4, <4>1, <4>2, <4>3 DEF Holders
    <3>4. \A q : q \in Holders(b) => q \in Holders(b)'
      <4> SUFFICES ASSUME NEW q, q \in Holders(b) PROVE q \in Holders(b)'
        OBVIOUS
      <4>1. q \in DOMAIN req_to_blocks /\ b \in Range(Held(q))
        BY DEF Holders
      <4>2. b \in Range(Held(q)') /\ q \in DOMAIN req_to_blocks'
        BY <1>4, <3>1, <4>1
      <4> QED
        BY <4>2 DEF Holders
    <3> QED
      BY <3>3, <3>4
  <2> QED
    BY <1>1, <1>2, <2>1 DEF AccountInv, Blocks
<1>8. HashInv'
  <2>1. \A q \in running : q # r /\ req_to_blocks'[q] = req_to_blocks[q]
    BY <1>1, <1>4 DEF HolderInv
  <2>2. \A q, k : Prefix(q, k)' = Prefix(q, k)
    BY <1>2 DEF Prefix
  <2>3. \A h \in DOMAIN cached' : h # NoHash /\ \A b \in Range(cached'[h]) : block_hash'[b] = h
    BY <1>1, <1>2 DEF HashInv
  <2>4. ASSUME NEW q \in running
        PROVE  /\ num_cached_block'[q] \in 0 .. Len(req_to_blocks'[q])
               /\ num_cached_block'[q] * BlockSize <= Len(tokens'[q])
               /\ \A k \in 1 .. Len(req_to_blocks'[q]) : block_hash'[req_to_blocks'[q][k]] =
                     IF k <= num_cached_block'[q] THEN Prefix(q, k * BlockSize)' ELSE NoHash
    <3>1. /\ num_cached_block[q] \in 0 .. Len(req_to_blocks[q])
          /\ num_cached_block[q] * BlockSize <= Len(tokens[q])
          /\ \A k \in 1 .. Len(req_to_blocks[q]) : block_hash[req_to_blocks[q][k]] =
                IF k <= num_cached_block[q] THEN Prefix(q, k * BlockSize) ELSE NoHash
      BY <1>1 DEF HashInv
    <3> QED
      BY <1>2, <2>1, <2>2, <3>1
  <2>5. ASSUME NEW p \in running, NEW q \in running, p # q
        PROVE  \A k \in num_cached_block'[p] + 1 .. Len(req_to_blocks'[p]) :
                  req_to_blocks'[p][k] \notin Range(req_to_blocks'[q])
    <3>1. \A k \in num_cached_block[p] + 1 .. Len(req_to_blocks[p]) :
             req_to_blocks[p][k] \notin Range(req_to_blocks[q])
      BY <1>1, <2>5 DEF HashInv
    <3> QED
      BY <1>2, <2>1, <3>1
  <2> QED
    BY <1>2, <2>3, <2>4, <2>5 DEF HashInv, NoHash
<1> QED
  BY <1>5, <1>6, <1>7, <1>8

\* reset_prefix_cache waits until nobody holds a block.
LEMMA PoolAfterReset ==
    ASSUME PoolInv, ResetPrefixCache
    PROVE  PoolTypeInv' /\ HolderInv' /\ AccountInv' /\ HashInv'
<1>1. RequestInv /\ PoolTypeInv /\ HolderInv /\ AccountInv /\ HashInv
  BY DEF PoolInv
<1>2. /\ Len(free) = NumGpuBlocks - 1 /\ cached' = EmptyDict
      /\ block_hash' = [b \in Blocks |-> NoHash]
      /\ UNCHANGED <<free, ref_cnt, req_to_blocks, num_cached_block, running, tokens, content>>
  BY DEF ResetPrefixCache, AllFree, managerVars, requestVars
<1>3. Range(free) = Blocks
  <2>1. Cardinality(Range(free)) = NumGpuBlocks - 1 /\ Range(free) \subseteq Blocks
    BY <1>1, <1>2, LengthOfInjective, RangeInSet DEF PoolTypeInv
  <2>2. NumGpuBlocks \in Nat \ {0} /\ 1 \in Int /\ NumGpuBlocks - 1 \in Int
    BY KVCacheAssumption, SMT
  <2>3. /\ IsFiniteSet(Blocks)
        /\ Cardinality(Blocks) =
              IF 1 > NumGpuBlocks - 1 THEN 0 ELSE (NumGpuBlocks - 1) - 1 + 1
    BY <2>2, FS_Interval DEF Blocks
  <2>4. Cardinality(Blocks) = NumGpuBlocks - 1
    BY <2>2, <2>3, SMT
  <2> QED
    BY <2>1, <2>3, <2>4, FS_Subset
<1>4. ASSUME NEW q \in running PROVE req_to_blocks[q] = <<>> /\ Len(req_to_blocks[q]) = 0
  <2>1. Held(q) = req_to_blocks[q] /\ Held(q) \in Seq(Blocks)
    BY <1>1, HeldFacts
  <2>2. Range(Held(q)) \subseteq Blocks
    BY <2>1, RangeInSet
  <2>3. \A b \in Blocks : b \notin Range(Held(q))
    BY <1>1, <1>3, FreeNotHeld
  <2>4. Held(q) = <<>>
    BY <2>1, <2>2, <2>3, EmptyOrNot
  <2> QED
    BY <2>1, <2>4, EmptyFacts
<1>5. DOMAIN cached' = {}
  BY <1>2 DEF EmptyDict
<1>6. PoolTypeInv'
  <2>1. block_hash' \in [Blocks -> Seq(Tokens)]
    BY <1>2, EmptyFacts DEF NoHash
  <2> QED
    BY <1>1, <1>2, <1>5, <2>1 DEF PoolTypeInv, Blocks
<1>7. HolderInv'
  BY <1>1, <1>2 DEF HolderInv, Blocks
<1>8. AccountInv'
  BY <1>1, <1>2 DEF AccountInv, Holders, Held, Blocks
<1>9. HashInv'
  <2>1. 1 .. 0 = {} /\ \A c : c \in 0 .. 0 => c + 1 .. 0 = {}
    BY SMT
  <2>2. ASSUME NEW q \in running
        PROVE  /\ num_cached_block[q] \in 0 .. Len(req_to_blocks[q])
               /\ num_cached_block[q] * BlockSize <= Len(tokens[q])
               /\ 1 .. Len(req_to_blocks[q]) = {}
               /\ num_cached_block[q] + 1 .. Len(req_to_blocks[q]) = {}
    BY <1>1, <1>4, <2>1 DEF HashInv
  <2> QED
    BY <1>2, <1>5, <2>2 DEF HashInv
<1> QED
  BY <1>6, <1>7, <1>8, <1>9

-----------------------------------------------------------------------------
(***************************************************************************)
(* Every step keeps the invariant of the pool.                             *)
(***************************************************************************)

LEMMA PoolInit == Init => PoolInv
<1> SUFFICES ASSUME Init PROVE PoolInv
  OBVIOUS
<1>1. /\ DOMAIN tokens = {} /\ DOMAIN computed = {} /\ DOMAIN batch = {} /\ DOMAIN cached = {}
      /\ DOMAIN req_to_blocks = {} /\ DOMAIN num_cached_block = {} /\ running = {}
      /\ phase = "idle"
  BY DEF Init, EmptyDict
<1>2. NumGpuBlocks - 1 \in Nat
  BY KVCacheAssumption, SMT
<1>3. RequestInv
  BY <1>1 DEF RequestInv, Live
<1>4. free \in Seq(Blocks) /\ IsInjective(free) /\ Range(free) = Blocks
  <2>1. free \in [1 .. NumGpuBlocks - 1 -> Blocks] /\ \A i \in Blocks : free[i] = i
    BY DEF Init, Blocks
  <2>2. free \in Seq(Blocks)
    BY <1>2, <2>1, FunctionIsSeq
  <2> QED
    BY <2>1, <2>2 DEF IsInjective, Range, Blocks
<1>5. PoolTypeInv
  <2>1. ref_cnt \in [Blocks -> Nat] /\ DOMAIN content = Blocks
    BY DEF Init
  <2>2. block_hash \in [Blocks -> Seq(Tokens)]
    BY EmptyFacts DEF Init, NoHash
  <2> QED
    BY <1>1, <1>4, <2>1, <2>2 DEF PoolTypeInv
<1>6. HolderInv
  BY <1>1, FS_EmptySet DEF HolderInv
<1>7. AccountInv
  <2>1. \A b \in Blocks : ref_cnt[b] = 0 /\ Holders(b) = {}
    BY <1>1 DEF Init, Holders
  <2> QED
    BY <1>4, <2>1, FS_EmptySet DEF AccountInv
<1>8. HashInv
  BY <1>1 DEF HashInv
<1> QED
  BY <1>3, <1>5, <1>6, <1>7, <1>8 DEF PoolInv

\* A step that ends a request, or takes its blocks away.
LEMMA FreeKeepsInv ==
    ASSUME PoolInv, NEW r, Frees(r), RequestInv'
    PROVE  PoolInv'
BY FreeKeepsPool DEF PoolInv

LEMMA AllocateKeepsInv ==
    ASSUME PoolInv, NEW r, NEW hit, NEW n, Allocates(r, hit, n)
    PROVE  PoolInv'
BY AllocateRequests, AllocateTypes, AllocateAccounts, AllocateHashes DEF PoolInv

\* A step that changes no request and no block.
LEMMA QuietKeepsInv ==
    ASSUME PoolInv, UNCHANGED <<poolVars, managerVars, requestVars, batch, content>>,
           phase' \in Phases, Scheduling' => Scheduling \/ DOMAIN batch = {},
           phase' = "idle" => DOMAIN batch = {}
    PROVE  PoolInv'
<1>1. RequestInv /\ running \subseteq Live /\ \A q \in Live : tokens[q] \in Seq(Tokens)
  BY DEF PoolInv, RequestInv
<1>2. RequestInv'
  BY <1>1, RequestsKept DEF requestVars
<1>3. \A q \in running : Grown(tokens[q], tokens'[q])
  BY <1>1, SameIsGrown DEF requestVars
<1>4. DOMAIN content' = Blocks
  BY DEF PoolInv, PoolTypeInv
<1>5. PoolTypeInv' /\ HolderInv' /\ AccountInv' /\ HashInv'
  BY <1>3, <1>4, PoolKept DEF poolVars, managerVars, requestVars
<1> QED
  BY <1>2, <1>5 DEF PoolInv

LEMMA AddKeepsInv ==
    ASSUME PoolInv, NEW r, NEW toks \in Seq(Tokens), Len(toks) \in 1 .. MaxLen - 1,
           AddRequest(r, toks)
    PROVE  PoolInv'
<1>1. RequestInv /\ running \subseteq Live /\ \A q \in Live : tokens[q] \in Seq(Tokens)
  BY DEF PoolInv, RequestInv
<1>2. RequestInv' /\ \A q \in Live : q \in Live' /\ tokens'[q] = tokens[q]
  BY <1>1, RequestAdded
<1>3. \A q \in running : Grown(tokens[q], tokens'[q])
  BY <1>1, <1>2, SameIsGrown
<1>4. DOMAIN content' = Blocks
  BY DEF PoolInv, PoolTypeInv, AddRequest
<1>5. PoolTypeInv' /\ HolderInv' /\ AccountInv' /\ HashInv'
  BY <1>3, <1>4, PoolKept DEF poolVars, managerVars, AddRequest
<1> QED
  BY <1>2, <1>5 DEF PoolInv

LEMMA AbortKeepsInv ==
    ASSUME PoolInv, NEW r, AbortRequest(r)
    PROVE  PoolInv' /\ Frees(r)
<1>1. RequestInv /\ phase = "idle" /\ phase' = phase /\ batch' = batch
  BY DEF PoolInv, AbortRequest, loopVars
<1>2. DOMAIN batch = {}
  BY <1>1 DEF RequestInv
<1>3. /\ Live' = Live \ {r} /\ DOMAIN computed' = DOMAIN computed \ {r} /\ running' = running \ {r}
      /\ \A q \in Live' : tokens'[q] = tokens[q] /\ computed'[q] = computed[q]
  BY <1>1 DEF AbortRequest, Forget, Drop, Live, RequestInv
<1>4. Scheduling' => Scheduling
  BY <1>1 DEF Scheduling
<1>5. RequestInv'
  BY <1>1, <1>2, <1>3, <1>4, RequestLeaves DEF RequestInv, Phases
<1>6. Frees(r)
  <2>1. \A q \in running \ {r} : q \in Live' /\ tokens'[q] = tokens[q]
    BY <1>1, <1>3 DEF RequestInv
  <2> QED
    BY <1>3, <2>1 DEF Frees, AbortRequest, Live
<1> QED
  BY <1>5, <1>6, FreeKeepsInv

LEMMA StoppedKeepsInv ==
    ASSUME PoolInv, NEW r, FreeStopped(r)
    PROVE  PoolInv' /\ Frees(r)
<1>1. RequestInv /\ phase = "stopping" /\ phase' = phase /\ batch' = Drop(batch, {r})
  BY DEF PoolInv, FreeStopped
<1>2. /\ DOMAIN batch' = DOMAIN batch \ {r}
      /\ \A q \in DOMAIN batch \ {r} : batch'[q] = batch[q]
  BY <1>1 DEF Drop
<1>3. /\ Live' = Live \ {r} /\ DOMAIN computed' = DOMAIN computed \ {r} /\ running' = running \ {r}
      /\ \A q \in Live' : tokens'[q] = tokens[q] /\ computed'[q] = computed[q]
  BY <1>1 DEF FreeStopped, Forget, Drop, Live, RequestInv
<1>4. (Scheduling' => Scheduling) /\ phase' # "idle" /\ phase' \in Phases
  BY <1>1 DEF Scheduling, Phases
<1>5. RequestInv'
  BY <1>1, <1>2, <1>3, <1>4, RequestLeaves DEF RequestInv
<1>6. Frees(r)
  <2>1. \A q \in running \ {r} : q \in Live' /\ tokens'[q] = tokens[q]
    BY <1>1, <1>3 DEF RequestInv
  <2> QED
    BY <1>3, <2>1 DEF Frees, FreeStopped, Live
<1> QED
  BY <1>5, <1>6, FreeKeepsInv

LEMMA TakeKeepsInv ==
    ASSUME PoolInv, NEW victim \in running, NEW r, NEW n, TakeBlocksFrom(victim, r, n)
    PROVE  PoolInv' /\ Frees(victim)
<1>1. /\ RequestInv /\ phase = "running" /\ phase' \in {"running", "waiting"}
      /\ batch' = Drop(batch, {victim}) /\ victim \in Live /\ content' = content
      /\ Free(victim)
  BY DEF PoolInv, RequestInv, TakeBlocksFrom
<1>2. /\ DOMAIN batch' = DOMAIN batch \ {victim}
      /\ \A q \in DOMAIN batch \ {victim} : batch'[q] = batch[q]
  BY <1>1 DEF Drop
<1>3. /\ Live \ {victim} \subseteq Live' /\ Live' \subseteq Live /\ DOMAIN computed' = Live'
      /\ running' = running \ {victim}
      /\ \A q \in Live' : tokens'[q] = tokens[q]
      /\ \A q \in Live' : q # victim => computed'[q] = computed[q]
      /\ victim \in Live' => computed'[victim] = 0
  <2>1. CASE Policy = "gambit"
    <3>1. Forget({victim})
      BY <2>1 DEF TakeBlocksFrom
    <3> QED
      BY <1>1, <3>1 DEF Forget, Drop, Live, RequestInv
  <2>2. CASE Policy # "gambit"
    <3>1. /\ computed' = [computed EXCEPT ![victim] = 0] /\ running' = running \ {victim}
          /\ tokens' = tokens
      BY <2>2 DEF TakeBlocksFrom
    <3> QED
      BY <1>1, <3>1 DEF Live, RequestInv
  <2> QED
    BY <2>1, <2>2
<1>4. (Scheduling' => Scheduling) /\ phase' # "idle" /\ phase' \in Phases
  BY <1>1 DEF Scheduling, Phases
<1>5. RequestInv'
  BY <1>1, <1>2, <1>3, <1>4, RequestLeaves
<1>6. Frees(victim)
  <2>1. \A q \in running \ {victim} : q \in Live' /\ tokens'[q] = tokens[q]
    BY <1>1, <1>3 DEF RequestInv
  <2> QED
    BY <1>1, <1>3, <2>1 DEF Frees, Live
<1> QED
  BY <1>5, <1>6, FreeKeepsInv

LEMMA ExecuteKeepsInv ==
    ASSUME PoolInv, ExecuteModel
    PROVE  PoolInv'
<1>1. RequestInv /\ running \subseteq Live /\ \A q \in Live : tokens[q] \in Seq(Tokens)
  BY DEF PoolInv, RequestInv
<1>2. RequestInv'
  BY <1>1, ExecuteRequests
<1>3. \A q \in running : Grown(tokens[q], tokens'[q])
  BY <1>1, SameIsGrown DEF ExecuteModel
<1>4. DOMAIN content' = Blocks
  BY DEF ExecuteModel
<1>5. PoolTypeInv' /\ HolderInv' /\ AccountInv' /\ HashInv'
  BY <1>3, <1>4, PoolKept DEF poolVars, managerVars, ExecuteModel
<1> QED
  BY <1>2, <1>5 DEF PoolInv

LEMMA UpdateKeepsInv ==
    ASSUME PoolInv, NEW stopped \in SUBSET DOMAIN batch, NEW new \in [Sampled \ stopped -> Tokens],
           UpdateFromOutput(new, stopped)
    PROVE  PoolInv'
<1>1. RequestInv /\ running \subseteq Live
  BY DEF PoolInv, RequestInv
<1>2. RequestInv' /\ \A q \in Live : Grown(tokens[q], tokens'[q])
  BY <1>1, UpdateRequests
<1>3. DOMAIN content' = Blocks
  BY DEF PoolInv, PoolTypeInv, UpdateFromOutput
<1>4. PoolTypeInv' /\ HolderInv' /\ AccountInv' /\ HashInv'
  BY <1>1, <1>2, <1>3, PoolKept DEF poolVars, managerVars, UpdateFromOutput
<1> QED
  BY <1>2, <1>4 DEF PoolInv

\* What a step does to the pool.
PoolStep ==
    \/ \E r, hit, n : Allocates(r, hit, n)
    \/ \E r : Frees(r)
    \/ ResetPrefixCache
    \/ UNCHANGED poolVars

LEMMA PoolNext ==
    ASSUME PoolInv, [Next]_vars
    PROVE  PoolInv' /\ PoolStep
<1>0. RequestInv
  BY DEF PoolInv
<1>1. ASSUME NEW r \in Requests, NEW prompt \in Prompts, AddRoot(r, prompt)
      PROVE  PoolInv' /\ PoolStep
  <2>1. prompt \in Seq(Tokens) /\ Len(prompt) \in 1 .. MaxLen - 1 /\ AddRequest(r, prompt)
    BY <1>1, PromptFacts DEF AddRoot
  <2> QED
    BY <2>1, AddKeepsInv DEF PoolStep, AddRequest
<1>2. ASSUME NEW r \in Requests, AbortRequest(r)
      PROVE  PoolInv' /\ PoolStep
  BY <1>2, AbortKeepsInv DEF PoolStep
<1>3. ASSUME ResetPrefixCache
      PROVE  PoolInv' /\ PoolStep
  <2>1. UNCHANGED <<tokens, computed, running, batch, phase>> /\ phase = "idle"
    BY <1>3 DEF ResetPrefixCache, requestVars, loopVars
  <2>2. DOMAIN batch = {} /\ phase' \in Phases
    BY <1>0, <2>1 DEF RequestInv, Phases
  <2>3. RequestInv'
    BY <1>0, <2>1, <2>2, RequestsKept
  <2> QED
    BY <1>3, <2>3, PoolAfterReset DEF PoolInv, PoolStep
<1>4. ASSUME ScheduleStart
      PROVE  PoolInv' /\ PoolStep
  <2>1. phase = "idle" /\ phase' = "running"
    BY <1>4 DEF ScheduleStart
  <2>2. DOMAIN batch = {} /\ phase' \in Phases
    BY <1>0, <2>1 DEF RequestInv, Phases
  <2> QED
    BY <1>4, <2>1, <2>2, QuietKeepsInv DEF PoolStep, ScheduleStart
<1>5. ASSUME NEW r \in running, NEW n \in NumNewTokens(Len(tokens[r]) - computed[r]),
             ScheduleRunning(r, n)
      PROVE  PoolInv' /\ PoolStep
  <2>1. Allocates(r, <<>>, n)
    BY <1>5, RunningAllocates
  <2> QED
    BY <2>1, AllocateKeepsInv DEF PoolStep
<1>6. ASSUME NEW r \in running, NEW n, NEW victim \in running, TakeBlocksFrom(victim, r, n)
      PROVE  PoolInv' /\ PoolStep
  BY <1>6, TakeKeepsInv DEF PoolStep
<1>7. ASSUME RunningDone
      PROVE  PoolInv' /\ PoolStep
  <2>1. Scheduling /\ phase' \in Phases /\ phase' # "idle"
    BY <1>7 DEF Scheduling, RunningDone, Phases
  <2> QED
    BY <1>7, <2>1, QuietKeepsInv DEF PoolStep, RunningDone
<1>8. ASSUME NEW r \in Waiting,
             NEW n \in NumNewTokens(Len(tokens[r]) - Len(ComputedBlocks(r)) * BlockSize),
             AdmitWaiting(r, n)
      PROVE  PoolInv' /\ PoolStep
  <2>1. Allocates(r, ComputedBlocks(r), n)
    BY <1>8, AdmissionAllocates
  <2> QED
    BY <2>1, AllocateKeepsInv DEF PoolStep
<1>9. ASSUME NEW r \in Waiting, NEW n, AdmissionFails(r, n)
      PROVE  PoolInv' /\ PoolStep
  <2>1. /\ Scheduling /\ phase' \in Phases /\ phase' # "idle"
        /\ UNCHANGED <<tokens, computed, running, batch>> /\ UNCHANGED poolVars
    BY <1>9 DEF Scheduling, AdmissionFails, Phases, requestVars
  <2>2. RequestInv'
    BY <1>0, <2>1, RequestsKept
  <2>3. PoolTypeInv' /\ HolderInv' /\ AccountInv' /\ HashInv'
    BY <1>9, PoolAfterFailure
  <2> QED
    BY <2>1, <2>2, <2>3 DEF PoolInv, PoolStep
<1>10. ASSUME WaitingDone
       PROVE  PoolInv' /\ PoolStep
  <2>1. Scheduling /\ phase' \in Phases /\ phase' # "idle"
    BY <1>10 DEF Scheduling, WaitingDone, Phases
  <2> QED
    BY <1>10, <2>1, QuietKeepsInv DEF PoolStep, WaitingDone
<1>11. ASSUME ExecuteModel
       PROVE  PoolInv' /\ PoolStep
  BY <1>11, ExecuteKeepsInv DEF PoolStep, ExecuteModel
<1>12. ASSUME NEW child \in Requests, NEW parent \in Live, AddBranch(child, parent)
       PROVE  PoolInv' /\ PoolStep
  <2>1. /\ tokens[parent] \in Seq(Tokens) /\ Len(tokens[parent]) \in 1 .. MaxLen - 1
        /\ AddRequest(child, tokens[parent])
    BY <1>0, <1>12 DEF RequestInv, AddBranch
  <2> QED
    BY <2>1, AddKeepsInv DEF PoolStep, AddRequest
<1>13. ASSUME NEW stopped \in SUBSET DOMAIN batch, NEW new \in [Sampled \ stopped -> Tokens],
              UpdateFromOutput(new, stopped)
       PROVE  PoolInv' /\ PoolStep
  BY <1>13, UpdateKeepsInv DEF PoolStep, UpdateFromOutput
<1>14. ASSUME NEW r \in Requests, FreeStopped(r)
       PROVE  PoolInv' /\ PoolStep
  BY <1>14, StoppedKeepsInv DEF PoolStep
<1>15. ASSUME StepDone
       PROVE  PoolInv' /\ PoolStep
  <2>1. DOMAIN batch = {} /\ phase' = "idle"
    BY <1>15 DEF StepDone, EmptyDict
  <2>2. phase' \in Phases /\ ~Scheduling'
    BY <2>1 DEF Phases, Scheduling
  <2> QED
    BY <1>15, <2>1, <2>2, QuietKeepsInv DEF PoolStep, StepDone
<1>16. ASSUME UNCHANGED vars
       PROVE  PoolInv' /\ PoolStep
  <2>1. UNCHANGED <<poolVars, managerVars, requestVars, batch, phase, content>>
    BY <1>16 DEF vars, loopVars
  <2>2. /\ phase' \in Phases /\ (phase' = "idle" => DOMAIN batch = {})
        /\ (Scheduling' => Scheduling)
    BY <1>0, <2>1 DEF RequestInv, Phases, Scheduling
  <2> QED
    BY <2>1, <2>2, QuietKeepsInv DEF PoolStep
<1> QED
  BY <1>1, <1>2, <1>3, <1>4, <1>5, <1>6, <1>7, <1>8, <1>9, <1>10, <1>11, <1>12, <1>13, <1>14,
     <1>15, <1>16 DEF Next

LEMMA PoolInvariant == Spec => []PoolInv
<1>1. Init => PoolInv
  BY PoolInit
<1>2. PoolInv /\ [Next]_vars => PoolInv'
  BY PoolNext
<1> QED
  BY <1>1, <1>2, PTL DEF Spec

\* BlocksAccountedFor: no call leaks a block, and none hands one out that
\* somebody uses.
THEOREM PoolAccounts == Spec => []BlocksAccountedFor
<1>1. PoolInv => BlocksAccountedFor
  <2> SUFFICES ASSUME PoolInv PROVE BlocksAccountedFor
    OBVIOUS
  <2>1. free \in Seq(Blocks) /\ IsInjective(free) /\ AccountInv
    BY DEF PoolInv, PoolTypeInv
  <2>2. Len(free) = Cardinality(Range(free))
    BY <2>1, LengthOfInjective
  <2> QED
    BY <2>1, <2>2 DEF AccountInv, Holders, BlocksAccountedFor
<1> QED
  BY <1>1, PoolInvariant, PTL

-----------------------------------------------------------------------------
(***************************************************************************)
(* The blocks that requests share.                                         *)
(***************************************************************************)

\* Two requests hold a block at the same place.
LEMMA SharedPlace ==
    ASSUME PoolInv, NEW r \in running, NEW q \in running, r # q,
           NEW k \in 1 .. Len(Held(r)), Held(r)[k] \in Range(Held(q))
    PROVE  k \in 1 .. Len(Held(q)) /\ Held(q)[k] = Held(r)[k]
<1>1. RequestInv /\ HolderInv /\ HashInv
  BY DEF PoolInv
<1>2. /\ Held(r) = req_to_blocks[r] /\ Held(q) = req_to_blocks[q]
      /\ Held(r) \in Seq(Blocks) /\ Held(q) \in Seq(Blocks)
  BY <1>1, HeldFacts
<1>3. /\ Len(Held(r)) \in Nat /\ DOMAIN Held(r) = 1 .. Len(Held(r))
      /\ Len(Held(q)) \in Nat /\ DOMAIN Held(q) = 1 .. Len(Held(q))
  BY <1>2, DomainOfSeq
<1>4. PICK j \in 1 .. Len(Held(q)) : Held(q)[j] = Held(r)[k]
  BY <1>3 DEF Range
<1>5. Held(q)[j] \in Range(Held(r))
  BY <1>3, <1>4 DEF Range
<1>6. ASSUME NEW p \in running, NEW o \in running, p # o, NEW i \in 1 .. Len(Held(p)),
             Held(p)[i] \in Range(Held(o))
      PROVE  /\ i \in Nat /\ i * BlockSize <= Len(tokens[p])
             /\ block_hash[Held(p)[i]] = Prefix(p, i * BlockSize)
  <2>1. Held(p) = req_to_blocks[p] /\ Held(o) = req_to_blocks[o] /\ Held(p) \in Seq(Blocks)
    BY <1>1, HeldFacts
  <2>2. /\ num_cached_block[p] \in 0 .. Len(Held(p))
        /\ num_cached_block[p] * BlockSize <= Len(tokens[p])
        /\ block_hash[Held(p)[i]] =
              IF i <= num_cached_block[p] THEN Prefix(p, i * BlockSize) ELSE NoHash
    <3>1. /\ num_cached_block[p] \in 0 .. Len(req_to_blocks[p])
          /\ num_cached_block[p] * BlockSize <= Len(tokens[p])
          /\ \A k1 \in 1 .. Len(req_to_blocks[p]) : block_hash[req_to_blocks[p][k1]] =
                IF k1 <= num_cached_block[p] THEN Prefix(p, k1 * BlockSize) ELSE NoHash
      BY <1>1 DEF HashInv
    <3> QED
      BY <2>1, <3>1
  <2>3. i \notin num_cached_block[p] + 1 .. Len(Held(p))
    BY <1>1, <1>6, <2>1 DEF HashInv
  <2>4. Len(Held(p)) \in Nat
    BY <2>1, DomainOfSeq
  <2>5. i <= num_cached_block[p] /\ i \in 1 .. num_cached_block[p] /\ num_cached_block[p] \in Nat
    BY <2>2, <2>3, <2>4, SMT
  <2>6. p \in Live
    BY <1>1 DEF RequestInv
  <2>7. i \in Nat /\ i * BlockSize <= Len(tokens[p])
    BY <1>1, <2>2, <2>5, <2>6, HitHasHash
  <2> QED
    BY <2>2, <2>5, <2>7
<1>7. /\ k \in Nat /\ k * BlockSize <= Len(tokens[r])
      /\ block_hash[Held(r)[k]] = Prefix(r, k * BlockSize)
  BY <1>6
<1>8. /\ j \in Nat /\ j * BlockSize <= Len(tokens[q])
      /\ block_hash[Held(q)[j]] = Prefix(q, j * BlockSize)
  BY <1>5, <1>6
<1>9. r \in Live /\ q \in Live
  BY <1>1 DEF RequestInv
<1>10. /\ Len(Prefix(r, k * BlockSize)) \div BlockSize = k
       /\ Len(Prefix(q, j * BlockSize)) \div BlockSize = j
  BY <1>1, <1>7, <1>8, <1>9, PrefixFacts
<1>11. k = j
  BY <1>4, <1>7, <1>8, <1>10
<1> QED
  BY <1>4, <1>11

\* CommonPrefixIsShared: the blocks that get_num_common_prefix_blocks counts by
\* their reference counts are the first blocks of every request of the batch.
THEOREM PoolSharesPrefix == Spec => []CommonPrefixIsShared
<1>1. PoolInv => CommonPrefixIsShared
  <2> SUFFICES ASSUME PoolInv, NEW r \in DOMAIN batch, NEW q \in DOMAIN batch
               PROVE  LET n == NumCommonPrefixBlocks(r)
                      IN  n <= Len(Held(q)) /\ SubSeq(Held(q), 1, n) = SubSeq(Held(r), 1, n)
    BY DEF CommonPrefixIsShared
  <2> DEFINE n == NumCommonPrefixBlocks(r)
             L == Len(Held(r))
             D == Cardinality(DOMAIN req_to_blocks)
             S == {m \in 0 .. L : \A k \in 1 .. m : ref_cnt[Held(r)[k]] = D}
  <2>1. RequestInv /\ HolderInv /\ AccountInv
    BY DEF PoolInv
  <2>2. r \in running /\ q \in running /\ q \in DOMAIN req_to_blocks
    BY <2>1 DEF RequestInv, HolderInv
  <2>3. Held(r) \in Seq(Blocks) /\ Held(q) \in Seq(Blocks)
    BY <2>1, HeldFacts
  <2>4. L \in Nat /\ Len(Held(q)) \in Nat /\ DOMAIN Held(r) = 1 .. L
    BY <2>3, DomainOfSeq
  <2>5. n = Max(S)
    BY DEF NumCommonPrefixBlocks
  <2> HIDE DEF L, n
  <2>6. S \in SUBSET Nat /\ (\A m \in S : m <= L) /\ S # {}
    <3>1. \A m \in 0 .. L : m \in Nat /\ m <= L
      BY <2>4, SMT
    <3>2. 0 \in 0 .. L /\ 1 .. 0 = {}
      BY <2>4, SMT
    <3>3. 0 \in S
      BY <3>2
    <3> QED
      BY <3>1, <3>3
  <2>7. n \in S
    <3> HIDE DEF S
    <3> QED
      BY <2>4, <2>5, <2>6, MaxOfBounded
  <2>8. n \in 0 .. L /\ \A k \in 1 .. n : ref_cnt[Held(r)[k]] = D
    BY <2>7
  <2>9. n \in Nat /\ \A k \in 1 .. n : k \in 1 .. L
    BY <2>4, <2>8, SMT
  <2>10. ASSUME NEW k \in 1 .. n
         PROVE  k \in 1 .. Len(Held(q)) /\ Held(q)[k] = Held(r)[k]
    <3>1. k \in 1 .. L /\ Held(r)[k] \in Blocks /\ Held(r)[k] \in Range(Held(r))
      BY <2>3, <2>4, <2>9, MemberOfSeq DEF Range, L
    <3>2. Cardinality(Holders(Held(r)[k])) = D
      <4>1. ref_cnt[Held(r)[k]] = Cardinality(Holders(Held(r)[k]))
        BY <2>1, <3>1 DEF AccountInv
      <4>2. ref_cnt[Held(r)[k]] = D
        BY <2>8
      <4> QED
        BY <4>1, <4>2
    <3>3. Holders(Held(r)[k]) \in SUBSET DOMAIN req_to_blocks /\ IsFiniteSet(DOMAIN req_to_blocks)
      BY <2>1 DEF Holders, HolderInv
    <3>4. Holders(Held(r)[k]) = DOMAIN req_to_blocks
      BY <3>2, <3>3, FS_Subset
    <3>5. Held(r)[k] \in Range(Held(q))
      BY <2>2, <3>4 DEF Holders
    <3>6. CASE r = q
      BY <3>1, <3>6 DEF L
    <3>7. CASE r # q
      BY <2>2, <3>1, <3>5, <3>7, SharedPlace DEF L
    <3> QED
      BY <3>6, <3>7
  <2>11. n \in 0 .. Len(Held(q)) /\ n <= Len(Held(q))
    <3>1. n # 0 => n \in 1 .. n
      BY <2>9, SMT
    <3>2. n # 0 => n \in 1 .. Len(Held(q))
      BY <2>10, <3>1
    <3> QED
      BY <2>4, <2>9, <3>2, SMT
  <2>12. SubSeq(Held(q), 1, n) = SubSeq(Held(r), 1, n)
    BY <2>3, <2>8, <2>10, <2>11, SameFirst DEF L
  <2> QED
    BY <2>11, <2>12 DEF n
<1> QED
  BY <1>1, PoolInvariant, PTL

-----------------------------------------------------------------------------
(***************************************************************************)
(* A request on its own.                                                   *)
(***************************************************************************)

\* What a request does not hold is free when nobody else runs.
LEMMA FreeCount ==
    ASSUME PoolInv, NEW r, running \subseteq {r}
    PROVE  /\ Len(free) \in Nat /\ Len(Held(r)) \in Nat
           /\ Len(free) + Len(Held(r)) = NumGpuBlocks - 1
<1>1. PoolTypeInv /\ HolderInv /\ AccountInv
  BY DEF PoolInv
<1>2. free \in Seq(Blocks) /\ IsInjective(free)
  BY <1>1 DEF PoolTypeInv
<1>3. Held(r) \in Seq(Blocks) /\ IsInjective(Held(r))
  BY <1>1, HeldFacts
<1>4. Cardinality(Range(free)) = Len(free) /\ Cardinality(Range(Held(r))) = Len(Held(r))
  BY <1>2, <1>3, LengthOfInjective
<1>5. Range(Held(r)) \subseteq Blocks
  BY <1>3, RangeInSet
<1>6. ASSUME NEW b \in Blocks
      PROVE  b \in Range(free) <=> b \notin Range(Held(r))
  <2>1. b \in Range(free) => b \notin Range(Held(r))
    BY <1>1, FreeNotHeld
  <2>2. ASSUME b \notin Range(Held(r)) PROVE b \in Range(free)
    <3>1. \A q : b \notin Range(Held(q))
      <4> SUFFICES ASSUME NEW q PROVE b \notin Range(Held(q))
        OBVIOUS
      <4>1. CASE q = r
        BY <2>2, <4>1
      <4>2. CASE q # r
        <5>1. Held(q) = <<>>
          BY <1>1, <4>2, HeldFacts
        <5> QED
          BY <5>1, EmptyFacts
      <4> QED
        BY <4>1, <4>2
    <3>2. Holders(b) = {}
      BY <3>1 DEF Holders
    <3>3. ref_cnt[b] = 0
      BY <1>1, <3>2, FS_EmptySet DEF AccountInv
    <3> QED
      BY <1>1, <3>3 DEF AccountInv
  <2> QED
    BY <2>1, <2>2
<1>7. Range(free) \subseteq Blocks
  BY <1>2, RangeInSet
<1>8. Range(free) = Blocks \ Range(Held(r)) /\ Blocks \cap Range(Held(r)) = Range(Held(r))
  BY <1>5, <1>6, <1>7
<1>9. IsFiniteSet(Blocks) /\ Cardinality(Blocks) = NumGpuBlocks - 1
  <2>1. NumGpuBlocks \in Nat \ {0} /\ 1 \in Int /\ NumGpuBlocks - 1 \in Int
    BY KVCacheAssumption, SMT
  <2>2. /\ IsFiniteSet(Blocks)
        /\ Cardinality(Blocks) =
              IF 1 > NumGpuBlocks - 1 THEN 0 ELSE (NumGpuBlocks - 1) - 1 + 1
    BY <2>1, FS_Interval DEF Blocks
  <2> QED
    BY <2>1, <2>2, SMT
<1>10. Cardinality(Blocks \ Range(Held(r)))
         = Cardinality(Blocks) - Cardinality(Blocks \cap Range(Held(r)))
  BY <1>9, FS_Difference
<1>11. Len(free) = (NumGpuBlocks - 1) - Len(Held(r))
  BY <1>4, <1>8, <1>9, <1>10
<1>12. Len(free) \in Nat /\ Len(Held(r)) \in Nat
  BY <1>2, <1>3, DomainOfSeq
<1> QED
  BY <1>11, <1>12, KVCacheAssumption, SMT

\* As many tokens as a request can have need no more blocks than there are.
LEMMA AllTokensFit ==
    ASSUME MaxLen - 1 <= (NumGpuBlocks - 1) * BlockSize, NEW l \in 1 .. MaxLen - 1
    PROVE  Cdiv(Min({l, MaxLen})) \in Nat /\ Cdiv(Min({l, MaxLen})) <= NumGpuBlocks - 1
<1> DEFINE G == NumGpuBlocks
           c == Cdiv(l)
<1>1. MaxLen \in Nat /\ G \in Nat /\ BlockSize \in Nat /\ BlockSize > 0
  BY KVCacheAssumption, BlockSizeType
<1>2. l \in Nat /\ l \in Int /\ MaxLen \in Int /\ l <= MaxLen /\ l <= MaxLen - 1 /\ G - 1 \in Int
  BY <1>1, SMT
<1>3. Min({l, MaxLen}) = l
  BY <1>2, MinOfTwo
<1>4. c \in Nat /\ c * BlockSize < l + BlockSize
  BY <1>2, CdivBounds
<1> HIDE DEF c
<1>5. c \in Int
  BY <1>4, SMT
<1>6. /\ c * BlockSize \in Int /\ (G - 1) * BlockSize \in Int
      /\ G - 1 < c => (G - 1) * BlockSize + BlockSize <= c * BlockSize
  BY <1>2, <1>5, Multiples
<1>7. c <= G - 1
  BY <1>1, <1>2, <1>4, <1>5, <1>6, SMT
<1> QED
  BY <1>3, <1>4, <1>7 DEF c

\* LoneRequestFits: allocate_slots never turns down a request that is alone, if
\* the pool without null_block has room for MaxLen - 1 tokens.
THEOREM PoolFitsOne == Spec => []LoneRequestFits
<1>1. PoolInv => LoneRequestFits
  <2> SUFFICES ASSUME PoolInv, MaxLen - 1 <= (NumGpuBlocks - 1) * BlockSize
               PROVE  /\ \A r \in running : running = {r} =>
                            CanAllocate(r, <<>>, Len(tokens[r]) - computed[r])
                      /\ running = {} => \A r \in Waiting :
                            CanAllocate(r, ComputedBlocks(r),
                                        Len(tokens[r]) - Len(ComputedBlocks(r)) * BlockSize)
    BY DEF LoneRequestFits
  <2>1. RequestInv /\ HolderInv
    BY DEF PoolInv
  <2>2. ASSUME NEW r \in Live, NEW hit, NEW n, running \subseteq {r}, hit \in Seq(Blocks),
               ComputedWith(r, hit) + n = Len(tokens[r])
        PROVE  CanAllocate(r, hit, n)
    <3> DEFINE R == RequiredBlocks(r, hit, n)
               h == Len(hit)
               f == Len(free)
               l == Len(Held(r))
               c == Cardinality({k \in DOMAIN hit : ref_cnt[hit[k]] = 0})
    <3>1. Len(tokens[r]) \in 1 .. MaxLen - 1
      BY <2>1, <2>2 DEF RequestInv
    <3>2. R \in Nat /\ R <= NumGpuBlocks - 1
      BY <2>2, <3>1, AllTokensFit DEF RequiredBlocks
    <3>3. f \in Nat /\ l \in Nat /\ f + l = NumGpuBlocks - 1
      BY <2>2, FreeCount
    <3>4. h \in Nat /\ DOMAIN hit = 1 .. h
      BY <2>2, DomainOfSeq
    <3>5. c \in Nat /\ c <= h
      <4> DEFINE Z == {k \in DOMAIN hit : ref_cnt[hit[k]] = 0}
      <4>1. Z \in SUBSET (1 .. h)
        BY <3>4
      <4>2. IsFiniteSet(1 .. h) /\ Cardinality(1 .. h) = IF 1 > h THEN 0 ELSE h - 1 + 1
        <5>1. 1 \in Int /\ h \in Int
          BY <3>4, SMT
        <5> HIDE DEF h
        <5> QED
          BY <5>1, FS_Interval
      <4>3. Cardinality(1 .. h) = h
        BY <3>4, <4>2, SMT
      <4> HIDE DEF Z, h
      <4>4. IsFiniteSet(Z) /\ Cardinality(Z) <= Cardinality(1 .. h)
        BY <4>1, <4>2, FS_Subset
      <4>5. Cardinality(Z) \in Nat
        BY <4>4, FS_CardinalityType
      <4> QED
        BY <4>3, <4>4, <4>5 DEF Z
    <3>6. NumBlocksToAllocate(r, hit, n) = R - h - l + c
      BY DEF NumBlocksToAllocate
    <3> HIDE DEF R, h, f, l, c
    <3>7. R - h - l + c <= f
      BY <3>2, <3>3, <3>4, <3>5, KVCacheAssumption, SMT
    <3> QED
      BY <3>6, <3>7 DEF CanAllocate, f
  <2>3. ASSUME NEW r \in running, running = {r}
        PROVE  CanAllocate(r, <<>>, Len(tokens[r]) - computed[r])
    <3>1. r \in Live /\ Len(tokens[r]) \in 1 .. MaxLen - 1 /\ computed[r] \in 0 .. Len(tokens[r])
      BY <2>1 DEF RequestInv
    <3>2. <<>> \in Seq(Blocks) /\ Len(<<>>) = 0
      BY EmptyFacts
    <3>3. computed[r] + 0 * BlockSize + (Len(tokens[r]) - computed[r]) = Len(tokens[r])
      BY <3>1, BlockSizeType, KVCacheAssumption, SMT
    <3>4. ComputedWith(r, <<>>) + (Len(tokens[r]) - computed[r]) = Len(tokens[r])
      BY <3>2, <3>3 DEF ComputedWith
    <3>5. running \subseteq {r}
      BY <2>3
    <3> QED
      BY <2>2, <3>1, <3>2, <3>4, <3>5
  <2>4. ASSUME running = {}, NEW r \in Waiting
        PROVE  CanAllocate(r, ComputedBlocks(r),
                           Len(tokens[r]) - Len(ComputedBlocks(r)) * BlockSize)
    <3> DEFINE m == Len(ComputedBlocks(r)) * BlockSize
    <3>1. r \in Live /\ r \notin running
      BY DEF Waiting
    <3>2. Len(tokens[r]) \in 1 .. MaxLen - 1 /\ computed[r] = 0
      BY <2>1, <3>1 DEF RequestInv
    <3>3. ComputedBlocks(r) \in Seq(Blocks) /\ Len(ComputedBlocks(r)) \in Nat
      BY <3>1, ComputedFacts DEF HitShape
    <3>4. m \in Nat
      BY <3>3, BlockSizeType, SMT
    <3>5. ComputedWith(r, ComputedBlocks(r)) = 0 + m
      BY <3>2 DEF ComputedWith
    <3> HIDE DEF m
    <3>6. (0 + m) + (Len(tokens[r]) - m) = Len(tokens[r])
      BY <3>2, <3>4, KVCacheAssumption, SMT
    <3>7. ComputedWith(r, ComputedBlocks(r)) + (Len(tokens[r]) - m) = Len(tokens[r])
      BY <3>5, <3>6
    <3>8. running \subseteq {r}
      BY <2>4
    <3>9. CanAllocate(r, ComputedBlocks(r), Len(tokens[r]) - m)
      BY <2>2, <3>1, <3>3, <3>7, <3>8
    <3> QED
      BY <3>9 DEF m
  <2> QED
    BY <2>3, <2>4
<1> QED
  BY <1>1, PoolInvariant, PTL
=============================================================================
