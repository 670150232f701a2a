--------------------------- MODULE KVCacheProofs ---------------------------
(***************************************************************************)
(* Proofs about the prefix cache, for every number of requests and blocks, *)
(* every block size and maximal length and, unless said otherwise, every   *)
(* scheduling policy: the free queue evicts prefixes from the end, and a   *)
(* cached block contains what its hash says.                               *)
(***************************************************************************)
EXTENDS KVCachePoolProofs

USE Zenon

-----------------------------------------------------------------------------
(***************************************************************************)
(* The order of the free queue.                                            *)
(***************************************************************************)
Parent(h) == SubSeq(h, 1, Len(h) - BlockSize)

\* A block with a hash can be found under it, and the block before a free one is
\* held or comes later in the queue.
QueueInv ==
    /\ \A b \in Blocks : block_hash[b] # NoHash =>
          block_hash[b] \in DOMAIN cached /\ b \in Range(cached[block_hash[b]])
    /\ \A b \in Range(free) : Len(block_hash[b]) > BlockSize =>
          \E p \in Blocks :
             /\ block_hash[p] = Parent(block_hash[b])
             /\ p \notin Range(free) \/ Before(free, b, p)

LEMMA ParentFacts ==
    ASSUME NEW h \in Seq(Tokens), Len(h) > BlockSize
    PROVE  Parent(h) \in Seq(Tokens) /\ Parent(h) # NoHash
<1> DEFINE m == Len(h) - BlockSize
<1>1. Len(h) \in Nat
  BY DomainOfSeq
<1>2. m \in 0 .. Len(h) /\ m # 0
  BY <1>1, BlockSizeType, SMT
<1> HIDE DEF m
<1>3. SubSeq(h, 1, m) \in Seq(Tokens) /\ Len(SubSeq(h, 1, m)) = m
  BY <1>2, FirstOfSeq
<1> QED
  BY <1>2, <1>3, EmptyFacts DEF Parent, NoHash, m

\* The block before a block that a request holds.
LEMMA ParentHeld ==
    ASSUME PoolInv, NEW r \in running, NEW k \in 1 .. Len(Held(r)),
           Len(block_hash[Held(r)[k]]) > BlockSize
    PROVE  /\ k - 1 \in 1 .. Len(Held(r)) /\ k - 1 < k
           /\ block_hash[Held(r)[k - 1]] = Parent(block_hash[Held(r)[k]])
<1> DEFINE c == num_cached_block[r]
           L == Len(tokens[r])
           B == Len(Held(r))
<1>1. RequestInv /\ HolderInv /\ HashInv
  BY DEF PoolInv
<1>2. Held(r) = req_to_blocks[r] /\ Held(r) \in Seq(Blocks) /\ r \in Live
  BY <1>1, HeldFacts DEF RequestInv
<1>3. /\ c \in 0 .. B /\ c * BlockSize <= L
      /\ \A i \in 1 .. B : block_hash[Held(r)[i]] =
            IF i <= c THEN Prefix(r, i * BlockSize) ELSE NoHash
  <2>1. /\ num_cached_block[r] \in 0 .. Len(req_to_blocks[r])
        /\ num_cached_block[r] * BlockSize <= Len(tokens[r])
        /\ \A i \in 1 .. Len(req_to_blocks[r]) : block_hash[req_to_blocks[r][i]] =
              IF i <= num_cached_block[r] THEN Prefix(r, i * BlockSize) ELSE NoHash
    BY <1>1 DEF HashInv
  <2> QED
    BY <1>2, <2>1
<1>4. tokens[r] \in Seq(Tokens) /\ L \in Nat /\ B \in Nat
  BY <1>1, <1>2, DomainOfSeq DEF RequestInv
<1>5. BlockSize \in Nat /\ BlockSize > 0
  BY BlockSizeType
<1>6. k <= c
  <2> SUFFICES ASSUME ~(k <= c) PROVE FALSE
    OBVIOUS
  <2>1. Len(block_hash[Held(r)[k]]) = 0
    BY <1>3, EmptyFacts DEF NoHash
  <2>2. 0 > BlockSize
    BY <2>1
  <2> QED
    BY <1>5, <2>2, SMT
<1>7. block_hash[Held(r)[k]] = Prefix(r, k * BlockSize)
  BY <1>3, <1>6
<1> HIDE DEF c, L, B
<1>8. k \in 1 .. c /\ c \in Nat /\ k \in Int /\ k \in 1 .. B
  BY <1>3, <1>4, <1>6, SMT DEF B
<1>9. k \in Nat /\ k * BlockSize <= L
  BY <1>1, <1>2, <1>3, <1>8, HitHasHash DEF L
<1>10. Len(Prefix(r, k * BlockSize)) = k * BlockSize
  BY <1>1, <1>2, <1>9, PrefixFacts DEF L
<1>11. k * BlockSize > BlockSize /\ k * BlockSize \in Int
  BY <1>7, <1>8, <1>10, Multiples
<1>12. k # 1
  BY <1>5, <1>11, SMT
<1>13. k - 1 \in 1 .. B /\ k - 1 < k /\ k - 1 <= c
  BY <1>3, <1>4, <1>8, <1>12, SMT
<1>14. block_hash[Held(r)[k - 1]] = Prefix(r, (k - 1) * BlockSize)
  BY <1>3, <1>13
<1>15. (k - 1) * BlockSize = k * BlockSize - BlockSize
  BY <1>8, Multiples
<1>16. k * BlockSize \in 0 .. L /\ k * BlockSize - BlockSize \in 0 .. k * BlockSize
  BY <1>4, <1>5, <1>9, <1>11, SMT
<1>17. Parent(Prefix(r, k * BlockSize)) = Prefix(r, (k - 1) * BlockSize)
  BY <1>4, <1>10, <1>15, <1>16, FirstOfFirst DEF Parent, Prefix, L
<1> QED
  BY <1>7, <1>13, <1>14, <1>17 DEF B

\* Freeing puts the last block of a request into the queue first.
LEMMA FreeKeepsQueue ==
    ASSUME PoolInv, QueueInv, NEW r, Frees(r)
    PROVE  QueueInv'
<1> DEFINE u == Unused(r)
<1>1. PoolTypeInv /\ HolderInv /\ AccountInv /\ HashInv
  BY DEF PoolInv
<1>2. free' = free \o u /\ block_hash' = block_hash /\ cached' = cached
  BY <1>1, FreeParts DEF Frees, FreedRight
<1>3. /\ u \in Seq(Blocks) /\ Range(u) = {b \in Range(Held(r)) : b \in Blocks /\ ref_cnt[b] = 1}
      /\ \A i, j \in 1 .. Len(Held(r)) :
           i < j /\ Held(r)[i] \in Range(u) /\ Held(r)[j] \in Range(u)
              => Before(u, Held(r)[j], Held(r)[i])
  BY <1>1, UnusedFacts
<1>4. free \in Seq(Blocks)
  BY <1>1 DEF PoolTypeInv
<1> HIDE DEF u
<1>5. free \in Seq(Blocks) /\ u \in Seq(Blocks)
  BY <1>3, <1>4
<1>6. Range(free') = Range(free) \cup Range(u)
  BY <1>2, <1>5, RangeOfConcat
<1>7. /\ \A x, y : Before(free, x, y) => Before(free', x, y)
      /\ \A x, y : Before(u, x, y) => Before(free', x, y)
      /\ \A x \in Range(free), y \in Range(u) : Before(free', x, y)
  BY <1>2, <1>5, JoinedBefore
<1>8. ASSUME NEW b \in Range(free'), Len(block_hash[b]) > BlockSize
      PROVE  \E p \in Blocks : /\ block_hash[p] = Parent(block_hash[b])
                               /\ p \notin Range(free') \/ Before(free', b, p)
  <2>1. CASE b \in Range(free)
    <3>1. PICK p \in Blocks : /\ block_hash[p] = Parent(block_hash[b])
                              /\ p \notin Range(free) \/ Before(free, b, p)
      BY <1>8, <2>1 DEF QueueInv
    <3>2. p \notin Range(free') \/ Before(free', b, p)
      BY <1>6, <1>7, <2>1, <3>1
    <3> QED
      BY <3>1, <3>2
  <2>2. CASE b \in Range(u)
    <3>1. b \in Range(Held(r)) /\ Held(r) \in Seq(Blocks)
      BY <1>1, <1>3, <2>2, HeldFacts
    <3>2. DOMAIN Held(r) = 1 .. Len(Held(r))
      BY <3>1, DomainOfSeq
    <3>3. PICK k \in 1 .. Len(Held(r)) : Held(r)[k] = b
      BY <3>1, <3>2 DEF Range
    <3>4. r \in running
      BY <1>1, <3>1, HeldFacts, EmptyFacts
    <3>5. /\ k - 1 \in 1 .. Len(Held(r)) /\ k - 1 < k
          /\ block_hash[Held(r)[k - 1]] = Parent(block_hash[b])
      BY <1>8, <3>3, <3>4, ParentHeld
    <3> DEFINE p == Held(r)[k - 1]
    <3>6. p \in Blocks /\ p \in Range(Held(r))
      BY <3>1, <3>2, <3>5, MemberOfSeq DEF Range
    <3>7. p \notin Range(free)
      BY <1>1, <3>6, FreeNotHeld
    <3>8. p \in Range(u) => Before(u, b, p)
      BY <1>3, <2>2, <3>3, <3>5
    <3>9. p \notin Range(free') \/ Before(free', b, p)
      BY <1>6, <1>7, <3>7, <3>8
    <3> QED
      BY <3>5, <3>6, <3>9
  <2> QED
    BY <1>6, <1>8, <2>1, <2>2
<1> QED
  BY <1>2, <1>8 DEF QueueInv, Blocks, NoHash, Parent

\* Allocating evicts from the front of the queue, and caches at the end.
LEMMA AllocateKeepsQueue ==
    ASSUME PoolInv, QueueInv, NEW r, NEW hit, NEW n, Allocates(r, hit, n)
    PROVE  QueueInv'
<1> DEFINE g == Given(r, hit, n)
           N == Range(New(r, hit, n))
           F == Filled(r, hit, n)
<1>1. /\ Allocating(r, hit, n) /\ AllocateSlots(r, hit, n)
      /\ PoolTypeInv /\ HolderInv /\ AccountInv
  BY DEF Allocates, PoolInv
<1>2. /\ NewShape(r, hit, n) /\ GivenShape(r, hit, n) /\ RightHashes(r, hit, n)
      /\ HashedRight(r, hit, n) /\ CachedRight(r, hit, n) /\ Hashing(r, hit, n)
  BY <1>1, NewFacts, GivenFacts, RightHashesFacts, HashAfter, CachedAfter, HashesFacts
<1>3. free' = Rest(r, hit, n)
  BY <1>1, AllocateSlotsParts DEF Allocated
<1>4. /\ Range(free') = Range(free) \ (Range(hit) \cup N) /\ N \cap Range(hit) = {}
      /\ N \subseteq Range(free)
      /\ \A x, y \in Blocks \ Range(hit) : Before(free, x, y) /\ x \in Range(free')
           => Before(free', x, y)
  BY <1>2, <1>3 DEF NewShape
<1>5. /\ \A b \in Blocks : b \notin N /\ block_hash[b] # NoHash => block_hash'[b] = block_hash[b]
  BY <1>2 DEF RightHashes
<1>6. /\ \A k \in F : block_hash'[g[k]] = Prefix(r, k * BlockSize)
      /\ \A b \in Blocks : (\A k \in F : g[k] # b) =>
           block_hash'[b] = IF b \in N THEN NoHash ELSE block_hash[b]
  BY <1>2 DEF HashedRight
<1>7. /\ \A h \in DOMAIN cached : \A b \in Range(cached[h]) :
           b \notin N => h \in DOMAIN cached' /\ b \in Range(cached'[h])
      /\ \A k \in F : /\ Prefix(r, k * BlockSize) \in DOMAIN cached'
                      /\ g[k] \in Range(cached'[Prefix(r, k * BlockSize)])
  BY <1>2 DEF CachedRight
<1>8. g \in Seq(Blocks) /\ Range(g) = Range(Held(r)) \cup Range(hit) \cup N
  BY <1>2 DEF GivenShape
<1>9. \A k \in F : g[k] \in Range(g)
  <2>1. DOMAIN g = 1 .. Len(g)
    BY <1>8, DomainOfSeq
  <2>2. \A k \in F : k \in 1 .. Len(g)
    BY <1>2 DEF Hashing
  <2> QED
    BY <2>1, <2>2 DEF Range
<1> HIDE DEF g, N, F
<1>10. ASSUME NEW b \in Blocks, block_hash'[b] # NoHash
       PROVE  block_hash'[b] \in DOMAIN cached' /\ b \in Range(cached'[block_hash'[b]])
  <2>1. CASE \E k \in F : g[k] = b
    <3>1. PICK k \in F : g[k] = b
      BY <2>1
    <3>2. block_hash'[b] = Prefix(r, k * BlockSize)
      BY <1>6, <3>1
    <3> QED
      BY <1>7, <3>1, <3>2
  <2>2. CASE \A k \in F : g[k] # b
    <3>1. b \notin N /\ block_hash'[b] = block_hash[b]
      BY <1>6, <1>10, <2>2
    <3>2. block_hash[b] \in DOMAIN cached /\ b \in Range(cached[block_hash[b]])
      BY <1>10, <3>1 DEF QueueInv
    <3> QED
      BY <1>7, <3>1, <3>2
  <2> QED
    BY <2>1, <2>2
<1>11. ASSUME NEW b \in Range(free'), Len(block_hash'[b]) > BlockSize
       PROVE  \E p \in Blocks : /\ block_hash'[p] = Parent(block_hash'[b])
                                /\ p \notin Range(free') \/ Before(free', b, p)
  <2>1. b \in Range(free) /\ b \notin Range(hit) /\ b \notin N
    BY <1>4, <1>11
  <2>2. b \in Blocks /\ b \notin Range(Held(r))
    BY <1>1, <2>1, FreeNotHeld DEF AccountInv
  <2>3. \A k \in F : g[k] # b
    BY <1>8, <1>9, <2>1, <2>2
  <2>4. block_hash'[b] = block_hash[b]
    BY <1>6, <2>1, <2>2, <2>3
  <2>5. PICK p \in Blocks : /\ block_hash[p] = Parent(block_hash[b])
                            /\ p \notin Range(free) \/ Before(free, b, p)
    BY <1>11, <2>1, <2>4 DEF QueueInv
  <2>6. block_hash[p] # NoHash
    <3>1. block_hash[b] \in Seq(Tokens)
      BY <1>1, <2>2 DEF PoolTypeInv
    <3> QED
      BY <1>11, <2>4, <2>5, <3>1, ParentFacts
  <2>7. p \notin N /\ (p \notin Range(free') \/ Before(free', b, p))
    <3>1. CASE p \notin Range(free)
      BY <1>4, <3>1
    <3>2. CASE p \in Range(hit)
      BY <1>4, <3>2
    <3>3. CASE Before(free, b, p) /\ p \notin Range(hit)
      <4>1. b \in Blocks \ Range(hit) /\ p \in Blocks \ Range(hit)
        BY <2>1, <2>2, <3>3
      <4>2. Before(free', b, p)
        BY <1>4, <1>11, <3>3, <4>1
      <4>3. p \in Range(free')
        BY <4>2 DEF Before, Range
      <4> QED
        BY <1>4, <4>2, <4>3
    <3> QED
      BY <2>5, <3>1, <3>2, <3>3
  <2>8. block_hash'[p] = block_hash[p]
    BY <1>5, <2>6, <2>7
  <2> QED
    BY <2>4, <2>5, <2>7, <2>8
<1> QED
  BY <1>10, <1>11 DEF QueueInv, Blocks, NoHash, Parent

LEMMA QueueNext ==
    ASSUME PoolInv, QueueInv, [Next]_vars
    PROVE  QueueInv'
<1>1. PoolStep
  BY PoolNext
<1>2. ASSUME NEW r, NEW hit, NEW n, Allocates(r, hit, n) PROVE QueueInv'
  BY <1>2, AllocateKeepsQueue
<1>3. ASSUME NEW r, Frees(r) PROVE QueueInv'
  BY <1>3, FreeKeepsQueue
<1>4. ASSUME ResetPrefixCache PROVE QueueInv'
  <2>1. \A b \in Blocks : block_hash'[b] = NoHash
    BY <1>4 DEF ResetPrefixCache
  <2>2. Len(NoHash) = 0 /\ ~(0 > BlockSize)
    <3>1. ~(0 > BlockSize)
      BY BlockSizeType, SMT
    <3> QED
      BY <3>1, EmptyFacts DEF NoHash
  <2>3. Range(free') \subseteq Blocks
    BY <1>4, RangeInSet DEF ResetPrefixCache, PoolInv, PoolTypeInv
  <2>4. \A b \in Range(free') : ~(Len(block_hash'[b]) > BlockSize)
    BY <2>1, <2>2, <2>3
  <2> QED
    BY <2>1, <2>4 DEF QueueInv, Blocks, NoHash
<1>5. ASSUME UNCHANGED poolVars PROVE QueueInv'
  BY <1>5 DEF poolVars, QueueInv, Blocks, NoHash, Parent
<1> QED
  BY <1>1, <1>2, <1>3, <1>4, <1>5 DEF PoolStep

LEMMA QueueInit == Init => QueueInv
<1> SUFFICES ASSUME Init PROVE QueueInv
  OBVIOUS
<1>1. \A b \in Blocks : block_hash[b] = NoHash
  BY DEF Init
<1>2. Len(NoHash) = 0 /\ ~(0 > BlockSize)
  <2>1. ~(0 > BlockSize)
    BY BlockSizeType, SMT
  <2> QED
    BY <2>1, EmptyFacts DEF NoHash
<1>3. Range(free) \subseteq Blocks
  BY PoolInit, RangeInSet DEF PoolInv, PoolTypeInv
<1>4. \A b \in Range(free) : ~(Len(block_hash[b]) > BlockSize)
  BY <1>1, <1>2, <1>3
<1> QED
  BY <1>1, <1>4 DEF QueueInv

\* NoGapInTheCache: no eviction takes a block away and leaves one cached that
\* comes after it, so that find_longest_cache_hit may stop at the first miss.
THEOREM PoolLeavesNoGap == Spec => []NoGapInTheCache
<1>1. PoolInv /\ QueueInv => NoGapInTheCache
  <2> SUFFICES ASSUME PoolInv, QueueInv, NEW h \in DOMAIN cached, Len(h) > BlockSize
               PROVE  Parent(h) \in DOMAIN cached
    BY DEF NoGapInTheCache, Parent
  <2>1. PoolTypeInv /\ HolderInv /\ AccountInv /\ HashInv
    BY DEF PoolInv
  <2>2. cached[h] \in Seq(Blocks) /\ cached[h] # <<>>
    BY <2>1 DEF PoolTypeInv
  <2>3. PICK b : b \in Range(cached[h])
    BY <2>2, EmptyOrNot
  <2>4. b \in Blocks
    BY <2>2, <2>3, RangeInSet
  <2>5. block_hash[b] = h
    BY <2>1, <2>3 DEF HashInv
  <2>6. h \in Seq(Tokens)
    BY <2>1, <2>4, <2>5 DEF PoolTypeInv
  <2>7. Parent(h) # NoHash
    BY <2>6, ParentFacts
  <2>8. \E p \in Blocks : block_hash[p] = Parent(h)
    <3>1. CASE b \in Range(free)
      BY <2>5, <3>1 DEF QueueInv
    <3>2. CASE b \notin Range(free)
      <4>1. ref_cnt[b] # 0
        BY <2>1, <2>4, <3>2 DEF AccountInv
      <4>2. Holders(b) # {}
        BY <2>1, <2>4, <4>1, FS_EmptySet DEF AccountInv
      <4>3. PICK r : b \in Range(Held(r))
        BY <4>2 DEF Holders
      <4>4. r \in running /\ Held(r) \in Seq(Blocks)
        BY <2>1, <4>3, HeldFacts, EmptyFacts
      <4>5. DOMAIN Held(r) = 1 .. Len(Held(r))
        BY <4>4, DomainOfSeq
      <4>6. PICK k \in 1 .. Len(Held(r)) : Held(r)[k] = b
        BY <4>3, <4>5 DEF Range
      <4>7. k - 1 \in 1 .. Len(Held(r)) /\ block_hash[Held(r)[k - 1]] = Parent(h)
        BY <2>5, <4>4, <4>6, ParentHeld
      <4>8. Held(r)[k - 1] \in Blocks
        BY <4>4, <4>7, MemberOfSeq
      <4> QED
        BY <4>7, <4>8
    <3> QED
      BY <3>1, <3>2
  <2> QED
    BY <2>7, <2>8 DEF QueueInv
<1>2. Init => PoolInv /\ QueueInv
  BY PoolInit, QueueInit
<1>3. (PoolInv /\ QueueInv) /\ [Next]_vars => (PoolInv /\ QueueInv)'
  BY PoolNext, QueueNext
<1> QED
  BY <1>1, <1>2, <1>3, PTL DEF Spec

-----------------------------------------------------------------------------
(***************************************************************************)
(* The blocks contain what their hashes say.                               *)
(***************************************************************************)
\* The tokens of a request that are computed when the batch is.
Counted(r) == IF Scheduling THEN computed[r] + Get(batch, r, 0) ELSE computed[r]

\* The batch will compute block b, in full.
Pending(b) ==
    /\ Scheduling
    /\ \E r \in DOMAIN batch : \E k \in 1 .. num_cached_block[r] :
          req_to_blocks[r][k] = b /\ computed[r] < k * BlockSize

CountInv ==
    \A r \in running :
        /\ Counted(r) <= Len(tokens[r]) /\ Counted(r) <= Len(req_to_blocks[r]) * BlockSize
        /\ num_cached_block[r] * BlockSize <= Counted(r)
        /\ Counted(r) < (num_cached_block[r] + 1) * BlockSize

\* At most one request is to compute a block.
WriterInv ==
    \A r, q \in running : r # q =>
        \A k \in 1 .. Len(req_to_blocks[r]), j \in 1 .. Len(req_to_blocks[q]) :
            req_to_blocks[r][k] = req_to_blocks[q][j] =>
                k * BlockSize <= computed[r] \/ j * BlockSize <= computed[q]

ContentInv ==
    /\ \A h \in DOMAIN cached : \A b \in Range(cached[h]) : content[b] = h \/ Pending(b)
    /\ \A r \in running : \A k \in 1 .. Len(req_to_blocks[r]) :
          (k - 1) * BlockSize < computed[r] =>
             \/ content[req_to_blocks[r][k]] = Prefix(r, Min({k * BlockSize, computed[r]}))
             \/ Pending(req_to_blocks[r][k]) /\ k <= num_cached_block[r]

ComputedInv == CountInv /\ WriterInv /\ ContentInv

\* A step after which the requests that run have the blocks and the counts they
\* had, and what was to be computed still is.
LEMMA ComputedKept ==
    ASSUME PoolInv, ComputedInv, running' \subseteq running, content' = content,
           \A q \in running' : /\ req_to_blocks'[q] = req_to_blocks[q]
                               /\ num_cached_block'[q] = num_cached_block[q]
                               /\ computed'[q] = computed[q] /\ Counted(q)' = Counted(q)
                               /\ Grown(tokens[q], tokens'[q]),
           \A h \in DOMAIN cached' : h \in DOMAIN cached /\ cached'[h] = cached[h],
           \A b : Pending(b) => Pending(b)'
    PROVE  ComputedInv'
<1>1. RequestInv /\ CountInv /\ WriterInv /\ ContentInv
  BY DEF PoolInv, ComputedInv
<1>2. CountInv'
  <2> SUFFICES ASSUME NEW q \in running'
               PROVE  /\ Counted(q)' <= Len(tokens'[q])
                      /\ Counted(q)' <= Len(req_to_blocks'[q]) * BlockSize
                      /\ num_cached_block'[q] * BlockSize <= Counted(q)'
                      /\ Counted(q)' < (num_cached_block'[q] + 1) * BlockSize
    BY DEF CountInv
  <2>1. /\ Counted(q) <= Len(tokens[q]) /\ Counted(q) <= Len(req_to_blocks[q]) * BlockSize
        /\ num_cached_block[q] * BlockSize <= Counted(q)
        /\ Counted(q) < (num_cached_block[q] + 1) * BlockSize
    BY <1>1 DEF CountInv
  <2>2. Counted(q) <= Len(tokens'[q])
    <3>1. Len(tokens[q]) \in Nat /\ Len(tokens'[q]) \in Nat /\ Len(tokens[q]) <= Len(tokens'[q])
      BY DEF Grown
    <3>2. Counted(q) \in Int
      <4>1. q \in Live /\ computed[q] \in 0 .. Len(tokens[q])
        BY <1>1 DEF RequestInv
      <4>2. Get(batch, q, 0) \in Nat
        BY <1>1 DEF RequestInv, Get
      <4>3. computed[q] \in Int /\ computed[q] + Get(batch, q, 0) \in Int
        BY <4>1, <4>2, <3>1, SMT
      <4> QED
        BY <4>3 DEF Counted
    <3> QED
      BY <2>1, <3>1, <3>2, SMT
  <2> QED
    BY <2>1, <2>2
<1>3. WriterInv'
  <2> SUFFICES ASSUME NEW p \in running', NEW q \in running', p # q,
                      NEW k \in 1 .. Len(req_to_blocks'[p]), NEW j \in 1 .. Len(req_to_blocks'[q]),
                      req_to_blocks'[p][k] = req_to_blocks'[q][j]
               PROVE  k * BlockSize <= computed'[p] \/ j * BlockSize <= computed'[q]
    BY DEF WriterInv
  <2>1. /\ req_to_blocks'[p] = req_to_blocks[p] /\ req_to_blocks'[q] = req_to_blocks[q]
        /\ computed'[p] = computed[p] /\ computed'[q] = computed[q]
        /\ p \in running /\ q \in running
    OBVIOUS
  <2> QED
    BY <1>1, <2>1 DEF WriterInv
<1>4. ASSUME NEW h \in DOMAIN cached', NEW b \in Range(cached'[h])
      PROVE  content'[b] = h \/ Pending(b)'
  <2>1. h \in DOMAIN cached /\ b \in Range(cached[h])
    BY <1>4
  <2>2. content[b] = h \/ Pending(b)
    BY <1>1, <2>1 DEF ContentInv
  <2> QED
    BY <2>2
<1>5. ASSUME NEW q \in running', NEW k \in 1 .. Len(req_to_blocks'[q]),
             (k - 1) * BlockSize < computed'[q]
      PROVE  \/ content'[req_to_blocks'[q][k]] = Prefix(q, Min({k * BlockSize, computed[q]}))'
             \/ Pending(req_to_blocks[q][k])' /\ k <= num_cached_block'[q]
  <2> DEFINE m == Min({k * BlockSize, computed[q]})
  <2>0. PICK b : b = req_to_blocks[q][k]
    OBVIOUS
  <2>1. /\ q \in running /\ k \in 1 .. Len(req_to_blocks[q]) /\ (k - 1) * BlockSize < computed[q]
        /\ req_to_blocks'[q][k] = b /\ num_cached_block'[q] = num_cached_block[q]
        /\ Grown(tokens[q], tokens'[q])
    BY <1>5, <2>0
  <2>2. content[b] = Prefix(q, m) \/ (Pending(b) /\ k <= num_cached_block[q])
    BY <1>1, <2>0, <2>1 DEF ContentInv
  <2>3. q \in Live /\ computed[q] \in 0 .. Len(tokens[q]) /\ Len(tokens[q]) \in Nat
    BY <1>1, <2>1 DEF RequestInv, Grown
  <2>4. k \in Nat /\ k \in Int /\ computed[q] \in Int
    BY <2>1, <2>3, SMT
  <2>5. k * BlockSize \in Nat /\ k * BlockSize \in Int
    BY <2>4, BlockSizeType, SMT
  <2>6. m = IF k * BlockSize <= computed[q] THEN k * BlockSize ELSE computed[q]
    BY <2>4, <2>5, MinOfTwo
  <2>7. m \in 0 .. Len(tokens[q])
    BY <2>3, <2>5, <2>6, SMT
  <2> HIDE DEF m
  <2>8. SubSeq(tokens'[q], 1, m) = SubSeq(tokens[q], 1, m)
    BY <1>1, <2>1, <2>3, <2>7, GrownPrefix DEF Prefix
  <2>9. Prefix(q, Min({k * BlockSize, computed[q]}))' = SubSeq(tokens'[q], 1, m)
    <3>1. Min({k * BlockSize, computed'[q]}) = m
      BY <1>5 DEF m
    <3> QED
      BY <3>1 DEF Prefix
  <2>10. Pending(b) => Pending(req_to_blocks[q][k])'
    <3>1. Pending(b) => Pending(b)'
      OBVIOUS
    <3>2. req_to_blocks'[q][k] = b
      BY <2>1
    <3> QED
      BY <3>1, <3>2 DEF Pending
  <2>11. content'[req_to_blocks'[q][k]] = content[b]
    BY <2>1
  <2> QED
    BY <2>1, <2>2, <2>8, <2>9, <2>10, <2>11 DEF Prefix
<1>6. ContentInv'
  BY <1>4, <1>5 DEF ContentInv
<1> QED
  BY <1>2, <1>3, <1>6 DEF ComputedInv

\* A request leaves that the batch does not compute.
LEMMA FreesComputed ==
    ASSUME PoolInv, ComputedInv, NEW r, Frees(r), Scheduling' = Scheduling,
           Scheduling => /\ r \notin DOMAIN batch /\ DOMAIN batch' = DOMAIN batch
                         /\ \A q \in DOMAIN batch : batch'[q] = batch[q],
           \A q \in running \ {r} : computed'[q] = computed[q]
    PROVE  ComputedInv'
<1>1. /\ RequestInv /\ HolderInv /\ running \subseteq DOMAIN req_to_blocks
      /\ running = DOMAIN num_cached_block /\ DOMAIN batch \subseteq running
  BY DEF PoolInv, RequestInv, HolderInv
<1>2. running' = running \ {r} /\ content' = content /\ FreedRight(r)
  BY <1>1, FreeParts DEF Frees
<1>3. /\ cached' = cached
      /\ \A q \in running \ {r} : /\ req_to_blocks'[q] = req_to_blocks[q]
                                  /\ num_cached_block'[q] = num_cached_block[q]
  BY <1>1, <1>2 DEF FreedRight
<1>4. \A q \in running \ {r} : tokens[q] \in Seq(Tokens) /\ tokens'[q] = tokens[q]
  BY <1>1 DEF Frees, RequestInv
<1>5. ASSUME NEW q \in running \ {r} PROVE Counted(q)' = Counted(q)
  <2>1. CASE Scheduling
    <3>1. Get(batch, q, 0)' = Get(batch, q, 0)
      BY <2>1 DEF Get
    <3> QED
      BY <2>1, <3>1 DEF Counted
  <2>2. CASE ~Scheduling
    BY <2>2 DEF Counted
  <2> QED
    BY <2>1, <2>2
<1>6. ASSUME NEW b, Pending(b) PROVE Pending(b)'
  <2>1. PICK q \in DOMAIN batch : \E k \in 1 .. num_cached_block[q] :
           req_to_blocks[q][k] = b /\ computed[q] < k * BlockSize
    BY <1>6 DEF Pending
  <2>2. Scheduling /\ q \in DOMAIN batch' /\ q \in running \ {r}
    BY <1>1, <1>6, <2>1 DEF Pending
  <2>3. \E k \in 1 .. num_cached_block'[q] :
           req_to_blocks'[q][k] = b /\ computed'[q] < k * BlockSize
    BY <1>3, <2>1, <2>2
  <2> QED
    BY <2>2, <2>3 DEF Pending
<1>7. \A q \in running' : /\ req_to_blocks'[q] = req_to_blocks[q]
                          /\ num_cached_block'[q] = num_cached_block[q]
                          /\ computed'[q] = computed[q] /\ Counted(q)' = Counted(q)
                          /\ Grown(tokens[q], tokens'[q])
  BY <1>2, <1>3, <1>4, <1>5, SameIsGrown
<1>8. running' \subseteq running
  BY <1>2
<1> QED
  BY <1>2, <1>3, <1>6, <1>7, <1>8, ComputedKept

\* A step that no running request notices.
LEMMA QuietComputed ==
    ASSUME PoolInv, ComputedInv, UNCHANGED <<num_cached_block, running, content, batch>>,
           Scheduling' = Scheduling \/ DOMAIN batch = {},
           \A q \in running : /\ req_to_blocks'[q] = req_to_blocks[q]
                              /\ tokens'[q] = tokens[q] /\ computed'[q] = computed[q],
           \A h \in DOMAIN cached' : h \in DOMAIN cached /\ cached'[h] = cached[h]
    PROVE  ComputedInv'
<1>1. /\ RequestInv /\ DOMAIN batch \subseteq running
      /\ \A q \in running : /\ tokens[q] \in Seq(Tokens) /\ computed[q] \in 0 .. Len(tokens[q])
                            /\ Len(tokens[q]) \in 1 .. MaxLen - 1
  BY DEF PoolInv, RequestInv
<1>2. ASSUME NEW q \in running PROVE Counted(q)' = Counted(q)
  <2>1. CASE Scheduling' = Scheduling
    <3>1. Get(batch, q, 0)' = Get(batch, q, 0)
      BY DEF Get
    <3> QED
      BY <2>1, <3>1 DEF Counted
  <2>2. CASE DOMAIN batch = {}
    <3>1. Get(batch, q, 0) = 0 /\ Get(batch, q, 0)' = 0
      BY <2>2 DEF Get
    <3>2. computed[q] + 0 = computed[q]
      <4>1. computed[q] \in 0 .. Len(tokens[q])
        BY <1>1
      <4> QED
        BY <4>1, SMT
    <3> QED
      BY <3>1, <3>2 DEF Counted
  <2> QED
    BY <2>1, <2>2
<1>3. ASSUME NEW b, Pending(b) PROVE Pending(b)'
  <2>1. PICK q \in DOMAIN batch : \E k \in 1 .. num_cached_block[q] :
           req_to_blocks[q][k] = b /\ computed[q] < k * BlockSize
    BY <1>3 DEF Pending
  <2>2. Scheduling' /\ q \in DOMAIN batch' /\ q \in running
    BY <1>1, <1>3, <2>1 DEF Pending
  <2>3. \E k \in 1 .. num_cached_block'[q] :
           req_to_blocks'[q][k] = b /\ computed'[q] < k * BlockSize
    BY <2>1, <2>2
  <2> QED
    BY <2>2, <2>3 DEF Pending
<1>4. \A q \in running' : /\ req_to_blocks'[q] = req_to_blocks[q]
                          /\ num_cached_block'[q] = num_cached_block[q]
                          /\ computed'[q] = computed[q] /\ Counted(q)' = Counted(q)
                          /\ Grown(tokens[q], tokens'[q])
  BY <1>1, <1>2, SameIsGrown
<1>5. running' \subseteq running
  OBVIOUS
<1> QED
  BY <1>3, <1>4, <1>5, ComputedKept

LEMMA UpdateComputed ==
    ASSUME PoolInv, ComputedInv, NEW stopped \in SUBSET DOMAIN batch,
           NEW new \in [Sampled \ stopped -> Tokens], UpdateFromOutput(new, stopped)
    PROVE  ComputedInv'
<1>1. RequestInv /\ running \subseteq Live
  BY DEF PoolInv, RequestInv
<1>2. \A q \in Live : Grown(tokens[q], tokens'[q])
  BY <1>1, UpdateRequests
<1>3. UNCHANGED <<req_to_blocks, num_cached_block, cached, computed, running, content>>
  BY DEF UpdateFromOutput, poolVars, managerVars
<1>4. ~Scheduling /\ ~Scheduling'
  BY DEF UpdateFromOutput, Scheduling
<1>5. \A q \in running' : /\ req_to_blocks'[q] = req_to_blocks[q]
                          /\ num_cached_block'[q] = num_cached_block[q]
                          /\ computed'[q] = computed[q] /\ Counted(q)' = Counted(q)
                          /\ Grown(tokens[q], tokens'[q])
  BY <1>1, <1>2, <1>3, <1>4 DEF Counted
<1>6. \A b : Pending(b) => Pending(b)'
  BY <1>4 DEF Pending
<1>7. running' \subseteq running /\ \A h \in DOMAIN cached' : h \in DOMAIN cached /\ cached'[h] = cached[h]
  BY <1>3
<1> QED
  BY <1>3, <1>5, <1>6, <1>7, ComputedKept

\* Where a request stands when blocks are allocated for it, and what its blocks
\* contain: w tokens are computed, c blocks are full.
Standing(r, hit, w, c) ==
    /\ w \in Nat /\ c \in Nat
    /\ c * BlockSize <= w /\ w < c * BlockSize + BlockSize
    /\ w <= Len(Own(r, hit)) * BlockSize
    /\ \A k \in 1 .. Len(Own(r, hit)) : (k - 1) * BlockSize < w =>
          \/ content[Own(r, hit)[k]] = Prefix(r, Min({k * BlockSize, w}))
          \/ Pending(Own(r, hit)[k]) /\ k <= c

LEMMA StandingRunning ==
    ASSUME PoolInv, ComputedInv, NEW r \in running, NEW n, Allocating(r, <<>>, n), Scheduling,
           r \notin DOMAIN batch
    PROVE  Standing(r, <<>>, ComputedWith(r, <<>>), NumCached(r, <<>>))
<1>1. RequestInv /\ HolderInv /\ HashInv /\ CountInv /\ ContentInv
  BY DEF PoolInv, ComputedInv
<1>2. /\ r \in Live /\ computed[r] \in 0 .. Len(tokens[r]) /\ Len(tokens[r]) \in 1 .. MaxLen - 1
      /\ Held(r) = req_to_blocks[r] /\ Held(r) \in Seq(Blocks)
  BY <1>1, HeldFacts DEF RequestInv
<1>3. computed[r] \in Nat /\ Len(Held(r)) \in Nat
  BY <1>2, DomainOfSeq, SMT
<1>4. NumCached(r, <<>>) = num_cached_block[r] /\ num_cached_block[r] \in 0 .. Len(Held(r))
  BY <1>1, <1>2 DEF NumCached, Get, HolderInv, HashInv
<1>5. num_cached_block[r] \in Nat
  BY <1>3, <1>4, SMT
<1>6. ComputedWith(r, <<>>) = computed[r] + 0 * BlockSize /\ Counted(r) = computed[r] + 0
  BY EmptyFacts DEF ComputedWith, Counted, Get
<1>7. computed[r] + 0 * BlockSize = computed[r] /\ computed[r] + 0 = computed[r]
  BY <1>3, BlockSizeType, SMT
<1>8. /\ computed[r] <= Len(Held(r)) * BlockSize
      /\ num_cached_block[r] * BlockSize <= computed[r]
      /\ computed[r] < (num_cached_block[r] + 1) * BlockSize
  BY <1>1, <1>2, <1>6, <1>7 DEF CountInv
<1>9. (num_cached_block[r] + 1) * BlockSize = num_cached_block[r] * BlockSize + BlockSize
  <2>1. num_cached_block[r] \in Int
    BY <1>5, SMT
  <2> QED
    BY <2>1, Multiples
<1>10. Own(r, <<>>) = Held(r)
  BY <1>2, ConcatNone DEF Own
<1>11. \A k \in 1 .. Len(Held(r)) : (k - 1) * BlockSize < computed[r] =>
          \/ content[Held(r)[k]] = Prefix(r, Min({k * BlockSize, computed[r]}))
          \/ Pending(Held(r)[k]) /\ k <= num_cached_block[r]
  BY <1>1, <1>2 DEF ContentInv
<1> QED
  BY <1>3, <1>4, <1>5, <1>6, <1>7, <1>8, <1>9, <1>10, <1>11 DEF Standing

LEMMA StandingWaiting ==
    ASSUME PoolInv, QueueInv, ComputedInv, NEW r, r \notin running, NEW hit, NEW n,
           Allocating(r, hit, n)
    PROVE  Standing(r, hit, ComputedWith(r, hit), NumCached(r, hit))
<1> DEFINE c == Len(hit)
           m == Len(hit) * BlockSize
<1>1. RequestInv /\ HolderInv /\ PoolTypeInv /\ HashInv /\ ContentInv
  BY DEF PoolInv, ComputedInv
<1>2. /\ r \in Live /\ hit \in Seq(Blocks) /\ m <= Len(tokens[r])
      /\ \A k \in 1 .. c : block_hash[hit[k]] = Prefix(r, k * BlockSize)
  BY DEF Allocating
<1>3. computed[r] = 0 /\ Held(r) = <<>> /\ NumCached(r, hit) = c
  BY <1>1, <1>2, HeldFacts DEF RequestInv, NumCached, Get, HolderInv
<1>4. c \in Nat /\ c \in Int
  <2>1. c \in Nat
    BY <1>2, DomainOfSeq
  <2> QED
    BY <2>1, SMT
<1>5. m \in Nat /\ 0 + m = m /\ m <= m /\ m < m + BlockSize
  BY <1>4, BlockSizeType, SMT
<1>6. ComputedWith(r, hit) = m
  BY <1>3, <1>5 DEF ComputedWith
<1>7. Own(r, hit) = hit
  BY <1>2, <1>3, ConcatNone DEF Own
<1>8. ASSUME NEW k \in 1 .. c
      PROVE  \/ content[hit[k]] = Prefix(r, Min({k * BlockSize, m}))
             \/ Pending(hit[k]) /\ k <= c
  <2>1. Prefix(r, k * BlockSize) # NoHash /\ block_hash[hit[k]] = Prefix(r, k * BlockSize)
    BY <1>1, <1>2, <1>4, HitHasHash
  <2>2. hit[k] \in Blocks
    BY <1>2, MemberOfSeq
  <2>3. /\ Prefix(r, k * BlockSize) \in DOMAIN cached
        /\ hit[k] \in Range(cached[Prefix(r, k * BlockSize)])
    BY <2>1, <2>2 DEF QueueInv
  <2>4. content[hit[k]] = Prefix(r, k * BlockSize) \/ Pending(hit[k])
    BY <1>1, <2>3 DEF ContentInv
  <2> HIDE DEF c
  <2>5. k <= c /\ k \in Int
    BY <1>4, SMT
  <2>6. k * BlockSize <= c * BlockSize /\ k * BlockSize \in Int /\ c * BlockSize \in Int
    BY <1>4, <2>5, Multiples
  <2>7. Min({k * BlockSize, c * BlockSize}) = k * BlockSize
    BY <2>6, MinOfTwo
  <2> QED
    BY <2>4, <2>5, <2>7 DEF c
<1> QED
  BY <1>3, <1>4, <1>5, <1>6, <1>7, <1>8 DEF Standing

LEMMA StandingFacts ==
    ASSUME PoolInv, QueueInv, ComputedInv, NEW r, NEW hit, NEW n, Allocating(r, hit, n),
           Scheduling, r \notin DOMAIN batch
    PROVE  Standing(r, hit, ComputedWith(r, hit), NumCached(r, hit))
<1>1. CASE r \in running
  <2>1. hit = <<>>
    BY <1>1 DEF Allocating
  <2> QED
    BY <1>1, <2>1, StandingRunning
<1>2. CASE r \notin running
  BY <1>2, StandingWaiting
<1> QED
  BY <1>1, <1>2

\* allocate_slots caches the blocks that the batch fills, before it fills them.
LEMMA AllocateComputed ==
    ASSUME PoolInv, QueueInv, ComputedInv, NEW r, NEW hit, NEW n, Allocates(r, hit, n),
           Scheduling, r \notin DOMAIN batch
    PROVE  ComputedInv'
<1> DEFINE w == ComputedWith(r, hit)
           g == Given(r, hit, n)
           o == Own(r, hit)
           c == NumCached(r, hit)
           f == NumFull(r, hit, n)
           F == Filled(r, hit, n)
<1>1. /\ Allocating(r, hit, n) /\ AllocateSlots(r, hit, n)
      /\ RequestInv /\ HolderInv /\ CountInv /\ WriterInv /\ ContentInv
      /\ running' = running \cup {r} /\ tokens' = tokens /\ phase' = phase /\ content' = content
  BY DEF Allocates, PoolInv, ComputedInv
<1>2. /\ GivenShape(r, hit, n) /\ FullShape(r, hit, n) /\ RightHashes(r, hit, n)
      /\ CachedRight(r, hit, n) /\ HeldRight(r, hit, n) /\ Hashing(r, hit, n)
      /\ Standing(r, hit, w, c)
  BY <1>1, GivenFacts, FullFacts, RightHashesFacts, CachedAfter, HeldAfter, HashesFacts,
     StandingFacts
<1>3. /\ n \in Nat /\ w + n <= Len(tokens[r]) /\ r \in Live /\ Len(tokens[r]) \in Nat
  BY <1>1, WantedFacts DEF Allocating
<1>4. /\ w \in Nat /\ c \in Nat /\ c * BlockSize <= w /\ w < c * BlockSize + BlockSize
      /\ w <= Len(o) * BlockSize
      /\ \A k \in 1 .. Len(o) : (k - 1) * BlockSize < w =>
            content[o[k]] = Prefix(r, Min({k * BlockSize, w})) \/ (Pending(o[k]) /\ k <= c)
  BY <1>2 DEF Standing
<1>5. /\ f \in Nat /\ c <= f /\ Len(g) \in Nat
      /\ f = c \/ f * BlockSize <= w + n
      /\ w + n < (f + 1) * BlockSize /\ w + n <= Len(g) * BlockSize
  BY <1>2 DEF FullShape
<1>6. /\ req_to_blocks'[r] = g /\ num_cached_block'[r] = f
      /\ \A q \in running : q # r => /\ req_to_blocks'[q] = req_to_blocks[q]
                                     /\ num_cached_block'[q] = num_cached_block[q]
  BY <1>1, <1>2 DEF HeldRight, HolderInv
<1>7. /\ computed'[r] = w /\ batch'[r] = n /\ DOMAIN batch' = DOMAIN batch \cup {r}
      /\ \A q \in DOMAIN batch : batch'[q] = batch[q]
      /\ \A q \in running : q # r => computed'[q] = computed[q]
  <2>0. Allocated(r, hit, n)
    BY <1>1, AllocateSlotsParts
  <2>1. computed' = [computed EXCEPT ![r] = w] /\ batch' = Update(batch, [q \in {r} |-> n])
    BY <2>0 DEF Allocated
  <2>2. DOMAIN computed = Live /\ running \subseteq Live
    BY <1>1 DEF RequestInv
  <2> QED
    BY <1>3, <2>1, <2>2 DEF Update
<1>8. Scheduling' /\ \A q, m : Prefix(q, m)' = Prefix(q, m)
  BY <1>1 DEF Scheduling, Prefix
<1>9. Counted(r)' = w + n /\ \A q \in running : q # r => Counted(q)' = Counted(q)
  BY <1>7, <1>8 DEF Counted, Get
<1>10. \A k \in F : /\ k \in Nat /\ k > c /\ k <= f /\ k \in 1 .. Len(g)
  BY <1>2 DEF Hashing
<1>11. o \in Seq(Blocks) /\ Len(o) \in Nat
  <2>1. OwnShape(r, hit)
    BY <1>1, OwnFacts
  <2> QED
    BY <2>1, DomainOfSeq DEF OwnShape
<1>12. \A k \in 1 .. Len(o) : g[k] = o[k]
  BY <1>2 DEF GivenShape
<1>13. \A k \in 1 .. Len(g) : k > c => \A q \in running \ {r} : g[k] \notin Range(Held(q))
  BY <1>2 DEF RightHashes
<1>14. /\ \A h \in DOMAIN cached' : \A b \in Range(cached'[h]) :
            \/ h \in DOMAIN cached /\ b \in Range(cached[h])
            \/ \E k \in F : h = Prefix(r, k * BlockSize) /\ b = g[k]
  BY <1>2 DEF CachedRight
<1> HIDE DEF w, g, o, c, f, F
<1>15. ASSUME NEW b, Pending(b) PROVE Pending(b)'
  <2>1. PICK q \in DOMAIN batch : \E k \in 1 .. num_cached_block[q] :
           req_to_blocks[q][k] = b /\ computed[q] < k * BlockSize
    BY <1>15 DEF Pending
  <2>2. q \in DOMAIN batch' /\ q \in running /\ q # r
    BY <1>1, <1>7, <2>1 DEF RequestInv
  <2>3. \E k \in 1 .. num_cached_block'[q] :
           req_to_blocks'[q][k] = b /\ computed'[q] < k * BlockSize
    BY <1>6, <1>7, <2>1, <2>2
  <2> QED
    BY <1>8, <2>2, <2>3 DEF Pending
<1>16. f * BlockSize <= w + n
  <2>1. w \in Int /\ c * BlockSize \in Int /\ f * BlockSize \in Int
    <3>1. c \in Int /\ f \in Int
      BY <1>4, <1>5, SMT
    <3>2. w \in Int
      BY <1>4, SMT
    <3> QED
      BY <3>1, <3>2, Multiples
  <2>2. c * BlockSize <= w + n
    BY <1>3, <1>4, <2>1, SMT
  <2> QED
    BY <1>5, <2>2
<1>17. CountInv'
  <2> SUFFICES ASSUME NEW q \in running'
               PROVE  /\ Counted(q)' <= Len(tokens'[q])
                      /\ Counted(q)' <= Len(req_to_blocks'[q]) * BlockSize
                      /\ num_cached_block'[q] * BlockSize <= Counted(q)'
                      /\ Counted(q)' < (num_cached_block'[q] + 1) * BlockSize
    BY DEF CountInv
  <2>1. CASE q = r
    BY <1>1, <1>3, <1>5, <1>6, <1>9, <1>16, <2>1
  <2>2. CASE q # r
    <3>1. q \in running
      BY <1>1, <2>2
    <3>2. /\ Counted(q) <= Len(tokens[q]) /\ Counted(q) <= Len(req_to_blocks[q]) * BlockSize
          /\ num_cached_block[q] * BlockSize <= Counted(q)
          /\ Counted(q) < (num_cached_block[q] + 1) * BlockSize
      BY <1>1, <3>1 DEF CountInv
    <3> QED
      BY <1>1, <1>6, <1>9, <2>2, <3>1, <3>2
  <2> QED
    BY <2>1, <2>2
<1>18. ASSUME NEW q \in running, q # r, NEW k \in 1 .. Len(g), NEW j \in 1 .. Len(req_to_blocks[q]),
              g[k] = req_to_blocks[q][j]
       PROVE  k * BlockSize <= w
  <2>1. Held(q) = req_to_blocks[q] /\ Held(q) \in Seq(Blocks)
    BY <1>1, HeldFacts
  <2>2. g[k] \in Range(Held(q))
    BY <1>18, <2>1, DomainOfSeq DEF Range
  <2>3. ~(k > c) /\ q \in running \ {r}
    BY <1>13, <1>18, <2>2
  <2>4. k \in Int /\ c \in Int /\ k <= c
    BY <1>4, <1>5, <2>3, SMT
  <2>5. k * BlockSize <= c * BlockSize /\ k * BlockSize \in Int /\ c * BlockSize \in Int
    BY <2>4, Multiples
  <2> QED
    BY <1>4, <2>5, SMT
<1>19. WriterInv'
  <2> SUFFICES ASSUME NEW p \in running', NEW q \in running', p # q,
                      NEW k \in 1 .. Len(req_to_blocks'[p]), NEW j \in 1 .. Len(req_to_blocks'[q]),
                      req_to_blocks'[p][k] = req_to_blocks'[q][j]
               PROVE  k * BlockSize <= computed'[p] \/ j * BlockSize <= computed'[q]
    BY DEF WriterInv
  <2>1. CASE p = r
    <3>1. q \in running /\ q # r /\ req_to_blocks'[q] = req_to_blocks[q]
      BY <1>1, <1>6, <2>1
    <3>2. k \in 1 .. Len(g) /\ j \in 1 .. Len(req_to_blocks[q]) /\ g[k] = req_to_blocks[q][j]
      BY <1>6, <2>1, <3>1
    <3> QED
      BY <1>7, <1>18, <2>1, <3>1, <3>2
  <2>2. CASE q = r
    <3>1. p \in running /\ p # r /\ req_to_blocks'[p] = req_to_blocks[p]
      BY <1>1, <1>6, <2>2
    <3>2. j \in 1 .. Len(g) /\ k \in 1 .. Len(req_to_blocks[p]) /\ g[j] = req_to_blocks[p][k]
      BY <1>6, <2>2, <3>1
    <3> QED
      BY <1>7, <1>18, <2>2, <3>1, <3>2
  <2>3. CASE p # r /\ q # r
    <3>1. /\ p \in running /\ q \in running
          /\ req_to_blocks'[p] = req_to_blocks[p] /\ req_to_blocks'[q] = req_to_blocks[q]
          /\ computed'[p] = computed[p] /\ computed'[q] = computed[q]
      BY <1>1, <1>6, <1>7, <2>3
    <3> QED
      BY <1>1, <3>1 DEF WriterInv
  <2> QED
    BY <2>1, <2>2, <2>3
<1>20. ASSUME NEW h \in DOMAIN cached', NEW b \in Range(cached'[h])
       PROVE  content'[b] = h \/ Pending(b)'
  <2>1. CASE h \in DOMAIN cached /\ b \in Range(cached[h])
    <3>1. content[b] = h \/ Pending(b)
      BY <1>1, <2>1 DEF ContentInv
    <3> QED
      BY <1>1, <1>15, <3>1
  <2>2. CASE \E k \in F : h = Prefix(r, k * BlockSize) /\ b = g[k]
    <3>1. PICK k \in F : b = g[k]
      BY <2>2
    <3>2. k \in Nat /\ k > c /\ k <= f /\ k \in 1 .. f /\ k \in Int /\ c \in Int
      <4>1. k \in Nat /\ k > c /\ k <= f
        BY <1>10
      <4> QED
        BY <1>4, <1>5, <4>1, SMT
    <3>3. c < k
      BY <3>2, SMT
    <3>4. c * BlockSize + BlockSize <= k * BlockSize /\ k * BlockSize \in Int
          /\ c * BlockSize \in Int
      BY <3>2, <3>3, Multiples
    <3>5. w < k * BlockSize
      BY <1>4, <3>4, BlockSizeType, SMT
    <3>6. /\ r \in DOMAIN batch' /\ k \in 1 .. num_cached_block'[r]
          /\ req_to_blocks'[r][k] = b /\ computed'[r] < k * BlockSize
      BY <1>6, <1>7, <3>1, <3>2, <3>5
    <3> QED
      BY <1>8, <3>6 DEF Pending
  <2> QED
    BY <1>14, <1>20, <2>1, <2>2
<1>21. ASSUME NEW q \in running', NEW k \in 1 .. Len(req_to_blocks'[q]),
              (k - 1) * BlockSize < computed'[q]
       PROVE  \/ content'[req_to_blocks'[q][k]] = Prefix(q, Min({k * BlockSize, computed[q]}))'
              \/ Pending(req_to_blocks[q][k])' /\ k <= num_cached_block'[q]
  <2>0. PICK b : b = req_to_blocks'[q][k]
    OBVIOUS
  <2>1. Prefix(q, Min({k * BlockSize, computed[q]}))' = Prefix(q, Min({k * BlockSize, computed'[q]}))
    BY <1>1 DEF Prefix
  <2>2. \/ content[b] = Prefix(q, Min({k * BlockSize, computed'[q]}))
        \/ Pending(b) /\ k <= num_cached_block'[q]
    <3>1. CASE q = r
      <4>1. k \in 1 .. Len(g) /\ (k - 1) * BlockSize < w /\ b = g[k]
        BY <1>6, <1>7, <1>21, <2>0, <3>1
      <4>2. k \in 1 .. Len(o)
        <5>1. k \in Int /\ k - 1 \in Int /\ Len(o) \in Int /\ k >= 1
          BY <1>5, <1>11, <4>1, SMT
        <5>2. /\ Len(o) <= k - 1 => Len(o) * BlockSize <= (k - 1) * BlockSize
              /\ Len(o) * BlockSize \in Int /\ (k - 1) * BlockSize \in Int
          BY <5>1, Multiples
        <5>3. ~(Len(o) <= k - 1)
          BY <1>4, <4>1, <5>2, SMT
        <5> QED
          BY <5>1, <5>3, SMT
      <4>3. b = o[k]
        BY <1>12, <4>1, <4>2
      <4>4. content[o[k]] = Prefix(r, Min({k * BlockSize, w})) \/ (Pending(o[k]) /\ k <= c)
        BY <1>4, <4>1, <4>2
      <4>5. k <= c => k <= f
        BY <1>4, <1>5, <4>2, <1>11, SMT
      <4> QED
        BY <1>6, <1>7, <3>1, <4>3, <4>4, <4>5
    <3>2. CASE q # r
      <4>1. /\ q \in running /\ req_to_blocks'[q] = req_to_blocks[q]
            /\ num_cached_block'[q] = num_cached_block[q] /\ computed'[q] = computed[q]
        BY <1>1, <1>6, <1>7, <3>2
      <4>2. /\ k \in 1 .. Len(req_to_blocks[q]) /\ (k - 1) * BlockSize < computed[q]
            /\ b = req_to_blocks[q][k]
        BY <1>21, <2>0, <4>1
      <4> QED
        BY <1>1, <4>1, <4>2 DEF ContentInv
    <3> QED
      BY <3>1, <3>2
  <2>3. Pending(b) => Pending(req_to_blocks[q][k])'
    <3>1. Pending(b) => Pending(b)'
      BY <1>15
    <3> QED
      BY <2>0, <3>1 DEF Pending
  <2> QED
    BY <1>1, <2>0, <2>1, <2>2, <2>3
<1>22. ContentInv'
  BY <1>20, <1>21 DEF ContentInv
<1> QED
  BY <1>17, <1>19, <1>22 DEF ComputedInv


\* The values that the batch computes into a block.
Written(b) == UNION {Writes(r, b) : r \in DOMAIN batch}

\* The batch computes part of the j-th block of r.
Computes(r, j) ==
    /\ r \in DOMAIN batch /\ j \in 1 .. Len(Held(r))
    /\ computed[r] < j * BlockSize /\ (j - 1) * BlockSize < Counted(r)

LEMMA CountedFacts ==
    ASSUME RequestInv, Scheduling, NEW r \in running
    PROVE  /\ computed[r] \in Nat /\ Counted(r) \in Nat /\ computed[r] <= Counted(r)
           /\ Counted(r) = computed[r] + Get(batch, r, 0)
           /\ r \in DOMAIN batch => Counted(r) = computed[r] + batch[r]
           /\ r \notin DOMAIN batch => Counted(r) = computed[r]
<1>1. computed[r] \in 0 .. Len(tokens[r]) /\ Len(tokens[r]) \in 1 .. MaxLen - 1
  BY DEF RequestInv
<1>2. computed[r] \in Nat
  BY <1>1, SMT
<1>3. Counted(r) = computed[r] + Get(batch, r, 0)
  BY DEF Counted
<1>4. CASE r \in DOMAIN batch
  <2>1. Get(batch, r, 0) = batch[r] /\ batch[r] \in Nat
    BY <1>4 DEF Get, RequestInv
  <2>2. computed[r] + batch[r] \in Nat /\ computed[r] <= computed[r] + batch[r]
    BY <1>2, <2>1, SMT
  <2> QED
    BY <1>2, <1>3, <1>4, <2>1, <2>2
<1>5. CASE r \notin DOMAIN batch
  <2>1. Get(batch, r, 0) = 0
    BY <1>5 DEF Get
  <2>2. computed[r] + 0 = computed[r] /\ computed[r] <= computed[r]
    BY <1>2, SMT
  <2> QED
    BY <1>2, <1>3, <1>5, <2>1, <2>2
<1> QED
  BY <1>4, <1>5

LEMMA WritesFacts ==
    ASSUME PoolInv, Scheduling, NEW r \in DOMAIN batch, NEW b, NEW v
    PROVE  v \in Writes(r, b) <=>
             \E j \in 1 .. Len(Held(r)) :
                /\ Computes(r, j) /\ Held(r)[j] = b
                /\ v = Prefix(r, Min({j * BlockSize, Counted(r)}))
<1>1. RequestInv /\ HolderInv /\ r \in running
  BY DEF PoolInv, RequestInv
<1>2. Counted(r) = computed[r] + batch[r] /\ computed[r] \in Nat
  BY <1>1, CountedFacts
<1>3. Held(r) \in Seq(Blocks)
  BY <1>1, HeldFacts
<1>4. DOMAIN Held(r) = 1 .. Len(Held(r)) /\ Len(Held(r)) \in Nat
  BY <1>3, DomainOfSeq
<1>5. \A j \in 1 .. Len(Held(r)) : j * BlockSize > computed[r] <=> computed[r] < j * BlockSize
  BY <1>2, <1>4, BlockSizeType, SMT
<1>6. \A j \in 1 .. Len(Held(r)) : Computes(r, j) <=>
         j * BlockSize > computed[r] /\ (j - 1) * BlockSize < computed[r] + batch[r]
  BY <1>2, <1>5 DEF Computes
<1>7. v \in Writes(r, b) <=>
         \E j \in 1 .. Len(Held(r)) :
            /\ Held(r)[j] = b
            /\ j * BlockSize > computed[r] /\ (j - 1) * BlockSize < computed[r] + batch[r]
            /\ v = Prefix(r, Min({j * BlockSize, computed[r] + batch[r]}))
  BY <1>4 DEF Writes
<1> QED
  BY <1>2, <1>6, <1>7

\* Nobody else computes a block that a request computes.
LEMMA WrittenOnce ==
    ASSUME PoolInv, ComputedInv, Scheduling, NEW r, NEW j, Computes(r, j)
    PROVE  Written(Held(r)[j]) = {Prefix(r, Min({j * BlockSize, Counted(r)}))}
<1> DEFINE b == Held(r)[j]
           x == Prefix(r, Min({j * BlockSize, Counted(r)}))
<1>1. /\ RequestInv /\ HolderInv /\ WriterInv /\ r \in DOMAIN batch /\ r \in running
      /\ j \in 1 .. Len(Held(r)) /\ computed[r] < j * BlockSize
  BY DEF PoolInv, ComputedInv, RequestInv, Computes
<1>2. Held(r) = req_to_blocks[r] /\ Held(r) \in Seq(Blocks) /\ IsInjective(Held(r))
  BY <1>1, HeldFacts
<1>3. x \in Written(b)
  <2>1. x \in Writes(r, b)
    BY <1>1, WritesFacts
  <2> QED
    BY <1>1, <2>1 DEF Written
<1>4. ASSUME NEW v \in Written(b) PROVE v = x
  <2>1. PICK q \in DOMAIN batch : v \in Writes(q, b)
    BY DEF Written
  <2>2. PICK i \in 1 .. Len(Held(q)) :
           /\ Computes(q, i) /\ Held(q)[i] = b
           /\ v = Prefix(q, Min({i * BlockSize, Counted(q)}))
    BY <2>1, WritesFacts
  <2>3. /\ q \in running /\ Held(q) = req_to_blocks[q] /\ Held(q) \in Seq(Blocks)
        /\ computed[q] < i * BlockSize
    BY <1>1, <2>2, HeldFacts DEF RequestInv, Computes
  <2>4. q = r
    <3>1. /\ computed[r] \in Nat /\ computed[q] \in Nat /\ i \in Nat /\ j \in Nat
      <4>1. Len(Held(q)) \in Nat /\ Len(Held(r)) \in Nat
        BY <1>2, <2>3, DomainOfSeq
      <4>2. i \in Nat /\ j \in Nat
        BY <1>1, <4>1, SMT
      <4> QED
        BY <1>1, <2>3, <4>2, CountedFacts
    <3>2. ~(j * BlockSize <= computed[r]) /\ ~(i * BlockSize <= computed[q])
      BY <1>1, <2>3, <3>1, BlockSizeType, SMT
    <3>3. req_to_blocks[r][j] = req_to_blocks[q][i]
      BY <1>2, <2>2, <2>3
    <3>4. j \in 1 .. Len(req_to_blocks[r]) /\ i \in 1 .. Len(req_to_blocks[q])
      BY <1>1, <1>2, <2>3
    <3> QED
      BY <1>1, <2>3, <3>2, <3>3, <3>4 DEF WriterInv
  <2>5. i = j
    <3>1. i \in DOMAIN Held(r) /\ j \in DOMAIN Held(r) /\ Held(r)[i] = Held(r)[j]
      BY <1>1, <1>2, <2>2, <2>4, DomainOfSeq
    <3> QED
      BY <1>2, <3>1 DEF IsInjective
  <2> QED
    BY <2>2, <2>4, <2>5
<1> QED
  BY <1>3, <1>4

\* What execute_model leaves in a block.
LEMMA ExecutedContent ==
    ASSUME PoolInv, ComputedInv, ExecuteModel, NEW b \in Blocks
    PROVE  \/ \E r, j : /\ Computes(r, j) /\ Held(r)[j] = b
                        /\ content'[b] = Prefix(r, Min({j * BlockSize, Counted(r)}))
           \/ /\ \A r, j : Computes(r, j) => Held(r)[j] # b
              /\ ref_cnt[b] # 0 \/ block_hash[b] # NoHash => content'[b] = content[b]
<1>1. Scheduling
  BY DEF ExecuteModel, Scheduling
<1>2. content'[b] = IF Written(b) = {}
                    THEN IF ref_cnt[b] = 0 /\ block_hash[b] = NoHash THEN <<>> ELSE content[b]
                    ELSE IF Cardinality(Written(b)) = 1 THEN CHOOSE w \in Written(b) : TRUE ELSE <<>>
  BY DEF ExecuteModel, Written
<1>3. CASE Written(b) = {}
  <2>1. ASSUME NEW r, NEW j, Computes(r, j), Held(r)[j] = b PROVE FALSE
    <3>1. Written(b) = {Prefix(r, Min({j * BlockSize, Counted(r)}))}
      BY <1>1, <2>1, WrittenOnce
    <3> QED
      BY <1>3, <3>1
  <2>2. ref_cnt[b] # 0 \/ block_hash[b] # NoHash => content'[b] = content[b]
    BY <1>2, <1>3
  <2> QED
    BY <2>1, <2>2
<1>4. CASE Written(b) # {}
  <2>1. PICK r \in DOMAIN batch : \E v : v \in Writes(r, b)
    BY <1>4 DEF Written
  <2>2. PICK j \in 1 .. Len(Held(r)) : Computes(r, j) /\ Held(r)[j] = b
    BY <1>1, <2>1, WritesFacts
  <2> DEFINE x == Prefix(r, Min({j * BlockSize, Counted(r)}))
  <2>3. Written(b) = {x}
    BY <1>1, <2>2, WrittenOnce
  <2> HIDE DEF x
  <2>4. Cardinality(Written(b)) = 1
    BY <2>3, FS_Singleton
  <2>5. content'[b] = CHOOSE w \in Written(b) : TRUE
    BY <1>2, <1>4, <2>4
  <2>6. (CHOOSE w \in {x} : TRUE) = x
    OBVIOUS
  <2>7. content'[b] = x
    BY <2>3, <2>5, <2>6
  <2> QED
    BY <2>2, <2>7 DEF x
<1> QED
  BY <1>3, <1>4

\* The blocks of a request that are cached are full once the batch is computed.
FullBlock(r, k) ==
    /\ block_hash[Held(r)[k]] = Prefix(r, k * BlockSize) /\ Prefix(r, k * BlockSize) # NoHash
    /\ Min({k * BlockSize, Counted(r)}) = k * BlockSize /\ (k - 1) * BlockSize < Counted(r)

\* The others have no hash and no second holder.
OwnBlock(r, k) ==
    /\ block_hash[Held(r)[k]] = NoHash /\ Counted(r) < k * BlockSize
    /\ \A q \in running : q # r => Held(r)[k] \notin Range(Held(q))

LEMMA BlockKinds ==
    ASSUME PoolInv, CountInv, Scheduling, NEW r \in running, NEW k \in 1 .. Len(Held(r))
    PROVE  /\ k <= num_cached_block[r] => FullBlock(r, k)
           /\ ~(k <= num_cached_block[r]) => OwnBlock(r, k)
<1> DEFINE m == num_cached_block[r]
<1>1. RequestInv /\ HolderInv /\ HashInv /\ r \in Live
  BY DEF PoolInv, RequestInv
<1>2. Held(r) = req_to_blocks[r] /\ Held(r) \in Seq(Blocks)
  BY <1>1, HeldFacts
<1>3. /\ m \in 0 .. Len(req_to_blocks[r]) /\ m * BlockSize <= Len(tokens[r])
      /\ \A i \in 1 .. Len(req_to_blocks[r]) : block_hash[req_to_blocks[r][i]] =
            IF i <= m THEN Prefix(r, i * BlockSize) ELSE NoHash
  BY <1>1 DEF HashInv
<1>4. m * BlockSize <= Counted(r) /\ Counted(r) < (m + 1) * BlockSize
  BY DEF CountInv
<1>5. Counted(r) \in Nat
  BY <1>1, CountedFacts
<1> HIDE DEF m
<1>6. Len(Held(r)) \in Nat /\ m \in 0 .. Len(Held(r))
  BY <1>2, <1>3, DomainOfSeq
<1>7. m \in Nat /\ m \in Int /\ k \in Int /\ k >= 1 /\ Counted(r) \in Int
  BY <1>5, <1>6, SMT
<1>8. /\ k <= m => k * BlockSize <= m * BlockSize
      /\ m < k => m * BlockSize + BlockSize <= k * BlockSize
      /\ (m + 1) * BlockSize = m * BlockSize + BlockSize
      /\ (k - 1) * BlockSize = k * BlockSize - BlockSize
      /\ k * BlockSize \in Int /\ m * BlockSize \in Int
  <2>1. k \in Int /\ m \in Int
    BY <1>7
  <2> QED
    BY <2>1, Multiples
<1>9. ASSUME k <= m PROVE FullBlock(r, k)
  <2>1. k * BlockSize <= Counted(r) /\ (k - 1) * BlockSize < Counted(r)
    BY <1>4, <1>7, <1>8, <1>9, BlockSizeType, SMT
  <2>2. Min({k * BlockSize, Counted(r)}) = k * BlockSize
    BY <1>7, <1>8, <2>1, MinOfTwo
  <2>3. k \in 1 .. m
    BY <1>7, <1>9, SMT
  <2>4. Prefix(r, k * BlockSize) # NoHash
    BY <1>1, <1>3, <1>7, <2>3, HitHasHash
  <2>5. block_hash[Held(r)[k]] = Prefix(r, k * BlockSize)
    BY <1>2, <1>3, <1>9
  <2> QED
    BY <2>1, <2>2, <2>4, <2>5 DEF FullBlock
<1>10. ASSUME ~(k <= m) PROVE OwnBlock(r, k)
  <2>1. m < k /\ k \in m + 1 .. Len(Held(r))
    BY <1>6, <1>7, <1>10, SMT
  <2>2. Counted(r) < k * BlockSize
    BY <1>4, <1>7, <1>8, <2>1, BlockSizeType, SMT
  <2>3. block_hash[Held(r)[k]] = NoHash
    BY <1>2, <1>3, <1>10
  <2>4. ASSUME NEW q \in running, q # r PROVE Held(r)[k] \notin Range(Held(q))
    <3>1. Held(q) = req_to_blocks[q]
      BY <1>1, HeldFacts
    <3>2. \A i \in m + 1 .. Len(req_to_blocks[r]) : req_to_blocks[r][i] \notin Range(req_to_blocks[q])
      BY <1>1, <2>4 DEF HashInv, m
    <3> QED
      BY <1>2, <2>1, <3>1, <3>2
  <2> QED
    BY <2>2, <2>3, <2>4 DEF OwnBlock
<1> QED
  BY <1>9, <1>10 DEF m

\* The batch computes the cached blocks that were waiting for it, and nothing
\* over the contents of another block that can be found.
LEMMA ExecuteComputed ==
    ASSUME PoolInv, QueueInv, ComputedInv, ExecuteModel
    PROVE  ComputedInv'
<1>1. /\ RequestInv /\ PoolTypeInv /\ HolderInv /\ AccountInv /\ HashInv
      /\ CountInv /\ WriterInv /\ ContentInv
      /\ running \subseteq Live /\ DOMAIN batch \subseteq running
  BY DEF PoolInv, ComputedInv, RequestInv
<1>2. /\ computed' = [r \in Live |-> computed[r] + Get(batch, r, 0)]
      /\ UNCHANGED <<poolVars, managerVars, tokens, running, batch>>
  BY DEF ExecuteModel
<1>3. UNCHANGED <<free, ref_cnt, block_hash, cached, req_to_blocks, num_cached_block>>
  BY <1>2 DEF poolVars, managerVars
<1>4. Scheduling /\ ~Scheduling'
  BY DEF ExecuteModel, Scheduling
<1>5. ASSUME NEW q \in running
      PROVE  /\ computed'[q] = Counted(q) /\ Counted(q)' = Counted(q)
             /\ computed[q] \in Nat /\ Counted(q) \in Nat /\ computed[q] <= Counted(q)
  <2>1. computed'[q] = computed[q] + Get(batch, q, 0)
    BY <1>1, <1>2
  <2>2. /\ Counted(q) = computed[q] + Get(batch, q, 0) /\ computed[q] \in Nat
        /\ Counted(q) \in Nat /\ computed[q] <= Counted(q)
    BY <1>1, <1>4, CountedFacts
  <2>3. Counted(q)' = computed'[q]
    BY <1>4 DEF Counted
  <2> QED
    BY <2>1, <2>2, <2>3
<1>6. \A q, m : Prefix(q, m)' = Prefix(q, m)
  BY <1>2 DEF Prefix
<1>7. \A q \in running : Held(q) = req_to_blocks[q] /\ Held(q) \in Seq(Blocks)
  BY <1>1, HeldFacts
<1>8. CountInv'
  <2> SUFFICES ASSUME NEW q \in running
               PROVE  /\ Counted(q)' <= Len(tokens[q])
                      /\ Counted(q)' <= Len(req_to_blocks[q]) * BlockSize
                      /\ num_cached_block[q] * BlockSize <= Counted(q)'
                      /\ Counted(q)' < (num_cached_block[q] + 1) * BlockSize
    BY <1>2, <1>3 DEF CountInv
  <2>1. /\ Counted(q) <= Len(tokens[q]) /\ Counted(q) <= Len(req_to_blocks[q]) * BlockSize
        /\ num_cached_block[q] * BlockSize <= Counted(q)
        /\ Counted(q) < (num_cached_block[q] + 1) * BlockSize
    BY <1>1 DEF CountInv
  <2> QED
    BY <1>5, <2>1
<1>9. ASSUME NEW q \in running, NEW k \in 1 .. Len(req_to_blocks[q]),
             k * BlockSize <= computed[q]
      PROVE  k * BlockSize <= computed'[q]
  <2>1. Len(req_to_blocks[q]) \in Nat
    BY <1>7, DomainOfSeq
  <2>2. k \in Int
    BY <2>1, SMT
  <2>3. k * BlockSize \in Int
    BY <2>2, Multiples
  <2>4. computed[q] \in Nat /\ Counted(q) \in Nat /\ computed[q] <= Counted(q)
    BY <1>5
  <2>5. k * BlockSize <= Counted(q)
    BY <1>9, <2>3, <2>4, SMT
  <2> QED
    BY <1>5, <2>5
<1>10. WriterInv'
  <2> SUFFICES ASSUME NEW p \in running', NEW q \in running', p # q,
                      NEW k \in 1 .. Len(req_to_blocks'[p]), NEW j \in 1 .. Len(req_to_blocks'[q]),
                      req_to_blocks'[p][k] = req_to_blocks'[q][j]
               PROVE  k * BlockSize <= computed'[p] \/ j * BlockSize <= computed'[q]
    BY DEF WriterInv
  <2>1. /\ p \in running /\ q \in running
        /\ k \in 1 .. Len(req_to_blocks[p]) /\ j \in 1 .. Len(req_to_blocks[q])
        /\ req_to_blocks[p][k] = req_to_blocks[q][j]
    BY <1>2, <1>3
  <2>2. k * BlockSize <= computed[p] \/ j * BlockSize <= computed[q]
    BY <1>1, <2>1 DEF WriterInv
  <2> QED
    BY <1>9, <2>1, <2>2
<1>11. ASSUME NEW h \in DOMAIN cached, NEW b \in Range(cached[h])
       PROVE  content'[b] = h
  <2>1. h # NoHash /\ block_hash[b] = h
    BY <1>1 DEF HashInv
  <2>2. b \in Blocks
    <3>1. cached[h] \in Seq(Blocks)
      BY <1>1 DEF PoolTypeInv
    <3> QED
      BY <3>1, RangeInSet
  <2>3. CASE \E r, j : /\ Computes(r, j) /\ Held(r)[j] = b
                       /\ content'[b] = Prefix(r, Min({j * BlockSize, Counted(r)}))
    <3>1. PICK r, j : /\ Computes(r, j) /\ Held(r)[j] = b
                      /\ content'[b] = Prefix(r, Min({j * BlockSize, Counted(r)}))
      BY <2>3
    <3>2. r \in running /\ j \in 1 .. Len(Held(r))
      BY <1>1, <3>1 DEF Computes
    <3>3. ~OwnBlock(r, j)
      BY <2>1, <3>1 DEF OwnBlock
    <3>4. FullBlock(r, j)
      BY <1>1, <1>4, <3>2, <3>3, BlockKinds
    <3> QED
      BY <2>1, <3>1, <3>4 DEF FullBlock
  <2>4. CASE /\ \A r, j : Computes(r, j) => Held(r)[j] # b
             /\ ref_cnt[b] # 0 \/ block_hash[b] # NoHash => content'[b] = content[b]
    <3>1. content[b] = h \/ Pending(b)
      BY <1>1 DEF ContentInv
    <3>2. ASSUME Pending(b) PROVE FALSE
      <4>1. PICK r \in DOMAIN batch : \E k \in 1 .. num_cached_block[r] :
               req_to_blocks[r][k] = b /\ computed[r] < k * BlockSize
        BY <3>2 DEF Pending
      <4>2. PICK k \in 1 .. num_cached_block[r] :
               req_to_blocks[r][k] = b /\ computed[r] < k * BlockSize
        BY <4>1
      <4>3. r \in running /\ num_cached_block[r] \in 0 .. Len(req_to_blocks[r])
        BY <1>1 DEF HashInv
      <4>4. Held(r) = req_to_blocks[r] /\ Len(Held(r)) \in Nat
        BY <1>7, <4>3, DomainOfSeq
      <4>5. k \in 1 .. Len(Held(r)) /\ k <= num_cached_block[r]
        BY <4>3, <4>4, SMT
      <4>6. FullBlock(r, k)
        BY <1>1, <1>4, <4>3, <4>5, BlockKinds
      <4>7. Computes(r, k)
        BY <4>2, <4>5, <4>6 DEF FullBlock, Computes
      <4> QED
        BY <2>4, <4>2, <4>4, <4>7
    <3> QED
      BY <2>1, <2>4, <3>1, <3>2
  <2> QED
    BY <2>2, <2>3, <2>4, ExecutedContent
<1>12. ASSUME NEW q \in running, NEW k \in 1 .. Len(Held(q)), (k - 1) * BlockSize < Counted(q)
       PROVE  content'[Held(q)[k]] = Prefix(q, Min({k * BlockSize, Counted(q)}))
  <2> DEFINE b == Held(q)[k]
  <2>1. b \in Blocks
    BY <1>7, MemberOfSeq
  <2>2. CASE k <= num_cached_block[q]
    <3>1. FullBlock(q, k)
      BY <1>1, <1>4, <2>2, BlockKinds
    <3>2. block_hash[b] \in DOMAIN cached /\ b \in Range(cached[block_hash[b]])
      BY <2>1, <3>1 DEF FullBlock, QueueInv
    <3>3. content'[b] = block_hash[b]
      BY <1>11, <3>2
    <3> QED
      BY <3>1, <3>3 DEF FullBlock
  <2>3. CASE ~(k <= num_cached_block[q])
    <3>1. OwnBlock(q, k)
      BY <1>1, <1>4, <2>3, BlockKinds
    <3>2. ASSUME NEW r, NEW j, Computes(r, j), Held(r)[j] = b PROVE r = q /\ j = k
      <4>1. r \in running /\ j \in 1 .. Len(Held(r))
        BY <1>1, <3>2 DEF Computes
      <4>2. j \in DOMAIN Held(r) /\ k \in DOMAIN Held(q)
        BY <1>7, <4>1, DomainOfSeq
      <4>3. b \in Range(Held(r))
        BY <3>2, <4>2 DEF Range
      <4>4. r = q
        BY <3>1, <4>1, <4>3 DEF OwnBlock
      <4>5. IsInjective(Held(q))
        BY <1>1, HeldFacts
      <4> QED
        BY <3>2, <4>2, <4>4, <4>5 DEF IsInjective
    <3>3. CASE q \in DOMAIN batch
      <4>1. computed[q] < k * BlockSize
        <5>1. computed[q] \in Nat /\ Counted(q) \in Nat /\ computed[q] <= Counted(q)
          BY <1>5
        <5>2. Counted(q) < k * BlockSize
          BY <3>1 DEF OwnBlock
        <5>3. Len(Held(q)) \in Nat
          BY <1>7, DomainOfSeq
        <5>4. k \in Int
          BY <5>3, SMT
        <5>5. k * BlockSize \in Int
          BY <5>4, Multiples
        <5> QED
          BY <5>1, <5>2, <5>5, SMT
      <4>2. Computes(q, k)
        BY <1>12, <3>3, <4>1 DEF Computes
      <4>3. PICK r, j : /\ Computes(r, j) /\ Held(r)[j] = b
                        /\ content'[b] = Prefix(r, Min({j * BlockSize, Counted(r)}))
        BY <2>1, <4>2, ExecutedContent
      <4> QED
        BY <3>2, <4>3
    <3>4. CASE q \notin DOMAIN batch
      <4>1. \A r, j : Computes(r, j) => Held(r)[j] # b
        BY <3>2, <3>4 DEF Computes
      <4>2. ref_cnt[b] # 0
        <5>1. b \in Range(Held(q))
          BY <1>7, DomainOfSeq DEF Range
        <5>2. b \notin Range(free)
          BY <1>1, <5>1, FreeNotHeld
        <5> QED
          BY <1>1, <2>1, <5>2 DEF AccountInv
      <4>3. content'[b] = content[b]
        BY <2>1, <4>1, <4>2, ExecutedContent
      <4>4. computed[q] = Counted(q)
        BY <1>1, <1>4, <3>4, CountedFacts
      <4>5. content[b] = Prefix(q, Min({k * BlockSize, Counted(q)}))
        <5>1. \A i \in 1 .. Len(req_to_blocks[q]) : (i - 1) * BlockSize < computed[q] =>
                 \/ content[req_to_blocks[q][i]] = Prefix(q, Min({i * BlockSize, computed[q]}))
                 \/ i <= num_cached_block[q]
          BY <1>1 DEF ContentInv
        <5> QED
          BY <1>7, <1>12, <2>3, <4>4, <5>1
      <4> QED
        BY <4>3, <4>5
    <3> QED
      BY <3>3, <3>4
  <2> QED
    BY <2>2, <2>3
<1>13. ContentInv'
  <2>1. \A h \in DOMAIN cached' : \A b \in Range(cached'[h]) : content'[b] = h \/ Pending(b)'
    BY <1>3, <1>11
  <2>2. ASSUME NEW q \in running', NEW k \in 1 .. Len(req_to_blocks'[q]),
               (k - 1) * BlockSize < computed'[q]
        PROVE  content'[req_to_blocks'[q][k]] = Prefix(q, Min({k * BlockSize, computed[q]}))'
    <3>1. /\ q \in running /\ req_to_blocks'[q] = Held(q) /\ k \in 1 .. Len(Held(q))
          /\ computed'[q] = Counted(q) /\ (k - 1) * BlockSize < Counted(q)
      BY <1>2, <1>3, <1>5, <1>7, <2>2
    <3>2. content'[Held(q)[k]] = Prefix(q, Min({k * BlockSize, Counted(q)}))
      BY <1>12, <3>1
    <3>3. Prefix(q, Min({k * BlockSize, computed[q]}))' = Prefix(q, Min({k * BlockSize, computed'[q]}))
      BY <1>2 DEF Prefix
    <3> QED
      BY <3>1, <3>2, <3>3
  <2> QED
    BY <2>1, <2>2 DEF ContentInv
<1> QED
  BY <1>8, <1>10, <1>13 DEF ComputedInv

LEMMA ComputedInit == Init => ComputedInv
BY DEF Init, ComputedInv, CountInv, WriterInv, ContentInv, EmptyDict

\* A new request does not run yet.
LEMMA AddComputed ==
    ASSUME PoolInv, ComputedInv, NEW r, NEW prompt, AddRequest(r, prompt)
    PROVE  ComputedInv'
<1>1. running \subseteq Live
  BY DEF PoolInv, RequestInv
<1>2. /\ UNCHANGED <<cached, req_to_blocks, num_cached_block, running, content, batch, phase>>
      /\ r \notin Live /\ tokens' = Update(tokens, [q \in {r} |-> prompt])
      /\ computed' = Update(computed, [q \in {r} |-> 0])
  BY DEF AddRequest, poolVars, managerVars, loopVars
<1>3. \A q \in running : q # r /\ q \in DOMAIN tokens /\ q \in DOMAIN computed
  BY <1>1, <1>2 DEF Live, PoolInv, RequestInv
<1>4. \A q \in running : tokens'[q] = tokens[q] /\ computed'[q] = computed[q]
  BY <1>2, <1>3 DEF Update
<1>5. Scheduling' = Scheduling
  BY <1>2 DEF Scheduling
<1> QED
  BY <1>2, <1>4, <1>5, QuietComputed

\* abort_requests and _free_request come when no batch is being made.
LEMMA LeaveComputed ==
    ASSUME PoolInv, ComputedInv, NEW r, AbortRequest(r) \/ FreeStopped(r)
    PROVE  ComputedInv'
<1>1. Frees(r)
  <2>1. CASE AbortRequest(r)
    BY <2>1, AbortKeepsInv
  <2>2. CASE FreeStopped(r)
    BY <2>2, StoppedKeepsInv
  <2> QED
    BY <2>1, <2>2
<1>2. ~Scheduling /\ ~Scheduling'
  BY DEF AbortRequest, FreeStopped, Scheduling, loopVars
<1>3. computed' = Drop(computed, {r})
  BY DEF AbortRequest, FreeStopped, Forget
<1>4. \A q \in running \ {r} : computed'[q] = computed[q]
  BY <1>3 DEF Drop, PoolInv, RequestInv
<1>5. Scheduling' = Scheduling
  BY <1>2, SMT DEF Scheduling
<1> QED
  BY <1>1, <1>2, <1>4, <1>5, FreesComputed

\* The request that loses its blocks has no place in the batch.
LEMMA TakeComputed ==
    ASSUME PoolInv, ComputedInv, Policy # "priority", NEW victim \in running, NEW r, NEW n,
           TakeBlocksFrom(victim, r, n)
    PROVE  ComputedInv'
<1>1. Frees(victim)
  BY TakeKeepsInv
<1>2. /\ phase = "running" /\ phase' \in {"running", "waiting"}
      /\ batch' = Drop(batch, {victim}) /\ victim \in Unscheduled
  BY DEF TakeBlocksFrom, Victims
<1>3. Scheduling /\ Scheduling'
  BY <1>2 DEF Scheduling
<1>4. /\ victim \notin DOMAIN batch /\ DOMAIN batch' = DOMAIN batch
      /\ \A q \in DOMAIN batch : batch'[q] = batch[q]
  BY <1>2 DEF Unscheduled, Drop
<1>5. \A q \in running \ {victim} : computed'[q] = computed[q]
  <2>1. DOMAIN computed = Live /\ running \subseteq Live
    BY DEF PoolInv, RequestInv
  <2>2. CASE Policy = "gambit"
    <3>1. computed' = Drop(computed, {victim})
      BY <2>2 DEF TakeBlocksFrom, Forget
    <3> QED
      BY <2>1, <3>1 DEF Drop
  <2>3. CASE Policy # "gambit"
    <3>1. computed' = [computed EXCEPT ![victim] = 0]
      BY <2>3 DEF TakeBlocksFrom
    <3> QED
      BY <2>1, <3>1
  <2> QED
    BY <2>2, <2>3
<1> QED
  BY <1>1, <1>3, <1>4, <1>5, FreesComputed

\* One more phase of schedule() or of step(), or nothing at all.
LEMMA PhaseComputed ==
    ASSUME PoolInv, ComputedInv, UNCHANGED <<poolVars, managerVars, requestVars, batch, content>>,
           Scheduling' = Scheduling \/ DOMAIN batch = {}
    PROVE  ComputedInv'
<1>1. UNCHANGED <<cached, req_to_blocks, num_cached_block, tokens, computed, running>>
  BY DEF poolVars, managerVars, requestVars
<1>2. /\ \A q \in running : /\ req_to_blocks'[q] = req_to_blocks[q]
                            /\ tokens'[q] = tokens[q] /\ computed'[q] = computed[q]
      /\ \A h \in DOMAIN cached' : h \in DOMAIN cached /\ cached'[h] = cached[h]
  BY <1>1
<1> QED
  BY <1>1, <1>2, QuietComputed

LEMMA FailureComputed ==
    ASSUME PoolInv, ComputedInv, NEW r \in Waiting, NEW n, AdmissionFails(r, n)
    PROVE  ComputedInv'
<1>1. /\ UNCHANGED <<cached, num_cached_block, tokens, computed, running, batch, content>>
      /\ req_to_blocks' = Update(req_to_blocks, [q \in {r} |-> Held(r)])
      /\ phase = "waiting" /\ phase' = "scheduled"
  BY DEF AdmissionFails, poolVars, requestVars
<1>2. Scheduling' = Scheduling
  BY <1>1, SMT DEF Scheduling
<1>3. \A q \in running : q # r /\ q \in DOMAIN req_to_blocks
  BY DEF Waiting, PoolInv, HolderInv
<1>4. \A q \in running : req_to_blocks'[q] = req_to_blocks[q]
  BY <1>1, <1>3 DEF Update
<1>5. /\ \A q \in running : tokens'[q] = tokens[q] /\ computed'[q] = computed[q]
      /\ \A h \in DOMAIN cached' : h \in DOMAIN cached /\ cached'[h] = cached[h]
  BY <1>1
<1> QED
  BY <1>1, <1>2, <1>4, <1>5, QuietComputed

LEMMA ResetComputed ==
    ASSUME PoolInv, ComputedInv, ResetPrefixCache
    PROVE  ComputedInv'
<1>1. /\ UNCHANGED <<req_to_blocks, num_cached_block, tokens, computed, running, batch, content>>
      /\ phase' = phase /\ cached' = EmptyDict
  BY DEF ResetPrefixCache, managerVars, requestVars, loopVars
<1>2. Scheduling' = Scheduling
  BY <1>1 DEF Scheduling
<1>3. \A h \in DOMAIN cached' : h \in DOMAIN cached /\ cached'[h] = cached[h]
  BY <1>1 DEF EmptyDict
<1>4. \A q \in running : /\ req_to_blocks'[q] = req_to_blocks[q]
                         /\ tokens'[q] = tokens[q] /\ computed'[q] = computed[q]
  BY <1>1
<1> QED
  BY <1>1, <1>2, <1>3, <1>4, QuietComputed

LEMMA ComputedNext ==
    ASSUME PoolInv, QueueInv, ComputedInv, Policy # "priority", [Next]_vars
    PROVE  ComputedInv'
<1>0. RequestInv
  BY DEF PoolInv
<1>1. ASSUME NEW r \in Requests, NEW prompt \in Prompts, AddRoot(r, prompt) PROVE ComputedInv'
  BY <1>1, AddComputed DEF AddRoot
<1>2. ASSUME NEW r \in Requests, AbortRequest(r) PROVE ComputedInv'
  BY <1>2, LeaveComputed
<1>3. ASSUME ResetPrefixCache PROVE ComputedInv'
  BY <1>3, ResetComputed
<1>4. ASSUME ScheduleStart PROVE ComputedInv'
  <2>1. DOMAIN batch = {}
    BY <1>0, <1>4 DEF RequestInv, ScheduleStart
  <2> QED
    BY <1>4, <2>1, PhaseComputed DEF ScheduleStart
<1>5. ASSUME NEW r \in running, NEW n \in NumNewTokens(Len(tokens[r]) - computed[r]),
             ScheduleRunning(r, n)
      PROVE  ComputedInv'
  <2>1. Allocates(r, <<>>, n)
    BY <1>5, RunningAllocates
  <2>2. Scheduling /\ r \notin DOMAIN batch
    BY <1>5 DEF ScheduleRunning, Scheduling, Unscheduled
  <2> QED
    BY <2>1, <2>2, AllocateComputed
<1>6. ASSUME NEW r \in running, NEW n, NEW victim \in running, TakeBlocksFrom(victim, r, n)
      PROVE  ComputedInv'
  BY <1>6, TakeComputed
<1>7. ASSUME RunningDone PROVE ComputedInv'
  <2>1. phase = "running" /\ phase' = "waiting"
    BY <1>7 DEF RunningDone
  <2>2. Scheduling' = Scheduling
    BY <2>1, SMT DEF Scheduling
  <2> QED
    BY <1>7, <2>2, PhaseComputed DEF RunningDone
<1>8. ASSUME NEW r \in Waiting,
             NEW n \in NumNewTokens(Len(tokens[r]) - Len(ComputedBlocks(r)) * BlockSize),
             AdmitWaiting(r, n)
      PROVE  ComputedInv'
  <2>1. Allocates(r, ComputedBlocks(r), n)
    BY <1>8, AdmissionAllocates
  <2>2. Scheduling /\ r \notin DOMAIN batch
    BY <1>0, <1>8 DEF AdmitWaiting, Scheduling, Waiting, RequestInv
  <2> QED
    BY <2>1, <2>2, AllocateComputed
<1>9. ASSUME NEW r \in Waiting, NEW n, AdmissionFails(r, n) PROVE ComputedInv'
  BY <1>9, FailureComputed
<1>10. ASSUME WaitingDone PROVE ComputedInv'
  <2>1. phase = "waiting" /\ phase' = "scheduled"
    BY <1>10 DEF WaitingDone
  <2>2. Scheduling' = Scheduling
    BY <2>1, SMT DEF Scheduling
  <2> QED
    BY <1>10, <2>2, PhaseComputed DEF WaitingDone
<1>11. ASSUME ExecuteModel PROVE ComputedInv'
  BY <1>11, ExecuteComputed
<1>12. ASSUME NEW child \in Requests, NEW parent \in Live, AddBranch(child, parent)
       PROVE  ComputedInv'
  BY <1>12, AddComputed DEF AddBranch
<1>13. ASSUME NEW stopped \in SUBSET DOMAIN batch, NEW new \in [Sampled \ stopped -> Tokens],
              UpdateFromOutput(new, stopped)
       PROVE  ComputedInv'
  BY <1>13, UpdateComputed
<1>14. ASSUME NEW r \in Requests, FreeStopped(r) PROVE ComputedInv'
  BY <1>14, LeaveComputed
<1>15. ASSUME StepDone PROVE ComputedInv'
  <2>1. DOMAIN batch = {}
    BY <1>15 DEF StepDone, EmptyDict
  <2> QED
    BY <1>15, <2>1, PhaseComputed DEF StepDone
<1>16. ASSUME UNCHANGED vars PROVE ComputedInv'
  <2>1. UNCHANGED <<poolVars, managerVars, requestVars, batch, phase, content>>
    BY <1>16 DEF vars, loopVars
  <2>2. Scheduling' = Scheduling
    BY <2>1 DEF Scheduling
  <2> QED
    BY <2>1, <2>2, PhaseComputed
<1> QED
  BY <1>1, <1>2, <1>3, <1>4, <1>5, <1>6, <1>7, <1>8, <1>9, <1>10, <1>11, <1>12, <1>13, <1>14,
     <1>15, <1>16 DEF Next

LEMMA ComputedInvariant ==
    ASSUME Policy # "priority"
    PROVE  Spec => [](PoolInv /\ ComputedInv)
<1>1. Init => PoolInv /\ QueueInv /\ ComputedInv
  BY PoolInit, QueueInit, ComputedInit
<1>2. (PoolInv /\ QueueInv /\ ComputedInv) /\ [Next]_vars => (PoolInv /\ QueueInv /\ ComputedInv)'
  BY PoolNext, QueueNext, ComputedNext
<1> QED
  BY <1>1, <1>2, PTL DEF Spec

\* CachedIsComputed: between two steps every block in the prefix cache contains
\* the keys and values that its hash promises, although allocate_slots caches
\* blocks before the batch computes them.  Only a policy that takes the blocks of
\* a request already in the batch (priority scheduling) breaks this.
THEOREM PoolCachesComputed ==
    ASSUME Policy # "priority"
    PROVE  Spec => []CachedIsComputed
<1>1. PoolInv /\ ComputedInv => CachedIsComputed
  <2> SUFFICES ASSUME PoolInv, ComputedInv, phase = "idle",
                      NEW h \in DOMAIN cached, NEW b \in Range(cached[h])
               PROVE  content[b] = h /\ block_hash[b] = h
    BY DEF CachedIsComputed
  <2>1. HashInv /\ ContentInv
    BY DEF PoolInv, ComputedInv
  <2>2. ~Pending(b)
    BY DEF Pending, Scheduling
  <2>3. content[b] = h \/ Pending(b)
    BY <2>1 DEF ContentInv
  <2>4. block_hash[b] = h
    BY <2>1 DEF HashInv
  <2> QED
    BY <2>2, <2>3, <2>4
<1> QED
  BY <1>1, ComputedInvariant, PTL

\* RunsOnItsOwnTokens: between two steps a running request has blocks for all the
\* tokens it counts as computed, and they contain the keys and values of its own
\* tokens, whether it computed them or get_computed_blocks found them.
THEOREM PoolRunsOnOwnTokens ==
    ASSUME Policy # "priority"
    PROVE  Spec => []RunsOnItsOwnTokens
<1>1. PoolInv /\ ComputedInv => RunsOnItsOwnTokens
  <2> SUFFICES ASSUME PoolInv, ComputedInv, phase = "idle", NEW r \in running
               PROVE  /\ Cdiv(computed[r]) <= Len(Held(r))
                      /\ \A k \in 1 .. Cdiv(computed[r]) :
                            content[Held(r)[k]] = Prefix(r, Min({k * BlockSize, computed[r]}))
    BY DEF RunsOnItsOwnTokens
  <2> DEFINE w == computed[r]
             d == Cdiv(w)
             L == Len(Held(r))
  <2>1. RequestInv /\ HolderInv /\ CountInv /\ ContentInv /\ ~Scheduling
    BY DEF PoolInv, ComputedInv, Scheduling
  <2>2. Held(r) = req_to_blocks[r] /\ Held(r) \in Seq(Blocks)
    BY <2>1, HeldFacts
  <2>3. L \in Nat
    BY <2>2, DomainOfSeq
  <2>4. w \in Nat
    <3>1. w \in 0 .. Len(tokens[r]) /\ Len(tokens[r]) \in 1 .. MaxLen - 1
      BY <2>1 DEF RequestInv
    <3> QED
      BY <3>1, SMT
  <2>5. w <= L * BlockSize
    BY <2>1, <2>2 DEF CountInv, Counted
  <2>6. \A k \in 1 .. L : (k - 1) * BlockSize < w =>
           content[Held(r)[k]] = Prefix(r, Min({k * BlockSize, w}))
    <3>1. \A b : ~Pending(b)
      BY <2>1 DEF Pending
    <3>2. \A k \in 1 .. Len(req_to_blocks[r]) : (k - 1) * BlockSize < w =>
             \/ content[req_to_blocks[r][k]] = Prefix(r, Min({k * BlockSize, w}))
             \/ Pending(req_to_blocks[r][k])
      BY <2>1 DEF ContentInv
    <3> QED
      BY <2>2, <3>1, <3>2
  <2>7. d \in Nat /\ d * BlockSize < w + BlockSize
    BY <2>4, CdivBounds
  <2> HIDE DEF w, d, L
  <2>8. d \in Int /\ L \in Int
    BY <2>3, <2>7, SMT
  <2>9. /\ L < d => L * BlockSize + BlockSize <= d * BlockSize
        /\ L * BlockSize \in Int /\ d * BlockSize \in Int
    BY <2>8, Multiples
  <2>10. d <= L
    BY <2>4, <2>5, <2>7, <2>8, <2>9, BlockSizeType, SMT
  <2>11. ASSUME NEW k \in 1 .. d PROVE k \in 1 .. L /\ (k - 1) * BlockSize < w
    <3>1. k \in 1 .. L /\ k \in Int /\ k <= d
      BY <2>8, <2>10, SMT
    <3>2. /\ k * BlockSize <= d * BlockSize /\ k * BlockSize \in Int
          /\ (k - 1) * BlockSize = k * BlockSize - BlockSize
      BY <2>8, <3>1, Multiples
    <3>3. (k - 1) * BlockSize < w
      BY <2>4, <2>7, <2>9, <3>2, BlockSizeType, SMT
    <3> QED
      BY <3>1, <3>3
  <2> QED
    BY <2>6, <2>10, <2>11 DEF w, d, L
<1> QED
  BY <1>1, ComputedInvariant, PTL
=============================================================================
