----------------------------- MODULE Tournament -----------------------------
(***************************************************************************)
(* A round of _gambit_tournament_step (vllm/v1/engine/core.py) as a pure   *)
(* function: which of the ranked traces it prunes and which it asks to     *)
(* branch, in which order.  ranking is active_traces once sorted, active_n *)
(* the tree's active count, which also counts traces that are not ranked.  *)
(***************************************************************************)
EXTENDS Sequences, FiniteSetsExt

CONSTANTS SwapK,                \* tournament_swap_k K
          BranchRandom          \* tournament_branch_random

ASSUME TournamentAssumption ==
    SwapK \in Nat /\ BranchRandom \in BOOLEAN

\* The sequences that list every member of a set once.
Orders(ids) == Bijection(1 .. Cardinality(ids), ids)

\* Seeded fault: sorted lowest first.
AscendingRankings(ids, scores) ==
    {q \in Orders(ids) :
        \A i, j \in 1 .. Len(q) : i < j => scores[q[i]] <= scores[q[j]]}

\* active_traces sorted by score, highest first.  Equal scores stay in the
\* order of a dict whose history is not modelled, so any order of them may occur.
Rankings(ids, scores) ==
    {q \in Orders(ids) :
        \A i, j \in 1 .. Len(q) : i < j => scores[q[i]] >= scores[q[j]]}

\* a stands before b in the ranking.
Above(ranking, a, b) ==
    \E i, j \in 1 .. Len(ranking) : i < j /\ ranking[i] = a /\ ranking[j] = b

\* The queues of n of the candidates, or of all of them if there are fewer: the
\* first ones in the order of the ranking, or any in the random ablation.
Picks(ranking, candidates, n) ==
    {q \in UNION {Orders(S) : S \in SUBSET candidates} :
        /\ Len(q) = Min({n, Cardinality(candidates)})
        /\ ~BranchRandom =>
             \A i \in 1 .. Len(q) :
                \A x \in candidates \ {q[j] : j \in 1 .. i} : Above(ranking, q[i], x)}

\* Seeded fault: the pool is never cut back.
NoExcess(ranking, active_n, capacity) == 0

\* How many of the ranked traces are pruned to get back to capacity.
Excess(ranking, active_n, capacity) ==
    IF active_n < capacity THEN 0 ELSE Min({active_n - capacity, Len(ranking)})

\* Seeded fault: the swap is not limited to half of the scored traces.
SwapAnyNumber(ranking, active_n, capacity) ==
    IF active_n < capacity THEN 0
    ELSE Min({SwapK, Len(ranking) - Excess(ranking, active_n, capacity)})

\* actual_k, computed on the traces that the excess left.
SwapSize(ranking, active_n, capacity) ==
    IF active_n < capacity THEN 0
    ELSE Min({SwapK, (Len(ranking) - Excess(ranking, active_n, capacity)) \div 2})

BottomK(ranking, active_n, capacity) ==
    LET kept == Len(ranking) - Excess(ranking, active_n, capacity)
        k == SwapSize(ranking, active_n, capacity)
    IN  Range(SubSeq(ranking, kept - k + 1, kept))

\* The traces a round prunes: the excess and the swapped-out bottom K.
RoundVictims(ranking, active_n, capacity) ==
    LET kept == Len(ranking) - Excess(ranking, active_n, capacity)
    IN  BottomK(ranking, active_n, capacity)
          \cup Range(SubSeq(ranking, kept + 1, Len(ranking)))

\* How many branches a round asks for: the empty slots, or the swapped-out traces.
BranchSlots(ranking, active_n, capacity) ==
    IF active_n < capacity THEN capacity - active_n ELSE SwapSize(ranking, active_n, capacity)

\* Seeded fault: parents are taken from the low end of the list.
LowestParents(ranking, active_n, capacity, warm) ==
    Picks([i \in 1 .. Len(ranking) |-> ranking[Len(ranking) + 1 - i]],
          warm \ BottomK(ranking, active_n, capacity),
          BranchSlots(ranking, active_n, capacity))

\* The queues of parents a round may ask to branch.  branch_candidates were
\* collected before any pruning, so a trace pruned as excess is still among them.
RoundParents(ranking, active_n, capacity, warm) ==
    Picks(ranking, warm \ BottomK(ranking, active_n, capacity),
          BranchSlots(ranking, active_n, capacity))
=============================================================================
