--------------------------- MODULE TournamentRound ---------------------------
(***************************************************************************)
(* One round of the tournament on every pool of traces: any scores, any    *)
(* number of active traces without a score, any of them past the warmup.   *)
(***************************************************************************)
EXTENDS Tournament

CONSTANTS Traces, Capacity, Scores,
          MaxUnscored           \* bound: active traces that are not ranked

ASSUME RoundAssumption ==
    /\ IsFiniteSet(Traces) /\ Capacity \in Nat \ {0} /\ MaxUnscored \in Nat
    /\ Scores \subseteq Int

VARIABLES scores,               \* the ranked traces: id -> average score
          unscored,             \* how many active traces are not ranked
          warm,                 \* ranked traces past the warmup
          victims, parents,     \* what the round prunes and asks to branch
          done

roundVars == <<scores, unscored, warm, victims, parents, done>>

Pool == DOMAIN scores

ActiveN == Cardinality(Pool) + unscored

RoundInit ==
    /\ \E ids \in SUBSET Traces \ {{}} : scores \in [ids -> Scores]
    /\ unscored \in 0 .. MaxUnscored
    /\ warm \in SUBSET Pool
    /\ victims = {} /\ parents = <<>> /\ done = FALSE

PlayRound ==
    /\ ~done
    /\ \E ranking \in Rankings(Pool, scores) :
         /\ victims' = RoundVictims(ranking, ActiveN, Capacity)
         /\ parents' \in RoundParents(ranking, ActiveN, Capacity, warm)
    /\ done' = TRUE
    /\ UNCHANGED <<scores, unscored, warm>>

RoundSpec == RoundInit /\ [][PlayRound]_roundVars

Survivors == Pool \ victims

-----------------------------------------------------------------------------
\* Nothing the round prunes scored better than anything it keeps: the excess and
\* the swap both cut at the low end of the sorted list.
VictimsAreLowest ==
    \A v \in victims, i \in Survivors : done => scores[v] <= scores[i]

\* The round brings the pool back to capacity, or prunes all it can rank; and
\* what it asks to branch does not push it over capacity again.
BackToCapacity ==
    done => LET left == ActiveN - Cardinality(victims)
            IN  left + Len(parents) <= Capacity \/ Survivors = {}

\* A round leaves the pool full: once every ranked trace is past the warmup, the
\* survivors it asks, each for one branch, make up for all it swaps out and take
\* the empty slots, as far as there are traces to ask.  That is why it does not
\* "swap more than half of scored", takes the half of what the excess left, and
\* asks the best first: a branch asked of a pruned trace is dropped.
PoolStaysFull ==
    done /\ Pool \subseteq warm =>
        ActiveN - Cardinality(victims) + Cardinality(Range(parents) \cap Survivors)
            >= Min({Capacity, ActiveN + Cardinality(Pool)})

\* A branch is asked of a trace the round prunes only when no surviving trace
\* past the warmup was left to ask: "leaving it in the parent pool would silently
\* drop the branch; exclude it up front".
NoBranchIsWasted ==
    Range(parents) \cap victims # {} => warm \cap Survivors \subseteq Range(parents)

\* "Clamp so an excess larger than the scored pool cannot prune all of it."
ScoredPoolSurvives ==
    done /\ ActiveN - Capacity > Cardinality(Pool) => Survivors # {}
=============================================================================
