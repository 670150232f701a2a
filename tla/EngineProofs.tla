---------------------------- MODULE EngineProofs ----------------------------
(***************************************************************************)
(* Proofs about the engine core, for every number of roots, every capacity *)
(* and every setting of the beam search: the scheduler keeps its           *)
(* invariant although the engine adds branches while a batch executes, the *)
(* tree and the scheduler agree on what has ended, the worker keeps the    *)
(* histories of the traces still ranked, and the tree implements           *)
(* TraceLifecycle.                                                         *)
(***************************************************************************)
EXTENDS EngineLemmas, TournamentProofs

-----------------------------------------------------------------------------
(***************************************************************************)
(* The decisions.                                                          *)
(***************************************************************************)

\* A decision prunes some of the traces it knows, none of them completed, marks
\* every one for its stop, and clears their histories if it goes on to branch.
Prunes(victims) ==
    /\ stage = "decide"
    /\ victims \subseteq Nodes \cup Scored
    /\ LateScoresAreCold => victims \cap Completed = {}
    /\ trace_tree' = MarkPruned(DecisionTree, victims)
    /\ pending_low' \cup pending_force' = pending_low \cup pending_force \cup victims
    /\ UNCHANGED <<schedVars, trace_scores, pending_hs, future, token_counts, earlier,
                   histories, seq_hs_to_copy>>
    /\ \/ stage' = "branch" /\ seq_hs_to_clear' = victims /\ branch_queue' \in Seq(Scored)
       \/ stage' = AfterDecision /\ UNCHANGED <<seq_hs_to_clear, branch_queue>>

\* As in EngineLemmas, Zenon proves what is set reasoning.
USE Zenon

\* Such a step keeps the invariant.
LEMMA PruneInv ==
    ASSUME EngineInv, NEW victims, Prunes(victims)
    PROVE  EngineInv'
<1>0. /\ SchedInv /\ FlagsInv /\ KnownInv /\ NamesInv /\ StopInv /\ OverInv /\ GhostInv
      /\ HistoryInv /\ QueueInv /\ HandoverInv
  BY DEF EngineInv, WorkerHistoryInv
<1>1. /\ stage = "decide" /\ victims \subseteq Nodes \cup Scored
      /\ LateScoresAreCold => victims \cap Completed = {}
      /\ trace_tree' = MarkPruned(DecisionTree, victims)
      /\ pending_low' \cup pending_force' = pending_low \cup pending_force \cup victims
      /\ UNCHANGED <<schedVars, trace_scores, Scored, pending_hs, future, token_counts, Counted,
                     earlier, histories, seq_hs_to_copy>>
  BY DEF Prunes, Scored, Counted
<1>2. SchedInv' /\ UNCHANGED <<requests, Live, phase, admitted, finished_req_ids, evicted, aborted>>
  BY <1>0, <1>1, SchedulerAlone
<1>3. /\ IsTree(trace_tree') /\ Nodes' = Nodes \cup Scored
      /\ Active' = (Active \cup (Scored \ Nodes)) \ victims
      /\ Completed' = Completed /\ Pruned' = Pruned \cup (victims \cap (Nodes \cup Scored))
      /\ Counter' = Counter
  <2>1. HasFlags(trace_tree', Nodes \cup Scored, (Active \cup (Scored \ Nodes)) \ victims,
                 Completed, Pruned \cup (victims \cap (Nodes \cup Scored)), Counter)
    BY <1>0, <1>1, PrunedDecisionTree DEF FlagsInv
  <2> QED
    BY <2>1 DEF HasFlags, Nodes, Active, Completed, Pruned, Counter
<1>4. Pruned' = Pruned \cup victims
  BY <1>1, <1>3
<1>5. FlagsInv'
  BY <1>0, <1>1, <1>3, <1>4 DEF FlagsInv
<1>6. KnownInv'
  BY <1>0, <1>1, <1>2, <1>3 DEF KnownInv
<1>7. StageInv'
  BY <1>1, <1>2 DEF EngineInv, StageInv, Prunes, AfterDecision
<1>8. NamesInv'
  BY <1>0, <1>1, <1>2, <1>3, NamesKept DEF FlagsInv
<1>9. StopInv'
  BY <1>0, <1>1, <1>2, <1>4 DEF StopInv
<1>10. OverInv'
  BY <1>0, <1>1, <1>2, <1>3, <1>4 DEF OverInv
<1>11. GhostInv'
  BY <1>0, <1>1, <1>2, <1>3 DEF GhostInv
<1>12. WorkerHistoryInv'
  <2>1. seq_hs_to_clear = {} /\ seq_hs_to_copy = <<>> /\ Range(<<>>) = {} /\ future = {}
    BY <1>0, <1>1, SMT DEF HandoverInv, Range
  <2>2. Copied = {} /\ Copied' = {} /\ Inherited = {} /\ Inherited' = {}
    BY <1>1, <2>1 DEF Copied, Inherited
  <2>3. Tracked' \subseteq Tracked
    BY <1>1, <1>3 DEF Tracked
  <2>4. seq_hs_to_clear' \subseteq Pruned'
    BY <1>4, <2>1 DEF Prunes
  <2>5. HistoryInv'
    BY <1>0, <1>1, <1>3, <2>2, <2>3, <2>4 DEF HistoryInv
  <2>6. branch_queue' \in Seq(Ids) /\ Range(branch_queue') \subseteq admitted'
    <3>1. CASE branch_queue' \in Seq(Scored)
      <4>1. Scored \subseteq Ids /\ Scored \subseteq admitted
        BY <1>0, SchedFacts DEF KnownInv
      <4>2. Range(branch_queue') \subseteq Scored
        BY <3>1, LenProperties, ElementOfSeq, SMT DEF Range
      <4> QED
        BY <1>2, <3>1, <4>1, <4>2, SeqMonotonic
    <3>2. CASE branch_queue' = branch_queue
      BY <1>0, <1>2, <3>2 DEF QueueInv
    <3> QED
      BY <3>1, <3>2 DEF Prunes
  <2>7. QueueInv'
    BY <1>0, <1>1, <2>2, <2>6 DEF QueueInv
  <2>8. HandoverInv'
    BY <1>0, <1>1, <1>3, <2>1 DEF HandoverInv, Prunes, AfterDecision
  <2> QED
    BY <2>5, <2>7, <2>8 DEF WorkerHistoryInv
<1> QED
  BY <1>2, <1>5, <1>6, <1>7, <1>8, <1>9, <1>10, <1>11, <1>12 DEF EngineInv

\* What is active in the tree of a decision.
LEMMA DecisionActive ==
    ASSUME EngineInv
    PROVE  /\ DecisionTree.active = Active \cup (Scored \ Nodes) /\ IsTree(DecisionTree)
           /\ DecisionTree.active \cap (Completed \cup Pruned) = {}
           /\ DecisionTree.active \subseteq admitted
<1>1. FlagsInv /\ IsTree(trace_tree) /\ KnownInv
  BY DEF EngineInv, FlagsInv
<1>2. DecisionTree.active = Active \cup (Scored \ Nodes) /\ IsTree(DecisionTree)
  BY <1>1, DecisionTreeFlags DEF HasFlags
<1> QED
  BY <1>1, <1>2 DEF FlagsInv, KnownInv

\* _gambit_force_stop_all_active_traces
LEMMA ForceStopAllPrunes ==
    ASSUME EngineInv, ForceStopAll
    PROVE  Prunes(DecisionTree.active \ pending_force)
<1> DEFINE stop == DecisionTree.active \ pending_force
<1>1. /\ stage = "decide" /\ trace_tree' = MarkPruned(DecisionTree, stop)
      /\ pending_low' = pending_low /\ pending_force' = pending_force \cup stop
      /\ UNCHANGED <<schedVars, trace_scores, pending_hs, future, token_counts, earlier,
                     histories, seq_hs_to_clear, seq_hs_to_copy, branch_queue>>
      /\ stage' = AfterDecision
  BY DEF ForceStopAll, scoreVars, historyQueue
<1>2. stop \subseteq Nodes \cup Scored /\ stop \cap Completed = {}
  BY DecisionActive DEF EngineInv, FlagsInv
<1> HIDE DEF stop
<1>3. pending_low' \cup pending_force' = pending_low \cup pending_force \cup stop
  BY <1>1
<1> QED
  BY <1>1, <1>2, <1>3 DEF Prunes, stop

\* A trace that counts tokens, or any scored trace without the asynchronous
\* scorer, has not completed.
LEMMA WarmIsRunning ==
    ASSUME EngineInv, NEW i \in Scored, NEW n \in Nat, Tokens(i) >= n, ~AsyncScorer \/ n > 0
    PROVE  i \notin Completed
<1>1. CASE ~AsyncScorer
  BY <1>1 DEF EngineInv, OverInv
<1>2. CASE n > 0
  <2>1. i \in Counted
    BY <1>2, SMT DEF Tokens, Get, Counted
  <2> QED
    BY <2>1 DEF EngineInv, OverInv
<1> QED
  BY <1>1, <1>2

\* What the hard floor takes.
LEMMA HardFloorFacts ==
    ASSUME EngineInv
    PROVE  /\ HardFloorVictims \subseteq Scored
           /\ LateScoresAreCold => HardFloorVictims \cap Completed = {}
<1>1. HardFloorVictims \subseteq Scored
  BY DEF HardFloorVictims
<1>2. ASSUME LateScoresAreCold, NEW i \in HardFloorVictims PROVE i \notin Completed
  <2>1. Warmup \in Nat /\ (~AsyncScorer \/ Warmup > 0)
    BY <1>2, EngineAssumption DEF LateScoresAreCold
  <2>2. i \in Scored /\ Tokens(i) >= Warmup
    BY <1>2 DEF HardFloorVictims
  <2> QED
    BY <2>1, <2>2, WarmIsRunning
<1> QED
  BY <1>1, <1>2

\* The ranked traces are active, and can be counted.
LEMMA ContendersFacts ==
    ASSUME EngineInv
    PROVE  /\ IsFiniteSet(Contenders) /\ Contenders \subseteq Scored
           /\ Contenders \cap Completed = {}
           /\ ActiveCount(MarkPruned(DecisionTree, HardFloorVictims)) \in Nat
<1> DEFINE u == MarkPruned(DecisionTree, HardFloorVictims)
<1>1. u.active = DecisionTree.active \ HardFloorVictims
  BY DecisionActive, MarkPrunedFlags, SMT DEF HasFlags
<1>2. /\ Contenders \subseteq Scored /\ Contenders \subseteq DecisionTree.active
      /\ Contenders \cap Completed = {}
  BY DecisionActive DEF Contenders
<1>3. IsFiniteSet(admitted) /\ u.active \subseteq admitted /\ Contenders \subseteq admitted
  BY <1>1, <1>2, DecisionActive DEF EngineInv, KnownInv
<1>4. IsFiniteSet(Contenders) /\ IsFiniteSet(u.active)
  BY <1>3, FS_Subset
<1>5. ActiveCount(u) \in Nat
  BY <1>4, FS_CardinalityType DEF ActiveCount
<1> QED
  BY <1>2, <1>4, <1>5

\* A round of the tournament prunes the tail of its ranking, ranked traces only.
LEMMA RoundVictimsRanked ==
    ASSUME EngineInv, NEW ranking \in Rankings(Contenders, trace_scores), NEW n \in Nat
    PROVE  /\ RoundVictims(ranking, n, MaxTraces) =
                {ranking[i] : i \in Cut(ranking, n, MaxTraces) + 1 .. Len(ranking)}
           /\ RoundVictims(ranking, n, MaxTraces) \subseteq Contenders
<1>1. /\ ranking \in Seq(Contenders) /\ Len(ranking) \in Nat
      /\ \A i \in 1 .. Len(ranking) : ranking[i] \in Contenders
  BY ContendersFacts, RankingFacts
<1>2. MaxTraces \in Nat
  BY TreeAssumption
<1>3. Cut(ranking, n, MaxTraces) \in 0 .. Len(ranking)
  BY <1>1, <1>2, CutFacts
<1>4. RoundVictims(ranking, n, MaxTraces) =
        {ranking[i] : i \in Cut(ranking, n, MaxTraces) + 1 .. Len(ranking)}
  BY <1>1, <1>2, RoundVictimsAreTheTail, SMT
<1>5. \A i \in Cut(ranking, n, MaxTraces) + 1 .. Len(ranking) : i \in 1 .. Len(ranking)
  BY <1>1, <1>3, SMT
<1> QED
  BY <1>1, <1>4, <1>5

\* _gambit_prune_trace for all the victims of a decision, before its branches
LEMMA PruneThenBranchPrunes ==
    ASSUME EngineInv, stage = "decide", NEW victims, NEW queue \in Seq(Scored), NEW rounds,
           victims \subseteq Scored,
           LateScoresAreCold => victims \cap Completed = {},
           PruneThenBranch(victims, queue, rounds)
    PROVE  Prunes(victims)
<1>1. /\ trace_tree' = MarkPruned(DecisionTree, victims)
      /\ pending_low' = pending_low \cup victims /\ pending_force' = pending_force
      /\ UNCHANGED <<schedVars, trace_scores, pending_hs, future, token_counts, earlier,
                     histories, seq_hs_to_copy>>
      /\ stage' = "branch" /\ seq_hs_to_clear' = victims /\ branch_queue' = queue
  BY DEF PruneThenBranch
<1>2. pending_low' \cup pending_force' = pending_low \cup pending_force \cup victims
  BY <1>1
<1> QED
  BY <1>1, <1>2 DEF Prunes

\* What a tournament decision prunes: what the hard floor takes and, in a round, the
\* tail of the ranking.
TournamentPrunes(victims) ==
    \/ victims = HardFloorVictims
    \/ \E ranking \in Rankings(Contenders, trace_scores) :
          victims = HardFloorVictims \cup
                      RoundVictims(ranking,
                                   ActiveCount(MarkPruned(DecisionTree, HardFloorVictims)),
                                   MaxTraces)

\* Every way a tournament decides.
LEMMA TournamentDecision ==
    ASSUME EngineInv, TournamentNoRound \/ TournamentRound
    PROVE  \E victims : TournamentPrunes(victims) /\ Prunes(victims)
<1> DEFINE floor == HardFloorVictims
<1>0. <<>> \in Seq(Scored)
  BY SMT
<1>1. CASE TournamentNoRound
  <2>1. stage = "decide" /\ PruneThenBranch(floor, <<>>, StepsSinceRound)
    BY <1>1 DEF TournamentNoRound, TournamentDecides
  <2>2. Prunes(floor)
    BY <1>0, <2>1, HardFloorFacts, PruneThenBranchPrunes
  <2> QED
    BY <2>2 DEF TournamentPrunes
<1>2. CASE TournamentRound
  <2> DEFINE active_n == ActiveCount(MarkPruned(DecisionTree, floor))
             warm == {i \in Contenders : Tokens(i) >= Warmup}
  <2>1. PICK ranking \in Rankings(Contenders, trace_scores) :
          IF Contenders = {}
          THEN PruneThenBranch(floor, <<>>, 0)
          ELSE \E queue \in RoundParents(ranking, active_n, MaxTraces, warm) :
                 PruneThenBranch(floor \cup RoundVictims(ranking, active_n, MaxTraces), queue, 0)
    BY <1>2 DEF TournamentRound
  <2>2. stage = "decide"
    BY <1>2 DEF TournamentRound, TournamentDecides
  <2>3. CASE Contenders = {}
    <3>1. Prunes(floor)
      BY <1>0, <2>1, <2>2, <2>3, HardFloorFacts, PruneThenBranchPrunes
    <3> QED
      BY <3>1 DEF TournamentPrunes
  <2>4. CASE Contenders # {}
    <3> DEFINE low == RoundVictims(ranking, active_n, MaxTraces)
    <3>1. PICK queue \in RoundParents(ranking, active_n, MaxTraces, warm) :
            PruneThenBranch(floor \cup low, queue, 0)
      BY <2>1, <2>4
    <3>2. queue \in Seq(Scored)
      <4> DEFINE candidates == warm \ BottomK(ranking, active_n, MaxTraces)
      <4>1. candidates \subseteq Scored /\ candidates \subseteq Contenders
        BY ContendersFacts
      <4>2. queue \in Picks(ranking, candidates, BranchSlots(ranking, active_n, MaxTraces))
        BY <3>1 DEF RoundParents
      <4> HIDE DEF candidates
      <4>3. IsFiniteSet(candidates)
        BY <4>1, ContendersFacts, FS_Subset
      <4>4. queue \in Seq(candidates)
        BY <4>2, <4>3, PicksAreCandidates
      <4> QED
        BY <4>1, <4>4, SeqMonotonic
    <3>3. low \subseteq Contenders
      BY ContendersFacts, RoundVictimsRanked
    <3>4. TournamentPrunes(floor \cup low)
      BY DEF TournamentPrunes
    <3> HIDE DEF low, floor
    <3>5. /\ floor \cup low \subseteq Scored
          /\ LateScoresAreCold => (floor \cup low) \cap Completed = {}
      BY <3>3, ContendersFacts, HardFloorFacts DEF floor
    <3>6. Prunes(floor \cup low)
      BY <2>2, <3>1, <3>2, <3>5, PruneThenBranchPrunes
    <3> QED
      BY <3>4, <3>6
  <2> QED
    BY <2>3, <2>4
<1> QED
  BY <1>1, <1>2

\* _gambit_threshold_step
LEMMA ThresholdDecision ==
    ASSUME EngineInv, ThresholdStep
    PROVE  \E victims : Prunes(victims)
<1> DEFINE victims == {i \in Scored : ShouldPrune(i)}
           parents == {i \in Scored \ victims : ShouldBranch(i)}
<1>1. PICK queue \in Rankings(parents, trace_scores) :
        PruneThenBranch(victims, queue, StepsSinceRound)
  BY DEF ThresholdStep
<1>2. stage = "decide"
  BY DEF ThresholdStep
<1>3. ASSUME LateScoresAreCold, NEW i \in victims PROVE i \notin Completed
  <2>1. MinTokensPrune \in Nat /\ (~AsyncScorer \/ MinTokensPrune > 0)
    BY <1>3, EngineAssumption DEF LateScoresAreCold
  <2>2. i \in Scored /\ Tokens(i) >= MinTokensPrune
    BY <1>3 DEF ShouldPrune
  <2> QED
    BY <2>1, <2>2, WarmIsRunning
<1>4. victims \subseteq Scored /\ parents \subseteq Scored
  OBVIOUS
<1> HIDE DEF victims, parents
<1>5. queue \in Seq(Scored)
  <2>1. Scored \subseteq admitted /\ IsFiniteSet(admitted)
    BY DEF EngineInv, KnownInv
  <2>2. IsFiniteSet(parents)
    BY <1>4, <2>1, FS_Subset
  <2>3. queue \in Seq(parents)
    BY <1>1, <2>2, RankingFacts
  <2> QED
    BY <1>4, <2>3, SeqMonotonic
<1>6. Prunes(victims)
  BY <1>1, <1>2, <1>3, <1>4, <1>5, PruneThenBranchPrunes
<1> QED
  BY <1>6

\* Every decision prunes, if only nothing.
LEMMA DecisionPrunes ==
    ASSUME EngineInv, Decision
    PROVE  \E victims : Prunes(victims)
BY ForceStopAllPrunes, TournamentDecision, ThresholdDecision DEF Decision

\* A decision keeps the invariant.
LEMMA DecisionInv == EngineInv /\ Decision => EngineInv'
BY DecisionPrunes, PruneInv

-----------------------------------------------------------------------------
(***************************************************************************)
(* The end of step(), and the invariant.                                   *)
(***************************************************************************)

\* What stopped leaves the scheduler, the scores and the active traces at once.
LEMMA StepOutputInv ==
    ASSUME EngineInv, NEW boundaries \in SUBSET Sampled, NEW natural \in SUBSET Sampled,
           StepOutput(boundaries, natural)
    PROVE  EngineInv'
<1> DEFINE emitted == Sampled \cup Injected
           stopped == {i \in Injected : HonoursEos(i)}
                        \cup (natural \ Injected) \cup ReachesMaxLen(emitted)
<1>0. /\ SchedInv /\ FlagsInv /\ KnownInv /\ StageInv /\ NamesInv /\ StopInv /\ OverInv
      /\ GhostInv /\ WorkerHistoryInv /\ HandoverInv
  BY DEF EngineInv, WorkerHistoryInv
<1>1. /\ stage = "output" /\ UpdateFromOutput(emitted, stopped)
      /\ pending_hs' = (pending_hs \ finished_req_ids) \cup boundaries
      /\ token_counts' = Drop(CountTokens, finished_req_ids')
      /\ trace_scores' = Drop(trace_scores, finished_req_ids')
      /\ pending_low' = pending_low \ (Injected \cup finished_req_ids')
      /\ pending_force' = pending_force \ (Injected \cup finished_req_ids')
      /\ trace_tree' = FinishTraces(trace_tree, finished_req_ids')
      /\ stage' = "none"
      /\ UNCHANGED <<future, earlier, histories, seq_hs_to_clear, seq_hs_to_copy, branch_queue>>
  BY DEF StepOutput, historyQueue
<1>2. phase = "scheduled" /\ finished_req_ids = {}
  BY <1>0, <1>1 DEF StageInv
<1>3. /\ Sampled \subseteq Scheduled /\ Injected \subseteq Scheduled
      /\ Scheduled \subseteq Live /\ Live \subseteq admitted
  BY <1>0, SchedFacts DEF Sampled, Injected
<1>4. /\ ReachesMaxLen(emitted) \subseteq emitted /\ stopped \in SUBSET Scheduled
      /\ Sampled \subseteq emitted /\ ReachesMaxLen(emitted) \subseteq stopped
  BY <1>3 DEF ReachesMaxLen
<1>5. \A i \in Injected : HonoursEos(i) => i \in stopped
  OBVIOUS
<1> HIDE DEF emitted, stopped
<1>6. SchedInv'
  BY <1>0, <1>1, <1>2, <1>4, UpdateFromOutputInv
<1>7. /\ Live' = Live \ stopped /\ finished_req_ids' = stopped
      /\ requests' = [i \in Live \ stopped |->
                        IF i \in emitted
                        THEN [requests[i] EXCEPT !.num_tokens = @ + 1]
                        ELSE requests[i]]
      /\ phase' = "idle" /\ admitted' = admitted /\ aborted' = aborted /\ evicted' = evicted
  BY <1>1, <1>2 DEF UpdateFromOutput, Live
<1>8. \A i \in Live' : requests'[i].num_tokens > 0
  <2>1. \A i \in Live : /\ requests[i] \in [num_tokens : Nat, computed : Nat, arrival : Nat]
                        /\ requests[i].num_tokens > 0
    BY <1>0 DEF KnownInv, SchedInv, SchedTypeOK
  <2> QED
    BY <1>7, <2>1, SMT
<1>9. /\ IsTree(trace_tree') /\ Nodes' = Nodes \cup stopped
      /\ Active' = (Active \cup (stopped \ Nodes)) \ (stopped \ Pruned)
      /\ Completed' = Completed \cup (stopped \ Pruned)
      /\ Pruned' = Pruned /\ Counter' = Counter
  <2>1. HasFlags(trace_tree', Nodes \cup stopped,
                 (Active \cup (stopped \ Nodes)) \ (stopped \ Pruned),
                 Completed \cup (stopped \ Pruned), Pruned, Counter)
    BY <1>0, <1>1, <1>7, FinishTracesFlags
       DEF FlagsInv, Nodes, Active, Completed, Pruned, Counter
  <2> QED
    BY <2>1 DEF HasFlags, Nodes, Active, Completed, Pruned, Counter
<1>10. Active' = Active \ stopped
  BY <1>0, <1>9 DEF FlagsInv
<1>11. /\ Scored' = Scored \ stopped
       /\ \A i \in Scored' : trace_scores'[i] = trace_scores[i]
  BY <1>1, <1>7 DEF Scored, Drop
<1>12. Counted' = (Counted \cup Scheduled) \ stopped
  BY <1>1, <1>7 DEF Drop, CountTokens, Update, Counted
<1>13. FlagsInv'
  BY <1>0, <1>9, <1>10 DEF FlagsInv
<1>14. KnownInv'
  <2>1. Nodes' \cup Scored' \cup future' \cup pending_hs' \cup earlier' \subseteq admitted'
    BY <1>0, <1>1, <1>3, <1>4, <1>7, <1>9, <1>11 DEF KnownInv
  <2> QED
    BY <1>0, <1>7, <1>8, <1>11, <2>1 DEF KnownInv
<1>15. StageInv'
  BY <1>0, <1>1, <1>7 DEF StageInv
<1>16. NamesInv'
  BY <1>0, <1>1, <1>7, <1>9, NamesKept DEF FlagsInv
<1>17. StopInv'
  BY <1>0, <1>1, <1>5, <1>7, <1>9 DEF StopInv
<1>18. OverInv'
  <2>1. Completed' \cap (Live' \cup Counted') = {}
    BY <1>0, <1>3, <1>7, <1>9, <1>12 DEF OverInv
  <2>2. ~AsyncScorer => Completed' \cap Scored' = {}
    BY <1>0, <1>9, <1>11 DEF OverInv
  <2>3. LateScoresAreCold => Completed' \cap Pruned' = {}
    BY <1>0, <1>9 DEF OverInv
  <2> QED
    BY <2>1, <2>2, <2>3 DEF OverInv
<1>19. GhostInv'
  <2>1. Active' \cup ((Scored' \cup future') \ Nodes')
          \subseteq Live' \cup evicted' \cup aborted' \cup earlier'
    BY <1>0, <1>1, <1>7, <1>9, <1>10, <1>11 DEF GhostInv
  <2>2. stopped \cap earlier = {}
    BY <1>0, <1>3, <1>4 DEF NamesInv
  <2>3. ~AsyncScorer => (Nodes' \cup Scored') \cap earlier' = {}
    BY <1>0, <1>1, <1>9, <1>11, <2>2 DEF GhostInv
  <2> QED
    BY <2>1, <2>3 DEF GhostInv
<1>20. WorkerHistoryInv'
  <2>1. stage' # "decide" => Scored' \subseteq Nodes'
    BY <1>0, <1>1, <1>9, <1>11 DEF HandoverInv
  <2> QED
    BY <1>0, <1>1, <1>7, <1>9, <1>10, <1>11, <2>1, HistoriesAlone
<1> QED
  BY <1>6, <1>13, <1>14, <1>15, <1>16, <1>17, <1>18, <1>19, <1>20 DEF EngineInv

\* No step of the engine core breaks the invariant.
LEMMA EngineNextInv == EngineInv /\ [Next]_vars => EngineInv'
<1> SUFFICES ASSUME EngineInv, [Next]_vars PROVE EngineInv'
  OBVIOUS
<1>1. ASSUME NEW r \in Roots, EngineAdd(r) PROVE EngineInv'
  BY <1>1, EngineAddInv
<1>2. ASSUME NEW ids \in SUBSET Live, EngineAbort(ids) PROVE EngineInv'
  BY <1>2, EngineAbortInv
<1>3. CASE ResetGambitState
  BY <1>3, ResetInv
<1>4. CASE StepWithoutRequests
  BY <1>4, StepWithoutRequestsInv
<1>5. CASE StepSchedule
  BY <1>5, StepScheduleInv
<1>6. CASE NoScores
  BY <1>6, NothingInv
<1>7. ASSUME NEW new \in [Arriving -> Scores], TakeScores(new) PROVE EngineInv'
  BY <1>7, TakeScoresInv
<1>8. CASE Decision
  BY <1>8, DecisionInv
<1>9. CASE BranchingDone
  BY <1>9, BranchingDoneInv
<1>10. CASE BranchRefused
  BY <1>10, BranchRefusedInv
<1>11. CASE BranchCreated
  BY <1>11, BranchCreatedInv
<1>12. CASE BranchFailed
  BY <1>12, BranchFailedInv
<1>13. CASE SubmitScoring
  BY <1>13, SubmitScoringInv
<1>14. ASSUME NEW boundaries \in SUBSET Sampled, NEW natural \in SUBSET Sampled,
              StepOutput(boundaries, natural)
       PROVE  EngineInv'
  BY <1>14, StepOutputInv
<1>15. CASE UNCHANGED vars
  BY <1>15, NothingInv
<1> QED
  BY <1>1, <1>2, <1>3, <1>4, <1>5, <1>6, <1>7, <1>8, <1>9, <1>10, <1>11, <1>12, <1>13,
     <1>14, <1>15 DEF Next, Step, Branching

\* The engine core starts in the invariant.
LEMMA EngineInitInv == Init => EngineInv
<1> SUFFICES ASSUME Init PROVE EngineInv
  OBVIOUS
<1>1. SchedInv
  BY SchedInitInv DEF Init
<1>2. /\ IsTree(trace_tree) /\ Nodes = {} /\ Active = {} /\ Completed = {} /\ Pruned = {}
      /\ Counter = 0
  BY EmptyTreeFlags DEF Init, TreeInit, HasFlags, Nodes, Active, Completed, Pruned, Counter
<1>3. /\ Live = {} /\ Scored = {} /\ Counted = {}
      /\ admitted = {} /\ earlier = {} /\ future = {} /\ pending_hs = {}
      /\ pending_low = {} /\ pending_force = {} /\ stage = "none" /\ phase = "idle"
  BY DEF Init, SchedInit, Live, Scored, Counted, EmptyDict
<1>4. /\ branch_queue = <<>> /\ histories = {}
      /\ seq_hs_to_clear = {} /\ seq_hs_to_copy = <<>>
  BY DEF Init
<1>5. FlagsInv
  BY <1>2 DEF FlagsInv
<1>6. KnownInv
  BY <1>2, <1>3, FS_EmptySet DEF KnownInv
<1>7. StageInv /\ NamesInv
  BY <1>3 DEF StageInv, NamesInv
<1>8. StopInv /\ OverInv /\ GhostInv
  BY <1>2, <1>3 DEF StopInv, OverInv, GhostInv
<1>9. Range(<<>>) = {} /\ Copied = {} /\ Inherited = {} /\ Tracked = {}
  BY <1>3, <1>4, SMT DEF Range, Copied, Inherited, Tracked
<1>10. WorkerHistoryInv
  BY <1>2, <1>3, <1>4, <1>9, SMT DEF WorkerHistoryInv, HistoryInv, QueueInv, HandoverInv
<1> QED
  BY <1>1, <1>5, <1>6, <1>7, <1>8, <1>10 DEF EngineInv

-----------------------------------------------------------------------------
(***************************************************************************)
(* What a step does to the tree.                                           *)
(***************************************************************************)

\* Outcomes are kept, an active trace stays so or gets one, and a branch is only
\* created below capacity.
TreeAdvances ==
    /\ Completed \subseteq Completed' /\ Pruned \subseteq Pruned'
    /\ Active \subseteq Active' \cup Completed' \cup Pruned'
    /\ Counter' > Counter => Cardinality(Active') <= MaxTraces

\* A tree that is left alone advances.
LEMMA SameTreeAdvances ==
    ASSUME FlagsInv, trace_tree' = trace_tree
    PROVE  TreeAdvances
<1>1. UNCHANGED <<Active, Completed, Pruned, Counter>> /\ Counter \in Nat
  BY TreeAlone DEF FlagsInv
<1> QED
  BY <1>1, SMT DEF TreeAdvances

\* Marking traces of the decision's tree as pruned advances it.
LEMMA PruneAdvances ==
    ASSUME EngineInv, NEW victims, trace_tree' = MarkPruned(DecisionTree, victims)
    PROVE  /\ TreeAdvances
           /\ Pruned' \ Pruned \subseteq victims /\ Active' = DecisionTree.active \ victims
<1>1. FlagsInv /\ IsTree(trace_tree)
  BY DEF EngineInv, FlagsInv
<1>2. HasFlags(trace_tree', Nodes \cup Scored, (Active \cup (Scored \ Nodes)) \ victims,
               Completed, Pruned \cup (victims \cap (Nodes \cup Scored)), Counter)
  BY <1>1, PrunedDecisionTree
<1>3. /\ Active' = (Active \cup (Scored \ Nodes)) \ victims /\ Completed' = Completed
      /\ Pruned' = Pruned \cup (victims \cap (Nodes \cup Scored)) /\ Counter' = Counter
  BY <1>2 DEF HasFlags, Active, Completed, Pruned, Counter
<1>4. Active' = DecisionTree.active \ victims
  BY <1>3, DecisionActive
<1>5. Active \subseteq Active' \cup Completed' \cup Pruned'
  BY <1>1, <1>3 DEF FlagsInv
<1>6. ~(Counter' > Counter)
  BY <1>1, <1>3, SMT DEF FlagsInv
<1> QED
  BY <1>3, <1>4, <1>5, <1>6 DEF TreeAdvances

\* A step of the engine core resets the tree or advances it.
LEMMA TreeStep ==
    ASSUME EngineInv, [Next]_vars
    PROVE  trace_tree' = EmptyTree \/ TreeAdvances
<1>0. FlagsInv /\ IsTree(trace_tree) /\ Counter \in Nat
  BY DEF EngineInv, FlagsInv
<1>1. CASE trace_tree' = trace_tree
  BY <1>0, <1>1, SameTreeAdvances
<1>2. ASSUME NEW r \in Roots, EngineAdd(r), trace_tree' # trace_tree PROVE TreeAdvances
  <2>1. trace_tree' = AddRoots(trace_tree, {RootId(r)})
    BY <1>2 DEF EngineAdd
  <2>2. /\ Active' = Active \cup {RootId(r)} /\ Completed' = Completed /\ Pruned' = Pruned
        /\ Counter' = Counter
    BY <1>0, <2>1, AddRootsFlags DEF HasFlags, Active, Completed, Pruned, Counter
  <2> QED
    BY <1>0, <2>2, SMT DEF TreeAdvances
<1>3. CASE ResetGambitState
  BY <1>3 DEF ResetGambitState, ResetTo
<1>4. CASE StepWithoutRequests
  <2>1. /\ Completed' = Completed /\ Pruned' = Pruned \cup (Active \cap Nodes)
        /\ Counter' = Counter
    BY <1>0, <1>4, MarkPrunedFlags
       DEF StepWithoutRequests, HasFlags, Nodes, Active, Completed, Pruned, Counter
  <2> QED
    BY <1>0, <2>1, SMT DEF FlagsInv, TreeAdvances
<1>5. CASE Decision
  <2>1. PICK victims : Prunes(victims)
    BY <1>5, DecisionPrunes
  <2>2. trace_tree' = MarkPruned(DecisionTree, victims)
    BY <2>1 DEF Prunes
  <2> QED
    BY <2>2, PruneAdvances
<1>6. CASE BranchCreated \/ BranchFailed
  <2> DEFINE p == Head(branch_queue)
             c == GenerateBranchId(trace_tree, p)
  <2>1. /\ MayCreateBranch(p)
        /\ \/ trace_tree' = AddBranch(trace_tree, p, c)
           \/ trace_tree' = RemoveTrace(AddBranch(trace_tree, p, c), c)
    BY <1>6 DEF BranchCreated, BranchFailed
  <2>2. p \in Live /\ p \in Nodes /\ Cardinality(Active) < MaxTraces
    BY <1>0, <2>1 DEF MayCreateBranch, CanTraceBranch, CanBranch, ActiveCount, FlagsInv, Active
  <2> HIDE DEF p
  <2>3. c \notin Nodes
    BY <2>2, FreshBranch
  <2> HIDE DEF c
  <2>4. /\ p \in trace_tree.nodes /\ c \notin trace_tree.nodes
        /\ trace_tree.active \cup trace_tree.completed \cup trace_tree.pruned
             \subseteq trace_tree.nodes
    BY <1>0, <2>2, <2>3 DEF FlagsInv, Nodes, Active, Completed, Pruned
  <2>5. /\ Active' \in {Active, Active \cup {c}} /\ Completed' = Completed /\ Pruned' = Pruned
    BY <1>0, <2>1, <2>4, AddBranchFlags, SMT DEF HasFlags, Active, Completed, Pruned
  <2>6. IsFiniteSet(Active) /\ c \notin Active
    <3>1. Active \subseteq Nodes /\ Nodes \subseteq admitted /\ IsFiniteSet(admitted)
      BY <1>0 DEF EngineInv, KnownInv, FlagsInv
    <3>2. Active \subseteq admitted /\ c \notin Active
      BY <2>3, <3>1
    <3> QED
      BY <3>1, <3>2, FS_Subset
  <2>7. /\ Cardinality(Active \cup {c}) = Cardinality(Active) + 1
        /\ Cardinality(Active) \in Nat /\ MaxTraces \in Nat
    BY <2>6, FS_AddElement, FS_CardinalityType, TreeAssumption
  <2>8. Cardinality(Active') <= MaxTraces
    <3>1. CASE Active' = Active
      BY <2>2, <2>7, <3>1, SMT
    <3>2. CASE Active' = Active \cup {c}
      BY <2>2, <2>7, <3>2, SMT
    <3> QED
      BY <2>5, <3>1, <3>2
  <2> QED
    BY <2>5, <2>8 DEF TreeAdvances
<1>7. ASSUME NEW boundaries, NEW natural, StepOutput(boundaries, natural) PROVE TreeAdvances
  <2> DEFINE ids == finished_req_ids'
  <2>1. trace_tree' = FinishTraces(trace_tree, ids)
    BY <1>7 DEF StepOutput
  <2>2. /\ Active' = (Active \cup (ids \ Nodes)) \ (ids \ Pruned)
        /\ Completed' = Completed \cup (ids \ Pruned) /\ Pruned' = Pruned /\ Counter' = Counter
    BY <1>0, <2>1, FinishTracesFlags DEF HasFlags, Nodes, Active, Completed, Pruned, Counter
  <2> HIDE DEF ids
  <2> QED
    BY <1>0, <2>2, SMT DEF TreeAdvances
<1>8. CASE UNCHANGED vars
  BY <1>1, <1>8 DEF vars, engineVars, decisionVars
<1>9. ASSUME NEW ids, EngineAbort(ids) PROVE trace_tree' = trace_tree
  BY <1>9 DEF EngineAbort, engineVars, decisionVars
<1>10. ASSUME NEW new, TakeScores(new) PROVE trace_tree' = trace_tree
  BY <1>10 DEF TakeScores, decisionVars
<1>11. CASE StepSchedule \/ NoScores \/ BranchingDone \/ BranchRefused \/ SubmitScoring
  BY <1>1, <1>11 DEF StepSchedule, NoScores, BranchingDone, BranchRefused, SubmitScoring,
     decisionVars
<1> QED
  BY <1>1, <1>2, <1>3, <1>4, <1>5, <1>6, <1>7, <1>8, <1>9, <1>10, <1>11
     DEF Next, Step, Branching

-----------------------------------------------------------------------------
(***************************************************************************)
(* The theorems.                                                           *)
(***************************************************************************)

\* The inductive invariant holds in every reachable state.
THEOREM EngineInvariant == Spec => []EngineInv
  BY EngineInitInv, EngineNextInv, PTL DEF Spec

\* The scheduler keeps its own invariant inside the engine core, which adds
\* branches in the middle of a step, forces EOS on requests that are still
\* prefilling and restarts the branch counter with every prompt.
THEOREM EngineKeepsScheduler == Spec => []SchedInv
<1>1. EngineInv => SchedInv
  BY DEF EngineInv
<1> QED
  BY <1>1, EngineInvariant, PTL

\* EOS is only ever forced on traces the tree has given up.
THEOREM EngineStopsOnlyPruned == Spec => []OnlyPrunedAreStopped
<1>1. EngineInv => OnlyPrunedAreStopped
  BY DEF EngineInv, StopInv, OnlyPrunedAreStopped, Pruned
<1> QED
  BY <1>1, EngineInvariant, PTL

\* A pruned trace that still runs is about to be stopped, unless its request
\* ignores EOS.
THEOREM EngineStopsThePruned == Spec => []PrunedTracesTerminate
<1>1. EngineInv => PrunedTracesTerminate
  BY DEF EngineInv, StopInv, PrunedTracesTerminate, Pruned
<1> QED
  BY <1>1, EngineInvariant, PTL

\* The tree and the scheduler differ only by ghosts, with either scorer.
THEOREM EngineGhosts == Spec => []OnlyGhostsLinger
<1>1. EngineInv => OnlyGhostsLinger
  BY DEF EngineInv, GhostInv, OnlyGhostsLinger, Active
<1> QED
  BY <1>1, EngineInvariant, PTL

\* Without the asynchronous scorer a completed trace cannot be ranked, pruned or
\* branched again.
THEOREM EngineCompletedIsOver ==
    ASSUME ~AsyncScorer PROVE Spec => []CompletedIsOver
<1>1. EngineInv => CompletedIsOver
  <2> SUFFICES ASSUME EngineInv
               PROVE  Completed \cap (Live \cup Scored \cup pending_low \cup pending_force) = {}
    BY DEF CompletedIsOver, Completed
  <2>1. LateScoresAreCold
    BY DEF LateScoresAreCold
  <2> QED
    BY <2>1 DEF EngineInv, OverInv, StopInv
<1> QED
  BY <1>1, EngineInvariant, PTL

\* Without the asynchronous scorer no trace of an earlier prompt gets into the
\* tree of the current one.
THEOREM EngineIsolatesPrompts ==
    ASSUME ~AsyncScorer PROVE Spec => []NoTraceFromEarlierPrompt
<1>1. EngineInv => NoTraceFromEarlierPrompt
  BY DEF EngineInv, GhostInv, NoTraceFromEarlierPrompt, Nodes
<1> QED
  BY <1>1, EngineInvariant, PTL

\* A trace still being ranked has its history in the worker, with either scorer and
\* through any sequence of prunes, branches, forced stops and resets.
THEOREM EngineKeepsHistories == Spec => []RankedHaveHistories
<1>1. EngineInv => RankedHaveHistories
  <2> SUFFICES ASSUME EngineInv, stage \in {"none", "score"}
               PROVE  (Scored \cap Active) \ earlier \subseteq histories
    BY DEF RankedHaveHistories, Active
  <2>1. HistoryInv /\ HandoverInv
    BY DEF EngineInv, WorkerHistoryInv
  <2>2. seq_hs_to_copy = <<>> /\ Range(<<>>) = {}
    BY <2>1, SMT DEF HandoverInv, Range
  <2>3. Inherited = {}
    BY <2>2 DEF Inherited
  <2> QED
    BY <2>1, <2>3 DEF HistoryInv, Tracked
<1> QED
  BY <1>1, EngineInvariant, PTL

\* Every history the worker holds is one the next reset frees, or belongs to scores
\* still on their way to the tree.
THEOREM EngineFreesHistories == Spec => []HistoriesAreFreed
<1>1. EngineInv => HistoriesAreFreed
  BY DEF EngineInv, WorkerHistoryInv, HistoryInv, HistoriesAreFreed, Nodes
<1> QED
  BY <1>1, EngineInvariant, PTL

\* A branch never takes the tree over its capacity.
THEOREM EngineWithinCapacity == Spec => BranchingWithinCapacity
<1>1. EngineInv /\ [Next]_vars =>
        [trace_tree'.branch_counter > trace_tree.branch_counter
           => Cardinality(trace_tree'.active) <= MaxTraces]_trace_tree
  <2> SUFFICES ASSUME EngineInv, [Next]_vars, Counter' > Counter
               PROVE  Cardinality(Active') <= MaxTraces
    BY DEF Counter, Active
  <2>1. Counter \in Nat
    BY DEF EngineInv, FlagsInv
  <2>2. trace_tree' = EmptyTree => Counter' = 0
    BY EmptyTreeFlags DEF HasFlags, Counter
  <2>3. trace_tree' # EmptyTree
    BY <2>1, <2>2, SMT
  <2> QED
    BY <2>3, TreeStep DEF TreeAdvances
<1> QED
  BY <1>1, EngineInvariant, PTL DEF Spec, BranchingWithinCapacity

\* The tree implements TraceLifecycle: every trace has one outcome and keeps it,
\* provided scores that arrive late cannot pass for those of a warm trace.
THEOREM EngineImplementsLifecycle ==
    ASSUME LateScoresAreCold PROVE Spec => TreeKeepsOutcomes
<1>1. Init => Lifecycle!LifecycleInit
  BY EmptyTreeFlags DEF Init, TreeInit, HasFlags, Lifecycle!LifecycleInit
<1>2. EngineInv /\ EngineInv' /\ [Next]_vars =>
        [Lifecycle!LifecycleNext]_(Lifecycle!lifecycleVars)
  <2> SUFFICES ASSUME EngineInv, EngineInv', [Next]_vars
               PROVE  Lifecycle!LifecycleNext
    OBVIOUS
  <2>1. CASE trace_tree' = EmptyTree
    BY <2>1, EmptyTreeFlags DEF HasFlags, Lifecycle!LifecycleNext, Lifecycle!Forget
  <2>2. CASE TreeAdvances
    <3>1. Active' \cap (Completed' \cup Pruned') = {} /\ Completed' \cap Pruned' = {}
      BY DEF EngineInv, FlagsInv, OverInv
    <3> QED
      BY <2>2, <3>1 DEF TreeAdvances, Lifecycle!LifecycleNext, Lifecycle!Progress,
         Lifecycle!Decided, Active, Completed, Pruned
  <2> QED
    BY <2>1, <2>2, TreeStep
<1> QED
  BY <1>1, <1>2, EngineInvariant, PTL DEF Spec, TreeKeepsOutcomes, Lifecycle!LifecycleSpec

\* In a round, what is pruned is ranked below what stays.
LEMMA RoundKeepsTheBest ==
    ASSUME EngineInv, NEW ranking \in Rankings(Contenders, trace_scores), NEW n \in Nat,
           NEW low, low = RoundVictims(ranking, n, MaxTraces),
           NEW v \in low, NEW i \in Contenders \ low
    PROVE  trace_scores[v] <= trace_scores[i]
<1> DEFINE cut == Cut(ranking, n, MaxTraces)
<1>1. /\ ranking \in Seq(Contenders) /\ Len(ranking) \in Nat
      /\ \A x \in Contenders : \E k \in 1 .. Len(ranking) : ranking[k] = x
      /\ \A j, k \in 1 .. Len(ranking) :
           j < k => trace_scores[ranking[j]] >= trace_scores[ranking[k]]
  BY ContendersFacts, RankingFacts, SMT
<1>2. MaxTraces \in Nat
  BY TreeAssumption
<1>3. cut \in 0 .. Len(ranking)
  BY <1>1, <1>2, CutFacts
<1>4. low = {ranking[k] : k \in cut + 1 .. Len(ranking)}
  BY RoundVictimsRanked
<1> HIDE DEF cut
<1>5. PICK k \in cut + 1 .. Len(ranking) : v = ranking[k]
  BY <1>4
<1>6. PICK j \in 1 .. Len(ranking) : i = ranking[j]
  BY <1>1
<1>7. j \notin cut + 1 .. Len(ranking)
  BY <1>4, <1>6
<1>8. j < k /\ k \in 1 .. Len(ranking)
  BY <1>1, <1>3, <1>5, <1>7, SMT
<1>9. trace_scores[i] >= trace_scores[v]
  BY <1>1, <1>5, <1>6, <1>8
<1>10. v \in Scored /\ i \in Scored
  BY RoundVictimsRanked, ContendersFacts
<1>11. trace_scores[i] \in Int /\ trace_scores[v] \in Int
  BY <1>10 DEF EngineInv, KnownInv
<1> QED
  BY <1>9, <1>11

\* A tournament decision prunes no trace in favour of a worse one.
THEOREM EngineKeepsTheBest ==
    ASSUME TournamentMode PROVE Spec => KeepsTheBest
<1> DEFINE Best ==
      stage = "decide" =>
         \A v \in Scored \cap (trace_tree'.pruned \ trace_tree.pruned) :
            \/ trace_scores[v] < HardFloor
            \/ \A i \in Scored \cap trace_tree'.active : trace_scores[v] <= trace_scores[i]
<1>1. ASSUME EngineInv, [Next]_vars PROVE [Best]_vars
  <2> SUFFICES ASSUME stage = "decide", Next,
                      NEW v \in Scored \cap (Pruned' \ Pruned), NEW i \in Scored \cap Active'
               PROVE  trace_scores[v] < HardFloor \/ trace_scores[v] <= trace_scores[i]
    BY <1>1 DEF Pruned, Active
  <2>1. phase = "scheduled"
    BY <1>1 DEF EngineInv, StageInv
  <2>2. Decision
    <3>1. ~Schedule
      BY <1>1, <2>1, ScheduleSets DEF EngineInv
    <3> QED
      BY <2>1, <3>1 DEF Next, Step, Branching, EngineAdd, ClientAdd, EngineAbort, ClientAbort,
         ResetGambitState, ResetTo, StepWithoutRequests, StepSchedule, NoScores, TakeScores,
         BranchingDone, BranchRefused, BranchCreated, BranchFailed, BranchLoop, SubmitScoring,
         StepOutput
  <2>3. CASE ForceStopAll
    <3>1. Prunes(DecisionTree.active \ pending_force)
      BY <1>1, <2>3, ForceStopAllPrunes
    <3>2. Active' = DecisionTree.active \ (DecisionTree.active \ pending_force)
      BY <1>1, <3>1, PruneAdvances DEF Prunes
    <3>3. pending_force \subseteq Pruned /\ DecisionTree.active \cap Pruned = {}
      BY <1>1, DecisionActive DEF EngineInv, StopInv
    <3> QED
      BY <3>2, <3>3
  <2>4. CASE TournamentNoRound \/ TournamentRound
    <3>1. PICK victims : TournamentPrunes(victims) /\ Prunes(victims)
      BY <1>1, <2>4, TournamentDecision
    <3>2. v \in victims /\ i \in DecisionTree.active \ victims
      BY <1>1, <3>1, PruneAdvances DEF Prunes
    <3>3. CASE v \in HardFloorVictims
      BY <3>3 DEF HardFloorVictims
    <3>4. CASE v \notin HardFloorVictims
      <4> DEFINE n == ActiveCount(MarkPruned(DecisionTree, HardFloorVictims))
      <4>1. PICK ranking \in Rankings(Contenders, trace_scores) :
              victims = HardFloorVictims \cup RoundVictims(ranking, n, MaxTraces)
        BY <3>1, <3>2, <3>4 DEF TournamentPrunes
      <4>2. n \in Nat
        BY <1>1, ContendersFacts
      <4> DEFINE low == RoundVictims(ranking, n, MaxTraces)
      <4> HIDE DEF n
      <4>3. v \in low /\ i \notin low /\ i \notin HardFloorVictims
        BY <3>2, <3>4, <4>1
      <4>4. i \notin pending_low
        BY <1>1, <3>2, DecisionActive DEF EngineInv, StopInv
      <4>5. i \in Contenders \ low
        BY <3>2, <4>3, <4>4 DEF Contenders
      <4> QED
        BY <1>1, <4>2, <4>3, <4>5, RoundKeepsTheBest
    <3> QED
      BY <3>3, <3>4
  <2> QED
    BY <2>2, <2>3, <2>4 DEF Decision, ThresholdStep
<1> QED
  BY <1>1, EngineInvariant, PTL DEF Spec, KeepsTheBest
=============================================================================
