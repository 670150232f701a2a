---------------------------- MODULE GambitEngine ----------------------------
(***************************************************************************)
(* vllm/v1/engine/core.py: EngineCore with Gambit enabled, composing the   *)
(* trace tree (what the beam search believes) with the scheduler (what     *)
(* really runs).                                                           *)
(*                                                                         *)
(* The engine core is one thread.  Between two calls of step() it handles  *)
(* add, abort and reset requests (phase = "idle"); step() itself is cut    *)
(* into the scheduler's own steps and, once the batch has executed, the    *)
(* stages                                                                  *)
(*                                                                         *)
(*    "score"   take the scorer's results (all of them waited for now, or, *)
(*              with GAMBIT_ASYNC_SCORER, those submitted one step ago);   *)
(*    "decide"  _gambit_decision_step up to its last prune;                *)
(*    "branch"  one _gambit_create_branch after the other;                 *)
(*    "submit"  start the next asynchronous scoring;                       *)
(*    "output"  count tokens, force stops, update_from_output, finalize.   *)
(*                                                                         *)
(* Scores are averages taken from a small set: a new score moves a trace's *)
(* average anywhere.  Token counts matter only up to the thresholds they   *)
(* are compared with and stop counting there.                              *)
(***************************************************************************)
EXTENDS TraceTree, Tournament, Scheduler

CONSTANTS SampledRoots,         \* roots whose id has the "{index}_" of n > 1
          Warmup,               \* tournament_warmup_tokens
          HardFloor,            \* tournament_hard_floor
          CheckInterval,        \* tournament_check_interval
          StopAfter,            \* stop_after_completed_traces; 0 is never
          TournamentMode,       \* or the legacy threshold mode
          ThetaBranch, ThetaPrune, MinTokensPrune,
          AsyncScorer,          \* GAMBIT_ASYNC_SCORER
          IgnoreEos             \* roots whose sampling parameters set ignore_eos

ASSUME EngineAssumption ==
    /\ SampledRoots \subseteq Roots
    /\ Warmup \in Nat /\ HardFloor \in Int /\ CheckInterval \in Nat
    /\ StopAfter \in Nat
    /\ ThetaBranch \in Int /\ ThetaPrune \in Int /\ MinTokensPrune \in Nat
    /\ TournamentMode \in BOOLEAN /\ AsyncScorer \in BOOLEAN
    /\ IgnoreEos \subseteq Roots

VARIABLES trace_scores,         \* id -> average of the scores received
          pending_low,          \* pending_low_score_stops
          pending_force,        \* pending_force_stops
          token_counts,         \* trace_token_counts: tokens since creation
          pending_hs,           \* pending_hs_classification
          since_round,          \* steps since the last round, -1 before the first
          future,               \* ids of the scoring in flight; {} if none
          stage,
          branch_queue,         \* parents still to be branched in this round
          histories,            \* worker: keys of _all_hidden_states_by_req
          seq_hs_to_clear,      \* ids whose history the worker is to drop
          seq_hs_to_copy,       \* <<parent, child>> pairs it is to copy
          earlier               \* history: ids admitted before the last reset

decisionVars == <<trace_tree, pending_low, pending_force, since_round>>
historyQueue == <<seq_hs_to_clear, seq_hs_to_copy>>
scoreVars == <<trace_scores, pending_hs, future, histories, historyQueue>>
engineVars == <<decisionVars, scoreVars, token_counts, stage, branch_queue, earlier>>
vars == <<schedVars, engineVars>>

Init ==
    /\ SchedInit
    /\ TreeInit
    /\ trace_scores = EmptyDict /\ token_counts = EmptyDict
    /\ pending_low = {} /\ pending_force = {} /\ pending_hs = {}
    /\ since_round = -1
    /\ future = {}
    /\ stage = "none" /\ branch_queue = <<>>
    /\ histories = {} /\ seq_hs_to_clear = {} /\ seq_hs_to_copy = <<>>
    /\ earlier = {}

Scored == DOMAIN trace_scores

Tokens(id) == Get(token_counts, id, 0)

TokenCap == Max({Warmup, MinTokens, MinTokensPrune})

\* Seeded fault: the worker is not called when there is nothing to clear.
SyncIfCleared(h, clear, copies) ==
    IF clear = {} THEN h
    ELSE (h \ clear) \cup {pair[2] : pair \in {q \in Range(copies) : q[1] \in h \ clear}}

\* The worker's sync_sequence_histories: all the clears, then the copies.
SyncSequenceHistories(h, clear, copies) ==
    (h \ clear) \cup {pair[2] : pair \in {q \in Range(copies) : q[1] \in h \ clear}}

-----------------------------------------------------------------------------
(***************************************************************************)
(* Handlers between two steps.                                             *)
(***************************************************************************)

\* EngineCore.add_request; only the id of a parallel sample is registered at once.
EngineAdd(r) ==
    /\ ClientAdd(r)
    /\ trace_tree' = IF r \in SampledRoots /\ RootId(r) \notin trace_tree.nodes
                     THEN AddRoots(trace_tree, {RootId(r)})
                     ELSE trace_tree
    /\ UNCHANGED <<pending_low, pending_force, since_round, scoreVars, token_counts,
                   stage, branch_queue, earlier>>

\* EngineCore.abort_requests: the tree is not told.
EngineAbort(ids) ==
    /\ ClientAbort(ids)
    /\ UNCHANGED engineVars

\* What a reset does, given what it leaves of the scores and the stops and the
\* ids whose histories it frees; the asynchronous scoring in flight survives it.
ResetTo(scores, low, force, freed) ==
    /\ phase = "idle"
    /\ Len(waiting) + Len(running) = 0
    /\ histories' = SyncSequenceHistories(histories, freed, <<>>)
    /\ trace_tree' = EmptyTree
    /\ trace_scores' = scores /\ token_counts' = EmptyDict
    /\ pending_low' = low /\ pending_force' = force /\ pending_hs' = {}
    /\ seq_hs_to_clear' = {} /\ seq_hs_to_copy' = <<>>
    /\ since_round' = -1
    /\ earlier' = admitted
    /\ UNCHANGED <<schedVars, future, stage, branch_queue>>

\* Seeded fault: the stops still pending survive the reset.
ResetButPendingStops ==
    ResetTo(EmptyDict, pending_low, pending_force, trace_tree.nodes)

\* Seeded fault: the scores survive the reset.
ResetButScores == ResetTo(trace_scores, {}, {}, trace_tree.nodes)

\* Seeded fault: only the histories of completed traces are freed.
ResetButHistories == ResetTo(EmptyDict, {}, {}, trace_tree.completed)

\* reset_gambit_state
ResetGambitState == ResetTo(EmptyDict, {}, {}, trace_tree.nodes)

\* step() with nothing in the scheduler: whatever is still active is given up.
StepWithoutRequests ==
    /\ phase = "idle"
    /\ ~HasRequests
    /\ trace_tree' = MarkPruned(trace_tree, trace_tree.active)
    /\ pending_low' = pending_low \ trace_tree.active
    /\ pending_force' = pending_force \ trace_tree.active
    /\ UNCHANGED <<schedVars, since_round, scoreVars, token_counts, stage,
                   branch_queue, earlier>>

-----------------------------------------------------------------------------
(***************************************************************************)
(* step(): schedule and execute, then take the scores.                     *)
(***************************************************************************)
StepSchedule ==
    /\ Schedule
    /\ stage' = IF phase' = "scheduled" THEN "score" ELSE "none"
    /\ UNCHANGED <<decisionVars, scoreVars, token_counts, branch_queue, earlier>>

\* The ids whose scores this step receives.
Arriving == IF AsyncScorer THEN future ELSE pending_hs \cap Scheduled

AfterDecision == IF AsyncScorer THEN "submit" ELSE "output"

NoScores ==
    /\ stage = "score"
    /\ Arriving = {}
    /\ stage' = AfterDecision
    /\ UNCHANGED <<schedVars, decisionVars, scoreVars, token_counts, branch_queue, earlier>>

TakeScores(new) ==
    /\ stage = "score"
    /\ Arriving # {}
    /\ trace_scores' = Update(trace_scores, new)
    /\ pending_hs' = pending_hs \ Arriving
    /\ future' = {}
    /\ histories' = IF AsyncScorer THEN histories ELSE histories \cup Arriving
    /\ UpdateTraceScores(trace_scores')
    /\ stage' = "decide"
    /\ UNCHANGED <<queueVars, loopVars, historyVars, pending_pruned, worker_requests,
                   decisionVars, historyQueue, token_counts, branch_queue, earlier>>

-----------------------------------------------------------------------------
(***************************************************************************)
(* _gambit_decision_step, up to the branches it asks for.                  *)
(***************************************************************************)

\* The tree once every scored trace is in it and the step is counted.
DecisionTree == AddRoots(IncrementStep(trace_tree), Scored \ trace_tree.nodes)

StepsSinceRound ==
    IF since_round \in 0 .. CheckInterval - 1 THEN since_round + 1 ELSE since_round

ShouldStopAfterCompleted(t) == StopAfter > 0 /\ CompletedCount(t) >= StopAfter

\* Seeded fault: the stop of a trace that is still waiting is not recorded.
ForceStopRunning ==
    /\ stage = "decide"
    /\ ShouldStopAfterCompleted(DecisionTree)
    /\ LET stop == DecisionTree.active \ pending_force
       IN  /\ trace_tree' = MarkPruned(DecisionTree, stop)
           /\ pending_force' = pending_force \cup (stop \cap Range(running))
    /\ since_round' = StepsSinceRound
    /\ stage' = AfterDecision
    /\ UNCHANGED <<schedVars, pending_low, scoreVars, token_counts, branch_queue, earlier>>

\* _gambit_force_stop_all_active_traces, and the early return after it.
ForceStopAll ==
    /\ stage = "decide"
    /\ ShouldStopAfterCompleted(DecisionTree)
    /\ LET stop == DecisionTree.active \ pending_force
       IN  /\ trace_tree' = MarkPruned(DecisionTree, stop)
           /\ pending_force' = pending_force \cup stop
    /\ since_round' = StepsSinceRound
    /\ stage' = AfterDecision
    /\ UNCHANGED <<schedVars, pending_low, scoreVars, token_counts, branch_queue, earlier>>

\* Seeded fault: pruned traces are not marked for their stop.
PruneWithoutStop(victims, queue, rounds) ==
    /\ trace_tree' = MarkPruned(DecisionTree, victims)
    /\ since_round' = rounds
    /\ branch_queue' = queue
    /\ seq_hs_to_clear' = victims
    /\ stage' = "branch"
    /\ UNCHANGED <<schedVars, pending_low, pending_force, trace_scores, pending_hs, future,
                   histories, seq_hs_to_copy, token_counts, earlier>>

\* _gambit_prune_trace for every id of a set, then the branches in queue order.
PruneThenBranch(victims, queue, rounds) ==
    /\ trace_tree' = MarkPruned(DecisionTree, victims)
    /\ pending_low' = pending_low \cup victims
    /\ since_round' = rounds
    /\ branch_queue' = queue
    /\ seq_hs_to_clear' = victims
    /\ stage' = "branch"
    /\ UNCHANGED <<schedVars, pending_force, trace_scores, pending_hs, future,
                   histories, seq_hs_to_copy, token_counts, earlier>>

\* Step A of the tournament.
HardFloorVictims ==
    {i \in Scored \ pending_low : Tokens(i) >= Warmup /\ trace_scores[i] < HardFloor}

RoundDue ==
    IF since_round < 0 THEN \E i \in Scored : Tokens(i) >= Warmup
    ELSE StepsSinceRound >= CheckInterval

TournamentDecides ==
    stage = "decide" /\ TournamentMode /\ ~ShouldStopAfterCompleted(DecisionTree)

TournamentNoRound ==
    /\ TournamentDecides
    /\ ~RoundDue
    /\ PruneThenBranch(HardFloorVictims, <<>>, StepsSinceRound)

\* active_traces: scored, still active and not already being stopped.
Contenders == (Scored \cap DecisionTree.active) \ (pending_low \cup HardFloorVictims)

\* Step B: a round over the ranked contenders.
TournamentRound ==
    /\ TournamentDecides
    /\ RoundDue
    /\ LET active_n == ActiveCount(MarkPruned(DecisionTree, HardFloorVictims))
           warm == {i \in Contenders : Tokens(i) >= Warmup}
       IN  \E ranking \in Rankings(Contenders, trace_scores) :
             IF Contenders = {}
             THEN PruneThenBranch(HardFloorVictims, <<>>, 0)
             ELSE \E queue \in RoundParents(ranking, active_n, MaxTraces, warm) :
                    PruneThenBranch(
                        HardFloorVictims \cup RoundVictims(ranking, active_n, MaxTraces),
                        queue, 0)

\* _gambit_threshold_step
ShouldPrune(i) ==
    /\ Tokens(i) >= MinTokensPrune
    /\ i \notin pending_low
    /\ trace_scores[i] < ThetaPrune

ShouldBranch(i) ==
    /\ trace_scores[i] > ThetaBranch
    /\ Tokens(i) >= MinTokens
    /\ i \in DecisionTree.active
    /\ DecisionTree.since_branch[i] >= 0 => DecisionTree.since_branch[i] >= Cooldown

ThresholdStep ==
    /\ stage = "decide"
    /\ ~TournamentMode
    /\ ~ShouldStopAfterCompleted(DecisionTree)
    /\ LET victims == {i \in Scored : ShouldPrune(i)}
       IN  \E queue \in Rankings({i \in Scored \ victims : ShouldBranch(i)}, trace_scores) :
             PruneThenBranch(victims, queue, StepsSinceRound)

-----------------------------------------------------------------------------
(***************************************************************************)
(* The branches of a decision, one parent after the other.                 *)
(***************************************************************************)
BranchLoop ==
    stage = "branch" /\ branch_queue # <<>> /\ ActiveCount(trace_tree) < MaxTraces

\* The end of _gambit_decision_step: the worker's histories follow the decision.
BranchingDone ==
    /\ stage = "branch"
    /\ ~BranchLoop
    /\ branch_queue' = <<>>
    /\ histories' = SyncSequenceHistories(histories, seq_hs_to_clear, seq_hs_to_copy)
    /\ seq_hs_to_clear' = {} /\ seq_hs_to_copy' = <<>>
    /\ stage' = AfterDecision
    /\ UNCHANGED <<schedVars, decisionVars, trace_scores, pending_hs, future,
                   token_counts, earlier>>

\* The gates of _gambit_create_branch, and the bound on branches.
MayCreateBranch(p) ==
    /\ ~ShouldStopAfterCompleted(trace_tree)
    /\ CanTraceBranch(trace_tree, p, Tokens(p))
    /\ p \in Live
    /\ trace_tree.branch_counter < MaxBranches

BranchRefused ==
    /\ BranchLoop
    /\ ~MayCreateBranch(Head(branch_queue))
    /\ branch_queue' = Tail(branch_queue)
    /\ UNCHANGED <<schedVars, decisionVars, scoreVars, token_counts, stage, earlier>>

\* The child replays the parent's tokens as its prompt, keeps its arrival time
\* and starts from its scores with no token of its own.
BranchCreated ==
    /\ BranchLoop
    /\ LET p == Head(branch_queue)
           c == GenerateBranchId(trace_tree, p)
       IN  /\ MayCreateBranch(p)
           /\ trace_tree' = AddBranch(trace_tree, p, c)
           /\ AddRequest(c, Request(requests[p].num_tokens, requests[p].arrival))
           /\ trace_scores' = IF p \in Scored
                              THEN Update(trace_scores, [i \in {c} |-> trace_scores[p]])
                              ELSE trace_scores
           /\ token_counts' = Update(token_counts, [i \in {c} |-> 0])
           /\ seq_hs_to_copy' = Append(seq_hs_to_copy, <<p, c>>)
    /\ branch_queue' = Tail(branch_queue)
    /\ UNCHANGED <<pending_low, pending_force, since_round, pending_hs, future, histories,
                   seq_hs_to_clear, stage, earlier>>

\* The child request could not be built: the node is taken out again.
BranchFailed ==
    /\ BranchLoop
    /\ LET p == Head(branch_queue)
           c == GenerateBranchId(trace_tree, p)
       IN  /\ MayCreateBranch(p)
           /\ trace_tree' = RemoveTrace(AddBranch(trace_tree, p, c), c)
    /\ branch_queue' = Tail(branch_queue)
    /\ UNCHANGED <<schedVars, pending_low, pending_force, since_round, scoreVars,
                   token_counts, stage, earlier>>

SubmitScoring ==
    /\ stage = "submit"
    /\ future' = pending_hs \cap Scheduled
    /\ histories' = histories \cup future'
    /\ stage' = "output"
    /\ UNCHANGED <<schedVars, decisionVars, trace_scores, pending_hs, historyQueue,
                   token_counts, branch_queue, earlier>>

-----------------------------------------------------------------------------
(***************************************************************************)
(* The end of step(): triggers for the next scoring, forced stops,         *)
(* update_from_output and _finalize_scores.                                *)
(***************************************************************************)

\* Seeded fault: a pruned trace that finishes is marked completed.
CompleteAll(t, ids) == MarkCompleted(AddRoots(t, ids \ t.nodes), ids)

\* _gambit_on_request_finished for every id of a set.
FinishTraces(t, ids) ==
    LET known == AddRoots(t, ids \ t.nodes)
    IN  MarkCompleted(known, ids \ known.pruned)

\* The requests whose sampled token is replaced by EOS.
Injected == (pending_low \cup pending_force) \cap Scheduled

CountTokens ==
    Update(token_counts,
           [i \in Scheduled |->
               IF i \in Sampled THEN Min({TokenCap, Tokens(i) + 1}) ELSE Tokens(i)])

\* check_stop acts on EOS; a branch copies the sampling parameters of its parent.
HonoursEos(i) == i[Len(i)] \notin IgnoreEos

\* boundaries sampled a step boundary, natural sampled a stop of their own.
StepOutput(boundaries, natural) ==
    /\ stage = "output"
    /\ LET emitted == Sampled \cup Injected
           stopped == {i \in Injected : HonoursEos(i)}
                        \cup (natural \ Injected) \cup ReachesMaxLen(emitted)
       IN  UpdateFromOutput(emitted, stopped)
    /\ pending_hs' = (pending_hs \ finished_req_ids) \cup boundaries
    /\ token_counts' = Drop(CountTokens, finished_req_ids')
    /\ trace_scores' = Drop(trace_scores, finished_req_ids')
    /\ pending_low' = pending_low \ (Injected \cup finished_req_ids')
    /\ pending_force' = pending_force \ (Injected \cup finished_req_ids')
    /\ trace_tree' = FinishTraces(trace_tree, finished_req_ids')
    /\ stage' = "none"
    /\ UNCHANGED <<since_round, future, histories, historyQueue, branch_queue, earlier>>

Decision == ForceStopAll \/ TournamentNoRound \/ TournamentRound \/ ThresholdStep

Branching == BranchingDone \/ BranchRefused \/ BranchCreated \/ BranchFailed

Step ==
    \/ StepSchedule
    \/ NoScores
    \/ \E new \in [Arriving -> Scores] : TakeScores(new)
    \/ Decision
    \/ Branching
    \/ SubmitScoring
    \/ \E boundaries \in SUBSET Sampled, natural \in SUBSET Sampled :
            StepOutput(boundaries, natural)

Next ==
    \/ \E r \in Roots : EngineAdd(r)
    \/ \E ids \in SUBSET Live : EngineAbort(ids)
    \/ ResetGambitState
    \/ StepWithoutRequests
    \/ Step

Spec == Init /\ [][Next]_vars

\* run_busy_loop steps the engine as long as it has requests.
FairSpec == Spec /\ WF_vars(Step)

-----------------------------------------------------------------------------
\* A trace pruned while its request still runs is one the engine is about to
\* stop: _gambit_prune_trace and the forced stop leave no trace decoding that the
\* tree has given up.  Only a request with ignore_eos outlives its stop.
PrunedTracesTerminate ==
    \A i \in Live \cap trace_tree.pruned :
        HonoursEos(i) => i \in pending_low \cup pending_force

\* EOS is only ever forced on traces the tree has given up, whatever was
\* finalized, evicted or reset since the stop was recorded.
OnlyPrunedAreStopped == pending_low \cup pending_force \subseteq trace_tree.pruned

\* The tree's view and the scheduler's view differ only by ghosts: a trace that
\* is active without a request was evicted for memory or aborted, or its scores
\* arrived after a reset; any other end of a request reaches the tree in the same
\* step.
OnlyGhostsLinger == trace_tree.active \ Live \subseteq evicted \cup aborted \cup earlier

\* A completed trace no longer runs, is not scored and is not waiting to be
\* stopped: it cannot be ranked, pruned or branched again.
CompletedIsOver ==
    trace_tree.completed \cap (Live \cup Scored \cup pending_low \cup pending_force) = {}

\* The tree only holds traces of the current prompt: reset_gambit_state is there
\* "to avoid leaking traces across independent generate() calls".
NoTraceFromEarlierPrompt == trace_tree.nodes \cap earlier = {}

\* A tournament decision prunes no trace in favour of a worse one: whatever is
\* pruned is below the hard floor or scores no better than any ranked trace left
\* (_gambit_tournament_step, after any history of inherited and late scores).
KeepsTheBest ==
    [][stage = "decide" =>
         \A v \in Scored \cap (trace_tree'.pruned \ trace_tree.pruned) :
            \/ trace_scores[v] < HardFloor
            \/ \A i \in Scored \cap trace_tree'.active : trace_scores[v] <= trace_scores[i]]_vars

\* A trace still being ranked has its history in the worker, inherited from its
\* parent if it is a branch: the clears and copies of a decision reach the worker
\* in one call, in which no parent is cleared before it is copied, whatever was
\* pruned, branched or stopped early before.
RankedHaveHistories ==
    stage \in {"none", "score"} =>
        (Scored \cap trace_tree.active) \ earlier \subseteq histories

\* No history is lost to the next reset, which frees those of the traces in the
\* tree ("failing to free them leaks ~100-400 MB of VRAM per question"): one
\* that is not in the tree yet belongs to scores still on their way to it.
HistoriesAreFreed == histories \subseteq trace_tree.nodes \cup Scored \cup future

Lifecycle ==
    INSTANCE TraceLifecycle WITH active <- trace_tree.active,
                                 completed <- trace_tree.completed,
                                 pruned <- trace_tree.pruned

\* Every trace has one outcome and keeps it: the tree implements TraceLifecycle.
TreeKeepsOutcomes == Lifecycle!LifecycleSpec

\* The engine runs dry: whatever is branched, pruned, evicted or stopped, there
\* comes a time after which no request is left in the scheduler.
EngineDrains == <>[](Live = {})
=============================================================================
