---------------------------- MODULE EngineLemmas ----------------------------
(***************************************************************************)
(* The inductive invariant of the engine core, what the operations of the  *)
(* tree and the scheduler do to the sets it speaks of, and the steps of    *)
(* the engine that neither prune nor branch nor end a batch.               *)
(***************************************************************************)
EXTENDS GambitEngine, ComponentProofs

-----------------------------------------------------------------------------
(***************************************************************************)
(* The inductive invariant.                                                *)
(***************************************************************************)

\* The name of the root an id descends from.
RootOf(id) == id[Len(id)]

\* The sets of traces the invariant relates.
Nodes == trace_tree.nodes
Active == trace_tree.active
Completed == trace_tree.completed
Pruned == trace_tree.pruned
Counter == trace_tree.branch_counter
Counted == DOMAIN token_counts

\* The three flags of the tree's nodes exclude each other, up to a trace that is
\* pruned after it completed.
FlagsInv ==
    /\ IsTree(trace_tree) /\ Counter \in Nat
    /\ Active \cup Completed \cup Pruned \subseteq Nodes
    /\ Active \cap (Completed \cup Pruned) = {}

\* Where the ids the engine holds come from.
KnownInv ==
    /\ Nodes \cup Scored \cup future \cup pending_hs \cup earlier \subseteq admitted
    /\ IsFiniteSet(admitted)
    /\ \A i \in Scored : trace_scores[i] \in Int
    /\ \A i \in Live : requests[i].num_tokens > 0

\* The stages of step() follow the execution of a batch; scorings are only left in
\* flight by the asynchronous scorer.
StageInv ==
    /\ stage \in {"none", "score", "decide", "branch", "submit", "output"}
    /\ stage # "none" <=> phase = "scheduled"
    /\ phase = "scheduled" => finished_req_ids = {}
    /\ ~AsyncScorer => stage # "submit" /\ future = {}

\* Why a branch gets an id no request ever had although the counter starts again
\* with every prompt: the requests alive descend from roots that were admitted
\* after the last reset, and the branches since then bear smaller numbers.
NamesInv ==
    /\ \A j \in admitted : Len(j) > 0 /\ RootId(RootOf(j)) \in admitted
    /\ \A i \in Live, j \in earlier : RootOf(i) # RootOf(j)
    /\ \A j \in admitted \ earlier : Len(j) = 1 \/ (Head(j) \in Nat /\ Head(j) < Counter)

\* Scores that arrive a step late do not count as warmed up by default.
LateScoresAreCold == AsyncScorer => Warmup > 0 /\ MinTokensPrune > 0

\* EOS is forced on traces the tree has given up, and on all of them that run and
\* would heed it.
StopInv ==
    /\ pending_low \cup pending_force \subseteq Pruned
    /\ \A i \in Live \cap Pruned : HonoursEos(i) => i \in pending_low \cup pending_force

\* A completed trace is over.
OverInv ==
    /\ Completed \cap (Live \cup Counted) = {}
    /\ ~AsyncScorer => Completed \cap Scored = {}
    /\ LateScoresAreCold => Completed \cap Pruned = {}

\* A trace that is active, or will be once its scores are seen, runs or is a ghost.
GhostInv ==
    /\ Active \cup ((Scored \cup future) \ Nodes)
         \subseteq Live \cup evicted \cup aborted \cup earlier
    /\ ~AsyncScorer => (Nodes \cup Scored) \cap earlier = {}

\* The branches whose histories the worker is to copy, and those whose parent has one.
Copied == {pair[2] : pair \in Range(seq_hs_to_copy)}
Inherited ==
    {pair[2] : pair \in {q \in Range(seq_hs_to_copy) : q[1] \in histories \ seq_hs_to_clear}}

\* The traces of this prompt with scores, or with scores on their way, that the
\* tree has not given up.
Tracked == ((Scored \cup future) \ (Nodes \ Active)) \ earlier

\* Every such trace has its history or is about to inherit it, and no history
\* belongs to a trace the tree will never hear of.
HistoryInv ==
    /\ seq_hs_to_clear \subseteq Pruned /\ Copied \subseteq Nodes
    /\ Tracked \subseteq histories \cup Inherited
    /\ histories \subseteq Nodes \cup Scored \cup future

\* The parents still to be branched are no branches of the same decision.
QueueInv ==
    /\ branch_queue \in Seq(Ids) /\ seq_hs_to_copy \in Seq(Ids \X Ids)
    /\ Range(branch_queue) \subseteq admitted \ Copied

\* A decision hands its clears and copies over before it ends, has every scored
\* trace in the tree, and no scoring is in flight while it lasts.
HandoverInv ==
    /\ stage # "branch" => seq_hs_to_clear = {} /\ seq_hs_to_copy = <<>>
    /\ stage # "decide" => Scored \subseteq Nodes
    /\ stage \in {"decide", "branch", "submit"} => future = {}

\* What concerns the histories.
WorkerHistoryInv == HistoryInv /\ QueueInv /\ HandoverInv

\* The invariant every step of the engine core preserves.
EngineInv ==
    /\ SchedInv /\ FlagsInv /\ KnownInv /\ StageInv /\ NamesInv
    /\ StopInv /\ OverInv /\ GhostInv /\ WorkerHistoryInv

-----------------------------------------------------------------------------
\* The steps are set reasoning, Zenon's part; a step with arithmetic or sequences
\* names SMT.
USE Zenon

(***************************************************************************)
(* What the operations of the tree do to the flags of its nodes.           *)
(***************************************************************************)

\* A tree with these nodes, flags and counter.
HasFlags(t, nodes, active, completed, pruned, counter) ==
    /\ IsTree(t)
    /\ t.nodes = nodes /\ t.active = active /\ t.completed = completed
    /\ t.pruned = pruned /\ t.branch_counter = counter

\* A tree that is reset.
LEMMA EmptyTreeFlags == HasFlags(EmptyTree, {}, {}, {}, {}, 0)
<1>1. IsTree(EmptyTree)
  BY DEF EmptyTree, IsTree, TreeFields
<1> QED
  BY <1>1 DEF HasFlags, EmptyTree

\* add_root
LEMMA AddRootsFlags ==
    ASSUME NEW t, IsTree(t), NEW ids
    PROVE  HasFlags(AddRoots(t, ids), t.nodes \cup ids, t.active \cup ids,
                    t.completed, t.pruned, t.branch_counter)
<1> DEFINE u == AddRoots(t, ids)
<1>1. /\ u.nodes = t.nodes \cup ids /\ u.active = t.active \cup ids
      /\ u.completed = t.completed /\ u.pruned = t.pruned
      /\ u.branch_counter = t.branch_counter
  BY DEF AddRoots, IsTree, TreeFields
<1>2. IsTree(u)
  BY DEF AddRoots, IsTree
<1> QED
  BY <1>1, <1>2 DEF HasFlags

\* mark_pruned
LEMMA MarkPrunedFlags ==
    ASSUME NEW t, IsTree(t), NEW ids
    PROVE  HasFlags(MarkPruned(t, ids), t.nodes, t.active \ ids, t.completed,
                    t.pruned \cup (ids \cap t.nodes), t.branch_counter)
<1> DEFINE u == MarkPruned(t, ids)
<1>1. /\ u.nodes = t.nodes /\ u.active = t.active \ ids
      /\ u.completed = t.completed /\ u.pruned = t.pruned \cup (ids \cap t.nodes)
      /\ u.branch_counter = t.branch_counter
  BY DEF MarkPruned, IsTree, TreeFields
<1>2. IsTree(u)
  BY DEF MarkPruned, IsTree
<1> QED
  BY <1>1, <1>2 DEF HasFlags

\* _gambit_on_request_finished: registered if need be, completed unless pruned.
LEMMA FinishTracesFlags ==
    ASSUME NEW t, IsTree(t), NEW ids
    PROVE  HasFlags(FinishTraces(t, ids), t.nodes \cup ids,
                    (t.active \cup (ids \ t.nodes)) \ (ids \ t.pruned),
                    t.completed \cup (ids \ t.pruned), t.pruned, t.branch_counter)
<1> DEFINE known == AddRoots(t, ids \ t.nodes)
           u == MarkCompleted(known, ids \ known.pruned)
<1>1. /\ IsTree(known) /\ known.nodes = t.nodes \cup (ids \ t.nodes)
      /\ known.active = t.active \cup (ids \ t.nodes) /\ known.completed = t.completed
      /\ known.pruned = t.pruned /\ known.branch_counter = t.branch_counter
  BY AddRootsFlags DEF HasFlags
<1> HIDE DEF known
<1>2. /\ u.nodes = known.nodes /\ u.active = known.active \ (ids \ known.pruned)
      /\ u.completed = known.completed \cup ((ids \ known.pruned) \cap known.nodes)
      /\ u.pruned = known.pruned /\ u.branch_counter = known.branch_counter
  BY <1>1 DEF MarkCompleted, IsTree, TreeFields
<1>3. IsTree(u)
  BY <1>1 DEF MarkCompleted, IsTree
<1>4. FinishTraces(t, ids) = u
  BY DEF FinishTraces, known
<1> HIDE DEF u
<1>5. /\ u.nodes = t.nodes \cup ids
      /\ u.completed = t.completed \cup (ids \ t.pruned)
      /\ u.active = (t.active \cup (ids \ t.nodes)) \ (ids \ t.pruned)
      /\ u.pruned = t.pruned /\ u.branch_counter = t.branch_counter
  BY <1>1, <1>2
<1> QED
  BY <1>3, <1>4, <1>5 DEF HasFlags

\* The tree of a decision: every scored trace is in it.
LEMMA DecisionTreeFlags ==
    ASSUME IsTree(trace_tree)
    PROVE  HasFlags(DecisionTree, Nodes \cup Scored, Active \cup (Scored \ Nodes),
                    Completed, Pruned, Counter)
<1> DEFINE t == trace_tree
           u == IncrementStep(t)
<1>1. /\ u.nodes = t.nodes /\ u.active = t.active /\ u.pruned = t.pruned
      /\ u.completed = t.completed /\ u.branch_counter = t.branch_counter
  BY DEF IncrementStep, IsTree, TreeFields
<1>2. IsTree(u)
  BY DEF IncrementStep, IsTree
<1>3. DecisionTree = AddRoots(u, Scored \ t.nodes)
  BY DEF DecisionTree
<1> HIDE DEF u
<1>4. HasFlags(DecisionTree, u.nodes \cup (Scored \ t.nodes), u.active \cup (Scored \ t.nodes),
               u.completed, u.pruned, u.branch_counter)
  BY <1>2, <1>3, AddRootsFlags
<1>5. /\ u.nodes = Nodes /\ u.active = Active /\ u.pruned = Pruned /\ t.nodes = Nodes
      /\ u.completed = Completed /\ u.branch_counter = Counter
  BY <1>1 DEF Nodes, Active, Completed, Pruned, Counter
<1>6. Nodes \cup (Scored \ Nodes) = Nodes \cup Scored
  OBVIOUS
<1> QED
  BY <1>4, <1>5, <1>6

\* What a decision does to the tree when it prunes some traces.
LEMMA PrunedDecisionTree ==
    ASSUME IsTree(trace_tree), NEW victims, NEW u, u = MarkPruned(DecisionTree, victims)
    PROVE  HasFlags(u, Nodes \cup Scored, (Active \cup (Scored \ Nodes)) \ victims, Completed,
                    Pruned \cup (victims \cap (Nodes \cup Scored)), Counter)
<1> DEFINE d == DecisionTree
<1>1. HasFlags(d, Nodes \cup Scored, Active \cup (Scored \ Nodes), Completed, Pruned, Counter)
  BY DecisionTreeFlags
<1>2. /\ d.nodes = Nodes \cup Scored /\ d.active = Active \cup (Scored \ Nodes)
      /\ d.completed = Completed /\ d.pruned = Pruned /\ d.branch_counter = Counter
      /\ IsTree(d)
  BY <1>1 DEF HasFlags
<1>3. HasFlags(u, d.nodes, d.active \ victims, d.completed,
               d.pruned \cup (victims \cap d.nodes), d.branch_counter)
  BY <1>2, MarkPrunedFlags
<1> HIDE DEF d
<1> QED
  BY <1>2, <1>3

\* add_branch, for a new id, and the same undone by remove_trace.
LEMMA AddBranchFlags ==
    ASSUME NEW t, IsTree(t), t.active \cup t.completed \cup t.pruned \subseteq t.nodes,
           NEW p \in t.nodes, NEW c, c \notin t.nodes
    PROVE  /\ HasFlags(AddBranch(t, p, c), t.nodes \cup {c}, t.active \cup {c},
                       t.completed, t.pruned, t.branch_counter + 1)
           /\ HasFlags(RemoveTrace(AddBranch(t, p, c), c), t.nodes, t.active,
                       t.completed, t.pruned, t.branch_counter + 1)
<1> DEFINE u == AddBranch(t, p, c)
           v == RemoveTrace(u, c)
<1>1. /\ IsTree(t) /\ c \notin t.active /\ c \notin t.completed /\ c \notin t.pruned
  OBVIOUS
<1>2. /\ u.nodes = t.nodes \cup {c} /\ u.active = t.active \cup {c}
      /\ u.completed = t.completed /\ u.pruned = t.pruned
      /\ u.branch_counter = t.branch_counter + 1
  BY <1>1 DEF AddBranch, IsTree, TreeFields
<1>3. IsTree(u)
  BY <1>1 DEF AddBranch, IsTree
<1> HIDE DEF u
<1>4. /\ v.nodes = u.nodes \ {c} /\ v.active = u.active \ {c}
      /\ v.completed = u.completed \ {c} /\ v.pruned = u.pruned \ {c}
      /\ v.branch_counter = u.branch_counter
  BY <1>3 DEF RemoveTrace, IsTree, TreeFields
<1>5. IsTree(v)
  BY <1>3 DEF RemoveTrace, IsTree
<1> HIDE DEF v
<1>6. /\ v.nodes = t.nodes /\ v.active = t.active /\ v.completed = t.completed
      /\ v.pruned = t.pruned /\ v.branch_counter = t.branch_counter + 1
  BY <1>1, <1>2, <1>4, SMT
<1> QED
  BY <1>2, <1>3, <1>5, <1>6 DEF HasFlags, u, v

-----------------------------------------------------------------------------
(***************************************************************************)
(* What the engine needs to know of the scheduler.                         *)
(***************************************************************************)

\* The sets of ids the scheduler keeps, related by its invariant.
LEMMA SchedFacts ==
    ASSUME SchedInv
    PROVE  /\ Live \subseteq admitted /\ Scheduled \subseteq Live
           /\ Live \cap finished_req_ids = {} /\ finished_req_ids \subseteq admitted
           /\ admitted \subseteq Ids
           /\ waiting \in Seq(Ids) /\ running \in Seq(Ids)
           /\ Live = Range(running) \cup Range(waiting)
BY DEF SchedInv, SchedTypeOK, QueuesPartitionRequests, ScheduledStayRunning,
       EveryRequestAccountedFor, WorkerInv

\* A scheduler without waiting and running requests has none at all.
LEMMA NothingLive ==
    ASSUME SchedInv, Len(waiting) + Len(running) = 0
    PROVE  Live = {}
<1>1. Len(waiting) \in Nat /\ Len(running) \in Nat
  BY SchedFacts, LenProperties
<1>2. Len(waiting) = 0 /\ Len(running) = 0
  BY <1>1, SMT
<1>3. DOMAIN waiting = {} /\ DOMAIN running = {}
  BY <1>2, SchedFacts, LenProperties, SMT
<1> QED
  BY <1>3, SchedFacts DEF Range

\* A step of schedule() admits nobody; what it ends, it evicts.
LEMMA ScheduleSets ==
    ASSUME SchedInv, Schedule
    PROVE  /\ SchedInv' /\ phase # "scheduled"
           /\ admitted' = admitted /\ aborted' = aborted
           /\ Live' \subseteq Live /\ Live \subseteq Live' \cup evicted'
           /\ evicted \subseteq evicted'
           /\ \A i \in Live' : requests'[i].num_tokens = requests[i].num_tokens
           /\ phase' = "scheduled" => finished_req_ids' = {}
<1>1. CASE ScheduleStart
  BY <1>1, ScheduleStartInv DEF ScheduleStart, historyVars, Live
<1>2. CASE ScheduleRunning
  BY <1>2, ScheduleRunningInv DEF ScheduleRunning, RunningLoop, queueVars, historyVars, Live
<1>3. CASE StopLowestRunning
  <2>1. /\ phase = "running" /\ phase' \in {"waiting", "running"}
        /\ admitted' = admitted /\ aborted' = aborted
        /\ requests' = Drop(requests, {running[Len(running)]})
        /\ evicted' = evicted \cup {running[Len(running)]}
    BY <1>3 DEF StopLowestRunning, RunningLoop, FreeRequests
  <2> QED
    BY <1>3, <2>1, StopLowestRunningInv DEF Drop, Live
<1>4. CASE RunningDone
  BY <1>4, RunningDoneInv DEF RunningDone, queueVars, historyVars, Live
<1>5. ASSUME NEW hit \in 0 .. MaxLen, AdmitWaiting(hit)
      PROVE  /\ SchedInv' /\ phase # "scheduled" /\ phase' # "scheduled"
             /\ admitted' = admitted /\ aborted' = aborted /\ evicted' = evicted
             /\ Live' = Live
             /\ \A i \in Live' : requests'[i].num_tokens = requests[i].num_tokens
  <2>1. /\ phase = "waiting" /\ phase' = phase
        /\ admitted' = admitted /\ aborted' = aborted /\ evicted' = evicted
        /\ requests' = [requests EXCEPT ![Head(waiting)].computed = hit]
    BY <1>5 DEF AdmitWaiting, WaitingLoop, historyVars
  <2>2. \A i \in Live : requests[i] \in [num_tokens : Nat, computed : Nat, arrival : Nat]
    BY DEF SchedInv, SchedTypeOK
  <2>3. Live' = Live /\ \A i \in Live : requests'[i].num_tokens = requests[i].num_tokens
    BY <2>1, <2>2 DEF Live
  <2>4. hit \in Nat
    BY SMT
  <2> QED
    BY <1>5, <2>1, <2>3, <2>4, AdmitWaitingInv
<1>6. CASE ScheduleDone
  <2>1. /\ phase = "waiting" /\ finished_req_ids' = {}
        /\ admitted' = admitted /\ aborted' = aborted /\ evicted' = evicted
        /\ requests' = [i \in Live |->
                          [requests[i] EXCEPT !.computed = @ + Get(num_scheduled, i, 0)]]
    BY <1>6 DEF ScheduleDone, UpdateAfterSchedule, historyVars
  <2>2. \A i \in Live : requests[i] \in [num_tokens : Nat, computed : Nat, arrival : Nat]
    BY DEF SchedInv, SchedTypeOK
  <2>3. Live' = Live /\ \A i \in Live : requests'[i].num_tokens = requests[i].num_tokens
    BY <2>1, <2>2 DEF Live
  <2> QED
    BY <1>6, <2>1, <2>3, ScheduleDoneInv
<1> QED
  BY <1>1, <1>2, <1>3, <1>4, <1>5, <1>6 DEF Schedule

-----------------------------------------------------------------------------
(***************************************************************************)
(* Each step of the engine core keeps the invariant.                       *)
(***************************************************************************)

\* A step that leaves the scheduler alone leaves its invariant and its sets alone.
LEMMA SchedulerAlone ==
    ASSUME SchedInv, UNCHANGED schedVars
    PROVE  /\ SchedInv'
           /\ UNCHANGED <<requests, Live, phase, admitted, finished_req_ids, evicted, aborted,
                          Scheduled>>
<1>1. SchedInv'
  BY SchedNextInv
<1>2. UNCHANGED <<requests, phase, admitted, finished_req_ids, evicted, aborted, num_scheduled>>
  BY DEF schedVars, queueVars, loopVars, historyVars
<1> QED
  BY <1>1, <1>2 DEF Live, Scheduled

\* So does a step that leaves the tree alone.
LEMMA TreeAlone ==
    ASSUME FlagsInv, trace_tree' = trace_tree
    PROVE  FlagsInv' /\ UNCHANGED <<Nodes, Active, Completed, Pruned, Counter>>
BY DEF FlagsInv, Nodes, Active, Completed, Pruned, Counter

\* A step that leaves the decision's clears, copies and branches alone, drops no
\* history and gives no trace scores, keeps what concerns the histories.
LEMMA HistoriesAlone ==
    ASSUME WorkerHistoryInv, FlagsInv,
           UNCHANGED <<histories, seq_hs_to_clear, seq_hs_to_copy, branch_queue, earlier>>,
           admitted \subseteq admitted', Nodes \subseteq Nodes', Pruned \subseteq Pruned',
           Active' \cap Nodes \subseteq Active, future' = future,
           Scored' \subseteq Scored, Scored \subseteq Scored' \cup Nodes',
           stage' = stage \/ (stage' # "branch" /\ stage # "branch"),
           stage' \in {"decide", "branch", "submit"} => future = {},
           stage' # "decide" => Scored' \subseteq Nodes'
    PROVE  WorkerHistoryInv'
<1>1. UNCHANGED <<Copied, Inherited>>
  BY DEF Copied, Inherited
<1>2. Tracked' \subseteq Tracked
  BY DEF Tracked
<1>3. HistoryInv'
  BY <1>1, <1>2 DEF WorkerHistoryInv, HistoryInv
<1>4. QueueInv'
  BY <1>1 DEF WorkerHistoryInv, QueueInv
<1>5. HandoverInv'
  BY DEF WorkerHistoryInv, HandoverInv
<1> QED
  BY <1>3, <1>4, <1>5 DEF WorkerHistoryInv

\* A step that admits and resets nothing keeps the names apart, whether or not it
\* counts a branch.
LEMMA NamesKept ==
    ASSUME NamesInv, Counter \in Nat, admitted' = admitted, earlier' = earlier,
           Live' \subseteq Live, Counter' \in {Counter, Counter + 1}
    PROVE  NamesInv'
<1>1. \A j \in admitted' : Len(j) > 0 /\ RootId(RootOf(j)) \in admitted'
  BY DEF NamesInv
<1>2. \A i \in Live', j \in earlier' : RootOf(i) # RootOf(j)
  BY DEF NamesInv
<1>3. ASSUME NEW j \in admitted' \ earlier'
      PROVE  Len(j) = 1 \/ (Head(j) \in Nat /\ Head(j) < Counter')
  <2>1. Len(j) = 1 \/ (Head(j) \in Nat /\ Head(j) < Counter)
    BY DEF NamesInv
  <2> QED
    BY <2>1, SMT
<1> QED
  BY <1>1, <1>2, <1>3 DEF NamesInv

\* generate_branch_id gives a running trace's branch an id no request ever had,
\* in this prompt or an earlier one.
LEMMA FreshBranch ==
    ASSUME EngineInv, NEW p \in Live, NEW c, c = GenerateBranchId(trace_tree, p)
    PROVE  /\ c \in Ids /\ c \notin admitted /\ c \notin Nodes
           /\ Len(c) > 1 /\ Len(c) \in Nat
           /\ Head(c) = Counter /\ Head(c) \in Nat
           /\ RootOf(c) = RootOf(p)
<1>1. /\ p \in Ids /\ p \in admitted /\ Len(p) > 0 /\ Counter \in Nat
  BY SchedFacts DEF EngineInv, NamesInv, FlagsInv
<1>2. Len(p) \in Nat /\ p \in Seq(Nat \cup Roots)
  BY <1>1, LenProperties DEF Ids
<1>3. c = BranchId(Counter, p)
  BY DEF GenerateBranchId, Counter
<1>4. c \in Ids /\ Len(c) = Len(p) + 1 /\ Head(c) = Counter
  BY <1>1, <1>3, BranchIdFacts
<1>5. Len(c) \in Nat /\ Len(c) > 1
  BY <1>1, <1>2, <1>4, SMT
<1>6. RootOf(c) = RootOf(p)
  <2>1. <<Counter>> \in Seq(Nat \cup Roots) /\ Len(<<Counter>>) = 1
    BY <1>1, SMT
  <2>2. (<<Counter>> \o p)[1 + Len(p)] = p[Len(p)]
    BY <1>1, <1>2, <2>1, ConcatProperties, SMT
  <2>3. Len(c) = 1 + Len(p)
    BY <1>2, <1>4, SMT
  <2> QED
    BY <1>3, <2>2, <2>3 DEF RootOf, BranchId
<1>7. c \notin earlier
  BY <1>6 DEF EngineInv, NamesInv
<1>8. c \notin admitted
  <2> SUFFICES ASSUME c \in admitted PROVE FALSE
    OBVIOUS
  <2>1. c \in admitted \ earlier
    BY <1>7
  <2>2. Len(c) = 1 \/ (Head(c) \in Nat /\ Head(c) < Counter)
    BY <2>1 DEF EngineInv, NamesInv
  <2> QED
    BY <1>1, <1>4, <1>5, <2>2, SMT
<1>9. c \notin Nodes
  BY <1>8 DEF EngineInv, KnownInv
<1> QED
  BY <1>1, <1>4, <1>5, <1>6, <1>8, <1>9

\* A step that leaves alone all the invariant speaks of, up to the stage of step()
\* and what concerns the histories.
LEMMA QuietStep ==
    ASSUME EngineInv,
           UNCHANGED <<schedVars, trace_tree, pending_low, pending_force, trace_scores,
                       pending_hs, future, token_counts, earlier>>,
           \/ stage' = stage
           \/ stage # "none" /\ stage' \in {"score", "decide", "branch", "output"}
           \/ stage # "none" /\ stage' = "submit" /\ AsyncScorer,
           WorkerHistoryInv'
    PROVE  EngineInv'
<1>1. SchedInv' /\ UNCHANGED <<requests, Live, phase, admitted, finished_req_ids, evicted, aborted>>
  BY SchedulerAlone DEF EngineInv
<1>2. FlagsInv' /\ UNCHANGED <<Nodes, Active, Completed, Pruned, Counter>>
  BY TreeAlone DEF EngineInv
<1>3. UNCHANGED <<Scored, Counted>>
  BY DEF Scored, Counted
<1>4. KnownInv'
  BY <1>1, <1>2, <1>3 DEF EngineInv, KnownInv
<1>5. StageInv'
  BY <1>1 DEF EngineInv, StageInv
<1>6. NamesInv'
  BY <1>1, <1>2, NamesKept DEF EngineInv, FlagsInv
<1>7. StopInv' /\ OverInv' /\ GhostInv'
  BY <1>1, <1>2, <1>3 DEF EngineInv, StopInv, OverInv, GhostInv
<1> QED
  BY <1>1, <1>2, <1>4, <1>5, <1>6, <1>7 DEF EngineInv

\* Nothing happens, or no scores have arrived.
LEMMA NothingInv == EngineInv /\ (UNCHANGED vars \/ NoScores) => EngineInv'
<1> SUFFICES ASSUME EngineInv, UNCHANGED vars \/ NoScores PROVE EngineInv'
  OBVIOUS
<1>1. /\ UNCHANGED <<schedVars, trace_tree, pending_low, pending_force, trace_scores, pending_hs,
                     future, token_counts, earlier, histories, seq_hs_to_clear, seq_hs_to_copy,
                     branch_queue>>
      /\ \/ stage' = stage
         \/ stage = "score" /\ stage' = "output"
         \/ stage = "score" /\ stage' = "submit" /\ future = {} /\ AsyncScorer
  <2>1. CASE UNCHANGED vars
    BY <2>1 DEF vars, engineVars, decisionVars, scoreVars, historyQueue
  <2>2. CASE NoScores
    BY <2>2 DEF NoScores, AfterDecision, Arriving, decisionVars, scoreVars, historyQueue
  <2> QED
    BY <2>1, <2>2
<1>2. UNCHANGED <<Nodes, Active, Pruned, Scored, admitted>>
  BY <1>1, SchedulerAlone, TreeAlone DEF EngineInv, Scored
<1>3. WorkerHistoryInv /\ FlagsInv /\ HandoverInv
  BY DEF EngineInv, WorkerHistoryInv
<1>4. stage' \in {"decide", "branch", "submit"} => future = {}
  BY <1>1, <1>3 DEF HandoverInv
<1>5. stage' # "decide" => Scored' \subseteq Nodes'
  BY <1>1, <1>2, <1>3 DEF HandoverInv
<1>6. WorkerHistoryInv'
  BY <1>1, <1>2, <1>3, <1>4, <1>5, HistoriesAlone
<1> QED
  BY <1>1, <1>6, QuietStep

\* EngineCore.add_request
LEMMA EngineAddInv ==
    ASSUME EngineInv, NEW r \in Roots, EngineAdd(r)
    PROVE  EngineInv'
<1> DEFINE id == RootId(r)
<1>0. SchedInv /\ FlagsInv /\ KnownInv /\ NamesInv /\ StopInv /\ OverInv /\ GhostInv
  BY DEF EngineInv
<1>1. /\ phase = "idle" /\ id \notin admitted
      /\ AddRequest(id, Request(PromptLen[r], Arrival[r]))
      /\ trace_tree' \in {trace_tree, AddRoots(trace_tree, {id})}
      /\ UNCHANGED <<pending_low, pending_force, trace_scores, pending_hs, future,
                     token_counts, stage, earlier>>
  BY DEF EngineAdd, ClientAdd, scoreVars
<1>2. SchedInv'
  BY <1>0, SchedNextInv DEF EngineAdd, SchedNext
<1>3. id \in Ids /\ Len(id) = 1 /\ RootOf(id) = r
  BY SMT DEF RootId, Ids, RootOf
<1>4. PromptLen[r] \in Nat /\ PromptLen[r] > 0
  BY SchedulerAssumption, SMT
<1>5. /\ Live' = Live \cup {id} /\ admitted' = admitted \cup {id}
      /\ requests' = Update(requests, [i \in {id} |-> Request(PromptLen[r], Arrival[r])])
      /\ phase' = phase /\ finished_req_ids' = finished_req_ids
      /\ evicted' = evicted /\ aborted' = aborted
  BY <1>1 DEF AddRequest, Update, Live, loopVars
<1>6. \A i \in Live' : requests'[i].num_tokens > 0
  <2>1. requests'[id].num_tokens > 0
    BY <1>4, <1>5 DEF Update, Request
  <2>2. \A i \in Live : requests'[i].num_tokens > 0
    BY <1>0, <1>4, <1>5 DEF Update, Request, Live, KnownInv
  <2> QED
    BY <1>5, <2>1, <2>2
<1>7. /\ IsTree(trace_tree') /\ Nodes' \in {Nodes, Nodes \cup {id}}
      /\ Active' \subseteq Active \cup {id} /\ Active' \subseteq Active \cup Nodes'
      /\ Completed' = Completed /\ Pruned' = Pruned /\ Counter' = Counter
  <2>1. HasFlags(AddRoots(trace_tree, {id}), Nodes \cup {id}, Active \cup {id},
                 Completed, Pruned, Counter)
    BY <1>0, AddRootsFlags DEF FlagsInv, Nodes, Active, Completed, Pruned, Counter
  <2>2. CASE trace_tree' = trace_tree
    BY <1>0, <2>2 DEF FlagsInv, Nodes, Active, Completed, Pruned, Counter
  <2>3. CASE trace_tree' = AddRoots(trace_tree, {id})
    <3>1. /\ IsTree(trace_tree') /\ Nodes' = Nodes \cup {id} /\ Active' = Active \cup {id}
          /\ Completed' = Completed /\ Pruned' = Pruned /\ Counter' = Counter
      BY <2>1, <2>3 DEF HasFlags, Nodes, Active, Completed, Pruned, Counter
    <3> QED
      BY <3>1
  <2> QED
    BY <1>1, <2>2, <2>3
<1>8. /\ id \notin Nodes /\ id \notin Scored /\ id \notin Live /\ id \notin earlier
      /\ id \notin Active /\ id \notin Completed /\ id \notin Pruned
  BY <1>0, <1>1, SchedFacts DEF KnownInv, FlagsInv
<1>9. Scored' = Scored /\ Counted' = Counted
  BY <1>1 DEF Scored, Counted
<1> HIDE DEF id
<1>10. FlagsInv'
  <2>1. Active' \cup Completed' \cup Pruned' \subseteq Nodes'
    BY <1>0, <1>7 DEF FlagsInv
  <2>2. Active' \cap (Completed' \cup Pruned') = {}
    BY <1>0, <1>7, <1>8 DEF FlagsInv
  <2> QED
    BY <1>0, <1>7, <2>1, <2>2 DEF FlagsInv
<1>11. KnownInv'
  <2>1. IsFiniteSet(admitted')
    BY <1>0, <1>5, FS_AddElement DEF KnownInv
  <2>2. Nodes' \cup Scored' \cup future' \cup pending_hs' \cup earlier' \subseteq admitted'
    BY <1>0, <1>1, <1>5, <1>7, <1>9 DEF KnownInv
  <2>3. \A i \in Scored' : trace_scores'[i] \in Int
    BY <1>0, <1>1, <1>9 DEF KnownInv
  <2> QED
    BY <1>6, <2>1, <2>2, <2>3 DEF KnownInv
<1>12. NamesInv'
  <2>1. \A j \in admitted' : Len(j) > 0 /\ RootId(RootOf(j)) \in admitted'
    BY <1>0, <1>3, <1>5, SMT DEF NamesInv, id
  <2>2. \A j \in earlier : RootOf(j) # r
    BY <1>0, <1>1, <1>8 DEF KnownInv, NamesInv, id
  <2>3. \A i \in Live', j \in earlier' : RootOf(i) # RootOf(j)
    BY <1>0, <1>1, <1>3, <1>5, <2>2 DEF NamesInv
  <2>4. \A j \in admitted' \ earlier' :
          Len(j) = 1 \/ (Head(j) \in Nat /\ Head(j) < Counter')
    BY <1>0, <1>1, <1>3, <1>5, <1>7 DEF NamesInv
  <2> QED
    BY <2>1, <2>3, <2>4 DEF NamesInv
<1>13. StopInv'
  BY <1>0, <1>1, <1>5, <1>7, <1>8 DEF StopInv
<1>14. OverInv'
  BY <1>0, <1>5, <1>7, <1>8, <1>9 DEF OverInv
<1>15. GhostInv'
  BY <1>0, <1>1, <1>5, <1>7, <1>8, <1>9 DEF GhostInv
<1>16. StageInv'
  BY <1>1, <1>5 DEF EngineInv, StageInv
<1>17. WorkerHistoryInv'
  <2>1. UNCHANGED <<histories, seq_hs_to_clear, seq_hs_to_copy, branch_queue>>
    BY DEF EngineAdd, scoreVars, historyQueue
  <2>2. WorkerHistoryInv /\ HandoverInv
    BY DEF EngineInv, WorkerHistoryInv
  <2>3. /\ stage' \in {"decide", "branch", "submit"} => future = {}
        /\ stage' # "decide" => Scored' \subseteq Nodes'
    BY <1>1, <1>7, <1>9, <2>2 DEF HandoverInv
  <2> QED
    BY <1>0, <1>1, <1>5, <1>7, <1>8, <1>9, <2>1, <2>2, <2>3, HistoriesAlone
<1> QED
  BY <1>2, <1>10, <1>11, <1>12, <1>13, <1>14, <1>15, <1>16, <1>17 DEF EngineInv

\* EngineCore.abort_requests
LEMMA EngineAbortInv ==
    ASSUME EngineInv, NEW ids \in SUBSET Live, EngineAbort(ids)
    PROVE  EngineInv'
<1>1. SchedInv'
  BY SchedNextInv DEF EngineInv, EngineAbort, SchedNext
<1>2. /\ phase = "idle" /\ phase' = phase
      /\ requests' = Drop(requests, ids) /\ Live' = Live \ ids
      /\ aborted' = aborted \cup ids
      /\ admitted' = admitted /\ evicted' = evicted
  <2>1. ids \cap Live = ids
    OBVIOUS
  <2> QED
    BY <2>1 DEF EngineAbort, ClientAbort, FinishRequests, FreeRequests, loopVars, Drop, Live
<1>3. UNCHANGED <<trace_tree, pending_low, pending_force, trace_scores, Scored, pending_hs,
                  future, token_counts, Counted, stage, earlier>>
  BY DEF EngineAbort, engineVars, decisionVars, scoreVars, Scored, Counted
<1>4. \A i \in Live' : requests'[i].num_tokens = requests[i].num_tokens
  BY <1>2 DEF Drop, Live
<1>5. FlagsInv' /\ UNCHANGED <<Nodes, Active, Completed, Pruned, Counter>>
  BY <1>3, TreeAlone DEF EngineInv
<1>6. KnownInv'
  BY <1>2, <1>3, <1>4, <1>5 DEF EngineInv, KnownInv
<1>7. StageInv'
  BY <1>2, <1>3 DEF EngineInv, StageInv
<1>8. NamesInv'
  BY <1>2, <1>3, <1>5, NamesKept DEF EngineInv, FlagsInv
<1>9. StopInv' /\ OverInv' /\ GhostInv'
  BY <1>2, <1>3, <1>5 DEF EngineInv, StopInv, OverInv, GhostInv
<1>10. WorkerHistoryInv'
  <2>1. UNCHANGED <<histories, seq_hs_to_clear, seq_hs_to_copy, branch_queue>>
    BY DEF EngineAbort, engineVars, scoreVars, historyQueue
  <2>2. WorkerHistoryInv /\ HandoverInv /\ FlagsInv
    BY DEF EngineInv, WorkerHistoryInv
  <2>3. /\ stage' \in {"decide", "branch", "submit"} => future = {}
        /\ stage' # "decide" => Scored' \subseteq Nodes'
    BY <1>3, <1>5, <2>2 DEF HandoverInv
  <2> QED
    BY <1>2, <1>3, <1>5, <2>1, <2>2, <2>3, HistoriesAlone
<1> QED
  BY <1>1, <1>5, <1>6, <1>7, <1>8, <1>9, <1>10 DEF EngineInv

\* reset_gambit_state
LEMMA ResetInv == EngineInv /\ ResetGambitState => EngineInv'
<1> SUFFICES ASSUME EngineInv, ResetGambitState PROVE EngineInv'
  OBVIOUS
<1>1. /\ Len(waiting) + Len(running) = 0 /\ trace_tree' = EmptyTree
      /\ trace_scores' = EmptyDict /\ token_counts' = EmptyDict
      /\ pending_low' = {} /\ pending_force' = {} /\ pending_hs' = {}
      /\ earlier' = admitted
      /\ UNCHANGED <<schedVars, future, stage>>
  BY DEF ResetGambitState, ResetTo
<1>2. SchedInv' /\ UNCHANGED <<requests, Live, phase, admitted, finished_req_ids, evicted, aborted>>
  BY <1>1, SchedulerAlone DEF EngineInv
<1>3. Live = {}
  BY <1>1, NothingLive DEF EngineInv
<1>4. Scored' = {} /\ Counted' = {}
  BY <1>1 DEF Scored, Counted, EmptyDict
<1>5. /\ IsTree(trace_tree') /\ Nodes' = {} /\ Active' = {} /\ Completed' = {} /\ Pruned' = {}
      /\ Counter' = 0
  BY <1>1, EmptyTreeFlags DEF HasFlags, Nodes, Active, Completed, Pruned, Counter
<1>6. FlagsInv'
  BY <1>5 DEF FlagsInv
<1>7. KnownInv'
  BY <1>1, <1>2, <1>3, <1>4, <1>5 DEF EngineInv, KnownInv
<1>8. StageInv'
  BY <1>1, <1>2 DEF EngineInv, StageInv
<1>9. NamesInv'
  BY <1>1, <1>2, <1>3 DEF EngineInv, NamesInv
<1>10. StopInv' /\ OverInv'
  BY <1>1, <1>2, <1>3, <1>4, <1>5 DEF StopInv, OverInv
<1>11. GhostInv'
  BY <1>1, <1>4, <1>5 DEF EngineInv, KnownInv, GhostInv
<1>12. WorkerHistoryInv'
  <2>1. /\ histories' = SyncSequenceHistories(histories, Nodes, <<>>)
        /\ seq_hs_to_clear' = {} /\ seq_hs_to_copy' = <<>> /\ branch_queue' = branch_queue
        /\ phase = "idle"
    BY DEF ResetGambitState, ResetTo, Nodes
  <2>2. Range(<<>>) = {}
    BY SMT DEF Range
  <2>3. histories' = histories \ Nodes /\ Copied' = {} /\ Inherited' = {}
    BY <2>1, <2>2 DEF SyncSequenceHistories, Copied, Inherited
  <2>4. stage = "none"
    BY <2>1 DEF EngineInv, StageInv
  <2>5. HistoryInv /\ QueueInv /\ HandoverInv
    BY DEF EngineInv, WorkerHistoryInv
  <2>6. Tracked' = {}
    BY <1>1, <1>4 DEF Tracked, EngineInv, KnownInv
  <2>7. HistoryInv'
    BY <1>1, <1>4, <1>5, <2>1, <2>3, <2>4, <2>5, <2>6 DEF HistoryInv, HandoverInv
  <2>8. QueueInv'
    BY <1>2, <2>1, <2>3, <2>5, SMT DEF QueueInv
  <2>9. HandoverInv'
    BY <1>1, <1>4, <2>1, <2>4 DEF HandoverInv
  <2> QED
    BY <2>7, <2>8, <2>9 DEF WorkerHistoryInv
<1> QED
  BY <1>2, <1>6, <1>7, <1>8, <1>9, <1>10, <1>11, <1>12 DEF EngineInv

\* step() with nothing in the scheduler
LEMMA StepWithoutRequestsInv == EngineInv /\ StepWithoutRequests => EngineInv'
<1> SUFFICES ASSUME EngineInv, StepWithoutRequests PROVE EngineInv'
  OBVIOUS
<1>1. /\ ~HasRequests /\ trace_tree' = MarkPruned(trace_tree, Active)
      /\ pending_low' = pending_low \ Active /\ pending_force' = pending_force \ Active
      /\ UNCHANGED <<schedVars, trace_scores, pending_hs, future, token_counts, stage, earlier>>
  BY DEF StepWithoutRequests, scoreVars, Active
<1>2. SchedInv' /\ UNCHANGED <<requests, Live, phase, admitted, finished_req_ids, evicted, aborted>>
  BY <1>1, SchedulerAlone DEF EngineInv
<1>3. Live = {}
  <2>1. Len(waiting) \in Nat /\ Len(running) \in Nat
    BY SchedFacts, LenProperties DEF EngineInv
  <2>2. ~HasRequests
    BY <1>1
  <2>3. Len(waiting) + Len(running) = 0
    BY <2>1, <2>2, SMT DEF HasRequests
  <2> QED
    BY <2>3, NothingLive DEF EngineInv
<1>4. FlagsInv /\ IsTree(trace_tree)
  BY DEF EngineInv, FlagsInv
<1>5. /\ IsTree(trace_tree') /\ Nodes' = Nodes /\ Active' = Active \ Active
      /\ Completed' = Completed /\ Pruned' = Pruned \cup (Active \cap Nodes)
      /\ Counter' = Counter
  BY <1>1, <1>4, MarkPrunedFlags, SMT DEF HasFlags, Nodes, Active, Completed, Pruned, Counter
<1>6. Active' = {} /\ Pruned' = Pruned \cup Active
  BY <1>4, <1>5 DEF FlagsInv
<1>7. Scored' = Scored /\ Counted' = Counted
  BY <1>1 DEF Scored, Counted
<1>8. FlagsInv'
  BY <1>4, <1>5, <1>6 DEF FlagsInv
<1>9. KnownInv'
  BY <1>1, <1>2, <1>5, <1>7 DEF EngineInv, KnownInv
<1>10. StageInv'
  BY <1>1, <1>2 DEF EngineInv, StageInv
<1>11. NamesInv'
  BY <1>1, <1>2, <1>5, NamesKept DEF EngineInv, FlagsInv
<1>12. StopInv'
  BY <1>1, <1>2, <1>3, <1>6 DEF EngineInv, StopInv
<1>13. OverInv'
  BY <1>2, <1>4, <1>5, <1>6, <1>7 DEF EngineInv, OverInv, FlagsInv
<1>14. GhostInv'
  BY <1>1, <1>2, <1>5, <1>6, <1>7 DEF EngineInv, GhostInv
<1>15. WorkerHistoryInv'
  <2>1. UNCHANGED <<histories, seq_hs_to_clear, seq_hs_to_copy, branch_queue>>
    BY DEF StepWithoutRequests, scoreVars, historyQueue
  <2>2. WorkerHistoryInv /\ HandoverInv
    BY DEF EngineInv, WorkerHistoryInv
  <2>3. /\ stage' \in {"decide", "branch", "submit"} => future = {}
        /\ stage' # "decide" => Scored' \subseteq Nodes'
    BY <1>1, <1>5, <1>7, <2>2 DEF HandoverInv
  <2> QED
    BY <1>1, <1>2, <1>4, <1>5, <1>6, <1>7, <2>1, <2>2, <2>3, HistoriesAlone
<1> QED
  BY <1>2, <1>8, <1>9, <1>10, <1>11, <1>12, <1>13, <1>14, <1>15 DEF EngineInv

\* A step of schedule() within step()
LEMMA StepScheduleInv == EngineInv /\ StepSchedule => EngineInv'
<1> SUFFICES ASSUME EngineInv, StepSchedule PROVE EngineInv'
  OBVIOUS
<1>1. /\ Schedule /\ stage' = (IF phase' = "scheduled" THEN "score" ELSE "none")
      /\ UNCHANGED <<trace_tree, pending_low, pending_force, trace_scores, Scored, pending_hs,
                     future, token_counts, Counted, earlier>>
  BY DEF StepSchedule, decisionVars, scoreVars, Scored, Counted
<1>2. /\ SchedInv' /\ phase # "scheduled"
      /\ admitted' = admitted /\ aborted' = aborted
      /\ Live' \subseteq Live /\ Live \subseteq Live' \cup evicted'
      /\ evicted \subseteq evicted'
      /\ \A i \in Live' : requests'[i].num_tokens = requests[i].num_tokens
      /\ phase' = "scheduled" => finished_req_ids' = {}
  BY <1>1, ScheduleSets DEF EngineInv
<1>3. FlagsInv' /\ UNCHANGED <<Nodes, Active, Completed, Pruned, Counter>>
  BY <1>1, TreeAlone DEF EngineInv
<1>4. KnownInv'
  BY <1>1, <1>2, <1>3 DEF EngineInv, KnownInv
<1>5. StageInv'
  BY <1>1, <1>2 DEF EngineInv, StageInv
<1>6. NamesInv'
  BY <1>1, <1>2, <1>3, NamesKept DEF EngineInv, FlagsInv
<1>7. StopInv' /\ OverInv'
  BY <1>1, <1>2, <1>3 DEF EngineInv, StopInv, OverInv
<1>8. GhostInv'
  BY <1>1, <1>2, <1>3 DEF EngineInv, GhostInv
<1>9. WorkerHistoryInv'
  <2>1. UNCHANGED <<histories, seq_hs_to_clear, seq_hs_to_copy, branch_queue>>
    BY DEF StepSchedule, scoreVars, historyQueue
  <2>2. WorkerHistoryInv /\ HandoverInv /\ FlagsInv
    BY DEF EngineInv, WorkerHistoryInv
  <2>3. stage = "none" /\ stage' \notin {"decide", "branch", "submit"}
    BY <1>1, <1>2 DEF EngineInv, StageInv
  <2>4. stage' # "decide" => Scored' \subseteq Nodes'
    BY <1>1, <1>3, <2>2, <2>3 DEF HandoverInv
  <2> QED
    BY <1>1, <1>2, <1>3, <2>1, <2>2, <2>3, <2>4, HistoriesAlone
<1> QED
  BY <1>2, <1>3, <1>4, <1>5, <1>6, <1>7, <1>8, <1>9 DEF EngineInv

\* The scores of this step, or of the step before it.
LEMMA TakeScoresInv ==
    ASSUME EngineInv, NEW new \in [Arriving -> Scores], TakeScores(new)
    PROVE  EngineInv'
<1>1. /\ stage = "score" /\ trace_scores' = Update(trace_scores, new)
      /\ pending_hs' = pending_hs \ Arriving /\ future' = {} /\ stage' = "decide"
      /\ UpdateTraceScores(trace_scores')
      /\ UNCHANGED <<queueVars, loopVars, historyVars, pending_pruned, worker_requests,
                     trace_tree, pending_low, pending_force, token_counts, Counted, earlier>>
  BY DEF TakeScores, decisionVars, Counted
<1>2. /\ Scored' = Scored \cup Arriving
      /\ \A i \in Scored' : trace_scores'[i] \in Int
  BY <1>1, SchedulerAssumption DEF Scored, Update, EngineInv, KnownInv
<1>3. phase = "scheduled" /\ phase' = "scheduled" /\ finished_req_ids' = finished_req_ids
  BY <1>1 DEF EngineInv, StageInv, loopVars, queueVars
<1>4. SchedInv'
  <2>1. PICK scores : scores = trace_scores'
    OBVIOUS
  <2>2. /\ ScoreBatch(scores) /\ \A i \in DOMAIN scores : scores[i] \in Int
    BY <1>1, <1>2, <1>3, <2>1 DEF ScoreBatch, Scored
  <2> QED
    BY <2>2, ScoreBatchInv DEF EngineInv
<1>5. UNCHANGED <<requests, Live, admitted, evicted, aborted>>
  BY <1>1 DEF queueVars, historyVars, Live
<1>6. FlagsInv' /\ UNCHANGED <<Nodes, Active, Completed, Pruned, Counter>>
  BY <1>1, TreeAlone DEF EngineInv
<1>7. /\ Arriving \subseteq admitted
      /\ ~AsyncScorer => Arriving \subseteq Live
      /\ AsyncScorer => Arriving \subseteq future
  BY SchedFacts DEF Arriving, EngineInv, KnownInv
<1>8. KnownInv'
  BY <1>1, <1>2, <1>5, <1>6, <1>7 DEF EngineInv, KnownInv
<1>9. StageInv'
  BY <1>1, <1>3 DEF EngineInv, StageInv
<1>10. NamesInv'
  BY <1>1, <1>5, <1>6, NamesKept DEF EngineInv, FlagsInv
<1>11. StopInv'
  BY <1>1, <1>5, <1>6 DEF EngineInv, StopInv
<1>12. OverInv'
  BY <1>1, <1>2, <1>5, <1>6, <1>7 DEF EngineInv, OverInv
<1>13. GhostInv'
  <2>1. ~AsyncScorer => Arriving \cap earlier = {}
    BY <1>7 DEF EngineInv, NamesInv
  <2>2. ~AsyncScorer => (Nodes' \cup Scored') \cap earlier' = {}
    BY <1>1, <1>2, <1>6, <2>1 DEF EngineInv, GhostInv
  <2>3. Active' \cup ((Scored' \cup future') \ Nodes')
          \subseteq Live' \cup evicted' \cup aborted' \cup earlier'
    BY <1>1, <1>2, <1>5, <1>6, <1>7 DEF EngineInv, GhostInv
  <2> QED
    BY <2>2, <2>3 DEF GhostInv
<1>14. WorkerHistoryInv'
  <2>1. /\ UNCHANGED <<seq_hs_to_clear, seq_hs_to_copy, branch_queue>>
        /\ histories \subseteq histories' /\ histories' \subseteq histories \cup Arriving
        /\ Arriving \subseteq histories' \cup future
    BY DEF TakeScores, Arriving, historyQueue
  <2>2. HistoryInv /\ QueueInv /\ HandoverInv
    BY DEF EngineInv, WorkerHistoryInv
  <2>3. seq_hs_to_clear = {} /\ seq_hs_to_copy = <<>> /\ Range(<<>>) = {}
    BY <1>1, <2>2, SMT DEF HandoverInv, Range
  <2>4. Copied = {} /\ Copied' = {} /\ Inherited = {} /\ Inherited' = {}
    BY <2>1, <2>3 DEF Copied, Inherited
  <2>5. Tracked' \subseteq histories'
    BY <1>1, <1>2, <1>6, <2>1, <2>2, <2>4 DEF Tracked, HistoryInv
  <2>6. histories' \subseteq Nodes' \cup Scored' \cup future'
    <3>1. CASE AsyncScorer
      <4>1. Arriving = future
        BY <3>1 DEF Arriving
      <4> QED
        BY <1>1, <1>2, <1>6, <2>1, <2>2, <4>1 DEF HistoryInv
    <3>2. CASE ~AsyncScorer
      <4>1. future = {}
        BY <3>2 DEF EngineInv, StageInv
      <4> QED
        BY <1>1, <1>2, <1>6, <2>1, <2>2, <4>1 DEF HistoryInv
    <3> QED
      BY <3>1, <3>2
  <2>7. HistoryInv'
    BY <1>6, <2>1, <2>3, <2>4, <2>5, <2>6 DEF HistoryInv
  <2>8. QueueInv'
    BY <1>5, <2>1, <2>2, <2>4 DEF QueueInv
  <2>9. HandoverInv'
    BY <1>1, <2>1, <2>3 DEF HandoverInv
  <2> QED
    BY <2>7, <2>8, <2>9 DEF WorkerHistoryInv
<1> QED
  BY <1>4, <1>6, <1>8, <1>9, <1>10, <1>11, <1>12, <1>13, <1>14 DEF EngineInv

\* The asynchronous scoring is started.
LEMMA SubmitScoringInv == EngineInv /\ SubmitScoring => EngineInv'
<1> SUFFICES ASSUME EngineInv, SubmitScoring PROVE EngineInv'
  OBVIOUS
<1>1. /\ stage = "submit" /\ future' = pending_hs \cap Scheduled /\ stage' = "output"
      /\ UNCHANGED <<schedVars, trace_tree, pending_low, pending_force, trace_scores, Scored,
                     pending_hs, token_counts, Counted, earlier>>
  BY DEF SubmitScoring, decisionVars, Scored, Counted
<1>2. SchedInv' /\ UNCHANGED <<requests, Live, phase, admitted, finished_req_ids, evicted, aborted>>
  BY <1>1, SchedulerAlone DEF EngineInv
<1>3. future' \subseteq Live /\ future' \subseteq admitted
  BY <1>1, SchedFacts DEF EngineInv
<1>4. FlagsInv' /\ UNCHANGED <<Nodes, Active, Completed, Pruned, Counter>>
  BY <1>1, TreeAlone DEF EngineInv
<1>5. KnownInv'
  BY <1>1, <1>2, <1>3, <1>4 DEF EngineInv, KnownInv
<1>6. StageInv'
  BY <1>1, <1>2 DEF EngineInv, StageInv
<1>7. NamesInv'
  BY <1>1, <1>2, <1>4, NamesKept DEF EngineInv, FlagsInv
<1>8. StopInv' /\ OverInv'
  BY <1>1, <1>2, <1>4 DEF EngineInv, StopInv, OverInv
<1>9. GhostInv'
  BY <1>1, <1>2, <1>3, <1>4 DEF EngineInv, GhostInv
<1>10. WorkerHistoryInv'
  <2>1. /\ UNCHANGED <<seq_hs_to_clear, seq_hs_to_copy, branch_queue>>
        /\ histories' = histories \cup future'
    BY DEF SubmitScoring, historyQueue
  <2>2. HistoryInv /\ QueueInv /\ HandoverInv
    BY DEF EngineInv, WorkerHistoryInv
  <2>3. seq_hs_to_clear = {} /\ seq_hs_to_copy = <<>> /\ Range(<<>>) = {} /\ future = {}
    BY <1>1, <2>2, SMT DEF HandoverInv, Range
  <2>4. Copied = {} /\ Copied' = {} /\ Inherited = {} /\ Inherited' = {}
    BY <2>1, <2>3 DEF Copied, Inherited
  <2>5. Tracked' \subseteq histories'
    BY <1>1, <1>4, <2>1, <2>2, <2>4 DEF Tracked, HistoryInv
  <2>6. histories' \subseteq Nodes' \cup Scored' \cup future'
    BY <1>1, <1>4, <2>1, <2>2, <2>3 DEF HistoryInv
  <2>7. HistoryInv'
    BY <1>4, <2>1, <2>3, <2>4, <2>5, <2>6 DEF HistoryInv
  <2>8. QueueInv'
    BY <1>2, <2>1, <2>2, <2>4 DEF QueueInv
  <2>9. HandoverInv'
    BY <1>1, <1>4, <2>1, <2>2, <2>3 DEF HandoverInv
  <2> QED
    BY <2>7, <2>8, <2>9 DEF WorkerHistoryInv
<1> QED
  BY <1>2, <1>4, <1>5, <1>6, <1>7, <1>8, <1>9, <1>10 DEF EngineInv

\* A step that only takes a parent off the queue keeps what concerns the histories.
LEMMA QueuePopped ==
    ASSUME WorkerHistoryInv, branch_queue # <<>>, branch_queue' = Tail(branch_queue),
           UNCHANGED <<histories, seq_hs_to_clear, seq_hs_to_copy, stage, future, earlier, Scored,
                       Nodes, Active, Pruned, admitted>>
    PROVE  WorkerHistoryInv'
<1>1. HistoryInv /\ QueueInv /\ HandoverInv
  BY DEF WorkerHistoryInv
<1>2. UNCHANGED <<Copied, Inherited, Tracked>>
  BY DEF Copied, Inherited, Tracked
<1>3. branch_queue' \in Seq(Ids) /\ Range(branch_queue') \subseteq Range(branch_queue)
  BY <1>1, TailFacts DEF QueueInv
<1>4. HistoryInv'
  BY <1>1, <1>2 DEF HistoryInv
<1>5. QueueInv'
  BY <1>1, <1>2, <1>3 DEF QueueInv
<1>6. HandoverInv'
  BY <1>1 DEF HandoverInv
<1> QED
  BY <1>4, <1>5, <1>6 DEF WorkerHistoryInv

\* _gambit_create_branch
LEMMA BranchCreatedInv == EngineInv /\ BranchCreated => EngineInv'
<1> SUFFICES ASSUME EngineInv, BranchCreated PROVE EngineInv'
  OBVIOUS
<1> DEFINE p == Head(branch_queue)
           c == GenerateBranchId(trace_tree, p)
<1>0. SchedInv /\ FlagsInv /\ KnownInv /\ NamesInv /\ StopInv /\ OverInv /\ GhostInv
  BY DEF EngineInv
<1>1. /\ stage = "branch" /\ MayCreateBranch(p)
      /\ trace_tree' = AddBranch(trace_tree, p, c)
      /\ AddRequest(c, Request(requests[p].num_tokens, requests[p].arrival))
      /\ trace_scores' = (IF p \in Scored
                          THEN Update(trace_scores, [i \in {c} |-> trace_scores[p]])
                          ELSE trace_scores)
      /\ token_counts' = Update(token_counts, [i \in {c} |-> 0])
      /\ UNCHANGED <<pending_low, pending_force, pending_hs, future, stage, earlier>>
  BY DEF BranchCreated, BranchLoop
<1>2. p \in Live /\ p \in Active /\ p \in Nodes /\ p \in admitted
  BY <1>0, <1>1, SchedFacts DEF MayCreateBranch, CanTraceBranch, FlagsInv, Active
<1> HIDE DEF p
<1>3. /\ c \in Ids /\ c \notin admitted /\ c \notin Nodes
      /\ Len(c) > 1 /\ Len(c) \in Nat
      /\ Head(c) = Counter /\ Head(c) \in Nat
      /\ RootOf(c) = RootOf(p)
  BY <1>2, FreshBranch
<1>4. /\ requests[p].num_tokens \in 1 .. MaxLen - 1 /\ requests[p].arrival \in Nat
  BY <1>0, <1>2, SchedulerAssumption, SMT DEF KnownInv, SchedInv, SchedTypeOK, TokenInv
<1> HIDE DEF c
<1>5. SchedInv'
  BY <1>0, <1>1, <1>3, <1>4, AddRequestInv
<1>6. /\ Live' = Live \cup {c} /\ admitted' = admitted \cup {c}
      /\ requests' = Update(requests, [i \in {c} |->
                              Request(requests[p].num_tokens, requests[p].arrival)])
      /\ phase' = phase /\ finished_req_ids' = finished_req_ids
      /\ evicted' = evicted /\ aborted' = aborted
  BY <1>1 DEF AddRequest, Update, Live, loopVars
<1>7. \A i \in Live' : requests'[i].num_tokens > 0
  <2>1. requests'[c].num_tokens > 0
    BY <1>4, <1>6, SMT DEF Update, Request
  <2>2. \A i \in Live : requests'[i].num_tokens > 0
    BY <1>0, <1>4, <1>6, SMT DEF Update, Request, Live, KnownInv
  <2> QED
    BY <1>6, <2>1, <2>2
<1>8. /\ IsTree(trace_tree') /\ Nodes' = Nodes \cup {c} /\ Active' = Active \cup {c}
      /\ Completed' = Completed /\ Pruned' = Pruned /\ Counter' = Counter + 1
  <2>1. /\ IsTree(trace_tree) /\ p \in trace_tree.nodes /\ c \notin trace_tree.nodes
        /\ trace_tree.active \cup trace_tree.completed \cup trace_tree.pruned
             \subseteq trace_tree.nodes
    BY <1>0, <1>2, <1>3 DEF FlagsInv, Nodes, Active, Completed, Pruned
  <2>2. HasFlags(trace_tree', Nodes \cup {c}, Active \cup {c}, Completed, Pruned, Counter + 1)
    BY <1>1, <2>1, AddBranchFlags DEF Nodes, Active, Completed, Pruned, Counter
  <2> QED
    BY <2>2 DEF HasFlags, Nodes, Active, Completed, Pruned, Counter
<1>9. /\ Scored \subseteq Scored' /\ Scored' \subseteq Scored \cup {c}
      /\ \A i \in Scored' : trace_scores'[i] \in Int
      /\ Counted' = Counted \cup {c}
  BY <1>0, <1>1 DEF Scored, Counted, Update, KnownInv
<1>10. /\ c \notin Active /\ c \notin Completed /\ c \notin Pruned /\ c \notin earlier
  BY <1>0, <1>3 DEF KnownInv, FlagsInv
<1>11. FlagsInv'
  <2>1. Counter' \in Nat
    BY <1>0, <1>8, SMT DEF FlagsInv
  <2> QED
    BY <1>0, <1>8, <1>10, <2>1 DEF FlagsInv
<1>12. KnownInv'
  <2>1. IsFiniteSet(admitted')
    BY <1>0, <1>6, FS_AddElement DEF KnownInv
  <2>2. Nodes' \cup Scored' \cup future' \cup pending_hs' \cup earlier' \subseteq admitted'
    BY <1>0, <1>1, <1>6, <1>8, <1>9 DEF KnownInv
  <2> QED
    BY <1>7, <1>9, <2>1, <2>2 DEF KnownInv
<1>13. NamesInv'
  <2>1. \A j \in admitted' : Len(j) > 0 /\ RootId(RootOf(j)) \in admitted'
    BY <1>0, <1>2, <1>3, <1>6, SMT DEF NamesInv
  <2>2. \A i \in Live', j \in earlier' : RootOf(i) # RootOf(j)
    BY <1>0, <1>1, <1>2, <1>3, <1>6 DEF NamesInv
  <2>3. ASSUME NEW j \in admitted' \ earlier'
        PROVE  Len(j) = 1 \/ (Head(j) \in Nat /\ Head(j) < Counter')
    <3>1. Counter \in Nat /\ Counter' = Counter + 1
      BY <1>0, <1>8 DEF FlagsInv
    <3>2. CASE j = c
      BY <1>3, <3>1, <3>2, SMT
    <3>3. CASE j # c
      <4>1. Len(j) = 1 \/ (Head(j) \in Nat /\ Head(j) < Counter)
        BY <1>0, <1>1, <1>6, <3>3 DEF NamesInv
      <4> QED
        BY <3>1, <4>1, SMT
    <3> QED
      BY <3>2, <3>3
  <2> QED
    BY <2>1, <2>2, <2>3 DEF NamesInv
<1>14. StopInv'
  BY <1>0, <1>1, <1>6, <1>8, <1>10 DEF StopInv
<1>15. OverInv'
  BY <1>0, <1>6, <1>8, <1>9, <1>10 DEF OverInv
<1>16. GhostInv'
  BY <1>0, <1>1, <1>6, <1>8, <1>9, <1>10 DEF GhostInv
<1>17. StageInv'
  BY <1>1, <1>6 DEF EngineInv, StageInv
<1>18. WorkerHistoryInv'
  <2>1. /\ UNCHANGED <<histories, seq_hs_to_clear>> /\ branch_queue # <<>>
        /\ seq_hs_to_copy' = Append(seq_hs_to_copy, <<p, c>>)
        /\ branch_queue' = Tail(branch_queue)
    BY DEF BranchCreated, BranchLoop, p, c
  <2>2. HistoryInv /\ QueueInv /\ HandoverInv
    BY DEF EngineInv, WorkerHistoryInv
  <2>3. p \in Range(branch_queue) /\ Range(branch_queue') \subseteq Range(branch_queue)
        /\ branch_queue' \in Seq(Ids) /\ p \in Ids
    BY <2>1, <2>2, TailFacts DEF QueueInv, p
  <2> DEFINE new == <<p, c>>
             pairs == Range(seq_hs_to_copy)
             held == histories \ seq_hs_to_clear
  <2>4. new \in Ids \X Ids /\ new[1] = p /\ new[2] = c
    BY <1>3, <2>3
  <2>5. seq_hs_to_copy' = Append(seq_hs_to_copy, new) /\ seq_hs_to_copy \in Seq(Ids \X Ids)
    BY <2>1, <2>2 DEF QueueInv
  <2> HIDE DEF new
  <2>6. /\ seq_hs_to_copy' \in Seq(Ids \X Ids) /\ Range(seq_hs_to_copy') = pairs \cup {new}
        /\ Copied' = Copied \cup {c} /\ Inherited \subseteq Inherited'
        /\ p \in held => c \in Inherited'
    <3>1. /\ seq_hs_to_copy' \in Seq(Ids \X Ids) /\ Range(seq_hs_to_copy') = pairs \cup {new}
      BY <2>4, <2>5, AppendFacts, SMT
    <3>2. /\ Copied = {pair[2] : pair \in pairs}
          /\ Copied' = {pair[2] : pair \in pairs \cup {new}}
          /\ Inherited = {pair[2] : pair \in {q \in pairs : q[1] \in held}}
          /\ Inherited' = {pair[2] : pair \in {q \in pairs \cup {new} : q[1] \in held}}
      BY <2>1, <3>1 DEF Copied, Inherited
    <3> HIDE DEF pairs, held
    <3>3. Copied' = Copied \cup {c}
      BY <2>4, <3>2
    <3>4. Inherited \subseteq Inherited'
      BY <3>2
    <3>5. p \in held => c \in Inherited'
      BY <2>4, <3>2
    <3> QED
      BY <3>1, <3>3, <3>4, <3>5
  <2>7. Inherited \subseteq Copied
    BY DEF Inherited, Copied
  <2>8. c \in Scored' => p \in Scored
    BY <1>0, <1>1, <1>3 DEF KnownInv, Scored, Update
  <2>9. p \notin earlier /\ p \notin Copied /\ p \notin seq_hs_to_clear
    BY <1>0, <1>2, <2>2, <2>3 DEF NamesInv, QueueInv, HistoryInv, FlagsInv
  <2>10. c \in Scored' => c \in Inherited'
    <3>1. c \in Scored' => p \in Tracked
      BY <1>2, <2>8, <2>9 DEF Tracked
    <3> QED
      BY <2>2, <2>6, <2>7, <2>9, <3>1 DEF HistoryInv, held
  <2>11. c \notin future
    BY <1>0, <1>3 DEF KnownInv
  <2>12. Tracked' \subseteq histories' \cup Inherited'
    <3>1. Tracked' \subseteq Tracked \cup (Scored' \cap {c})
      BY <1>1, <1>8, <1>9, <2>11 DEF Tracked
    <3> QED
      BY <2>1, <2>2, <2>6, <2>10, <3>1 DEF HistoryInv
  <2>13. HistoryInv'
    BY <1>1, <1>8, <1>9, <2>1, <2>2, <2>6, <2>12 DEF HistoryInv
  <2>14. QueueInv'
    BY <1>3, <1>6, <2>2, <2>3, <2>6 DEF QueueInv
  <2>15. HandoverInv'
    BY <1>1, <1>8, <1>9, <2>2 DEF HandoverInv
  <2> QED
    BY <2>13, <2>14, <2>15 DEF WorkerHistoryInv
<1> QED
  BY <1>5, <1>11, <1>12, <1>13, <1>14, <1>15, <1>16, <1>17, <1>18 DEF EngineInv

\* _gambit_create_branch when the request cannot be built: only the counter moves.
LEMMA BranchFailedInv == EngineInv /\ BranchFailed => EngineInv'
<1> SUFFICES ASSUME EngineInv, BranchFailed PROVE EngineInv'
  OBVIOUS
<1> DEFINE p == Head(branch_queue)
           c == GenerateBranchId(trace_tree, p)
<1>0. SchedInv /\ FlagsInv /\ KnownInv /\ NamesInv /\ StopInv /\ OverInv /\ GhostInv
  BY DEF EngineInv
<1>1. /\ MayCreateBranch(p) /\ trace_tree' = RemoveTrace(AddBranch(trace_tree, p, c), c)
      /\ UNCHANGED <<schedVars, pending_low, pending_force, trace_scores, Scored, pending_hs,
                     future, token_counts, Counted, stage, earlier>>
  BY DEF BranchFailed, scoreVars, Scored, Counted
<1>2. p \in Live /\ p \in Nodes
  BY <1>0, <1>1 DEF MayCreateBranch, CanTraceBranch, FlagsInv, Active
<1> HIDE DEF p
<1>3. c \notin Nodes
  BY <1>2, FreshBranch
<1>4. SchedInv' /\ UNCHANGED <<requests, Live, phase, admitted, finished_req_ids, evicted, aborted>>
  BY <1>0, <1>1, SchedulerAlone
<1> HIDE DEF c
<1>5. /\ IsTree(trace_tree') /\ Nodes' = Nodes /\ Active' = Active
      /\ Completed' = Completed /\ Pruned' = Pruned /\ Counter' = Counter + 1
  <2>1. /\ IsTree(trace_tree) /\ p \in trace_tree.nodes /\ c \notin trace_tree.nodes
        /\ trace_tree.active \cup trace_tree.completed \cup trace_tree.pruned
             \subseteq trace_tree.nodes
    BY <1>0, <1>2, <1>3 DEF FlagsInv, Nodes, Active, Completed, Pruned
  <2>2. HasFlags(trace_tree', Nodes, Active, Completed, Pruned, Counter + 1)
    BY <1>1, <2>1, AddBranchFlags DEF Nodes, Active, Completed, Pruned, Counter
  <2> QED
    BY <2>2 DEF HasFlags, Nodes, Active, Completed, Pruned, Counter
<1>6. FlagsInv'
  <2>1. Counter' \in Nat
    BY <1>0, <1>5, SMT DEF FlagsInv
  <2> QED
    BY <1>0, <1>5, <2>1 DEF FlagsInv
<1>7. KnownInv'
  BY <1>0, <1>1, <1>4, <1>5 DEF KnownInv
<1>8. StageInv'
  BY <1>1, <1>4 DEF EngineInv, StageInv
<1>9. NamesInv'
  BY <1>0, <1>1, <1>4, <1>5, NamesKept DEF FlagsInv
<1>10. StopInv' /\ OverInv' /\ GhostInv'
  BY <1>0, <1>1, <1>4, <1>5 DEF StopInv, OverInv, GhostInv
<1>11. WorkerHistoryInv'
  BY <1>1, <1>4, <1>5, QueuePopped DEF EngineInv, BranchFailed, BranchLoop, scoreVars, historyQueue
<1> QED
  BY <1>4, <1>6, <1>7, <1>8, <1>9, <1>10, <1>11 DEF EngineInv

\* A parent that cannot be branched is passed over.
LEMMA BranchRefusedInv == EngineInv /\ BranchRefused => EngineInv'
<1> SUFFICES ASSUME EngineInv, BranchRefused PROVE EngineInv'
  OBVIOUS
<1>1. /\ branch_queue # <<>> /\ branch_queue' = Tail(branch_queue)
      /\ UNCHANGED <<schedVars, trace_tree, pending_low, pending_force, trace_scores, Scored,
                     pending_hs, future, histories, seq_hs_to_clear, seq_hs_to_copy,
                     token_counts, stage, earlier>>
  BY DEF BranchRefused, BranchLoop, decisionVars, scoreVars, historyQueue, Scored
<1>2. UNCHANGED <<Nodes, Active, Pruned, admitted>>
  BY <1>1, SchedulerAlone, TreeAlone DEF EngineInv
<1>3. WorkerHistoryInv'
  BY <1>1, <1>2, QueuePopped DEF EngineInv
<1> QED
  BY <1>1, <1>3, QuietStep

\* The end of _gambit_decision_step: the worker's histories follow it.
LEMMA BranchingDoneInv == EngineInv /\ BranchingDone => EngineInv'
<1> SUFFICES ASSUME EngineInv, BranchingDone PROVE EngineInv'
  OBVIOUS
<1>1. /\ stage = "branch" /\ branch_queue' = <<>>
      /\ histories' = SyncSequenceHistories(histories, seq_hs_to_clear, seq_hs_to_copy)
      /\ seq_hs_to_clear' = {} /\ seq_hs_to_copy' = <<>>
      /\ stage' = "output" \/ (stage' = "submit" /\ AsyncScorer)
      /\ UNCHANGED <<schedVars, trace_tree, pending_low, pending_force, trace_scores, Scored,
                     pending_hs, future, token_counts, earlier>>
  BY DEF BranchingDone, AfterDecision, decisionVars, Scored
<1>2. UNCHANGED <<Nodes, Active, Pruned, admitted>>
  BY <1>1, SchedulerAlone, TreeAlone DEF EngineInv
<1>3. HistoryInv /\ QueueInv /\ HandoverInv /\ FlagsInv
  BY DEF EngineInv, WorkerHistoryInv
<1>4. histories' = (histories \ seq_hs_to_clear) \cup Inherited /\ Inherited \subseteq Copied
  BY <1>1 DEF SyncSequenceHistories, Inherited, Copied
<1>5. Range(<<>>) = {} /\ Copied' = {} /\ Inherited' = {}
  BY <1>1, SMT DEF Range, Copied, Inherited
<1>6. Tracked' = Tracked /\ Tracked \cap seq_hs_to_clear = {}
  BY <1>1, <1>2, <1>3 DEF Tracked, HistoryInv, FlagsInv
<1>7. HistoryInv'
  BY <1>1, <1>2, <1>3, <1>4, <1>5, <1>6 DEF HistoryInv
<1>8. QueueInv'
  BY <1>1, <1>5, SMT DEF QueueInv
<1>9. HandoverInv'
  BY <1>1, <1>2, <1>3 DEF HandoverInv
<1> QED
  BY <1>1, <1>7, <1>8, <1>9, QuietStep DEF WorkerHistoryInv
=============================================================================
