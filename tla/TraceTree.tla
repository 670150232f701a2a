------------------------------ MODULE TraceTree ------------------------------
(***************************************************************************)
(* vllm/v1/engine/trace_tree.py: the forest of reasoning traces.           *)
(*                                                                         *)
(* The tree is one value, a record, and every method is a function from    *)
(* trees to trees, because the engine core calls several methods within    *)
(* one of its steps.  The three flags of a TraceNode are the sets active,  *)
(* completed and pruned.  current_step and last_branch_step are read only  *)
(* through their difference, compared with the cooldown: since_branch is   *)
(* that difference, counted up to the cooldown, or -1 if the trace never   *)
(* branched.                                                               *)
(***************************************************************************)
EXTENDS TraceIds, FiniteSets

CONSTANTS MaxTraces,            \* capacity C, or max_total_traces
          Cooldown,             \* branch_cooldown_steps; 0 in tournament mode
          MinTokens,            \* min_tokens_before_branch; 0 in tournament mode
          MaxBranches           \* bound: branches created during one tree's life

ASSUME TreeAssumption ==
    /\ MaxTraces \in Nat /\ Cooldown \in Nat /\ MinTokens \in Nat
    /\ MaxBranches \in Nat
    /\ Roots \cap Nat = {}

VARIABLE trace_tree

EmptyTree ==
    [nodes |-> {}, root_ids |-> {},
     active |-> {}, completed |-> {}, pruned |-> {},
     parent_id |-> EmptyDict, branch_depth |-> EmptyDict,
     children |-> EmptyDict, since_branch |-> EmptyDict,
     branch_counter |-> 0]

\* Seeded fault: only the roots are counted.
ActiveRootCount(t) == Cardinality(t.active \cap t.root_ids)

ActiveCount(t) == Cardinality(t.active)

CompletedCount(t) == Cardinality(t.completed)

CanBranch(t) == ActiveCount(t) < MaxTraces

CanTraceBranch(t, id, tokens) ==
    /\ id \in t.active
    /\ CanBranch(t)
    /\ tokens >= MinTokens
    /\ t.since_branch[id] >= 0 => t.since_branch[id] >= Cooldown

GenerateBranchId(t, p) == BranchId(t.branch_counter, p)

\* add_root for every id of a set, none of them a node yet.
AddRoots(t, ids) ==
    [t EXCEPT !.nodes = @ \cup ids,
              !.root_ids = @ \cup ids,
              !.active = @ \cup ids,
              !.branch_depth = Update(@, [i \in ids |-> 0]),
              !.children = Update(@, [i \in ids |-> {}]),
              !.since_branch = Update(@, [i \in ids |-> -1])]

\* Seeded fault: the child is not listed by its parent.
AddUnlistedBranch(t, p, c) ==
    IF p \notin t.nodes THEN t ELSE
    [t EXCEPT !.nodes = @ \cup {c},
              !.active = @ \cup {c},
              !.parent_id = Update(@, [i \in {c} |-> p]),
              !.branch_depth = Update(@, [i \in {c} |-> t.branch_depth[p] + 1]),
              !.children = Update(@, [i \in {c} |-> {}]),
              !.since_branch = Update([@ EXCEPT ![p] = 0], [i \in {c} |-> -1]),
              !.branch_counter = @ + 1]

AddBranch(t, p, c) ==
    IF p \notin t.nodes THEN t ELSE
    [t EXCEPT !.nodes = @ \cup {c},
              !.active = @ \cup {c},
              !.parent_id = Update(@, [i \in {c} |-> p]),
              !.branch_depth = Update(@, [i \in {c} |-> t.branch_depth[p] + 1]),
              !.children = Update(@, [i \in {p, c} |-> IF i = c THEN {} ELSE @[p] \cup {c}]),
              !.since_branch = Update([@ EXCEPT ![p] = 0], [i \in {c} |-> -1]),
              !.branch_counter = @ + 1]

\* Seeded fault: the removed trace keeps its parent.
RemoveButParent(t, id) ==
    [t EXCEPT !.nodes = @ \ {id},
              !.active = @ \ {id},
              !.branch_depth = Drop(@, {id}),
              !.children = Drop(@, {id}),
              !.since_branch = Drop(@, {id})]

\* Seeded fault: the branch counter is set back.
RemoveAndCountBack(t, id) ==
    [t EXCEPT !.nodes = @ \ {id},
              !.active = @ \ {id},
              !.parent_id = Drop(@, {id}),
              !.branch_depth = Drop(@, {id}),
              !.children = Drop(@, {id}),
              !.since_branch = Drop(@, {id}),
              !.branch_counter = @ - 1]

\* The parent keeps the removed id in its list of children, and neither its
\* last_branch_step nor the branch counter is set back.
RemoveTrace(t, id) ==
    [t EXCEPT !.nodes = @ \ {id},
              !.root_ids = @ \ {id},
              !.active = @ \ {id},
              !.completed = @ \ {id},
              !.pruned = @ \ {id},
              !.parent_id = Drop(@, {id}),
              !.branch_depth = Drop(@, {id}),
              !.children = Drop(@, {id}),
              !.since_branch = Drop(@, {id})]

\* Seeded fault: a completed trace stays active.
MarkCompletedOnly(t, ids) == [t EXCEPT !.completed = @ \cup (ids \cap t.nodes)]

MarkCompleted(t, ids) ==
    [t EXCEPT !.active = @ \ ids, !.completed = @ \cup (ids \cap t.nodes)]

MarkPruned(t, ids) ==
    [t EXCEPT !.active = @ \ ids, !.pruned = @ \cup (ids \cap t.nodes)]

IncrementStep(t) ==
    [t EXCEPT !.since_branch =
        [i \in DOMAIN @ |-> IF @[i] \in 0 .. Cooldown - 1 THEN @[i] + 1 ELSE @[i]]]

-----------------------------------------------------------------------------
(***************************************************************************)
(* The tree on its own, driven the way the engine core drives it: ids are  *)
(* registered once, a branch is attempted only when can_trace_branch       *)
(* allows it, and remove_trace undoes the branch just added when its       *)
(* request could not be built.                                             *)
(***************************************************************************)
TreeInit == trace_tree = EmptyTree

TreeAddRoot(r) ==
    /\ RootId(r) \notin trace_tree.nodes
    /\ trace_tree' = AddRoots(trace_tree, {RootId(r)})

TreeAddBranch(p, tokens) ==
    /\ CanTraceBranch(trace_tree, p, tokens)
    /\ trace_tree.branch_counter < MaxBranches
    /\ trace_tree' = AddBranch(trace_tree, p, GenerateBranchId(trace_tree, p))

TreeFailedBranch(p, tokens) ==
    /\ CanTraceBranch(trace_tree, p, tokens)
    /\ trace_tree.branch_counter < MaxBranches
    /\ LET c == GenerateBranchId(trace_tree, p)
       IN  trace_tree' = RemoveTrace(AddBranch(trace_tree, p, c), c)

TreeMarkCompleted(id) ==
    /\ id \notin trace_tree.pruned
    /\ trace_tree' = MarkCompleted(trace_tree, {id})

TreeMarkPruned(id) == trace_tree' = MarkPruned(trace_tree, {id})

TreeIncrementStep == trace_tree' = IncrementStep(trace_tree)

TreeNext ==
    \/ \E r \in Roots : TreeAddRoot(r)
    \/ \E p \in trace_tree.nodes, tokens \in {0, MinTokens} :
            TreeAddBranch(p, tokens) \/ TreeFailedBranch(p, tokens)
    \/ \E id \in trace_tree.nodes : TreeMarkCompleted(id) \/ TreeMarkPruned(id)
    \/ TreeIncrementStep

TreeSpec == TreeInit /\ [][TreeNext]_trace_tree

-----------------------------------------------------------------------------
\* The type invariant of a tree: every per-node table covers exactly the nodes.
TreeTypeOK(t) ==
    t \in [nodes : SUBSET Ids, root_ids : SUBSET t.nodes,
           active : SUBSET t.nodes, completed : SUBSET t.nodes,
           pruned : SUBSET t.nodes,
           parent_id : [t.nodes \ t.root_ids -> t.nodes],
           branch_depth : [t.nodes -> Nat],
           children : [t.nodes -> SUBSET Ids],
           since_branch : [t.nodes -> -1 .. Cooldown],
           branch_counter : Nat]

\* The type invariant, for the tree held by the engine core.
TraceTreeTypeOK == TreeTypeOK(trace_tree)

\* The nodes form a forest whose shape the ids spell out: a root has depth 0, a
\* branch sits one level below the trace it was forked from and is listed among
\* that trace's children, and its number is one the counter has already passed.
\* So ancestry can be followed to a root whatever was completed, pruned or
\* removed in between (add_root, add_branch, remove_trace).
IsForest(t) ==
    /\ \A i \in t.root_ids : Len(i) = 1 /\ t.branch_depth[i] = 0
    /\ \A i \in t.nodes \ t.root_ids :
         LET p == t.parent_id[i]
         IN  /\ i = BranchId(Head(i), p)
             /\ Head(i) \in 0 .. t.branch_counter - 1
             /\ t.branch_depth[i] = t.branch_depth[p] + 1
             /\ i \in t.children[p]

\* IsForest, for the tree held by the engine core.
Forest == IsForest(trace_tree)

\* generate_branch_id never hands out an id twice: not one of a node, nor one a
\* trace still lists among its children although remove_trace dropped it.
BranchIdsFresh ==
    \A p \in trace_tree.nodes :
        GenerateBranchId(trace_tree, p)
            \notin trace_tree.nodes \cup UNION {trace_tree.children[q] : q \in trace_tree.nodes}

\* A step that creates a branch leaves at most MaxTraces traces active, however
\* many roots the client registered before (can_branch in can_trace_branch).
BranchingWithinCapacity ==
    [][trace_tree'.branch_counter > trace_tree.branch_counter
         => Cardinality(trace_tree'.active) <= MaxTraces]_trace_tree
=============================================================================
