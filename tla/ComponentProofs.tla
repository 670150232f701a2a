-------------------------- MODULE ComponentProofs --------------------------
(***************************************************************************)
(* Proofs about the two parts of the engine core that have a specification *)
(* of their own, first the trace tree, then the scheduler.                 *)
(*                                                                         *)
(* The tree, for every set of roots, every capacity and every number of    *)
(* branches: its tables cover the nodes, the nodes form a forest, a new    *)
(* branch gets an id nobody has, and branching keeps to the capacity.      *)
(*                                                                         *)
(* The scheduler, for every number of requests and every limit: the        *)
(* inductive invariant SchedInv and what follows from it, and the size of  *)
(* the batch.                                                              *)
(***************************************************************************)
EXTENDS TraceTree, Scheduler, FiniteSetTheorems, SequenceTheorems, TLAPS

-----------------------------------------------------------------------------
(***************************************************************************)
(* Ids.                                                                    *)
(***************************************************************************)

\* The id of a branch is one longer than its parent's and starts with its number.
LEMMA BranchIdFacts ==
    ASSUME NEW n \in Nat, NEW p \in Ids
    PROVE  /\ BranchId(n, p) \in Ids
           /\ Len(BranchId(n, p)) = Len(p) + 1
           /\ Head(BranchId(n, p)) = n
<1>1. <<n>> \in Seq(Nat \cup Roots) /\ Len(<<n>>) = 1 /\ <<n>>[1] = n
  OBVIOUS
<1>2. p \in Seq(Nat \cup Roots) /\ Len(p) \in Nat
  BY LenProperties DEF Ids
<1>3. /\ <<n>> \o p \in Seq(Nat \cup Roots)
      /\ Len(<<n>> \o p) = 1 + Len(p)
      /\ (<<n>> \o p)[1] = n
  BY <1>1, <1>2, ConcatProperties
<1> QED
  BY <1>2, <1>3 DEF BranchId, Ids

-----------------------------------------------------------------------------
(***************************************************************************)
(* The inductive invariant.                                                *)
(***************************************************************************)

\* Every id a trace lists among its children was handed out by the counter.
ChildrenNumbered(t) ==
    \A q \in t.nodes : \A c \in t.children[q] :
        Len(c) > 1 /\ Head(c) \in 0 .. t.branch_counter - 1

\* The forest, with the numbers of the listed children: a removed branch is still
\* listed, so freshness cannot be read off the nodes alone.
TreeInv(t) == TreeTypeOK(t) /\ IsForest(t) /\ ChildrenNumbered(t)

\* Every node's id has at least the name of its root.
LEMMA NodesHaveNames ==
    ASSUME NEW t, TreeInv(t), NEW i \in t.nodes
    PROVE  i \in Ids /\ Len(i) \in Nat \ {0}
<1>1. i \in Ids /\ Len(i) \in Nat
  BY LenProperties DEF TreeInv, TreeTypeOK, Ids
<1>2. CASE i \in t.root_ids
  BY <1>1, <1>2, SMTT(20) DEF TreeInv, IsForest
<1>3. CASE i \notin t.root_ids
  <2> DEFINE p == t.parent_id[i]
  <2>1. p \in Ids /\ i = BranchId(Head(i), p) /\ Head(i) \in Nat
    BY <1>3 DEF TreeInv, IsForest, TreeTypeOK
  <2>2. Len(p) \in Nat
    BY <2>1, LenProperties DEF Ids
  <2> HIDE DEF p
  <2>3. Len(BranchId(Head(i), p)) = Len(p) + 1
    BY <2>1, BranchIdFacts
  <2> QED
    BY <1>1, <2>1, <2>2, <2>3
<1> QED
  BY <1>2, <1>3

\* The id generate_branch_id returns is not in use, as a node or in a list.
LEMMA FreshId ==
    ASSUME NEW t, TreeInv(t), NEW p \in t.nodes
    PROVE  /\ GenerateBranchId(t, p) \in Ids
           /\ Len(GenerateBranchId(t, p)) > 1
           /\ Head(GenerateBranchId(t, p)) = t.branch_counter
           /\ GenerateBranchId(t, p) \notin t.nodes
           /\ \A q \in t.nodes : GenerateBranchId(t, p) \notin t.children[q]
<1> DEFINE c == GenerateBranchId(t, p)
<1>1. t.branch_counter \in Nat
  BY DEF TreeInv, TreeTypeOK
<1>2. p \in Ids /\ Len(p) \in Nat \ {0}
  BY NodesHaveNames
<1>3. c \in Ids /\ Len(c) = Len(p) + 1 /\ Head(c) = t.branch_counter
  BY <1>1, <1>2, BranchIdFacts DEF GenerateBranchId
<1> HIDE DEF c
<1>4. Len(c) > 1 /\ Len(c) # 1
  <2>1. Len(c) = Len(p) + 1
    BY <1>3
  <2> QED
    BY <1>2, <2>1
<1>5. Head(c) \notin 0 .. t.branch_counter - 1
  <2>1. Head(c) = t.branch_counter
    BY <1>3
  <2> QED
    BY <1>1, <2>1
<1>6. c \notin t.nodes
  <2>1. c \in t.root_ids => Len(c) = 1
    BY DEF TreeInv, IsForest
  <2>2. c \in t.nodes \ t.root_ids => Head(c) \in 0 .. t.branch_counter - 1
    BY DEF TreeInv, IsForest
  <2> QED
    BY <1>4, <1>5, <2>1, <2>2
<1>7. \A q \in t.nodes : c \notin t.children[q]
  BY <1>5 DEF TreeInv, ChildrenNumbered
<1> QED
  BY <1>3, <1>4, <1>6, <1>7 DEF c

-----------------------------------------------------------------------------
(***************************************************************************)
(* Each operation keeps the invariant.                                     *)
(***************************************************************************)

\* A tree is a function on the names of its ten fields.
TreeFields ==
    {"nodes", "root_ids", "active", "completed", "pruned", "parent_id",
     "branch_depth", "children", "since_branch", "branch_counter"}

IsTree(t) == t = [f \in TreeFields |-> t[f]]

\* A value of that shape has the type of a tree when its fields have theirs.
LEMMA TypeByField ==
    ASSUME NEW t
    PROVE  TreeTypeOK(t) <=>
             /\ IsTree(t)
             /\ t.nodes \subseteq Ids /\ t.root_ids \subseteq t.nodes
             /\ t.active \subseteq t.nodes /\ t.completed \subseteq t.nodes
             /\ t.pruned \subseteq t.nodes
             /\ t.parent_id \in [t.nodes \ t.root_ids -> t.nodes]
             /\ t.branch_depth \in [t.nodes -> Nat]
             /\ t.children \in [t.nodes -> SUBSET Ids]
             /\ t.since_branch \in [t.nodes -> -1 .. Cooldown]
             /\ t.branch_counter \in Nat
BY DEF TreeTypeOK, IsTree, TreeFields

\* add_root: a root of depth 0 without children.
LEMMA AddRootKeepsInv ==
    ASSUME NEW t, TreeInv(t), NEW i \in Ids, Len(i) = 1, i \notin t.nodes
    PROVE  TreeInv(AddRoots(t, {i}))
<1> DEFINE u == AddRoots(t, {i})
           new_depth == [j \in {i} |-> 0]
           new_children == [j \in {i} |-> {}]
           new_since == [j \in {i} |-> -1]
<1>1. IsTree(t)
  BY TypeByField DEF TreeInv
<1>2. /\ u.nodes = t.nodes \cup {i} /\ u.root_ids = t.root_ids \cup {i}
      /\ u.active = t.active \cup {i} /\ u.completed = t.completed
      /\ u.pruned = t.pruned /\ u.parent_id = t.parent_id
      /\ u.branch_depth = Update(t.branch_depth, new_depth)
      /\ u.children = Update(t.children, new_children)
      /\ u.since_branch = Update(t.since_branch, new_since)
      /\ u.branch_counter = t.branch_counter
  BY <1>1 DEF AddRoots, IsTree, TreeFields
<1>3. IsTree(u)
  BY <1>1 DEF AddRoots, IsTree
<1>4. /\ new_depth \in [{i} -> Nat] /\ new_depth[i] = 0
      /\ new_children \in [{i} -> SUBSET Ids] /\ new_children[i] = {}
      /\ new_since \in [{i} -> -1 .. Cooldown]
  BY TreeAssumption
<1> HIDE DEF u, new_depth, new_children, new_since
<1>5. /\ t.nodes \subseteq Ids /\ t.root_ids \subseteq t.nodes
      /\ t.active \subseteq t.nodes /\ t.completed \subseteq t.nodes
      /\ t.pruned \subseteq t.nodes
      /\ t.parent_id \in [t.nodes \ t.root_ids -> t.nodes]
      /\ t.branch_depth \in [t.nodes -> Nat]
      /\ t.children \in [t.nodes -> SUBSET Ids]
      /\ t.since_branch \in [t.nodes -> -1 .. Cooldown]
      /\ t.branch_counter \in Nat
  BY TypeByField DEF TreeInv
<1>6. /\ u.branch_depth \in [u.nodes -> Nat] /\ u.branch_depth[i] = 0
      /\ \A j \in t.nodes : u.branch_depth[j] = t.branch_depth[j]
  BY <1>2, <1>4, <1>5 DEF Update
<1>7. /\ u.children \in [u.nodes -> SUBSET Ids] /\ u.children[i] = {}
      /\ \A j \in t.nodes : u.children[j] = t.children[j]
  BY <1>2, <1>4, <1>5 DEF Update
<1>8. u.since_branch \in [u.nodes -> -1 .. Cooldown]
  BY <1>2, <1>4, <1>5 DEF Update
<1>9. u.nodes \ u.root_ids = t.nodes \ t.root_ids
  BY <1>2
<1>10. TreeTypeOK(u)
  <2>1. u.parent_id \in [u.nodes \ u.root_ids -> u.nodes]
    BY <1>2, <1>5, <1>9
  <2> QED
    BY <1>2, <1>3, <1>5, <1>6, <1>7, <1>8, <2>1, TypeByField
<1>11. IsForest(u)
  <2>1. \A j \in u.root_ids : Len(j) = 1 /\ u.branch_depth[j] = 0
    BY <1>2, <1>5, <1>6 DEF TreeInv, IsForest
  <2>2. ASSUME NEW j \in u.nodes \ u.root_ids, NEW p, p = u.parent_id[j]
        PROVE  /\ j = BranchId(Head(j), p)
               /\ Head(j) \in 0 .. u.branch_counter - 1
               /\ u.branch_depth[j] = u.branch_depth[p] + 1
               /\ j \in u.children[p]
    <3>1. j \in t.nodes \ t.root_ids /\ p = t.parent_id[j] /\ p \in t.nodes
      BY <1>2, <1>5, <1>9, <2>2
    <3> QED
      BY <1>2, <1>6, <1>7, <3>1 DEF TreeInv, IsForest
  <2> QED
    BY <2>1, <2>2 DEF IsForest
<1>12. ChildrenNumbered(u)
  BY <1>2, <1>7 DEF TreeInv, ChildrenNumbered
<1> QED
  BY <1>10, <1>11, <1>12 DEF TreeInv, u

\* u is t with the branch c of p.
IsBranched(t, p, c, u) ==
    /\ IsTree(u)
    /\ u.nodes = t.nodes \cup {c} /\ u.root_ids = t.root_ids
    /\ u.active = t.active \cup {c} /\ u.completed = t.completed
    /\ u.pruned = t.pruned
    /\ u.branch_counter = t.branch_counter + 1
    /\ u.parent_id \in [(t.nodes \ t.root_ids) \cup {c} -> t.nodes]
    /\ u.parent_id[c] = p
    /\ \A j \in t.nodes \ t.root_ids : u.parent_id[j] = t.parent_id[j]
    /\ u.branch_depth \in [t.nodes \cup {c} -> Nat]
    /\ u.branch_depth[c] = t.branch_depth[p] + 1
    /\ \A j \in t.nodes : u.branch_depth[j] = t.branch_depth[j]
    /\ u.children \in [t.nodes \cup {c} -> SUBSET Ids]
    /\ u.children[c] = {} /\ u.children[p] = t.children[p] \cup {c}
    /\ \A j \in t.nodes \ {p} : u.children[j] = t.children[j]
    /\ u.since_branch \in [t.nodes \cup {c} -> -1 .. Cooldown]

\* add_branch, for a new id c, leaves such a tree.
LEMMA AddBranchFields ==
    ASSUME NEW t, TreeInv(t), NEW p \in t.nodes, NEW c \in Ids, c \notin t.nodes
    PROVE  IsBranched(t, p, c, AddBranch(t, p, c))
<1> DEFINE u == AddBranch(t, p, c)
           new_parent == [j \in {c} |-> p]
           new_depth == [j \in {c} |-> t.branch_depth[p] + 1]
           new_children == [j \in {p, c} |-> IF j = c THEN {} ELSE t.children[p] \cup {c}]
           old_since == [t.since_branch EXCEPT ![p] = 0]
           new_since == [j \in {c} |-> -1]
<1>1. IsTree(t)
  BY TypeByField DEF TreeInv
<1>2. /\ u.nodes = t.nodes \cup {c} /\ u.root_ids = t.root_ids
      /\ u.active = t.active \cup {c} /\ u.completed = t.completed
      /\ u.pruned = t.pruned /\ u.branch_counter = t.branch_counter + 1
      /\ u.parent_id = Update(t.parent_id, new_parent)
      /\ u.branch_depth = Update(t.branch_depth, new_depth)
  BY <1>1 DEF AddBranch, IsTree, TreeFields
<1>3. u.children = Update(t.children, new_children)
  BY <1>1 DEF AddBranch, IsTree, TreeFields
<1>4. u.since_branch = Update(old_since, new_since)
  BY <1>1 DEF AddBranch, IsTree, TreeFields
<1>5. IsTree(u)
  BY <1>1 DEF AddBranch, IsTree
<1>6. /\ t.nodes \subseteq Ids /\ t.root_ids \subseteq t.nodes
      /\ t.parent_id \in [t.nodes \ t.root_ids -> t.nodes]
      /\ t.branch_depth \in [t.nodes -> Nat]
      /\ t.children \in [t.nodes -> SUBSET Ids]
      /\ t.since_branch \in [t.nodes -> -1 .. Cooldown]
  BY TypeByField DEF TreeInv
<1>7. /\ new_parent \in [{c} -> t.nodes] /\ new_parent[c] = p
      /\ new_depth \in [{c} -> Nat] /\ new_depth[c] = t.branch_depth[p] + 1
  BY <1>6
<1>8. /\ new_children \in [{p, c} -> SUBSET Ids]
      /\ new_children[c] = {} /\ new_children[p] = t.children[p] \cup {c}
  BY <1>6
<1>9. /\ old_since \in [t.nodes -> -1 .. Cooldown]
      /\ new_since \in [{c} -> -1 .. Cooldown]
  BY <1>6, TreeAssumption
<1> HIDE DEF u, new_parent, new_depth, new_children, old_since, new_since
<1>10. /\ u.parent_id \in [(t.nodes \ t.root_ids) \cup {c} -> t.nodes]
       /\ u.parent_id[c] = p
       /\ \A j \in t.nodes \ t.root_ids : u.parent_id[j] = t.parent_id[j]
  BY <1>2, <1>6, <1>7 DEF Update
<1>11. /\ u.branch_depth \in [t.nodes \cup {c} -> Nat]
       /\ u.branch_depth[c] = t.branch_depth[p] + 1
       /\ \A j \in t.nodes : u.branch_depth[j] = t.branch_depth[j]
  BY <1>2, <1>6, <1>7 DEF Update
<1>12. /\ u.children \in [t.nodes \cup {c} -> SUBSET Ids]
       /\ u.children[c] = {} /\ u.children[p] = t.children[p] \cup {c}
       /\ \A j \in t.nodes \ {p} : u.children[j] = t.children[j]
  BY <1>3, <1>6, <1>8 DEF Update
<1>13. u.since_branch \in [t.nodes \cup {c} -> -1 .. Cooldown]
  BY <1>4, <1>9, SMTT(20) DEF Update
<1> QED
  BY <1>2, <1>5, <1>10, <1>11, <1>12, <1>13 DEF IsBranched, u

\* add_branch: the child is one level below its parent, which lists it.
LEMMA AddBranchKeepsInv ==
    ASSUME NEW t, TreeInv(t), NEW p \in t.nodes
    PROVE  TreeInv(AddBranch(t, p, GenerateBranchId(t, p)))
<1> DEFINE c == GenerateBranchId(t, p)
           u == AddBranch(t, p, c)
<1>1. /\ c \in Ids /\ Len(c) > 1 /\ Head(c) = t.branch_counter /\ c \notin t.nodes
      /\ c = BranchId(Head(c), p)
  BY FreshId DEF GenerateBranchId
<1>2. /\ t.nodes \subseteq Ids /\ t.root_ids \subseteq t.nodes
      /\ t.active \subseteq t.nodes /\ t.completed \subseteq t.nodes
      /\ t.pruned \subseteq t.nodes
      /\ t.parent_id \in [t.nodes \ t.root_ids -> t.nodes]
      /\ t.branch_depth \in [t.nodes -> Nat]
      /\ t.branch_counter \in Nat
  BY TypeByField, SMTT(20) DEF TreeInv
<1> HIDE DEF c, u
<1>3. IsBranched(t, p, c, u)
  BY <1>1, AddBranchFields DEF u
<1> USE <1>3 DEF IsBranched
<1>4. u.nodes \ u.root_ids = (t.nodes \ t.root_ids) \cup {c}
  BY <1>1, <1>2, <1>3
<1>5. TreeTypeOK(u)
  <2>1. u.nodes \subseteq Ids
    BY <1>1, <1>2, <1>3
  <2>2. u.parent_id \in [u.nodes \ u.root_ids -> u.nodes]
    BY <1>3, <1>4
  <2>3. /\ u.root_ids \subseteq u.nodes /\ u.active \subseteq u.nodes
        /\ u.completed \subseteq u.nodes /\ u.pruned \subseteq u.nodes
        /\ u.branch_counter \in Nat
    BY <1>2, <1>3
  <2>4. /\ IsTree(u) /\ u.branch_depth \in [u.nodes -> Nat]
        /\ u.children \in [u.nodes -> SUBSET Ids]
        /\ u.since_branch \in [u.nodes -> -1 .. Cooldown]
    BY <1>3
  <2> QED
    BY <2>1, <2>2, <2>3, <2>4, TypeByField
<1>6. IsForest(u)
  <2>1. \A j \in u.root_ids : Len(j) = 1 /\ u.branch_depth[j] = 0
    BY <1>2, <1>3 DEF TreeInv, IsForest
  <2>2. ASSUME NEW j \in u.nodes \ u.root_ids, NEW q, q = u.parent_id[j]
        PROVE  /\ j = BranchId(Head(j), q)
               /\ Head(j) \in 0 .. u.branch_counter - 1
               /\ u.branch_depth[j] = u.branch_depth[q] + 1
               /\ j \in u.children[q]
    <3>1. CASE j = c
      <4>1. q = p
        BY <1>3, <2>2, <3>1
      <4>2. Head(c) \in 0 .. u.branch_counter - 1
        BY <1>1, <1>2, <1>3, SMTT(20)
      <4> QED
        BY <1>1, <1>3, <3>1, <4>1, <4>2, SMTT(20)
    <3>2. CASE j # c
      <4>1. j \in t.nodes \ t.root_ids /\ q = t.parent_id[j] /\ q \in t.nodes
        BY <1>2, <1>3, <1>4, <2>2, <3>2
      <4>2. /\ j = BranchId(Head(j), q)
            /\ Head(j) \in 0 .. t.branch_counter - 1
            /\ t.branch_depth[j] = t.branch_depth[q] + 1
            /\ j \in t.children[q]
        BY <4>1 DEF TreeInv, IsForest
      <4>3. Head(j) \in 0 .. u.branch_counter - 1
        BY <1>2, <1>3, <4>2
      <4> QED
        BY <1>3, <4>1, <4>2, <4>3, SMTT(20)
    <3> QED
      BY <3>1, <3>2
  <2> QED
    BY <2>1, <2>2 DEF IsForest
<1>7. ChildrenNumbered(u)
  <2>1. ASSUME NEW q \in u.nodes, NEW d \in u.children[q]
        PROVE  Len(d) > 1 /\ Head(d) \in 0 .. u.branch_counter - 1
    <3>1. d = c \/ (q \in t.nodes /\ d \in t.children[q])
      BY <1>3
    <3>2. CASE d = c
      BY <1>1, <1>2, <1>3, <3>2
    <3>3. CASE q \in t.nodes /\ d \in t.children[q]
      <4>1. Len(d) > 1 /\ Head(d) \in 0 .. t.branch_counter - 1
        BY <3>3 DEF TreeInv, ChildrenNumbered
      <4> QED
        BY <1>2, <1>3, <4>1
    <3> QED
      BY <3>1, <3>2, <3>3
  <2> QED
    BY <2>1 DEF ChildrenNumbered
<1> QED
  BY <1>5, <1>6, <1>7 DEF TreeInv, u, c

\* remove_trace after a failed branch: the nodes are those before, but the parent
\* still lists the lost child and the counter has moved on.
LEMMA FailedBranchKeepsInv ==
    ASSUME NEW t, TreeInv(t), NEW p \in t.nodes, NEW c, c = GenerateBranchId(t, p)
    PROVE  TreeInv(RemoveTrace(AddBranch(t, p, c), c))
<1> DEFINE u == AddBranch(t, p, c)
           v == RemoveTrace(u, c)
<1>1. /\ c \in Ids /\ c \notin t.nodes
      /\ TreeInv(u)
  BY FreshId, AddBranchKeepsInv
<1>2. IsBranched(t, p, c, u)
  BY <1>1, AddBranchFields
<1>3. /\ t.nodes \subseteq Ids /\ t.root_ids \subseteq t.nodes
      /\ t.active \subseteq t.nodes /\ t.completed \subseteq t.nodes
      /\ t.pruned \subseteq t.nodes
      /\ t.parent_id \in [t.nodes \ t.root_ids -> t.nodes]
      /\ t.branch_counter \in Nat
  BY TypeByField DEF TreeInv
<1> HIDE DEF u
<1>4. IsTree(u)
  BY <1>2 DEF IsBranched
<1>5. /\ v.nodes = u.nodes \ {c} /\ v.root_ids = u.root_ids \ {c}
      /\ v.active = u.active \ {c} /\ v.completed = u.completed \ {c}
      /\ v.pruned = u.pruned \ {c} /\ v.parent_id = Drop(u.parent_id, {c})
      /\ v.branch_depth = Drop(u.branch_depth, {c})
      /\ v.children = Drop(u.children, {c})
      /\ v.since_branch = Drop(u.since_branch, {c})
      /\ v.branch_counter = u.branch_counter
  BY <1>4 DEF RemoveTrace, IsTree, TreeFields
<1>6. IsTree(v)
  BY <1>4 DEF RemoveTrace, IsTree
<1> HIDE DEF v
<1>7. /\ v.nodes = t.nodes /\ v.root_ids = t.root_ids
      /\ v.active = t.active /\ v.completed = t.completed /\ v.pruned = t.pruned
      /\ v.branch_counter = t.branch_counter + 1
  BY <1>1, <1>2, <1>3, <1>5 DEF IsBranched
<1>8. /\ v.parent_id \in [t.nodes \ t.root_ids -> t.nodes]
      /\ \A j \in t.nodes \ t.root_ids : v.parent_id[j] = t.parent_id[j]
  BY <1>1, <1>2, <1>5 DEF IsBranched, Drop
<1>9. /\ v.branch_depth \in [t.nodes -> Nat]
      /\ \A j \in t.nodes : v.branch_depth[j] = t.branch_depth[j]
  BY <1>1, <1>2, <1>5, SMTT(20) DEF IsBranched, Drop
<1>10. /\ v.children \in [t.nodes -> SUBSET Ids]
       /\ \A j \in t.nodes : v.children[j] = u.children[j]
       /\ \A j \in t.nodes : t.children[j] \subseteq v.children[j]
  BY <1>1, <1>2, <1>5, SMTT(20) DEF IsBranched, Drop
<1>11. v.since_branch \in [t.nodes -> -1 .. Cooldown]
  BY <1>1, <1>2, <1>5 DEF IsBranched, Drop
<1>12. TreeTypeOK(v)
  <2>1. v.branch_counter \in Nat
    BY <1>3, <1>7
  <2> QED
    BY <1>3, <1>6, <1>7, <1>8, <1>9, <1>10, <1>11, <2>1, TypeByField
<1>13. IsForest(v)
  <2>1. \A j \in v.root_ids : Len(j) = 1 /\ v.branch_depth[j] = 0
    BY <1>3, <1>7, <1>9 DEF TreeInv, IsForest
  <2>2. ASSUME NEW j \in v.nodes \ v.root_ids, NEW q, q = v.parent_id[j]
        PROVE  /\ j = BranchId(Head(j), q)
               /\ Head(j) \in 0 .. v.branch_counter - 1
               /\ v.branch_depth[j] = v.branch_depth[q] + 1
               /\ j \in v.children[q]
    <3>1. j \in t.nodes \ t.root_ids /\ q = t.parent_id[j] /\ q \in t.nodes
      BY <1>3, <1>7, <1>8, <2>2
    <3>2. /\ j = BranchId(Head(j), q)
          /\ Head(j) \in 0 .. t.branch_counter - 1
          /\ t.branch_depth[j] = t.branch_depth[q] + 1
          /\ j \in t.children[q]
      BY <3>1 DEF TreeInv, IsForest
    <3>3. Head(j) \in 0 .. v.branch_counter - 1
      BY <1>3, <1>7, <3>2
    <3> QED
      BY <1>9, <1>10, <3>1, <3>2, <3>3
  <2> QED
    BY <2>1, <2>2 DEF IsForest
<1>14. ChildrenNumbered(v)
  <2>1. t.nodes \subseteq u.nodes
    BY <1>2 DEF IsBranched
  <2> QED
    BY <1>1, <1>5, <1>7, <1>10, <2>1 DEF TreeInv, ChildrenNumbered
<1> QED
  BY <1>12, <1>13, <1>14 DEF TreeInv, u, v

\* Operations that touch neither the nodes nor what the forest is made of.
LEMMA SameForest ==
    ASSUME NEW t, TreeInv(t), NEW u, IsTree(u),
           u.nodes = t.nodes, u.root_ids = t.root_ids,
           u.active \subseteq t.nodes, u.completed \subseteq t.nodes, u.pruned \subseteq t.nodes,
           u.parent_id = t.parent_id, u.branch_depth = t.branch_depth,
           u.children = t.children, u.branch_counter = t.branch_counter,
           u.since_branch \in [t.nodes -> -1 .. Cooldown]
    PROVE  TreeInv(u)
<1>1. TreeTypeOK(u)
  BY TypeByField DEF TreeInv
<1>2. IsForest(u)
  BY DEF TreeInv, IsForest
<1>3. ChildrenNumbered(u)
  BY DEF TreeInv, ChildrenNumbered
<1> QED
  BY <1>1, <1>2, <1>3 DEF TreeInv

\* mark_completed
LEMMA MarkCompletedKeepsInv ==
    ASSUME NEW t, TreeInv(t), NEW ids
    PROVE  TreeInv(MarkCompleted(t, ids))
<1> DEFINE u == MarkCompleted(t, ids)
<1>1. /\ IsTree(t) /\ t.active \subseteq t.nodes /\ t.completed \subseteq t.nodes
      /\ t.pruned \subseteq t.nodes
      /\ t.since_branch \in [t.nodes -> -1 .. Cooldown]
  BY TypeByField DEF TreeInv
<1>2. /\ u.nodes = t.nodes /\ u.root_ids = t.root_ids
      /\ u.active = t.active \ ids /\ u.completed = t.completed \cup (ids \cap t.nodes)
      /\ u.pruned = t.pruned /\ u.parent_id = t.parent_id
      /\ u.branch_depth = t.branch_depth /\ u.children = t.children
      /\ u.since_branch = t.since_branch /\ u.branch_counter = t.branch_counter
  BY <1>1 DEF MarkCompleted, IsTree, TreeFields
<1>3. IsTree(u)
  BY <1>1 DEF MarkCompleted, IsTree
<1> QED
  BY <1>1, <1>2, <1>3, SameForest

\* mark_pruned
LEMMA MarkPrunedKeepsInv ==
    ASSUME NEW t, TreeInv(t), NEW ids
    PROVE  TreeInv(MarkPruned(t, ids))
<1> DEFINE u == MarkPruned(t, ids)
<1>1. /\ IsTree(t) /\ t.active \subseteq t.nodes /\ t.completed \subseteq t.nodes
      /\ t.pruned \subseteq t.nodes
      /\ t.since_branch \in [t.nodes -> -1 .. Cooldown]
  BY TypeByField DEF TreeInv
<1>2. /\ u.nodes = t.nodes /\ u.root_ids = t.root_ids
      /\ u.active = t.active \ ids /\ u.pruned = t.pruned \cup (ids \cap t.nodes)
      /\ u.completed = t.completed /\ u.parent_id = t.parent_id
      /\ u.branch_depth = t.branch_depth /\ u.children = t.children
      /\ u.since_branch = t.since_branch /\ u.branch_counter = t.branch_counter
  BY <1>1, SMTT(20) DEF MarkPruned, IsTree, TreeFields
<1>3. IsTree(u)
  BY <1>1 DEF MarkPruned, IsTree
<1> QED
  BY <1>1, <1>2, <1>3, SameForest

\* increment_step
LEMMA IncrementStepKeepsInv ==
    ASSUME NEW t, TreeInv(t)
    PROVE  TreeInv(IncrementStep(t))
<1> DEFINE u == IncrementStep(t)
           since == [i \in DOMAIN t.since_branch |->
                       IF t.since_branch[i] \in 0 .. Cooldown - 1
                       THEN t.since_branch[i] + 1 ELSE t.since_branch[i]]
<1>1. /\ IsTree(t) /\ t.active \subseteq t.nodes /\ t.completed \subseteq t.nodes
      /\ t.pruned \subseteq t.nodes
      /\ t.since_branch \in [t.nodes -> -1 .. Cooldown]
  BY TypeByField DEF TreeInv
<1>2. /\ u.nodes = t.nodes /\ u.root_ids = t.root_ids
      /\ u.active = t.active /\ u.pruned = t.pruned
      /\ u.completed = t.completed /\ u.parent_id = t.parent_id
      /\ u.branch_depth = t.branch_depth /\ u.children = t.children
      /\ u.since_branch = since /\ u.branch_counter = t.branch_counter
  BY <1>1 DEF IncrementStep, IsTree, TreeFields
<1>3. IsTree(u)
  BY <1>1 DEF IncrementStep, IsTree
<1>4. since \in [t.nodes -> -1 .. Cooldown]
  BY <1>1, TreeAssumption
<1> QED
  BY <1>1, <1>2, <1>3, <1>4, SameForest

-----------------------------------------------------------------------------
(***************************************************************************)
(* The theorems.                                                           *)
(***************************************************************************)

\* The invariant of the specification: also, the active traces can be counted.
TreeIndInv == TreeInv(trace_tree) /\ IsFiniteSet(trace_tree.active)

\* The empty tree satisfies it.
LEMMA TreeInitInv == TreeInit => TreeIndInv
<1> SUFFICES ASSUME TreeInit PROVE TreeIndInv
  OBVIOUS
<1> DEFINE t == trace_tree
<1>1. /\ t.nodes = {} /\ t.root_ids = {} /\ t.active = {} /\ t.completed = {}
      /\ t.pruned = {} /\ t.parent_id = EmptyDict /\ t.branch_depth = EmptyDict
      /\ t.children = EmptyDict /\ t.since_branch = EmptyDict /\ t.branch_counter = 0
  BY DEF TreeInit, EmptyTree
<1>2. IsTree(t)
  BY DEF TreeInit, EmptyTree, IsTree, TreeFields
<1>3. /\ t.parent_id \in [t.nodes \ t.root_ids -> t.nodes]
      /\ t.branch_depth \in [t.nodes -> Nat]
      /\ t.children \in [t.nodes -> SUBSET Ids]
      /\ t.since_branch \in [t.nodes -> -1 .. Cooldown]
  BY <1>1 DEF EmptyDict
<1>4. TreeTypeOK(t)
  <2>1. /\ t.nodes \subseteq Ids /\ t.root_ids \subseteq t.nodes
        /\ t.active \subseteq t.nodes /\ t.completed \subseteq t.nodes
        /\ t.pruned \subseteq t.nodes /\ t.branch_counter \in Nat
    BY <1>1
  <2> QED
    BY <1>2, <1>3, <2>1, TypeByField
<1>5. IsForest(t) /\ ChildrenNumbered(t)
  BY <1>1 DEF IsForest, ChildrenNumbered
<1>6. IsFiniteSet(t.active)
  BY <1>1, FS_EmptySet
<1> QED
  BY <1>4, <1>5, <1>6 DEF TreeIndInv, TreeInv

\* What a branch, created or failed, does to the active traces and the counter.
LEMMA BranchCounts ==
    ASSUME NEW t, TreeInv(t), IsFiniteSet(t.active), NEW p \in t.nodes, CanBranch(t),
           NEW c, c = GenerateBranchId(t, p), NEW u, u = AddBranch(t, p, c),
           NEW v, v = RemoveTrace(u, c)
    PROVE  /\ IsFiniteSet(u.active) /\ Cardinality(u.active) <= MaxTraces
           /\ v.active = t.active /\ Cardinality(v.active) <= MaxTraces
<1>1. c \in Ids /\ c \notin t.nodes
  BY FreshId
<1>2. IsBranched(t, p, c, u)
  BY <1>1, AddBranchFields
<1>3. t.active \subseteq t.nodes
  BY TypeByField DEF TreeInv
<1>4. /\ Cardinality(t.active) \in Nat
      /\ IsFiniteSet(t.active \cup {c})
      /\ Cardinality(t.active \cup {c}) = Cardinality(t.active) + 1
  BY <1>1, <1>3, FS_CardinalityType, FS_AddElement
<1>5. u.active = t.active \cup {c}
  BY <1>2 DEF IsBranched
<1>6. v.active = t.active
  <2>1. IsTree(u)
    BY <1>2 DEF IsBranched
  <2>2. v.active = u.active \ {c}
    BY <2>1 DEF RemoveTrace, IsTree, TreeFields
  <2> QED
    BY <1>1, <1>3, <1>5, <2>2
<1>7. Cardinality(t.active) < MaxTraces /\ MaxTraces \in Nat
  BY TreeAssumption DEF CanBranch, ActiveCount
<1> QED
  BY <1>4, <1>5, <1>6, <1>7

\* Every operation keeps the invariant.
LEMMA TreeNextInv ==
    ASSUME TreeIndInv, [TreeNext]_trace_tree
    PROVE  TreeIndInv'
<1> DEFINE t == trace_tree
<1>0. /\ TreeInv(t) /\ IsTree(t) /\ IsFiniteSet(t.active)
      /\ t.active \subseteq t.nodes
  BY TypeByField DEF TreeIndInv, TreeInv
<1>1. ASSUME NEW r \in Roots, TreeAddRoot(r)
      PROVE  TreeIndInv'
  <2> DEFINE i == RootId(r)
  <2>1. i \in Ids /\ Len(i) = 1
    BY DEF RootId, Ids
  <2> HIDE DEF i
  <2>2. i \notin t.nodes /\ t' = AddRoots(t, {i})
    BY <1>1 DEF TreeAddRoot, i
  <2>3. TreeInv(t')
    BY <1>0, <2>1, <2>2, AddRootKeepsInv
  <2>4. t'.active = t.active \cup {i}
    BY <1>0, <2>2 DEF AddRoots, IsTree, TreeFields
  <2>5. IsFiniteSet(t.active \cup {i})
    BY <1>0, FS_AddElement
  <2> QED
    BY <2>3, <2>4, <2>5 DEF TreeIndInv
<1>2. ASSUME NEW p \in t.nodes, NEW tokens, TreeAddBranch(p, tokens)
      PROVE  TreeIndInv'
  <2>1. CanBranch(t) /\ t' = AddBranch(t, p, GenerateBranchId(t, p))
    BY <1>2 DEF TreeAddBranch, CanTraceBranch
  <2>2. TreeInv(t')
    BY <1>0, <2>1, AddBranchKeepsInv
  <2>3. IsFiniteSet(t'.active)
    BY <1>0, <2>1, BranchCounts
  <2> QED
    BY <2>2, <2>3 DEF TreeIndInv
<1>3. ASSUME NEW p \in t.nodes, NEW tokens, TreeFailedBranch(p, tokens)
      PROVE  TreeIndInv'
  <2> DEFINE c == GenerateBranchId(t, p)
  <2>1. CanBranch(t) /\ t' = RemoveTrace(AddBranch(t, p, c), c)
    BY <1>3 DEF TreeFailedBranch, CanTraceBranch
  <2>2. TreeInv(t')
    BY <1>0, <2>1, FailedBranchKeepsInv
  <2>3. t'.active = t.active
    BY <1>0, <2>1, BranchCounts
  <2> QED
    BY <1>0, <2>2, <2>3 DEF TreeIndInv
<1>4. ASSUME NEW id \in t.nodes, TreeMarkCompleted(id)
      PROVE  TreeIndInv'
  <2>1. t' = MarkCompleted(t, {id})
    BY <1>4 DEF TreeMarkCompleted
  <2>2. TreeInv(t')
    BY <1>0, <2>1, MarkCompletedKeepsInv
  <2>3. t'.active = t.active \ {id}
    BY <1>0, <2>1 DEF MarkCompleted, IsTree, TreeFields
  <2>4. IsFiniteSet(t.active \ {id})
    BY <1>0, FS_RemoveElement
  <2> QED
    BY <2>2, <2>3, <2>4 DEF TreeIndInv
<1>5. ASSUME NEW id \in t.nodes, TreeMarkPruned(id)
      PROVE  TreeIndInv'
  <2>1. t' = MarkPruned(t, {id})
    BY <1>5 DEF TreeMarkPruned
  <2>2. TreeInv(t')
    BY <1>0, <2>1, MarkPrunedKeepsInv
  <2>3. t'.active = t.active \ {id}
    BY <1>0, <2>1 DEF MarkPruned, IsTree, TreeFields
  <2>4. IsFiniteSet(t.active \ {id})
    BY <1>0, FS_RemoveElement
  <2> QED
    BY <2>2, <2>3, <2>4 DEF TreeIndInv
<1>6. ASSUME TreeIncrementStep
      PROVE  TreeIndInv'
  <2>1. t' = IncrementStep(t)
    BY <1>6 DEF TreeIncrementStep
  <2>2. TreeInv(t')
    BY <1>0, <2>1, IncrementStepKeepsInv
  <2>3. t'.active = t.active
    BY <1>0, <2>1 DEF IncrementStep, IsTree, TreeFields
  <2> QED
    BY <1>0, <2>2, <2>3 DEF TreeIndInv
<1>7. ASSUME UNCHANGED trace_tree
      PROVE  TreeIndInv'
  BY <1>7 DEF TreeIndInv
<1> QED
  BY <1>1, <1>2, <1>3, <1>4, <1>5, <1>6, <1>7 DEF TreeNext

\* The tree built by add_root, add_branch, remove_trace, mark_completed and
\* mark_pruned in any order satisfies the inductive invariant.
THEOREM TreeInvariant == TreeSpec => []TreeIndInv
<1>1. TreeInit => TreeIndInv
  BY TreeInitInv
<1>2. TreeIndInv /\ [TreeNext]_trace_tree => TreeIndInv'
  BY TreeNextInv
<1> QED
  BY <1>1, <1>2, PTL DEF TreeSpec

\* Every per-node table covers exactly the nodes.
THEOREM TreeTypeCorrect == TreeSpec => []TraceTreeTypeOK
<1>1. TreeIndInv => TraceTreeTypeOK
  BY DEF TreeIndInv, TreeInv, TraceTreeTypeOK
<1> QED
  BY <1>1, TreeInvariant, PTL

\* The nodes form a forest whose shape the ids spell out.
THEOREM TreeIsForest == TreeSpec => []Forest
<1>1. TreeIndInv => Forest
  BY DEF TreeIndInv, TreeInv, Forest
<1> QED
  BY <1>1, TreeInvariant, PTL

\* generate_branch_id never returns an id in use, not even one a failed branch
\* left behind in its parent's list.
THEOREM TreeIdsFresh == TreeSpec => []BranchIdsFresh
<1>1. TreeIndInv => BranchIdsFresh
  BY FreshId DEF TreeIndInv, BranchIdsFresh
<1> QED
  BY <1>1, TreeInvariant, PTL

-----------------------------------------------------------------------------
(***************************************************************************)
(* Queues as sequences.                                                    *)
(***************************************************************************)

\* Append adds one element at a new place.
LEMMA AppendFacts ==
    ASSUME NEW S, NEW q \in Seq(S), NEW x \in S
    PROVE  /\ Append(q, x) \in Seq(S)
           /\ Len(Append(q, x)) = Len(q) + 1
           /\ \A i \in 1 .. Len(q) : Append(q, x)[i] = q[i]
           /\ Range(Append(q, x)) = Range(q) \cup {x}
           /\ IsInjective(q) /\ x \notin Range(q) => IsInjective(Append(q, x))
<1> DEFINE r == Append(q, x)
<1>1. /\ r \in Seq(S) /\ Len(r) = Len(q) + 1
      /\ \A i \in 1 .. Len(q) : r[i] = q[i]
      /\ r[Len(q) + 1] = x
  BY AppendProperties
<1>2. /\ DOMAIN q = 1 .. Len(q) /\ DOMAIN r = 1 .. Len(q) + 1 /\ Len(q) \in Nat
  BY <1>1, LenProperties
<1> HIDE DEF r
<1>3. Range(r) = Range(q) \cup {x}
  BY <1>1, <1>2 DEF Range
<1>4. ASSUME IsInjective(q), x \notin Range(q) PROVE IsInjective(r)
  BY <1>1, <1>2, <1>4 DEF Range, IsInjective
<1> QED
  BY <1>1, <1>3, <1>4 DEF r

\* Tail removes the head, and only it.
LEMMA TailFacts ==
    ASSUME NEW S, NEW q \in Seq(S), q # <<>>
    PROVE  /\ Head(q) \in S
           /\ Tail(q) \in Seq(S)
           /\ Range(q) = {Head(q)} \cup Range(Tail(q))
           /\ IsInjective(q) => IsInjective(Tail(q)) /\ Head(q) \notin Range(Tail(q))
<1> DEFINE r == Tail(q)
<1>1. /\ Head(q) \in S /\ r \in Seq(S) /\ Len(r) = Len(q) - 1
      /\ \A i \in 1 .. Len(r) : r[i] = q[i + 1]
  BY HeadTailProperties
<1>2. Head(q) = q[1]
  OBVIOUS
<1>3. /\ DOMAIN q = 1 .. Len(q) /\ DOMAIN r = 1 .. Len(q) - 1 /\ Len(q) \in Nat \ {0}
  BY <1>1, LenProperties, EmptySeq
<1> HIDE DEF r
<1>4. \A i \in DOMAIN q : i = 1 \/ (i - 1 \in DOMAIN r /\ r[i - 1] = q[i])
  BY <1>1, <1>3
<1>5. Range(q) = {Head(q)} \cup Range(r)
  <2>1. ASSUME NEW y \in Range(q) PROVE y \in {Head(q)} \cup Range(r)
    BY <1>2, <1>4 DEF Range
  <2>2. ASSUME NEW y \in Range(r) PROVE y \in Range(q)
    BY <1>1, <1>3 DEF Range
  <2>3. Head(q) \in Range(q)
    BY <1>2, <1>3 DEF Range
  <2> QED
    BY <2>1, <2>2, <2>3
<1>6. ASSUME IsInjective(q) PROVE IsInjective(r) /\ Head(q) \notin Range(r)
  <2>1. \A i \in DOMAIN r : i + 1 \in DOMAIN q /\ i + 1 # 1 /\ r[i] = q[i + 1]
    BY <1>1, <1>3
  <2>2. \A i, j \in DOMAIN r : i + 1 = j + 1 => i = j
    BY <1>3
  <2>3. 1 \in DOMAIN q
    BY <1>3
  <2> QED
    BY <1>2, <1>6, <2>1, <2>2, <2>3 DEF Range, IsInjective
<1> QED
  BY <1>1, <1>5, <1>6 DEF r

\* list.pop() removes the last element, and only it.
LEMMA PoppedFacts ==
    ASSUME NEW S, NEW q \in Seq(S), q # <<>>
    PROVE  /\ q[Len(q)] \in S
           /\ Popped(q) \in Seq(S)
           /\ Len(Popped(q)) = Len(q) - 1
           /\ \A i \in 1 .. Len(q) - 1 : Popped(q)[i] = q[i]
           /\ Range(q) = {q[Len(q)]} \cup Range(Popped(q))
           /\ IsInjective(q) => IsInjective(Popped(q)) /\ q[Len(q)] \notin Range(Popped(q))
<1> DEFINE r == Popped(q)
<1>1. /\ DOMAIN q = 1 .. Len(q) /\ Len(q) \in Nat \ {0}
      /\ \A i \in 1 .. Len(q) : q[i] \in S
  BY LenProperties, EmptySeq, ElementOfSeq
<1>2. /\ r \in Seq(S) /\ Len(r) = Len(q) - 1
      /\ \A i \in 1 .. Len(q) - 1 : r[i] = q[i]
  <2>1. /\ \A i \in 1 .. Len(q) - 1 : q[i] \in S
        /\ 1 \in Int /\ Len(q) - 1 \in Int
    BY <1>1
  <2>2. /\ SubSeq(q, 1, Len(q) - 1) \in Seq(S)
        /\ Len(SubSeq(q, 1, Len(q) - 1)) = IF 1 <= Len(q) - 1 THEN Len(q) - 1 - 1 + 1 ELSE 0
        /\ \A i \in 1 .. Len(q) - 1 - 1 + 1 : SubSeq(q, 1, Len(q) - 1)[i] = q[1 + i - 1]
    BY <2>1, SubSeqProperties
  <2> QED
    BY <1>1, <2>2 DEF Popped
<1>3. DOMAIN r = 1 .. Len(q) - 1
  BY <1>2, LenProperties
<1> HIDE DEF r
<1>5. Range(q) = {q[Len(q)]} \cup Range(r)
  BY <1>1, <1>2, <1>3 DEF Range
<1>6. ASSUME IsInjective(q) PROVE IsInjective(r) /\ q[Len(q)] \notin Range(r)
  BY <1>1, <1>2, <1>3, <1>6 DEF Range, IsInjective
<1> QED
  BY <1>1, <1>2, <1>5, <1>6 DEF r

\* A queue read through a bijection onto a set of its places holds what those
\* places hold.
LEMMA ReadAtFacts ==
    ASSUME NEW S, NEW q \in Seq(S), NEW n \in Nat, NEW kept \in SUBSET DOMAIN q,
           NEW p \in Bijection(1 .. n, kept)
    PROVE  /\ ReadAt(q, p) \in Seq(S)
           /\ Len(ReadAt(q, p)) = n
           /\ \A x : x \in Range(ReadAt(q, p)) <=> \E i \in kept : x = q[i]
           /\ IsInjective(q) => IsInjective(ReadAt(q, p))
<1> DEFINE r == ReadAt(q, p)
<1>1. /\ p \in [1 .. n -> kept]
      /\ \A a, b \in 1 .. n : p[a] = p[b] => a = b
      /\ \A t \in kept : \E s \in 1 .. n : p[s] = t
  BY DEF Bijection, Injection, Surjection, IsInjective
<1>2. r \in [1 .. n -> S] /\ \A i \in 1 .. n : r[i] = q[p[i]]
  BY <1>1, LenProperties DEF ReadAt
<1> HIDE DEF r
<1>3. DOMAIN r = 1 .. n /\ r \in Seq(S) /\ Len(r) = n
  BY <1>2, SeqDef
<1>4. \A x : x \in Range(r) <=> \E i \in kept : x = q[i]
  <2>1. Range(r) = {r[j] : j \in 1 .. n}
    BY <1>3 DEF Range
  <2>2. ASSUME NEW x \in Range(r) PROVE \E i \in kept : x = q[i]
    <3>1. PICK j \in 1 .. n : x = r[j]
      BY <2>1
    <3>2. p[j] \in kept /\ x = q[p[j]]
      BY <1>1, <1>2, <3>1
    <3> QED
      BY <3>2
  <2>3. ASSUME NEW i \in kept PROVE q[i] \in Range(r)
    <3>1. PICK j \in 1 .. n : p[j] = i
      BY <1>1
    <3>2. r[j] = q[i]
      BY <1>2, <3>1
    <3> QED
      BY <2>1, <3>2
  <2> QED
    BY <2>2, <2>3
<1>5. ASSUME IsInjective(q) PROVE IsInjective(r)
  BY <1>1, <1>2, <1>3, <1>5 DEF IsInjective
<1> QED
  BY <1>3, <1>4, <1>5 DEF r

\* remove_all keeps what is not removed, each once.
LEMMA RemoveAllFacts ==
    ASSUME NEW S, NEW q \in Seq(S), NEW ids, NEW r, RemoveAll(q, ids, r)
    PROVE  /\ r \in Seq(S)
           /\ Len(r) <= Len(q)
           /\ Range(r) = Range(q) \ ids
           /\ IsInjective(q) => IsInjective(r)
<1> DEFINE kept == {i \in DOMAIN q : q[i] \notin ids}
           n == Cardinality(kept)
<1>1. DOMAIN q = 1 .. Len(q) /\ Len(q) \in Nat
  BY LenProperties
<1>2. IsFiniteSet(DOMAIN q) /\ Cardinality(DOMAIN q) = Len(q)
  <2>1. /\ IsFiniteSet(1 .. Len(q))
        /\ Cardinality(1 .. Len(q)) = IF 1 > Len(q) THEN 0 ELSE Len(q) - 1 + 1
    BY <1>1, FS_Interval, 1 \in Int, Len(q) \in Int, SMTT(20)
  <2> QED
    BY <1>1, <2>1
<1>3. IsFiniteSet(kept) /\ n <= Len(q) /\ n \in Nat
  BY <1>2, FS_Subset, FS_CardinalityType, kept \subseteq DOMAIN q
<1>4. PICK p \in Bijection(1 .. n, kept) : r = ReadAt(q, p)
  BY DEF RemoveAll
<1>5. \A x : x \in Range(q) \ ids <=> \E i \in kept : x = q[i]
  BY DEF Range
<1>6. kept \in SUBSET DOMAIN q
  OBVIOUS
<1> HIDE DEF n, kept
<1>7. /\ r \in Seq(S) /\ Len(r) = n
      /\ \A x : x \in Range(r) <=> \E i \in kept : x = q[i]
      /\ IsInjective(q) => IsInjective(r)
  BY <1>3, <1>4, <1>6, ReadAtFacts
<1> QED
  BY <1>3, <1>5, <1>7

\* list.sort keeps the elements of the list.
LEMMA SortFacts ==
    ASSUME NEW S, NEW q \in Seq(S), NEW p \in Bijection(1 .. Len(q), 1 .. Len(q))
    PROVE  /\ ReadAt(q, p) \in Seq(S)
           /\ Len(ReadAt(q, p)) = Len(q)
           /\ Range(ReadAt(q, p)) = Range(q)
           /\ IsInjective(q) => IsInjective(ReadAt(q, p))
           /\ \A i \in 1 .. Len(q) : ReadAt(q, p)[i] = q[p[i]] /\ p[i] \in 1 .. Len(q)
<1> DEFINE n == Len(q)
           all == 1 .. Len(q)
<1>1. n \in Nat /\ all \in SUBSET DOMAIN q /\ p \in Bijection(1 .. n, all)
  BY LenProperties
<1>2. \A x : x \in Range(q) <=> \E i \in all : x = q[i]
  BY LenProperties DEF Range
<1>3. \A i \in 1 .. Len(q) : ReadAt(q, p)[i] = q[p[i]] /\ p[i] \in 1 .. Len(q)
  BY DEF Bijection, Injection, ReadAt
<1> HIDE DEF n, all
<1>4. /\ ReadAt(q, p) \in Seq(S) /\ Len(ReadAt(q, p)) = n
      /\ \A x : x \in Range(ReadAt(q, p)) <=> \E i \in all : x = q[i]
      /\ IsInjective(q) => IsInjective(ReadAt(q, p))
  BY <1>1, ReadAtFacts
<1> QED
  BY <1>2, <1>3, <1>4 DEF n

\* What min returns: one of its arguments, above none of them.
LEMMA MinOfTwo ==
    ASSUME NEW a \in Int, NEW b \in Int
    PROVE  Min({a, b}) \in {a, b} /\ Min({a, b}) <= a /\ Min({a, b}) <= b
<1>1. \E x \in {a, b} : \A y \in {a, b} : x <= y
  OBVIOUS
<1> QED
  BY <1>1 DEF Min

\* The same for three numbers (the three-way minimum of NumNewTokens).
LEMMA MinOfThree ==
    ASSUME NEW a \in Int, NEW b \in Int, NEW c \in Int
    PROVE  /\ Min({a, b, c}) \in {a, b, c}
           /\ Min({a, b, c}) <= a /\ Min({a, b, c}) <= b /\ Min({a, b, c}) <= c
<1>1. \E x \in {a, b, c} : \A y \in {a, b, c} : x <= y
  OBVIOUS
<1> QED
  BY <1>1 DEF Min

-----------------------------------------------------------------------------
(***************************************************************************)
(* Every operation of the scheduler preserves SchedInv.                    *)
(***************************************************************************)

\* From here on most steps are set reasoning, Zenon's part; a step with arithmetic,
\* records or sequences names SMT.
USE Zenon

\* The empty scheduler satisfies it.
LEMMA SchedInitInv == SchedInit => SchedInv
<1> SUFFICES ASSUME SchedInit PROVE SchedInv
  OBVIOUS
<1> USE SchedulerAssumption
<1>1. Range(<<>>) = {} /\ IsInjective(<<>>) /\ <<>> \in Seq(Ids) /\ Len(<<>>) = 0
  BY EmptySeq, SMT DEF Range, IsInjective
<1>2. DOMAIN EmptyDict = {}
  BY DEF EmptyDict
<1>3. SchedTypeOK
  BY <1>1, <1>2, SMT DEF SchedInit, SchedTypeOK, Live, Scheduled
<1>4. /\ QueuesPartitionRequests /\ ScheduledStayRunning
      /\ EveryRequestAccountedFor /\ WorkerInSync
  BY <1>1, <1>2 DEF SchedInit, QueuesPartitionRequests, ScheduledStayRunning,
                    EveryRequestAccountedFor, WorkerInSync, Live, Scheduled
<1>5. LoopInv /\ TokenInv /\ WorkerInv
  BY <1>1, <1>2, SMT DEF SchedInit, LoopInv, TokenInv, WorkerInv, Live, Scheduled
<1> QED
  BY <1>3, <1>4, <1>5 DEF SchedInv

\* A new request has its prompt to compute.
LEMMA RequestFields ==
    ASSUME NEW n, NEW time
    PROVE  Request(n, time).num_tokens = n /\ Request(n, time).computed = 0
  BY DEF Request

\* add_request appends a new id to the waiting queue.
LEMMA AddRequestInv ==
    ASSUME SchedInv, NEW id \in Ids, id \notin admitted,
           NEW n \in 1 .. MaxLen - 1, NEW time \in Nat,
           AddRequest(id, Request(n, time))
    PROVE  SchedInv'
<1> USE SchedulerAssumption
<1> USE DEF SchedInv
<1>1. /\ waiting' \in Seq(Ids)
      /\ Range(waiting') = Range(waiting) \cup {id}
      /\ id \notin Range(waiting) \cup Range(running)
      /\ IsInjective(waiting')
  BY AppendFacts DEF AddRequest, SchedTypeOK, QueuesPartitionRequests,
                     EveryRequestAccountedFor
<1>2. /\ Live' = Live \cup {id}
      /\ id \notin Live
      /\ requests'[id] = [num_tokens |-> n, computed |-> 0, arrival |-> time]
      /\ \A i \in Live : requests'[i] = requests[i]
  BY DEF AddRequest, Update, Live, Request, EveryRequestAccountedFor
<1>3. UNCHANGED <<running, finished_req_ids, phase, req_index, token_budget,
                  num_scheduled, scheduled_new, aborted, evicted, reported,
                  sched_scores, pending_pruned, worker_requests, Scheduled>>
  BY DEF AddRequest, loopVars, Scheduled
<1>4. admitted' = admitted \cup {id}
  BY DEF AddRequest
<1>5. SchedTypeOK'
  BY <1>1, <1>2, <1>3, <1>4, SMTT(20) DEF SchedTypeOK, Live, Scheduled
<1>6. /\ QueuesPartitionRequests' /\ ScheduledStayRunning'
      /\ EveryRequestAccountedFor' /\ WorkerInSync'
  <2>1. QueuesPartitionRequests'
    BY <1>1, <1>2, <1>3 DEF QueuesPartitionRequests
  <2>2. ScheduledStayRunning' /\ WorkerInSync'
    BY <1>2, <1>3 DEF ScheduledStayRunning, WorkerInSync
  <2>3. EveryRequestAccountedFor'
    BY <1>2, <1>3, <1>4 DEF EveryRequestAccountedFor
  <2> QED
    BY <2>1, <2>2, <2>3
<1>7. LoopInv' /\ WorkerInv'
  <2>1. LoopInv'
    BY <1>3 DEF LoopInv, RequestScore
  <2>2. WorkerInv'
    BY <1>3 DEF WorkerInv
  <2> QED
    BY <2>1, <2>2
<1>8. TokenInv'
  <2>1. \A i \in Scheduled : i \in Live
    BY DEF QueuesPartitionRequests, ScheduledStayRunning
  <2>2. ASSUME NEW i \in Live'
        PROVE  /\ requests'[i].num_tokens < MaxLen
               /\ requests'[i].computed <= requests'[i].num_tokens
               /\ \/ phase' = "scheduled" /\ i \in Scheduled'
                  \/ requests'[i].computed < requests'[i].num_tokens
    <3>1. CASE i = id
      <4>1. requests'[i] = Request(n, time)
        BY <1>2, <3>1 DEF Request
      <4>2. /\ requests'[i].num_tokens = Request(n, time).num_tokens
            /\ requests'[i].computed = Request(n, time).computed
        BY <4>1
      <4>3. Request(n, time).num_tokens = n /\ Request(n, time).computed = 0
        BY RequestFields
      <4>4. requests'[i].num_tokens = n /\ requests'[i].computed = 0
        BY <4>2, <4>3
      <4>5. n < MaxLen /\ 0 <= n /\ 0 < n
        BY SMT
      <4> QED
        BY <4>4, <4>5
    <3>2. CASE i # id
      <4>1. i \in Live /\ requests'[i] = requests[i]
        BY <1>2, <2>2, <3>2
      <4> QED
        BY <1>3, <4>1 DEF TokenInv
    <3> QED
      BY <3>1, <3>2
  <2> QED
    BY <1>2, <1>3, <2>1, <2>2 DEF TokenInv
<1> QED
  BY <1>5, <1>6, <1>7, <1>8

\* finish_requests between two batches takes the valid ids off both queues.
LEMMA FinishRequestsInv ==
    ASSUME SchedInv, phase = "idle", NEW ids, FinishRequests(ids)
    PROVE  SchedInv'
<1> USE SchedulerAssumption DEF SchedInv
<1> DEFINE valid == ids \cap Live
<1>1. /\ running' \in Seq(Ids) /\ Range(running') = Range(running) \ valid
      /\ Len(running') <= Len(running) /\ IsInjective(running')
      /\ waiting' \in Seq(Ids) /\ Range(waiting') = Range(waiting) \ valid
      /\ IsInjective(waiting')
  <2>1. running \in Seq(Ids) /\ waiting \in Seq(Ids)
    BY DEF SchedTypeOK
  <2>2. IsInjective(running) /\ IsInjective(waiting)
    BY DEF QueuesPartitionRequests
  <2>3. RemoveAll(running, valid, running') /\ RemoveAll(waiting, valid, waiting')
    BY DEF FinishRequests
  <2> HIDE DEF valid
  <2> QED
    BY <2>1, <2>2, <2>3, RemoveAllFacts
<1>2. /\ Live' = Live \ valid
      /\ \A i \in Live' : requests'[i] = requests[i]
      /\ finished_req_ids' = finished_req_ids \cup valid
      /\ aborted' = aborted \cup valid
  BY DEF FinishRequests, FreeRequests, Drop, Live
<1>3. UNCHANGED <<phase, req_index, token_budget, num_scheduled, scheduled_new,
                  admitted, evicted, reported, sched_scores, pending_pruned,
                  worker_requests, Scheduled>>
  BY DEF FinishRequests, loopVars, Scheduled
<1>4. valid \subseteq Live /\ valid \subseteq Ids /\ Scheduled = {} /\ scheduled_new = {}
  BY DEF SchedTypeOK, LoopInv, Live
<1> HIDE DEF valid
<1>5. SchedTypeOK'
  BY <1>1, <1>2, <1>3, <1>4 DEF SchedTypeOK, Live, Scheduled
<1>6. /\ QueuesPartitionRequests' /\ ScheduledStayRunning'
      /\ EveryRequestAccountedFor' /\ WorkerInSync'
  BY <1>1, <1>2, <1>3, <1>4 DEF QueuesPartitionRequests, ScheduledStayRunning,
                    EveryRequestAccountedFor, WorkerInSync
<1>7. LoopInv'
  <2>1. Len(running) \in Nat /\ Len(running') \in Nat
    BY <1>1, LenProperties DEF SchedTypeOK
  <2>2. Len(running) <= MaxRunning /\ Len(running') <= Len(running) /\ MaxRunning \in Nat
    BY <1>1 DEF LoopInv, SchedulerAssumption
  <2>3. Len(running') <= MaxRunning
    BY <2>1, <2>2, SMT
  <2>4. phase' = "idle" /\ Scheduled' = {} /\ scheduled_new' = {}
    BY <1>3, <1>4
  <2> QED
    BY <2>3, <2>4 DEF LoopInv
<1>8. WorkerInv' /\ TokenInv'
  BY <1>1, <1>2, <1>3, <1>4 DEF WorkerInv, TokenInv
<1> QED
  BY <1>5, <1>6, <1>7, <1>8

\* The sort at the start of schedule() reorders the running list.
LEMMA ScheduleStartInv == SchedInv /\ ScheduleStart => SchedInv'
<1> SUFFICES ASSUME SchedInv, ScheduleStart PROVE SchedInv'
  OBVIOUS
<1> USE SchedulerAssumption DEF SchedInv
<1>1. running \in Seq(Ids) /\ Len(running) \in Nat /\ DOMAIN running = 1 .. Len(running)
  BY LenProperties DEF SchedTypeOK
<1>2. PICK p \in Bijection(1 .. Len(running), 1 .. Len(running)) :
        /\ \A i, j \in 1 .. Len(running) : i < j => Precedes(p[i], p[j])
        /\ running' = ReadAt(running, p)
  BY DEF ScheduleStart, OrderRunningByScore
<1>3. /\ running' \in Seq(Ids) /\ Len(running') = Len(running)
      /\ Range(running') = Range(running) /\ IsInjective(running')
      /\ \A i \in 1 .. Len(running) : running'[i] = running[p[i]]
  BY <1>1, <1>2, SortFacts, SMT DEF QueuesPartitionRequests
<1>4. /\ phase' = "running" /\ req_index' = 1 /\ token_budget' = TokenBudget
      /\ Scheduled' = {} /\ scheduled_new' = {}
      /\ UNCHANGED <<requests, Live, waiting, finished_req_ids, admitted, aborted, evicted,
                     reported, sched_scores, pending_pruned, worker_requests>>
  BY DEF ScheduleStart, Scheduled, EmptyDict, historyVars, Live
<1>5. phase = "idle" /\ Scheduled = {} /\ scheduled_new = {}
  BY DEF ScheduleStart, LoopInv
<1>6. SchedTypeOK'
  BY <1>3, <1>4, SMT DEF SchedTypeOK, Live, Scheduled
<1>7. /\ QueuesPartitionRequests' /\ ScheduledStayRunning'
      /\ EveryRequestAccountedFor' /\ WorkerInSync'
  BY <1>3, <1>4, <1>5 DEF QueuesPartitionRequests, ScheduledStayRunning,
                    EveryRequestAccountedFor, WorkerInSync
<1>8. ASSUME NEW i \in DOMAIN running', NEW j \in DOMAIN running', i < j
      PROVE  RequestScore(running[i])' >= RequestScore(running[j])'
  <2>1. /\ i \in 1 .. Len(running) /\ j \in 1 .. Len(running)
        /\ running'[i] = running[p[i]] /\ running'[j] = running[p[j]]
    BY <1>1, <1>3, <1>8, LenProperties, SMT
  <2>2. RequestScore(running[i])' = RequestScore(running[p[i]])
    BY <1>4, <2>1 DEF RequestScore
  <2>3. RequestScore(running[j])' = RequestScore(running[p[j]])
    BY <1>4, <2>1 DEF RequestScore
  <2>4. \A x : RequestScore(x) \in Int
    BY SMT DEF RequestScore, Get, SchedTypeOK
  <2>5. \/ RequestScore(running[p[i]]) > RequestScore(running[p[j]])
        \/ RequestScore(running[p[i]]) = RequestScore(running[p[j]])
    BY <1>2, <1>8, <2>1 DEF Precedes
  <2> QED
    BY <2>2, <2>3, <2>4, <2>5, SMTT(20)
<1>9. LoopInv'
  <2>1. {running'[i] : i \in 1 .. 1 - 1} = {}
    BY SMT
  <2> QED
    BY <1>1, <1>3, <1>4, <1>8, <2>1, SMT DEF LoopInv
<1>10. WorkerInv' /\ TokenInv'
  BY <1>3, <1>4, <1>5 DEF WorkerInv, TokenInv
<1> QED
  BY <1>6, <1>7, <1>9, <1>10

\* An iteration of the first loop gives the next request of the order its tokens.
LEMMA ScheduleRunningInv == SchedInv /\ ScheduleRunning => SchedInv'
<1> SUFFICES ASSUME SchedInv, ScheduleRunning PROVE SchedInv'
  OBVIOUS
<1> USE SchedulerAssumption DEF SchedInv
<1> DEFINE id == running[req_index]
           n == NumNewTokens(requests[id], requests[id].computed)
<1>1. /\ running \in Seq(Ids) /\ Len(running) \in Nat /\ DOMAIN running = 1 .. Len(running)
      /\ req_index \in 1 .. Len(running) /\ token_budget \in Nat \ {0}
      /\ phase = "running"
  BY LenProperties, SMT DEF SchedTypeOK, ScheduleRunning, RunningLoop
<1>2. id \in Range(running) /\ id \in Live /\ id \in Ids
  BY <1>1 DEF Range, QueuesPartitionRequests, SchedTypeOK, Live
<1>3. /\ n \in Nat \ {0} /\ n <= token_budget
      /\ requests[id].computed + n <= requests[id].num_tokens
  <2> DEFINE a == requests[id].num_tokens - requests[id].computed
             c == MaxLen - 1 - requests[id].computed
  <2>1. /\ requests[id].computed \in Nat /\ requests[id].num_tokens \in Nat
        /\ requests[id].num_tokens < MaxLen
        /\ requests[id].computed < requests[id].num_tokens
    BY <1>1, <1>2 DEF SchedTypeOK, TokenInv
  <2>2. a \in Nat \ {0} /\ c \in Nat \ {0}
    BY <2>1, SMT
  <2>3. n = Min({a, token_budget, c})
    BY DEF NumNewTokens
  <2> HIDE DEF a, c
  <2>4. a \in Int /\ token_budget \in Int /\ c \in Int
    BY <1>1, <2>2, SMT
  <2>5. n \in {a, token_budget, c} /\ n <= a /\ n <= token_budget
    <3>1. /\ Min({a, token_budget, c}) \in {a, token_budget, c}
          /\ Min({a, token_budget, c}) <= a /\ Min({a, token_budget, c}) <= token_budget
      BY <2>4, MinOfThree
    <3> QED
      BY <2>3, <3>1
  <2> QED
    BY <1>1, <2>1, <2>2, <2>5, SMTT(20) DEF a
<1>4. /\ Scheduled' = Scheduled \cup {id}
      /\ num_scheduled'[id] = n
      /\ \A i \in Scheduled : i # id => num_scheduled'[i] = num_scheduled[i]
      /\ token_budget' = token_budget - n
      /\ req_index' = req_index + 1
  BY DEF ScheduleRunning, Update, Scheduled
<1>5. UNCHANGED <<requests, Live, waiting, running, finished_req_ids, admitted, aborted,
                  evicted, reported, phase, scheduled_new, sched_scores, pending_pruned,
                  worker_requests>>
  BY DEF ScheduleRunning, queueVars, historyVars, Live
<1> HIDE DEF id, n
<1>6. SchedTypeOK'
  BY <1>1, <1>2, <1>3, <1>4, <1>5, SMTT(20) DEF SchedTypeOK, Live
<1>7. /\ QueuesPartitionRequests' /\ ScheduledStayRunning'
      /\ EveryRequestAccountedFor' /\ WorkerInSync'
  BY <1>1, <1>2, <1>4, <1>5 DEF QueuesPartitionRequests, ScheduledStayRunning,
                    EveryRequestAccountedFor, WorkerInSync
<1>8. LoopInv'
  <2>1. /\ Scheduled = {running[i] : i \in 1 .. req_index - 1} /\ scheduled_new = {}
        /\ Len(running) <= MaxRunning
        /\ \A i, j \in DOMAIN running :
              i < j => RequestScore(running[i]) >= RequestScore(running[j])
    BY <1>1 DEF LoopInv
  <2>2. Scheduled' = {running[i] : i \in 1 .. req_index}
    BY <1>1, <1>4, <2>1, SMTT(20) DEF id
  <2>3. {running'[i] : i \in 1 .. req_index' - 1} = {running[i] : i \in 1 .. req_index}
    BY <1>1, <1>4, <1>5, SMT
  <2>4. req_index' <= Len(running') + 1
    BY <1>1, <1>4, <1>5, SMT
  <2> QED
    BY <1>1, <1>5, <2>1, <2>2, <2>3, <2>4 DEF LoopInv, RequestScore
<1>9. TokenInv'
  BY <1>1, <1>2, <1>3, <1>4, <1>5 DEF TokenInv
<1>10. WorkerInv'
  BY <1>5 DEF WorkerInv
<1> QED
  BY <1>6, <1>7, <1>8, <1>9, <1>10

\* _stop_lowest_running takes the last request of the order, which has no place
\* in the batch yet: the loop looks at it or at an earlier one.
LEMMA StopLowestRunningInv == SchedInv /\ StopLowestRunning => SchedInv'
<1> SUFFICES ASSUME SchedInv, StopLowestRunning PROVE SchedInv'
  OBVIOUS
<1> USE SchedulerAssumption DEF SchedInv
<1> DEFINE victim == running[Len(running)]
<1>1. /\ running \in Seq(Ids) /\ Len(running) \in Nat \ {0} /\ running # <<>>
      /\ DOMAIN running = 1 .. Len(running)
      /\ req_index \in 1 .. Len(running) /\ phase = "running"
  BY LenProperties, EmptySeq, SMT DEF SchedTypeOK, StopLowestRunning, RunningLoop
<1>2. /\ running' \in Seq(Ids) /\ Len(running') = Len(running) - 1
      /\ \A i \in 1 .. Len(running) - 1 : running'[i] = running[i]
      /\ Range(running) = {victim} \cup Range(running')
      /\ IsInjective(running') /\ victim \notin Range(running') /\ victim \in Ids
  BY <1>1, PoppedFacts DEF StopLowestRunning, QueuesPartitionRequests
<1>3. DOMAIN running' = 1 .. Len(running) - 1
  BY <1>2, LenProperties
<1>4. /\ Live' = Live \ {victim}
      /\ \A i \in Live' : requests'[i] = requests[i]
      /\ finished_req_ids' = finished_req_ids \cup {victim}
      /\ pending_pruned' = pending_pruned \cup {victim}
      /\ evicted' = evicted \cup {victim}
      /\ phase' = IF req_index = Len(running) THEN "waiting" ELSE "running"
  BY DEF StopLowestRunning, FreeRequests, Drop, Live
<1>5. UNCHANGED <<waiting, req_index, token_budget, num_scheduled, Scheduled, scheduled_new,
                  admitted, aborted, reported, sched_scores, worker_requests>>
  BY DEF StopLowestRunning, Scheduled
<1> HIDE DEF victim
<1>7. victim \in Live /\ victim \notin Range(waiting)
  BY <1>2 DEF QueuesPartitionRequests
<1>8. Scheduled \subseteq Range(running')
  <2>1. Scheduled = {running[i] : i \in 1 .. req_index - 1}
    BY <1>1 DEF LoopInv
  <2>2. \A i \in 1 .. req_index - 1 : i \in DOMAIN running' /\ running[i] = running'[i]
    BY <1>1, <1>2, <1>3, SMT
  <2> QED
    BY <2>1, <2>2 DEF Range
<1>9. SchedTypeOK'
  BY <1>2, <1>4, <1>5 DEF SchedTypeOK, Live
<1>10. /\ QueuesPartitionRequests' /\ ScheduledStayRunning' /\ EveryRequestAccountedFor'
  BY <1>2, <1>4, <1>5, <1>7, <1>8 DEF QueuesPartitionRequests, ScheduledStayRunning,
                    EveryRequestAccountedFor
<1>11. WorkerInSync'
  BY <1>4, <1>5 DEF WorkerInSync
<1>12. LoopInv'
  <2>1. /\ Scheduled = {running[i] : i \in 1 .. req_index - 1} /\ scheduled_new = {}
        /\ Len(running) <= MaxRunning
        /\ \A i, j \in DOMAIN running :
              i < j => RequestScore(running[i]) >= RequestScore(running[j])
    BY <1>1 DEF LoopInv
  <2>2. {running'[i] : i \in 1 .. req_index' - 1} = {running[i] : i \in 1 .. req_index - 1}
    <3>1. req_index' = req_index /\ req_index - 1 <= Len(running) - 1
      BY <1>1, <1>5, SMT
    <3>2. \A i \in 1 .. req_index - 1 : running'[i] = running[i]
      BY <1>1, <1>2, <3>1, SMT
    <3> QED
      BY <3>1, <3>2
  <2>3. phase' = "running" => req_index' <= Len(running') + 1
    <3>1. req_index' = req_index /\ Len(running') = Len(running) - 1
      BY <1>2, <1>5
    <3>2. req_index \in Nat /\ Len(running) \in Nat /\ req_index <= Len(running)
      BY <1>1, SMT
    <3> QED
      BY <3>1, <3>2, SMT
  <2>4. phase' # "idle" /\ Len(running') <= MaxRunning
    <3>1. Len(running') = Len(running) - 1 /\ Len(running) \in Nat
      BY <1>1, <1>2
    <3>2. phase' # "idle"
      BY <1>4
    <3> QED
      BY <2>1, <3>1, <3>2, SMT
  <2>5. ASSUME NEW i \in DOMAIN running', NEW j \in DOMAIN running', i < j
        PROVE  RequestScore(running[i])' >= RequestScore(running[j])'
    <3>1. /\ i \in DOMAIN running /\ j \in DOMAIN running
          /\ running'[i] = running[i] /\ running'[j] = running[j]
      BY <1>1, <1>2, <1>3, SMT
    <3> QED
      BY <1>5, <2>1, <2>5, <3>1 DEF RequestScore
  <2> QED
    BY <1>5, <2>1, <2>2, <2>3, <2>4, <2>5 DEF LoopInv
<1>13. TokenInv'
  <2>1. Scheduled \subseteq Live' /\ phase' # "scheduled" /\ phase # "scheduled"
    BY <1>1, <1>2, <1>4, <1>8, <1>10 DEF QueuesPartitionRequests
  <2> QED
    BY <1>1, <1>4, <1>5, <2>1 DEF TokenInv
<1>14. WorkerInv'
  <2>1. scheduled_new = {} /\ phase' # "scheduled"
    BY <1>1, <1>4 DEF LoopInv
  <2> QED
    BY <1>2, <1>4, <1>5, <2>1 DEF WorkerInv
<1> QED
  BY <1>9, <1>10, <1>11, <1>12, <1>13, <1>14

\* The first loop ends.
LEMMA RunningDoneInv == SchedInv /\ RunningDone => SchedInv'
<1> SUFFICES ASSUME SchedInv, RunningDone PROVE SchedInv'
  OBVIOUS
<1> USE SchedulerAssumption DEF SchedInv
<1>1. UNCHANGED <<requests, Live, waiting, running, finished_req_ids, admitted, aborted,
                  evicted, reported, req_index, token_budget, num_scheduled, Scheduled,
                  scheduled_new, sched_scores, pending_pruned, worker_requests>>
  BY DEF RunningDone, queueVars, historyVars, Live, Scheduled
<1>2. phase = "running" /\ phase' = "waiting"
  BY DEF RunningDone
<1>3. SchedTypeOK'
  BY <1>1, <1>2 DEF SchedTypeOK
<1>4. /\ QueuesPartitionRequests' /\ ScheduledStayRunning'
      /\ EveryRequestAccountedFor' /\ WorkerInSync'
  BY <1>1, <1>2 DEF QueuesPartitionRequests, ScheduledStayRunning,
                    EveryRequestAccountedFor, WorkerInSync
<1>5. LoopInv' /\ TokenInv' /\ WorkerInv'
  BY <1>1, <1>2 DEF LoopInv, TokenInv, WorkerInv
<1> QED
  BY <1>3, <1>4, <1>5

\* An iteration of the second loop moves the head of the waiting queue to the end
\* of the running list.
LEMMA AdmitWaitingInv ==
    ASSUME SchedInv, NEW hit \in Nat, AdmitWaiting(hit)
    PROVE  SchedInv'
<1> USE SchedulerAssumption DEF SchedInv
<1> DEFINE id == Head(waiting)
           n == Min({requests[id].num_tokens - hit, token_budget})
<1>1. /\ phase = "waiting" /\ token_budget \in Nat \ {0} /\ Len(running) # MaxRunning
      /\ running \in Seq(Ids) /\ waiting \in Seq(Ids) /\ waiting # <<>>
      /\ Len(running) \in Nat /\ Len(running) <= MaxRunning
      /\ hit < requests[id].num_tokens
  BY LenProperties, SMT DEF AdmitWaiting, WaitingLoop, SchedTypeOK, LoopInv
<1>2. /\ id \in Ids /\ waiting' \in Seq(Ids)
      /\ Range(waiting) = {id} \cup Range(waiting')
      /\ IsInjective(waiting') /\ id \notin Range(waiting')
  BY <1>1, TailFacts DEF AdmitWaiting, QueuesPartitionRequests
<1>3. id \in Live /\ id \notin Range(running) /\ id \notin Scheduled
  BY <1>2 DEF QueuesPartitionRequests, ScheduledStayRunning
<1>4. /\ running' \in Seq(Ids) /\ Len(running') = Len(running) + 1
      /\ Range(running') = Range(running) \cup {id} /\ IsInjective(running')
  BY <1>1, <1>2, <1>3, AppendFacts, SMT DEF AdmitWaiting, QueuesPartitionRequests
<1>5. /\ requests[id].num_tokens \in Nat /\ requests[id].arrival \in Nat
      /\ requests[id].num_tokens < MaxLen
  BY <1>3 DEF SchedTypeOK, TokenInv
<1>6. n \in Nat \ {0} /\ n <= token_budget /\ hit + n <= requests[id].num_tokens
  <2> DEFINE a == requests[id].num_tokens - hit
  <2>1. a \in Nat \ {0} /\ a \in Int /\ token_budget \in Int
    BY <1>1, <1>5, SMT
  <2> HIDE DEF a
  <2>2. /\ Min({a, token_budget}) \in {a, token_budget}
        /\ Min({a, token_budget}) <= a /\ Min({a, token_budget}) <= token_budget
    BY <2>1, MinOfTwo
  <2> QED
    BY <1>1, <1>5, <2>1, <2>2, SMTT(20) DEF a
<1>7. /\ Live' = Live
      /\ requests'[id] = [requests[id] EXCEPT !.computed = hit]
      /\ \A i \in Live : i # id => requests'[i] = requests[i]
  BY <1>3 DEF AdmitWaiting, Live
<1>8. /\ requests'[id].num_tokens = requests[id].num_tokens
      /\ requests'[id].computed = hit
      /\ requests'[id] \in [num_tokens : Nat, computed : Nat, arrival : Nat]
  BY <1>3, <1>7 DEF SchedTypeOK
<1>9. /\ Scheduled' = Scheduled \cup {id}
      /\ num_scheduled'[id] = n
      /\ \A i \in Scheduled : i # id => num_scheduled'[i] = num_scheduled[i]
      /\ scheduled_new' = scheduled_new \cup {id}
      /\ token_budget' = token_budget - n
  BY DEF AdmitWaiting, Update, Scheduled
<1>10. UNCHANGED <<finished_req_ids, admitted, aborted, evicted, reported, phase, req_index,
                   sched_scores, pending_pruned, worker_requests>>
  BY DEF AdmitWaiting, historyVars
<1> HIDE DEF id, n
<1>11. SchedTypeOK'
  <2>1. token_budget' \in Nat
    BY <1>1, <1>6, <1>9, SMT
  <2>2. \A i \in Live' : requests'[i] \in [num_tokens : Nat, computed : Nat, arrival : Nat]
    BY <1>7, <1>8 DEF SchedTypeOK
  <2>3. Live' \subseteq Ids
    BY <1>7 DEF SchedTypeOK, Live
  <2> QED
    BY <1>2, <1>4, <1>9, <1>10, <2>1, <2>2, <2>3 DEF SchedTypeOK, Live
<1>12. /\ QueuesPartitionRequests' /\ ScheduledStayRunning'
       /\ EveryRequestAccountedFor' /\ WorkerInSync'
  BY <1>1, <1>2, <1>3, <1>4, <1>7, <1>9, <1>10, SMTT(20)
     DEF QueuesPartitionRequests, ScheduledStayRunning, EveryRequestAccountedFor, WorkerInSync
<1>13. LoopInv'
  <2>1. Len(running') <= MaxRunning
    BY <1>1, <1>4, SMT
  <2> QED
    BY <1>1, <1>10, <2>1 DEF LoopInv
<1>14. TokenInv'
  <2>1. ASSUME NEW i \in Live'
        PROVE  /\ requests'[i].num_tokens < MaxLen
               /\ requests'[i].computed <= requests'[i].num_tokens
               /\ requests'[i].computed < requests'[i].num_tokens
    <3>1. CASE i = id
      BY <1>1, <1>5, <1>8, <3>1, SMT
    <3>2. CASE i # id
      <4>1. i \in Live /\ requests'[i] = requests[i]
        BY <1>7, <3>2
      <4> QED
        BY <1>1, <4>1 DEF TokenInv, SchedTypeOK
    <3> QED
      BY <3>1, <3>2
  <2>2. ASSUME NEW i \in Scheduled'
        PROVE  /\ num_scheduled'[i] \in Nat \ {0}
               /\ requests'[i].computed + num_scheduled'[i] <= requests'[i].num_tokens
    <3>1. CASE i = id
      BY <1>6, <1>8, <1>9, <3>1
    <3>2. CASE i # id
      <4>1. i \in Scheduled /\ i \in Live
        BY <1>9, <3>2 DEF QueuesPartitionRequests, ScheduledStayRunning
      <4> QED
        BY <1>1, <1>7, <1>9, <3>2, <4>1 DEF TokenInv
    <3> QED
      BY <3>1, <3>2
  <2> QED
    BY <2>1, <2>2 DEF TokenInv
<1>15. WorkerInv'
  BY <1>1, <1>4, <1>9, <1>10 DEF WorkerInv
<1> QED
  BY <1>11, <1>12, <1>13, <1>14, <1>15

\* schedule() returns: the tokens of the batch count as computed and the worker
\* hears of the requests that finished and of the new ones.
LEMMA ScheduleDoneInv == SchedInv /\ ScheduleDone => SchedInv'
<1> SUFFICES ASSUME SchedInv, ScheduleDone PROVE SchedInv'
  OBVIOUS
<1> USE SchedulerAssumption DEF SchedInv
<1>1. /\ Live' = Live
      /\ \A i \in Live :
            requests'[i] = [requests[i] EXCEPT !.computed = @ + Get(num_scheduled, i, 0)]
      /\ finished_req_ids' = {}
      /\ worker_requests' = (worker_requests \ finished_req_ids) \cup scheduled_new
      /\ phase = "waiting" /\ phase' = "scheduled"
  BY DEF ScheduleDone, UpdateAfterSchedule, UpdateStates, Live
<1>2. UNCHANGED <<waiting, running, req_index, token_budget, num_scheduled, Scheduled,
                  scheduled_new, admitted, aborted, evicted, reported, sched_scores,
                  pending_pruned>>
  BY DEF ScheduleDone, historyVars, Scheduled
<1>3. /\ Range(running) \subseteq Live
      /\ Scheduled \subseteq Range(running) /\ scheduled_new \subseteq Range(running)
      /\ finished_req_ids \cap Live = {}
      /\ worker_requests \subseteq Live \cup finished_req_ids
      /\ Range(running) \subseteq worker_requests \cup scheduled_new
  BY DEF QueuesPartitionRequests, ScheduledStayRunning, EveryRequestAccountedFor,
         WorkerInSync, WorkerInv
<1>4. ASSUME NEW i \in Live
      PROVE  /\ requests'[i] \in [num_tokens : Nat, computed : Nat, arrival : Nat]
             /\ requests'[i].num_tokens = requests[i].num_tokens
             /\ requests'[i].num_tokens < MaxLen
             /\ requests'[i].computed <= requests'[i].num_tokens
             /\ i \in Scheduled \/ requests'[i].computed < requests'[i].num_tokens
  <2>1. /\ requests[i] \in [num_tokens : Nat, computed : Nat, arrival : Nat]
        /\ requests[i].num_tokens < MaxLen
        /\ requests[i].computed < requests[i].num_tokens
        /\ i \in Scheduled => /\ num_scheduled[i] \in Nat \ {0}
                             /\ requests[i].computed + num_scheduled[i] <= requests[i].num_tokens
    BY <1>1, <1>4 DEF SchedTypeOK, TokenInv
  <2> DEFINE g == Get(num_scheduled, i, 0)
  <2>2. /\ g \in Nat /\ requests[i].computed + g <= requests[i].num_tokens
        /\ i \in Scheduled \/ g = 0
    BY <2>1, SMT DEF Get, Scheduled
  <2>3. requests'[i] = [requests[i] EXCEPT !.computed = @ + g]
    BY <1>1, <1>4
  <2> HIDE DEF g
  <2>4. /\ requests'[i].num_tokens = requests[i].num_tokens
        /\ requests'[i].computed = requests[i].computed + g
        /\ requests'[i].arrival = requests[i].arrival
        /\ requests'[i] \in [num_tokens : Nat, computed : Nat, arrival : Nat]
    BY <2>1, <2>2, <2>3, SMT
  <2> QED
    BY <2>1, <2>2, <2>4, SMT
<1>5. SchedTypeOK'
  BY <1>1, <1>2, <1>4 DEF SchedTypeOK, Live
<1>6. /\ QueuesPartitionRequests' /\ ScheduledStayRunning' /\ EveryRequestAccountedFor'
  BY <1>1, <1>2 DEF QueuesPartitionRequests, ScheduledStayRunning, EveryRequestAccountedFor
<1>7. WorkerInSync' /\ WorkerInv'
  BY <1>1, <1>2, <1>3 DEF WorkerInSync, WorkerInv
<1>8. LoopInv'
  BY <1>1, <1>2 DEF LoopInv
<1>9. TokenInv'
  <2>1. \A i \in Scheduled : num_scheduled[i] \in Nat \ {0}
    BY DEF TokenInv
  <2> QED
    BY <1>1, <1>2, <1>4, <2>1 DEF TokenInv
<1> QED
  BY <1>5, <1>6, <1>7, <1>8, <1>9

\* update_trace_scores, while a batch executes.
LEMMA ScoreBatchInv ==
    ASSUME SchedInv, NEW scores, \A i \in DOMAIN scores : scores[i] \in Int,
           ScoreBatch(scores)
    PROVE  SchedInv'
<1> USE SchedulerAssumption DEF SchedInv
<1>1. UNCHANGED <<requests, Live, waiting, running, finished_req_ids, admitted, aborted,
                  evicted, reported, phase, req_index, token_budget, num_scheduled,
                  Scheduled, scheduled_new, pending_pruned, worker_requests>>
  BY DEF ScoreBatch, queueVars, loopVars, historyVars, Live, Scheduled
<1>2. phase = "scheduled"
  BY DEF ScoreBatch
<1>3. \A i \in DOMAIN sched_scores' : sched_scores'[i] \in Int
  BY DEF ScoreBatch, UpdateTraceScores, Update, SchedTypeOK
<1>4. SchedTypeOK'
  BY <1>1, <1>3 DEF SchedTypeOK
<1>5. /\ QueuesPartitionRequests' /\ ScheduledStayRunning'
      /\ EveryRequestAccountedFor' /\ WorkerInSync'
  BY <1>1 DEF QueuesPartitionRequests, ScheduledStayRunning,
              EveryRequestAccountedFor, WorkerInSync
<1>6. LoopInv' /\ TokenInv' /\ WorkerInv'
  BY <1>1, <1>2 DEF LoopInv, TokenInv, WorkerInv
<1> QED
  BY <1>4, <1>5, <1>6

\* update_from_output, whatever tokens beyond the sampled ones it is given and
\* whichever requests stop, provided those at the length limit do.
LEMMA UpdateFromOutputInv ==
    ASSUME SchedInv, phase = "scheduled",
           NEW emitted, NEW stopped \in SUBSET Scheduled,
           Sampled \subseteq emitted, ReachesMaxLen(emitted) \subseteq stopped,
           UpdateFromOutput(emitted, stopped)
    PROVE  SchedInv'
<1> USE SchedulerAssumption DEF SchedInv
<1>1. /\ running' \in Seq(Ids) /\ Len(running') <= Len(running)
      /\ Range(running') = Range(running) \ stopped /\ IsInjective(running')
  BY RemoveAllFacts DEF UpdateFromOutput, SchedTypeOK, QueuesPartitionRequests
<1>2. /\ Live' = Live \ stopped
      /\ \A i \in Live' :
            requests'[i] = IF i \in emitted
                           THEN [requests[i] EXCEPT !.num_tokens = @ + 1]
                           ELSE requests[i]
  BY DEF UpdateFromOutput, Live
<1>3. /\ finished_req_ids' = finished_req_ids \cup stopped
      /\ reported' = reported \cup stopped \cup pending_pruned
      /\ pending_pruned' = {} /\ phase' = "idle" /\ req_index' = 1 /\ token_budget' = 0
      /\ Scheduled' = {} /\ scheduled_new' = {}
      /\ UNCHANGED <<waiting, admitted, aborted, evicted, sched_scores, worker_requests>>
  BY DEF UpdateFromOutput, Scheduled, EmptyDict
<1>4. /\ stopped \subseteq Range(running) /\ stopped \subseteq Live
      /\ stopped \cap Range(waiting) = {} /\ stopped \subseteq Ids
      /\ Range(running) \subseteq worker_requests
  BY DEF QueuesPartitionRequests, ScheduledStayRunning, WorkerInv, SchedTypeOK, Live
<1>5. ASSUME NEW i \in Live'
      PROVE  /\ requests'[i] \in [num_tokens : Nat, computed : Nat, arrival : Nat]
             /\ requests'[i].num_tokens < MaxLen
             /\ requests'[i].computed <= requests'[i].num_tokens
             /\ requests'[i].computed < requests'[i].num_tokens
  <2>1. /\ i \in Live /\ i \notin stopped
        /\ requests[i] \in [num_tokens : Nat, computed : Nat, arrival : Nat]
        /\ requests[i].num_tokens < MaxLen
        /\ requests[i].computed <= requests[i].num_tokens
        /\ i \in Scheduled \/ requests[i].computed < requests[i].num_tokens
    BY <1>2, <1>5 DEF SchedTypeOK, TokenInv
  <2>2. CASE i \in emitted
    <3>1. requests'[i] = [requests[i] EXCEPT !.num_tokens = @ + 1]
      BY <1>2, <1>5, <2>2
    <3>2. /\ requests'[i].num_tokens = requests[i].num_tokens + 1
          /\ requests'[i].computed = requests[i].computed
          /\ requests'[i] \in [num_tokens : Nat, computed : Nat, arrival : Nat]
      BY <2>1, <3>1, SMT
    <3>3. ~(requests[i].num_tokens + 1 >= MaxLen)
      BY <2>1, <2>2 DEF ReachesMaxLen
    <3> QED
      BY <2>1, <3>2, <3>3, SMT
  <2>3. CASE i \notin emitted
    <3>1. requests'[i] = requests[i]
      BY <1>2, <1>5, <2>3
    <3>2. i \in Scheduled => requests[i].computed # requests[i].num_tokens
      BY <2>1, <2>3 DEF Sampled
    <3> QED
      BY <2>1, <3>1, <3>2, SMT
  <2> QED
    BY <2>2, <2>3
<1>6. SchedTypeOK'
  BY <1>1, <1>2, <1>3, <1>4, <1>5, SMT DEF SchedTypeOK, Live
<1>7. /\ QueuesPartitionRequests' /\ ScheduledStayRunning'
      /\ EveryRequestAccountedFor' /\ WorkerInSync'
  BY <1>1, <1>2, <1>3, <1>4 DEF QueuesPartitionRequests, ScheduledStayRunning,
                    EveryRequestAccountedFor, WorkerInSync
<1>8. LoopInv'
  <2>1. Len(running) \in Nat /\ Len(running') \in Nat /\ Len(running) <= MaxRunning
    BY <1>1, LenProperties DEF SchedTypeOK, LoopInv
  <2>2. Len(running') <= MaxRunning
    BY <1>1, <2>1, SMT
  <2> QED
    BY <1>3, <2>2 DEF LoopInv
<1>9. TokenInv'
  BY <1>3, <1>5 DEF TokenInv
<1>10. WorkerInv'
  BY <1>1, <1>3, <1>4 DEF WorkerInv
<1> QED
  BY <1>6, <1>7, <1>8, <1>9, <1>10

-----------------------------------------------------------------------------
(***************************************************************************)
(* The theorems.                                                           *)
(***************************************************************************)

\* Every step of the scheduler and its environment preserves SchedInv.
LEMMA SchedNextInv == SchedInv /\ [SchedNext]_schedVars => SchedInv'
<1> SUFFICES ASSUME SchedInv, [SchedNext]_schedVars PROVE SchedInv'
  OBVIOUS
<1>1. ASSUME NEW r \in Roots, ClientAdd(r) PROVE SchedInv'
  <2>1. RootId(r) \in Ids
    BY SMT DEF RootId, Ids
  <2>2. PromptLen[r] \in 1 .. MaxLen - 1 /\ Arrival[r] \in Nat
    BY SchedulerAssumption
  <2>3. RootId(r) \notin admitted /\ AddRequest(RootId(r), Request(PromptLen[r], Arrival[r]))
    BY <1>1 DEF ClientAdd
  <2> QED
    BY <2>1, <2>2, <2>3, AddRequestInv
<1>2. ASSUME NEW ids \in SUBSET Live, ClientAbort(ids) PROVE SchedInv'
  BY <1>2, FinishRequestsInv DEF ClientAbort
<1>3. ASSUME NEW s \in [Scheduled -> Scores], ScoreBatch(s) PROVE SchedInv'
  <2>1. \A i \in DOMAIN s : s[i] \in Int
    BY SchedulerAssumption
  <2> QED
    BY <1>3, <2>1, ScoreBatchInv
<1>4. CASE Schedule
  <2>1. ASSUME NEW hit \in 0 .. MaxLen, AdmitWaiting(hit) PROVE SchedInv'
    <3>1. hit \in Nat
      BY SchedulerAssumption, SMT
    <3> QED
      BY <2>1, <3>1, AdmitWaitingInv
  <2> QED
    BY <1>4, <2>1, ScheduleStartInv, ScheduleRunningInv, StopLowestRunningInv,
       RunningDoneInv, ScheduleDoneInv DEF Schedule
<1>5. ASSUME NEW natural \in SUBSET Sampled, FinishBatch(natural) PROVE SchedInv'
  <2> DEFINE stopped == natural \cup ReachesMaxLen(Sampled)
  <2>1. /\ phase = "scheduled" /\ UpdateFromOutput(Sampled, stopped)
        /\ stopped \in SUBSET Scheduled /\ ReachesMaxLen(Sampled) \subseteq stopped
        /\ Sampled \subseteq Sampled
    BY <1>5 DEF FinishBatch, Sampled, ReachesMaxLen
  <2> HIDE DEF stopped
  <2> QED
    BY <2>1, UpdateFromOutputInv
<1>6. CASE UNCHANGED schedVars
  <2>1. UNCHANGED <<requests, Live, waiting, running, finished_req_ids, admitted, aborted,
                    evicted, reported, phase, req_index, token_budget, num_scheduled,
                    Scheduled, scheduled_new, sched_scores, pending_pruned, worker_requests>>
    BY <1>6 DEF schedVars, queueVars, loopVars, historyVars, Live, Scheduled
  <2>2. SchedTypeOK'
    BY <2>1 DEF SchedInv, SchedTypeOK
  <2>3. /\ QueuesPartitionRequests' /\ ScheduledStayRunning'
        /\ EveryRequestAccountedFor' /\ WorkerInSync'
    BY <2>1 DEF SchedInv, QueuesPartitionRequests, ScheduledStayRunning,
                EveryRequestAccountedFor, WorkerInSync
  <2>4. LoopInv'
    BY <2>1 DEF SchedInv, LoopInv, RequestScore
  <2>5. TokenInv' /\ WorkerInv'
    BY <2>1 DEF SchedInv, TokenInv, WorkerInv
  <2> QED
    BY <2>2, <2>3, <2>4, <2>5 DEF SchedInv
<1> QED
  BY <1>1, <1>2, <1>3, <1>4, <1>5, <1>6 DEF SchedNext, Batch

\* SchedInv holds in every reachable state of the scheduler.
THEOREM SchedulerInvariant == SchedSpec => []SchedInv
  BY SchedInitInv, SchedNextInv, PTL DEF SchedSpec

\* The scheduler's state has its type: in particular schedule() never runs out of
\* budget below zero and no token count becomes negative.
THEOREM SchedulerTypeCorrect == SchedSpec => []SchedTypeOK
  BY SchedulerInvariant, PTL DEF SchedInv

\* Every live request is in exactly one place of one queue, whatever the aborts,
\* evictions and completions.
THEOREM QueuesArePartition == SchedSpec => []QueuesPartitionRequests
  BY SchedulerInvariant, PTL DEF SchedInv

\* An eviction never takes a request that is already part of the batch.
THEOREM ScheduledAreSafe == SchedSpec => []ScheduledStayRunning
  BY SchedulerInvariant, PTL DEF SchedInv

\* No request is lost and none is reported twice.
THEOREM RequestsAccountedFor == SchedSpec => []EveryRequestAccountedFor
  BY SchedulerInvariant, PTL DEF SchedInv

\* The model runner holds a state for every request of the batch it runs, and
\* is told to drop every state it should not keep.
THEOREM WorkerFollowsScheduler == SchedSpec => []WorkerInSync
  BY SchedulerInvariant, PTL DEF SchedInv

\* The assertions of schedule() and update_from_output on the batch hold.
THEOREM AssertionsHold == SchedSpec => []ScheduleAssertions
<1>1. SchedInv => ScheduleAssertions
  BY SMT DEF SchedInv, LoopInv, TokenInv, ScheduleAssertions
<1> QED
  BY <1>1, SchedulerInvariant, PTL

\* The request _stop_lowest_running ends has a score no higher than that of any
\* request it leaves running.
THEOREM EvictionIsLowest == SchedSpec => EvictsTheLowest
<1> DEFINE Lowest == \A v \in pending_pruned' \ pending_pruned :
                       \A i \in Range(running') : RequestScore(v) <= RequestScore(i)
<1>1. ASSUME SchedInv, [SchedNext]_schedVars PROVE [Lowest]_schedVars
  <2>1. CASE StopLowestRunning
    <3>1. /\ running \in Seq(Ids) /\ Len(running) \in Nat /\ running # <<>>
          /\ DOMAIN running = 1 .. Len(running) /\ Len(running) > 1
          /\ \A i, j \in DOMAIN running :
                i < j => RequestScore(running[i]) >= RequestScore(running[j])
      BY <1>1, <2>1, LenProperties, EmptySeq, SMTT(20)
         DEF SchedInv, SchedTypeOK, LoopInv, StopLowestRunning, RunningLoop, CacheMayBeFull
    <3>2. /\ running' \in Seq(Ids) /\ Len(running') = Len(running) - 1
          /\ \A i \in 1 .. Len(running) - 1 : running'[i] = running[i]
      BY <2>1, <3>1, PoppedFacts DEF StopLowestRunning
    <3>3. pending_pruned' = pending_pruned \cup {running[Len(running)]}
      BY <2>1 DEF StopLowestRunning
    <3>4. ASSUME NEW i \in Range(running')
          PROVE  RequestScore(running[Len(running)]) <= RequestScore(i)
      <4>1. DOMAIN running' = 1 .. Len(running) - 1
        BY <3>2, LenProperties
      <4>2. PICK j \in 1 .. Len(running) - 1 : i = running'[j]
        BY <4>1 DEF Range
      <4>3. i = running[j] /\ j \in DOMAIN running /\ Len(running) \in DOMAIN running
            /\ j < Len(running)
        BY <3>1, <3>2, <4>2, SMT
      <4>4. RequestScore(running[j]) >= RequestScore(running[Len(running)])
        BY <3>1, <4>3
      <4>5. \A x : RequestScore(x) \in Int
        BY <1>1, SMT DEF SchedInv, SchedTypeOK, RequestScore, Get
      <4> QED
        BY <4>3, <4>4, <4>5
    <3> QED
      BY <3>3, <3>4
  <2>2. CASE ~StopLowestRunning
    <3>1. pending_pruned' \subseteq pending_pruned
      BY <1>1, <2>2 DEF SchedNext, Batch, Schedule, ClientAdd, ClientAbort, ScoreBatch,
         AddRequest, FinishRequests, FinishBatch, UpdateFromOutput, ScheduleStart,
         ScheduleRunning, RunningDone, AdmitWaiting, ScheduleDone, schedVars
    <3> QED
      BY <3>1
  <2> QED
    BY <2>1, <2>2
<1> QED
  BY <1>1, SchedulerInvariant, PTL DEF SchedSpec, EvictsTheLowest

-----------------------------------------------------------------------------
(***************************************************************************)
(* The size of the batch.                                                  *)
(***************************************************************************)

\* A request that enters the batch adds as many tokens to it as it takes from the
\* budget.
LEMMA BatchGrows ==
    ASSUME NEW id, id \notin Scheduled, NEW n \in Nat, token_budget \in Nat,
           IsFiniteSet(BatchTokens), Cardinality(BatchTokens) + token_budget = TokenBudget,
           Scheduled' = Scheduled \cup {id}, num_scheduled'[id] = n,
           \A i \in Scheduled : num_scheduled'[i] = num_scheduled[i],
           token_budget' = token_budget - n
    PROVE  /\ IsFiniteSet(BatchTokens')
           /\ Cardinality(BatchTokens') + token_budget' = TokenBudget
<1> DEFINE new == {id} \X (1 .. n)
<1>1. BatchTokens' = BatchTokens \cup new
  <2> DEFINE T(i) == {i} \X (1 .. num_scheduled[i])
             U(i) == {i} \X (1 .. num_scheduled'[i])
  <2>1. BatchTokens = UNION {T(i) : i \in Scheduled}
    BY DEF BatchTokens
  <2>2. BatchTokens' = UNION {U(i) : i \in Scheduled \cup {id}}
    BY DEF BatchTokens
  <2>3. U(id) = new /\ \A i \in Scheduled : U(i) = T(i)
    OBVIOUS
  <2> HIDE DEF T, U, new
  <2> QED
    BY <2>1, <2>2, <2>3
<1>2. BatchTokens \cap new = {}
  BY SMT DEF BatchTokens
<1>3. IsFiniteSet(new) /\ Cardinality(new) = n
  <2>1. IsFiniteSet({id}) /\ Cardinality({id}) = 1
    BY FS_Singleton
  <2>2. IsFiniteSet(1 .. n) /\ Cardinality(1 .. n) = n
    <3>1. 1 \in Int /\ n \in Int
      BY SMT
    <3>2. /\ IsFiniteSet(1 .. n)
          /\ Cardinality(1 .. n) = IF 1 > n THEN 0 ELSE n - 1 + 1
      BY <3>1, FS_Interval
    <3> QED
      BY <3>2, SMT
  <2>3. /\ IsFiniteSet({id} \X (1 .. n))
        /\ Cardinality({id} \X (1 .. n)) = Cardinality({id}) * Cardinality(1 .. n)
    BY <2>1, <2>2, FS_Product
  <2> QED
    BY <2>1, <2>2, <2>3, SMT
<1> HIDE DEF new
<1>4. Cardinality(BatchTokens) \in Nat
  BY FS_CardinalityType
<1>5. IsFiniteSet({}) /\ Cardinality({}) = 0
  BY FS_EmptySet
<1>6. /\ IsFiniteSet(BatchTokens \cup new)
      /\ Cardinality(BatchTokens \cup new) =
           Cardinality(BatchTokens) + Cardinality(new) - Cardinality(BatchTokens \cap new)
  BY <1>3, FS_Union
<1>7. Cardinality(BatchTokens \cup new) = Cardinality(BatchTokens) + n
  <2>1. Cardinality(BatchTokens \cap new) = 0
    BY <1>2, <1>5
  <2>2. Cardinality(BatchTokens \cup new) = Cardinality(BatchTokens) + n - 0
    BY <1>3, <1>6, <2>1
  <2> QED
    BY <1>4, <2>2, SMT
<1>8. IsFiniteSet(BatchTokens') /\ Cardinality(BatchTokens') = Cardinality(BatchTokens) + n
  BY <1>1, <1>6, <1>7
<1> QED
  BY <1>4, <1>8, SMT

\* An empty batch holds no token.
LEMMA NoBatchTokens ==
    ASSUME Scheduled = {}
    PROVE  BatchTokens = {} /\ IsFiniteSet(BatchTokens) /\ Cardinality(BatchTokens) = 0
  BY FS_EmptySet DEF BatchTokens

\* Every step of the scheduler preserves BatchInv.
LEMMA BatchNextInv ==
    ASSUME SchedInv, BatchInv, [SchedNext]_schedVars, SchedInv'
    PROVE  BatchInv'
<1>1. /\ TokenBudget \in Nat \ {0} /\ token_budget \in Nat /\ token_budget' \in Nat
      /\ running \in Seq(Ids) /\ running' \in Seq(Ids)
      /\ Len(running) \in Nat /\ DOMAIN running = 1 .. Len(running)
      /\ req_index \in Nat \ {0}
  BY SchedulerAssumption, LenProperties DEF SchedInv, SchedTypeOK
<1>2. ASSUME UNCHANGED <<phase, running, num_scheduled, token_budget>>
      PROVE  BatchInv'
  BY <1>2 DEF BatchInv, BatchWithinBudget, BatchTokens, Scheduled
<1>3. ASSUME NEW id, id \notin Scheduled, Scheduled' = Scheduled \cup {id},
             \A j \in Scheduled : num_scheduled'[j] = num_scheduled[j],
             token_budget' = token_budget - num_scheduled'[id],
             phase \in {"running", "waiting"}, phase' = phase
      PROVE  BatchInv'
  <2>1. num_scheduled'[id] \in Nat
    BY <1>3 DEF SchedInv, TokenInv
  <2>2. /\ IsFiniteSet(BatchTokens')
        /\ Cardinality(BatchTokens') + token_budget' = TokenBudget
    BY <1>1, <1>3, <2>1, BatchGrows DEF BatchInv
  <2>3. Cardinality(BatchTokens') \in Nat
    BY <2>2, FS_CardinalityType
  <2>4. Cardinality(BatchTokens') <= TokenBudget
    BY <1>1, <2>2, <2>3, SMT
  <2>5. Scheduled' # {} /\ phase' # "scheduled"
    BY <1>3
  <2> QED
    BY <2>2, <2>4, <2>5 DEF BatchInv, BatchWithinBudget
<1>4. CASE ScheduleStart
  <2>1. Scheduled' = {} /\ token_budget' = TokenBudget /\ phase' = "running"
    BY <1>4 DEF ScheduleStart, Scheduled, EmptyDict
  <2>2. IsFiniteSet(BatchTokens') /\ Cardinality(BatchTokens') = 0
    BY <2>1, FS_EmptySet DEF BatchTokens
  <2> QED
    BY <1>1, <2>1, <2>2, SMT DEF BatchInv, BatchWithinBudget
<1>5. CASE ScheduleRunning
  <2> DEFINE id == running[req_index]
  <2>1. /\ phase = "running" /\ phase' = phase /\ req_index \in 1 .. Len(running)
        /\ Scheduled' = Scheduled \cup {id}
        /\ \A j \in Scheduled : j # id => num_scheduled'[j] = num_scheduled[j]
        /\ token_budget' = token_budget - num_scheduled'[id]
    BY <1>1, <1>5, SMT DEF ScheduleRunning, RunningLoop, Update, Scheduled
  <2>2. /\ Scheduled = {running[i] : i \in 1 .. req_index - 1}
        /\ IsInjective(running)
    BY <2>1 DEF SchedInv, LoopInv, QueuesPartitionRequests
  <2>3. id \notin Scheduled
    BY <1>1, <2>1, <2>2, SMT DEF IsInjective
  <2> HIDE DEF id
  <2> QED
    BY <1>3, <2>1, <2>3
<1>6. CASE StopLowestRunning
  <2>1. /\ UNCHANGED <<num_scheduled, token_budget>>
        /\ phase = "running" /\ phase' \in {"running", "waiting"}
        /\ phase' = "waiting" => req_index = Len(running) /\ Len(running) > 1
    BY <1>6 DEF StopLowestRunning, RunningLoop, CacheMayBeFull
  <2>2. Scheduled' = Scheduled /\ BatchTokens' = BatchTokens
    BY <2>1 DEF Scheduled, BatchTokens
  <2>3. phase' = "waiting" => Scheduled # {}
    <3>1. Scheduled = {running[i] : i \in 1 .. req_index - 1}
      BY <2>1 DEF SchedInv, LoopInv
    <3>2. phase' = "waiting" => 1 \in 1 .. req_index - 1
      BY <1>1, <2>1, SMT
    <3> QED
      BY <3>1, <3>2
  <2> QED
    BY <2>1, <2>2, <2>3 DEF BatchInv, BatchWithinBudget
<1>7. CASE RunningDone
  <2>1. /\ UNCHANGED <<num_scheduled, token_budget, running>>
        /\ phase = "running" /\ phase' = "waiting"
        /\ req_index > Len(running) \/ ~(token_budget > 0)
    BY <1>1, <1>7, SMT DEF RunningDone, RunningLoop, queueVars
  <2>2. Scheduled' = Scheduled /\ BatchTokens' = BatchTokens
    BY <2>1 DEF Scheduled, BatchTokens
  <2>3. ASSUME Scheduled = {} PROVE running = <<>>
    <3>1. Scheduled = {running[i] : i \in 1 .. req_index - 1}
      BY <2>1 DEF SchedInv, LoopInv
    <3>2. req_index = 1
      <4>1. 1 \notin 1 .. req_index - 1
        BY <2>3, <3>1
      <4> QED
        BY <1>1, <4>1, SMT
    <3>3. token_budget = TokenBudget
      BY <1>1, <2>1, <2>3, NoBatchTokens, SMT DEF BatchInv
    <3>4. Len(running) = 0
      BY <1>1, <2>1, <3>2, <3>3, SMT
    <3> QED
      BY <1>1, <3>4, EmptySeq
  <2> QED
    BY <2>1, <2>2, <2>3 DEF BatchInv, BatchWithinBudget
<1>8. ASSUME NEW hit \in 0 .. MaxLen, AdmitWaiting(hit) PROVE BatchInv'
  <2> DEFINE id == Head(waiting)
  <2>1. /\ phase = "waiting" /\ phase' = phase /\ waiting # <<>> /\ waiting \in Seq(Ids)
        /\ Scheduled' = Scheduled \cup {id}
        /\ \A j \in Scheduled : j # id => num_scheduled'[j] = num_scheduled[j]
        /\ token_budget' = token_budget - num_scheduled'[id]
    BY <1>8 DEF AdmitWaiting, WaitingLoop, Update, Scheduled, SchedInv, SchedTypeOK
  <2>2. id \in Range(waiting)
    BY <2>1, TailFacts, SMT
  <2>3. id \notin Scheduled
    BY <2>2 DEF SchedInv, QueuesPartitionRequests, ScheduledStayRunning
  <2> HIDE DEF id
  <2> QED
    BY <1>3, <2>1, <2>3
<1>9. CASE ScheduleDone
  <2>1. /\ UNCHANGED <<num_scheduled, token_budget, running>>
        /\ phase = "waiting" /\ phase' = "scheduled"
    BY <1>9 DEF ScheduleDone
  <2> QED
    BY <2>1 DEF BatchInv, BatchWithinBudget, BatchTokens, Scheduled
<1>10. ASSUME NEW natural \in SUBSET Sampled, FinishBatch(natural) PROVE BatchInv'
  <2>1. Scheduled' = {} /\ phase' = "idle"
    BY <1>10 DEF FinishBatch, UpdateFromOutput, Scheduled, EmptyDict
  <2>2. IsFiniteSet(BatchTokens') /\ Cardinality(BatchTokens') = 0
    BY <2>1, FS_EmptySet DEF BatchTokens
  <2> QED
    BY <1>1, <2>1, <2>2, SMT DEF BatchInv, BatchWithinBudget
<1>11. ASSUME NEW ids \in SUBSET Live, ClientAbort(ids) PROVE BatchInv'
  <2>1. phase' = "idle" /\ UNCHANGED num_scheduled
    BY <1>11 DEF ClientAbort, FinishRequests, loopVars
  <2> QED
    BY <2>1 DEF BatchInv, BatchWithinBudget, BatchTokens, Scheduled
<1>12. ASSUME NEW r \in Roots, ClientAdd(r) PROVE BatchInv'
  BY <1>2, <1>12 DEF ClientAdd, AddRequest, loopVars
<1>13. ASSUME NEW s \in [Scheduled -> Scores], ScoreBatch(s) PROVE BatchInv'
  BY <1>2, <1>13 DEF ScoreBatch, queueVars, loopVars
<1>14. CASE UNCHANGED schedVars
  BY <1>2, <1>14 DEF schedVars, queueVars, loopVars
<1> QED
  BY <1>4, <1>5, <1>6, <1>7, <1>8, <1>9, <1>10, <1>11, <1>12, <1>13, <1>14
     DEF SchedNext, Batch, Schedule

\* BatchInv holds in every reachable state of the scheduler.
THEOREM BatchInvariant == SchedSpec => []BatchInv
<1>1. SchedInit => BatchInv
  <2> SUFFICES ASSUME SchedInit PROVE BatchInv
    OBVIOUS
  <2>1. Scheduled = {} /\ phase = "idle"
    BY DEF SchedInit, Scheduled, EmptyDict
  <2> QED
    BY <2>1, NoBatchTokens, SchedulerAssumption, SMT DEF BatchInv, BatchWithinBudget
<1>2. SchedInv /\ SchedInv' /\ BatchInv /\ [SchedNext]_schedVars => BatchInv'
  BY BatchNextInv
<1> QED
  BY <1>1, <1>2, SchedulerInvariant, PTL DEF SchedSpec

\* The assertion of schedule() on total_num_scheduled_tokens holds: chunked
\* prefills, evictions and prefix-cache hits keep the batch to its budget.
THEOREM BudgetHolds == SchedSpec => []BatchWithinBudget
  BY BatchInvariant, PTL DEF BatchInv

\* schedule() never returns an empty batch while requests are running.
THEOREM BatchIsNotEmpty == SchedSpec => []BatchMakesProgress
<1>1. BatchInv => BatchMakesProgress
  BY DEF BatchInv, BatchMakesProgress
<1> QED
  BY <1>1, BatchInvariant, PTL
=============================================================================
