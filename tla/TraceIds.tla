------------------------------ MODULE TraceIds ------------------------------
(***************************************************************************)
(* Request ids, shared by the trace tree, the scheduler and the engine     *)
(* core.  A root trace keeps the id its client gave it; a branch is named  *)
(* "gambit_{branch_counter}_{parent}", so an id spells out its ancestry.   *)
(* The string is modelled as the path it encodes: <<r>> for root r and     *)
(* <<n>> \o p for the branch numbered n of the trace with id p.            *)
(***************************************************************************)
EXTENDS Integers, Sequences, Dicts

CONSTANT Roots                  \* names the client gives to its samples

Ids == Seq(Nat \cup Roots)

RootId(r) == <<r>>

BranchId(n, p) == <<n>> \o p

IsBranchId(id) == Len(id) > 1
=============================================================================
