---------------------------- MODULE MCTraceTree ----------------------------
(***************************************************************************)
(* Instances of TraceTree for TLC.                                         *)
(***************************************************************************)
EXTENDS TraceTree, TLC

CONSTANTS r1, r2

MCSymmetry == Permutations({r1, r2})
=============================================================================
