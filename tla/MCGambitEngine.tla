--------------------------- MODULE MCGambitEngine ---------------------------
(***************************************************************************)
(* Instances of GambitEngine for TLC.                                      *)
(***************************************************************************)
EXTENDS GambitEngine, TLC

CONSTANTS r1, r2

MCPromptLen == [r \in Roots |-> 1]
MCArrival == [r \in Roots |-> 0]
MCSymmetry == Permutations({r1, r2})
=============================================================================
