----------------------------- MODULE MCScheduler -----------------------------
(***************************************************************************)
(* Instances of Scheduler for TLC.                                         *)
(***************************************************************************)
EXTENDS Scheduler, TLC

CONSTANTS r1, r2, r3, r4

\* The longer prompt can leave a later batch more tokens than its budget has left.
MCPromptLen == [r \in Roots |-> IF r = r3 THEN 4 ELSE 2]
MCArrival == [r \in Roots |-> IF r = r3 THEN 1 ELSE 0]
MCSymmetry == Permutations({r1, r2, r4})
=============================================================================
