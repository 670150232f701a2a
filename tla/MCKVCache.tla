----------------------------- MODULE MCKVCache -----------------------------
(***************************************************************************)
(* Two prompts for the model checker.                                      *)
(***************************************************************************)
EXTENDS KVCache, TLC

\* One that fills its blocks, and one with a token more.
const_Prompts == {<<1, 1, 1, 1>>, <<2, 2, 2, 2, 2>>}

const_Symmetry == Permutations(Requests)
=============================================================================
