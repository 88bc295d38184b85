------------------------------ MODULE MCStartup ------------------------------
(***************************************************************************)
(* Three serve threads: one that finds the variable unset and two others,  *)
(* before and after it in any order.                                       *)
(***************************************************************************)
EXTENDS Startup, TLC

Symmetry == Permutations(Threads)
=============================================================================
