------------------------------ MODULE MCHarness ------------------------------
(***************************************************************************)
(* Two runs in every pair of modes, two polls and two tests: a poll before *)
(* and one after each event, a skipped test beside one that passes.        *)
(***************************************************************************)
EXTENDS Harness
=============================================================================
