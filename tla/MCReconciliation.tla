--------------------------- MODULE MCReconciliation ---------------------------
(***************************************************************************)
(* Three observations of two lanes, two findings in any state.             *)
(***************************************************************************)
EXTENDS Reconciliation, TLC

CONSTANTS f1, f2

MCFindings == {f1, f2}
MCLanes == {1, 2}
Symmetry == Permutations(MCFindings)
=============================================================================
