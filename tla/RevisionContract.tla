--------------------------- MODULE RevisionContract ---------------------------
(***************************************************************************)
(* What the review cycle of a campaign promises, whatever is found in it:  *)
(* the discovery round is the first check, every revision of the author is *)
(* checked before anything else is decided, a human is asked for the cap   *)
(* only when the last revision allowed has been checked, and "n revisions, *)
(* n + 1 checks" holds with every revision a human grants.                 *)
(***************************************************************************)
EXTENDS Naturals

CONSTANT Cap (* stage_execution.max_author_revisions at first              *)

VARIABLES stage, revisions, checks, cap

contractVars == <<stage, revisions, checks, cap>>

Asking == {"askingDispute", "askingCap"}
Stages == {"first", "revising", "checking", "closed"} \cup Asking

ContractInit == stage = "first" /\ revisions = 0 /\ checks = 0 /\ cap = Cap

FirstCheck ==
  /\ stage = "first"
  /\ stage' \in {"revising", "closed"}
  /\ checks' = 1
  /\ UNCHANGED <<revisions, cap>>

Revise ==
  /\ stage = "revising" /\ revisions < cap
  /\ stage' = "checking"
  /\ revisions' = revisions + 1
  /\ UNCHANGED <<checks, cap>>

Check ==
  /\ stage = "checking" /\ checks = revisions
  /\ \/ stage' \in {"closed", "askingDispute"}
     \/ stage' = "revising" /\ revisions < cap
     \/ stage' = "askingCap" /\ revisions = cap
  /\ checks' = checks + 1
  /\ UNCHANGED <<revisions, cap>>

Extend ==
  /\ stage \in Asking
  /\ stage' = "revising"
  /\ cap' = cap + 1
  /\ UNCHANGED <<revisions, checks>>

Close ==
  /\ stage # "closed"
  /\ stage' = "closed"
  /\ UNCHANGED <<revisions, checks, cap>>

ContractNext == FirstCheck \/ Revise \/ Check \/ Extend \/ Close

ContractSpec == ContractInit /\ [][ContractNext]_contractVars

-----------------------------------------------------------------------------
(* The cap holds for revisions and, one higher, for checks (INV-5, INV-7   *)
(* of docs/task-plans/p1-a/t1.4.md).                                       *)
CapHeld ==
  /\ revisions <= cap
  /\ checks <= cap + 1
=============================================================================
