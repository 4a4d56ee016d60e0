---------------------------- MODULE MCHumanGate ----------------------------
(* Two branches with two lanes each and two questions: both branches ask,  *)
(* or one of them asks twice.                                              *)
EXTENDS HumanGate
=============================================================================
