------------------------------ MODULE MCTaskGraph ------------------------------
(***************************************************************************)
(* Every breakdown into up to four tasks with up to five dependencies.     *)
(***************************************************************************)
EXTENDS TaskGraph

MCNames == 1..4
=============================================================================
