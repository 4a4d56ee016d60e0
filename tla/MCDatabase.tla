----------------------------- MODULE MCDatabase -----------------------------
(***************************************************************************)
(* Database for TLC: two writing calls and a reading one.  The two writing *)
(* calls are interchangeable.                                              *)
(***************************************************************************)
EXTENDS Database, TLC

CONSTANTS w1, w2, r1

AllJobs == {w1, w2, r1}
OneRead == {r1}
Writers == Permutations({w1, w2})
=============================================================================
