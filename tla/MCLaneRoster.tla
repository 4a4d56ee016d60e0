---------------------------- MODULE MCLaneRoster ----------------------------
(* LaneRoster for TLC: two profiles of different pairs.  Lanes are         *)
(* interchangeable, and so are the revisions, the answers to lane_failure  *)
(* questions, and the profiles when their pairs change places with them.   *)
EXTENDS LaneRoster, TLC

CONSTANTS l1, l2, p1, p2, m1, m2, a1, a2, a3

MCPairOf == (p1 :> m1) @@ (p2 :> m2)

ProfilesSwap == (p1 :> p2) @@ (p2 :> p1) @@ (m1 :> m2) @@ (m2 :> m1)

Symmetric ==
  Permutations(Lanes) \cup Permutations(LaneFailureAnswers) \cup Permutations(Revisions)
    \cup {ProfilesSwap}

(* A bound: what happens after a campaign is closed is not explored.       *)
StillRunning == campaign \notin Closed
=============================================================================
