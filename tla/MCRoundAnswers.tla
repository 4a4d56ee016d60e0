--------------------------- MODULE MCRoundAnswers ---------------------------
(***************************************************************************)
(* Two findings, two lanes, two fix checks, and another campaign that      *)
(* closes a finding and opens it again.                                    *)
(***************************************************************************)
EXTENDS RoundAnswers

CONSTANTS f1, f2, l1, l2

MCFindings == {f1, f2}
MCLanes == {l1, l2}
(* One lane owns both findings, or each lane one of them.                  *)
MCOwners == {[f \in MCFindings |-> IF f = f1 THEN l1 ELSE l] : l \in MCLanes}

MCSeverities == {"low", "high"}
MCAuthorSays == {<<"fixed", "none">>, <<"fixed", "given">>, <<"rejected", "blank">>,
                 <<"wont_fix", "given">>}
=============================================================================
