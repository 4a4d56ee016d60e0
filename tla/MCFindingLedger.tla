--------------------------- MODULE MCFindingLedger ---------------------------
EXTENDS FindingLedger

Two == {"low", "high"}
Later == {"recurrence", "reaffirmation", "reopening"}
FourOrThree == [honest \in BOOLEAN |-> IF honest THEN 4 ELSE 3]
FourEach == [honest \in BOOLEAN |-> 4]
OneOfEach == {"verified_fixed", "accepted_reason"}
=============================================================================
