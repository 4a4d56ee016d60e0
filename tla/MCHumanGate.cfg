SPECIFICATION GateSpec
CONSTANTS
    Branches = {b1, b2}
    Lanes = {l1, l2}
    Questions = {q1, q2}
    MaxCrashes = 1
    Nobody = Nobody
INVARIANTS
    PairsAgree
    NobodyWaitsUnseen
PROPERTY QuestionIsShown
