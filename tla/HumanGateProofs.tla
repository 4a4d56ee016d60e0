--------------------------- MODULE HumanGateProofs ---------------------------
(***************************************************************************)
(* Theorems about HumanGate for any branches, lanes, questions and number  *)
(* of crashes: the pair of blocked branch and open blocker never comes     *)
(* apart, and the run view hides nobody who waits for a human.             *)
(***************************************************************************)
EXTENDS HumanGate, TLAPS

BlockerRows == [kind : OtherKinds \cup HumanKinds, branch : Branches,
                question : Questions \cup {Nobody}]

GateTypeOK ==
  /\ branch \in [Branches -> BranchStates]
  /\ blockers \subseteq BlockerRows
  /\ asker \in [Questions -> Branches \cup {Nobody}]
  /\ answered \subseteq Questions
  /\ paused \in BOOLEAN /\ cancelling \in BOOLEAN

(* A branch is blocked exactly while it has a blocker, and has one only.   *)
(* PairsAgree alone does not say that: with a second blocker on a branch,  *)
(* clearing the first would leave the second on a branch that goes on.     *)
OneBlocker ==
  /\ \A k \in blockers : branch[k.branch] = "blocked"
  /\ \A b \in Branches : branch[b] = "blocked" => \E k \in blockers : k.branch = b
  /\ \A k, m \in blockers : k.branch = m.branch => k = m

OpenIsBlocked ==
  \A q \in Asked \ answered : Blocker("human_question", asker[q], q) \in blockers

GateInv == GateTypeOK /\ OneBlocker /\ OpenIsBlocked

(* What the invariant is about.                                            *)
pairVars == <<branch, blockers, asker, answered, paused, cancelling>>

-----------------------------------------------------------------------------
(* The fields of a blocker are what it was made of.                        *)
LEMMA BlockerFields ==
  \A kind, b, q :
    /\ Blocker(kind, b, q).kind = kind
    /\ Blocker(kind, b, q).branch = b
    /\ Blocker(kind, b, q).question = q
BY DEF Blocker

(* A blocker of a known kind on a branch of the run has its type.          *)
LEMMA BlockerType ==
  ASSUME NEW kind \in OtherKinds \cup HumanKinds, NEW b \in Branches,
         NEW q \in Questions \cup {Nobody}
  PROVE  Blocker(kind, b, q) \in BlockerRows
BY DEF Blocker, BlockerRows

LEMMA GateInitInv == GateInit => GateInv
BY DEF GateInit, GateInv, GateTypeOK, OneBlocker, OpenIsBlocked, Asked, BranchStates

-----------------------------------------------------------------------------
(* A branch that is not blocked goes to another state that is not blocked. *)
LEMMA MovesKeepInv ==
  ASSUME GateInv, NEW b \in Branches, NEW old \in BranchStates \ {"blocked"},
         NEW new \in BranchStates \ {"blocked"},
         SetBranchState(b, old, new),
         UNCHANGED <<blockers, asker, answered, paused, cancelling>>
  PROVE  GateInv'
<1> USE DEF GateInv, GateTypeOK
<1>1. /\ branch' \in [Branches -> BranchStates]
      /\ \A c \in Branches : branch'[c] = IF c = b THEN new ELSE branch[c]
  BY DEF SetBranchState
<1>2. branch[b] = old
  BY DEF SetBranchState
<1>3. GateTypeOK'
  BY <1>1
<1>4. OneBlocker'
  <2>1. \A k \in blockers : k.branch \in Branches /\ k.branch # b
    BY <1>2 DEF OneBlocker, BlockerRows
  <2> QED
    BY <1>1, <1>2, <2>1 DEF OneBlocker
<1>5. OpenIsBlocked'
  BY DEF OpenIsBlocked, Asked
<1> QED
  BY <1>3, <1>4, <1>5

(* A running branch is blocked, with one blocker, and the questions that   *)
(* are newly open are those of that blocker.                               *)
LEMMA BlockingKeepsInv ==
  ASSUME GateInv, NEW b \in Branches, NEW k \in BlockerRows, k.branch = b,
         SetBranchState(b, "running", "blocked"),
         blockers' = blockers \cup {k},
         asker' \in [Questions -> Branches \cup {Nobody}],
         \A q \in Questions : \/ asker'[q] = asker[q]
                              \/ k = Blocker("human_question", asker'[q], q),
         UNCHANGED <<answered, paused, cancelling>>
  PROVE  GateInv'
<1> USE DEF GateInv, GateTypeOK
<1>1. /\ branch' \in [Branches -> BranchStates]
      /\ \A c \in Branches : branch'[c] = IF c = b THEN "blocked" ELSE branch[c]
  BY DEF SetBranchState, BranchStates
<1>2. \A m \in blockers : m.branch \in Branches /\ m.branch # b
  BY DEF SetBranchState, OneBlocker, BlockerRows
<1>3. GateTypeOK'
  BY <1>1
<1>4. OneBlocker'
  <2>1. \A m \in blockers' : branch'[m.branch] = "blocked"
    BY <1>1, <1>2 DEF OneBlocker
  <2>2. \A c \in Branches : branch'[c] = "blocked" => \E m \in blockers' : m.branch = c
    BY <1>1 DEF OneBlocker
  <2>3. \A m, n \in blockers' : m.branch = n.branch => m = n
    BY <1>2 DEF OneBlocker
  <2> QED
    BY <2>1, <2>2, <2>3 DEF OneBlocker
<1>5. OpenIsBlocked'
  BY DEF OpenIsBlocked, Asked
<1> QED
  BY <1>3, <1>4, <1>5

(* The only blocker of a branch is cleared and the branch goes on: it is   *)
(* not that of a question.                                                 *)
LEMMA ClearingKeepsInv ==
  ASSUME GateInv, NEW b \in Branches, NEW k \in blockers, k.branch = b,
         k.kind # "human_question",
         SetBranchState(b, "blocked", "ready"),
         blockers' = blockers \ {k},
         UNCHANGED <<asker, answered, paused, cancelling>>
  PROVE  GateInv'
<1> USE DEF GateInv, GateTypeOK
<1>1. /\ branch' \in [Branches -> BranchStates]
      /\ \A c \in Branches : branch'[c] = IF c = b THEN "ready" ELSE branch[c]
  BY DEF SetBranchState, BranchStates
<1>2. \A m \in blockers' : m.branch \in Branches /\ m.branch # b
  BY DEF OneBlocker, BlockerRows
<1>3. GateTypeOK'
  BY <1>1
<1>4. OneBlocker'
  <2>1. \A m \in blockers' : branch'[m.branch] = "blocked"
    BY <1>1, <1>2 DEF OneBlocker
  <2>2. \A c \in Branches : branch'[c] = "blocked" => \E m \in blockers' : m.branch = c
    BY <1>1 DEF OneBlocker
  <2>3. \A m, n \in blockers' : m.branch = n.branch => m = n
    BY DEF OneBlocker
  <2> QED
    BY <2>1, <2>2, <2>3 DEF OneBlocker
<1>5. OpenIsBlocked'
  BY BlockerFields DEF OpenIsBlocked, Asked
<1> QED
  BY <1>3, <1>4, <1>5

-----------------------------------------------------------------------------
(* An answered question leaves its branch blocked, for the continue.       *)
LEMMA AnswerKeepsInv ==
  ASSUME GateInv, NEW q \in Questions, Answer(q)
  PROVE  GateInv'
<1> DEFINE old == Blocker("human_question", asker[q], q)
           new == Blocker("awaiting_continue", asker[q], Nobody)
<1> USE DEF GateInv, GateTypeOK
<1>1. /\ q \in Asked \ answered /\ answered' = answered \cup {q}
      /\ blockers' = (blockers \ {old}) \cup {new}
      /\ UNCHANGED <<branch, asker, paused, cancelling>>
  BY DEF Answer
<1>2. asker[q] \in Branches /\ old \in blockers
  BY <1>1 DEF OpenIsBlocked, Asked
<1>3. old.branch = asker[q] /\ new.branch = asker[q] /\ new \in BlockerRows
  <2>1. old.branch = asker[q]
    BY BlockerFields
  <2>2. new.branch = asker[q]
    BY BlockerFields
  <2>3. new \in BlockerRows
    BY <1>2, BlockerType DEF HumanKinds
  <2> QED
    BY <2>1, <2>2, <2>3
<1> HIDE DEF old, new
<1>4. GateTypeOK'
  BY <1>1, <1>3
<1>5. OneBlocker'
  <2>1. \A m \in blockers' : branch'[m.branch] = "blocked"
    BY <1>1, <1>2, <1>3 DEF OneBlocker
  <2>2. \A c \in Branches : branch'[c] = "blocked" => \E m \in blockers' : m.branch = c
    BY <1>1, <1>2, <1>3 DEF OneBlocker
  <2>3. \A m, n \in blockers' : m.branch = n.branch => m = n
    BY <1>1, <1>2, <1>3 DEF OneBlocker
  <2> QED
    BY <2>1, <2>2, <2>3 DEF OneBlocker
<1>6. OpenIsBlocked'
  <2> SUFFICES ASSUME NEW r \in Asked' \ answered'
               PROVE  Blocker("human_question", asker[r], r) \in blockers'
    BY <1>1 DEF OpenIsBlocked
  <2>1. r \in Asked \ answered /\ r # q
    BY <1>1 DEF Asked
  <2>2. Blocker("human_question", asker[r], r) # old
    BY <2>1, BlockerFields DEF old
  <2> QED
    BY <1>1, <2>1, <2>2 DEF OpenIsBlocked
<1> QED
  BY <1>4, <1>5, <1>6

(* After a crash what was running is blocked until a human continues it.   *)
LEMMA RecoverKeepsInv ==
  ASSUME GateInv, Recover
  PROVE  GateInv'
<1> DEFINE cut == {b \in Branches : branch[b] = "running"}
           new(b) == Blocker("awaiting_continue", b, Nobody)
<1> USE DEF GateInv, GateTypeOK
<1>1. /\ branch' = [b \in Branches |-> IF b \in cut THEN "blocked" ELSE branch[b]]
      /\ blockers' = blockers \cup {new(b) : b \in cut}
      /\ UNCHANGED <<asker, answered, paused, cancelling>>
  BY DEF Recover
<1>2. \A b \in Branches : new(b) \in BlockerRows /\ new(b).branch = b
  BY BlockerFields, BlockerType DEF HumanKinds
<1>3. \A m \in blockers : m.branch \in Branches /\ branch[m.branch] = "blocked"
  BY DEF OneBlocker, BlockerRows
<1> HIDE DEF new
<1>4. GateTypeOK'
  BY <1>1, <1>2 DEF BranchStates
<1>5. OneBlocker'
  <2>1. \A m \in blockers' : branch'[m.branch] = "blocked"
    BY <1>1, <1>2, <1>3
  <2>2. \A c \in Branches : branch'[c] = "blocked" => \E m \in blockers' : m.branch = c
    BY <1>1, <1>2 DEF OneBlocker
  <2>3. \A m, n \in blockers' : m.branch = n.branch => m = n
    BY <1>1, <1>2, <1>3 DEF OneBlocker
  <2> QED
    BY <2>1, <2>2, <2>3 DEF OneBlocker
<1>6. OpenIsBlocked'
  BY <1>1 DEF OpenIsBlocked, Asked
<1> QED
  BY <1>4, <1>5, <1>6

-----------------------------------------------------------------------------
LEMMA GateStepInv == GateInv /\ [GateNext]_vars => GateInv'
<1> SUFFICES ASSUME GateInv, [GateNext]_vars PROVE GateInv'
  OBVIOUS
<1>1. ASSUME UNCHANGED <<branch, blockers, asker, answered>>,
             paused' \in BOOLEAN, cancelling' \in BOOLEAN
      PROVE  GateInv'
  BY <1>1 DEF GateInv, GateTypeOK, OneBlocker, OpenIsBlocked, Asked
<1>2. paused \in BOOLEAN /\ cancelling \in BOOLEAN
  BY DEF GateInv, GateTypeOK
<1>3. ASSUME NEW b \in Branches, Start(b) PROVE GateInv'
  BY <1>3, MovesKeepInv DEF Start, BranchStates
<1>4. ASSUME NEW b \in Branches, StepEnds(b) PROVE GateInv'
  <2>1. PICK new \in {"ready", "retry_wait", "done", "failed"} : SetBranchState(b, "running", new)
    BY <1>4 DEF StepEnds
  <2>2. UNCHANGED <<blockers, asker, answered, paused, cancelling>>
    BY <1>4 DEF StepEnds
  <2> QED
    BY <2>1, <2>2, MovesKeepInv DEF BranchStates
<1>5. ASSUME NEW b \in Branches, RetryIsDue(b) PROVE GateInv'
  BY <1>5, MovesKeepInv DEF RetryIsDue, BranchStates
<1>6. ASSUME NEW b \in Branches, CancelBranch(b) PROVE GateInv'
  BY <1>6, MovesKeepInv DEF CancelBranch, BranchStates
<1>7. ASSUME NEW b \in Branches, Block(b) PROVE GateInv'
  <2>1. PICK kind \in OtherKinds : blockers' = blockers \cup {Blocker(kind, b, Nobody)}
    BY <1>7 DEF Block
  <2>2. /\ Blocker(kind, b, Nobody) \in BlockerRows
        /\ Blocker(kind, b, Nobody).branch = b
    BY BlockerType, BlockerFields
  <2>3. SetBranchState(b, "running", "blocked") /\ UNCHANGED <<asker, answered, paused, cancelling>>
    BY <1>7 DEF Block
  <2>4. asker' \in [Questions -> Branches \cup {Nobody}]
    BY <2>3 DEF GateInv, GateTypeOK
  <2> QED
    BY <2>1, <2>2, <2>3, <2>4, BlockingKeepsInv
<1>8. ASSUME NEW b \in Branches, Unblock(b) PROVE GateInv'
  <2>1. PICK kind \in OtherKinds : /\ Blocker(kind, b, Nobody) \in blockers
                                   /\ blockers' = blockers \ {Blocker(kind, b, Nobody)}
    BY <1>8 DEF Unblock
  <2>2. /\ Blocker(kind, b, Nobody).branch = b
        /\ Blocker(kind, b, Nobody).kind # "human_question"
    BY BlockerFields DEF OtherKinds
  <2>3. SetBranchState(b, "blocked", "ready") /\ UNCHANGED <<asker, answered, paused, cancelling>>
    BY <1>8 DEF Unblock
  <2> QED
    BY <2>1, <2>2, <2>3, ClearingKeepsInv
<1>9. ASSUME NEW b \in Branches, Continue(b) PROVE GateInv'
  <2>1. /\ Blocker("awaiting_continue", b, Nobody) \in blockers
        /\ blockers' = blockers \ {Blocker("awaiting_continue", b, Nobody)}
        /\ SetBranchState(b, "blocked", "ready")
        /\ UNCHANGED <<asker, answered, paused, cancelling>>
    BY <1>9 DEF Continue
  <2>2. /\ Blocker("awaiting_continue", b, Nobody).branch = b
        /\ Blocker("awaiting_continue", b, Nobody).kind # "human_question"
    BY BlockerFields
  <2> QED
    BY <2>1, <2>2, ClearingKeepsInv
<1>10. ASSUME NEW b \in Branches, NEW l \in Lanes, NEW q \in Questions, Ask(b, l, q)
       PROVE  GateInv'
  <2>1. /\ SetBranchState(b, "running", "blocked")
        /\ asker' = [asker EXCEPT ![q] = b]
        /\ blockers' = blockers \cup {Blocker("human_question", b, q)}
        /\ UNCHANGED <<answered, paused, cancelling>>
    BY <1>10 DEF Ask
  <2>2. /\ Blocker("human_question", b, q) \in BlockerRows
        /\ Blocker("human_question", b, q).branch = b
    BY BlockerType, BlockerFields DEF HumanKinds
  <2>3. /\ asker' \in [Questions -> Branches \cup {Nobody}]
        /\ \A r \in Questions : asker'[r] = IF r = q THEN b ELSE asker[r]
    BY <2>1 DEF GateInv, GateTypeOK
  <2> QED
    BY <2>1, <2>2, <2>3, BlockingKeepsInv
<1>11. ASSUME NEW q \in Questions, Answer(q) PROVE GateInv'
  BY <1>11, AnswerKeepsInv
<1>12. ASSUME Recover PROVE GateInv'
  BY <1>12, RecoverKeepsInv
<1>13. ASSUME NEW b \in Branches, NEW l \in Lanes, Plan(b, l) \/ AskRefused(b, l) PROVE GateInv'
  BY <1>1, <1>2, <1>13 DEF Plan, AskRefused
<1>14. ASSUME NEW q \in Questions, Send(q) \/ RecordSent(q) PROVE GateInv'
  BY <1>1, <1>2, <1>14 DEF Send, RecordSent
<1>15. CASE Pause \/ RequestCancel \/ Crash
  BY <1>1, <1>2, <1>15 DEF Pause, RequestCancel, Crash
<1>16. CASE UNCHANGED vars
  BY <1>1, <1>2, <1>16 DEF vars
<1> QED
  BY <1>3, <1>4, <1>5, <1>6, <1>7, <1>8, <1>9, <1>10, <1>11, <1>12, <1>13, <1>14, <1>15, <1>16
  DEF GateNext

THEOREM GateInvariant == GateSpec => []GateInv
<1>1. GateInit => GateInv
  BY GateInitInv
<1>2. GateInv /\ [GateNext]_vars => GateInv'
  BY GateStepInv
<1> QED
  BY <1>1, <1>2, PTL DEF GateSpec

-----------------------------------------------------------------------------
(* Branches, blockers and questions have their type.                       *)
THEOREM GateTypeCorrect == GateSpec => []GateTypeOK
<1>1. GateInv => GateTypeOK
  BY DEF GateInv
<1> QED
  BY <1>1, GateInvariant, PTL

(* A branch is blocked exactly while it has one open blocker.              *)
THEOREM OneBlockerPerBranch == GateSpec => []OneBlocker
<1>1. GateInv => OneBlocker
  BY DEF GateInv
<1> QED
  BY <1>1, GateInvariant, PTL

(* The recovery audit (run.py:166-201) finds nothing between transactions. *)
THEOREM PairsAlwaysAgree == GateSpec => []PairsAgree
<1>1. GateInv => PairsAgree
  <2> SUFFICES ASSUME GateInv PROVE PairsAgree
    OBVIOUS
  <2>1. HumanBlockersOnUnblocked = {}
    BY DEF GateInv, OneBlocker, HumanBlockersOnUnblocked
  <2>2. BlockedWithoutBlocker = {}
    BY DEF GateInv, OneBlocker, BlockedWithoutBlocker
  <2>3. QuestionsWithoutBlocker = {}
    BY DEF GateInv, OpenIsBlocked, QuestionsWithoutBlocker
  <2> QED
    BY <2>1, <2>2, <2>3 DEF PairsAgree
<1> QED
  BY <1>1, GateInvariant, PTL

(* A run that shows stalled waits for no human, and a run that shows idle  *)
(* has finished every branch (run_state).                                  *)
THEOREM WaitingIsSeen == GateSpec => []NobodyWaitsUnseen
<1>1. GateInv => NobodyWaitsUnseen
  <2> SUFFICES ASSUME GateInv PROVE NobodyWaitsUnseen
    OBVIOUS
  <2> DEFINE working == \E b \in Branches : branch[b] \in {"ready", "running", "retry_wait"}
             waiting == \E k \in blockers : k.kind \in HumanKinds
  <2>1. ASSUME RunState \in {"stalled", "idle"} PROVE ~working /\ ~waiting
    BY <2>1 DEF RunState, GateInv, GateTypeOK
  <2>2. ASSUME RunState = "idle" PROVE blockers = {}
    BY <2>2 DEF RunState, GateInv, GateTypeOK
  <2>3. ASSUME RunState = "stalled"
        PROVE  /\ Asked \subseteq answered
               /\ \A b \in Branches : Blocker("awaiting_continue", b, Nobody) \notin blockers
    BY <2>1, <2>3, BlockerFields DEF GateInv, OpenIsBlocked, HumanKinds
  <2>4. ASSUME RunState = "idle", NEW b \in Branches PROVE branch[b] \in Finished
    <3>1. branch[b] # "blocked"
      BY <2>2, <2>4 DEF GateInv, OneBlocker
    <3> QED
      BY <2>1, <2>4, <3>1 DEF GateInv, GateTypeOK, BranchStates, Finished
  <2> QED
    BY <2>3, <2>4 DEF NobodyWaitsUnseen
<1> QED
  BY <1>1, GateInvariant, PTL
=============================================================================
