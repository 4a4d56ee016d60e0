-------------------------- MODULE LaneRosterProofs --------------------------
(***************************************************************************)
(* Theorems about the two tables of AssignmentChain, for any lanes,        *)
(* rounds, profiles and answers and whatever a client does, and about      *)
(* LaneRoster, the repositories that write them, for any pairs, revisions  *)
(* and any number of attempts.                                             *)
(***************************************************************************)
EXTENDS LaneRoster, FiniteSetTheorems, TLAPS

-----------------------------------------------------------------------------
(* The tables.  OneEffective is not inductive by itself: a second          *)
(* unreplaced assignment is excluded because the generations of a lane     *)
(* have no gap and every generation replaces the one before it, which is   *)
(* Chained.                                                                *)

(* Appending a row leaves the rows before it alone.                        *)
LEMMA AppendedRow ==
  ASSUME NEW S, NEW s \in Seq(S), NEW e \in S
  PROVE  /\ Append(s, e) \in Seq(S)
         /\ DOMAIN s = 1..Len(s)
         /\ DOMAIN Append(s, e) = 1..(Len(s) + 1)
         /\ Len(s) \in Nat
         /\ \A i \in DOMAIN s : Append(s, e)[i] = s[i]
         /\ Append(s, e)[Len(s) + 1] = e
  OBVIOUS

(* Every row a client can insert has its type: a generation 0 would have   *)
(* to continue a generation -1.                                            *)
LEMMA InsertedRow ==
  ASSUME ChainTypeOK, NEW l \in Lanes, NEW g \in 0..MaxGen, NEW p \in Profiles,
         NEW r \in Ids \cup {None}, NEW a \in Answers \cup {NoAnswer},
         InsertAssignment([lane |-> l, generation |-> g, profile |-> p,
                           replaces |-> r, answer |-> a])
  PROVE  [lane |-> l, generation |-> g, profile |-> p, replaces |-> r,
          answer |-> a] \in Assignment
<1> DEFINE row == [lane |-> l, generation |-> g, profile |-> p, replaces |-> r,
                   answer |-> a]
<1>1. r \in Nat
  <2>1. DOMAIN assignments = 1..Len(assignments) /\ Len(assignments) \in Nat
    BY DEF ChainTypeOK
  <2>. QED BY <2>1 DEF Ids, None
<1>2. g \in Nat
  BY ChainAssumption DEF ChainAssumption
<1>3. g # 0
  <2>1. SUFFICES ASSUME g = 0 PROVE FALSE
    OBVIOUS
  <2>2. r # None
    BY <2>1 DEF InsertAssignment
  <2>3. r \in Ids /\ ContinuesChain(row)
    BY <2>2 DEF InsertAssignment
  <2>4. assignments[r].generation + 1 = 0
    BY <2>1, <2>3 DEF ContinuesChain
  <2>5. assignments[r] \in Assignment
    BY <2>3 DEF ChainTypeOK, Ids
  <2>. QED BY <2>4, <2>5 DEF Assignment
<1>. QED BY <1>1, <1>2, <1>3 DEF Assignment

(* Whatever a client inserts, the rows keep their type.                    *)
LEMMA ChainTypeStep ==
  ASSUME ChainTypeOK, [ChainNext]_chainVars
  PROVE  ChainTypeOK'
<1>1. CASE UNCHANGED chainVars
  BY <1>1 DEF chainVars, ChainTypeOK
<1>2. ASSUME NEW l \in Lanes, NEW g \in 0..MaxGen, NEW p \in Profiles,
             NEW r \in Ids \cup {None}, NEW a \in Answers \cup {NoAnswer},
             InsertAssignment([lane |-> l, generation |-> g, profile |-> p,
                               replaces |-> r, answer |-> a])
      PROVE  ChainTypeOK'
  <2>1. [lane |-> l, generation |-> g, profile |-> p, replaces |-> r,
         answer |-> a] \in Assignment
    BY <1>2, InsertedRow
  <2>. QED BY <2>1, <1>2 DEF ChainTypeOK, InsertAssignment
<1>3. ASSUME NEW rd \in Rounds, NEW l \in Lanes, NEW a \in Answers,
             InsertWaiver([round |-> rd, lane |-> l, answer |-> a])
      PROVE  ChainTypeOK'
  BY <1>3 DEF ChainTypeOK, InsertWaiver, Waiver
<1>. QED BY <1>1, <1>2, <1>3 DEF ChainNext

(* The two tables always hold rows of their type.                          *)
THEOREM ChainTypeCorrect == ChainSpec => []ChainTypeOK
<1>1. ChainInit => ChainTypeOK
  BY DEF ChainInit, ChainTypeOK
<1>2. ChainTypeOK /\ [ChainNext]_chainVars => ChainTypeOK'
  BY ChainTypeStep
<1>. QED BY <1>1, <1>2, PTL DEF ChainSpec

(* An insertion keeps the chains whole.                                    *)
LEMMA InsertionKeepsChains ==
  ASSUME ChainTypeOK, Chained, NEW row \in Assignment, InsertAssignment(row)
  PROVE  Chained'
<1> DEFINE n == Len(assignments) + 1
<1>1. /\ assignments' = Append(assignments, row)
      /\ n \in Nat /\ n \notin Ids
      /\ Ids' = Ids \cup {n}
      /\ \A i \in Ids : assignments'[i] = assignments[i]
      /\ assignments'[n] = row
  BY AppendedRow DEF InsertAssignment, ChainTypeOK, Ids
<1>2. \A i \in Ids : assignments[i] \in Assignment
  BY DEF ChainTypeOK, Ids
<1>. HIDE DEF n
<1>3. Ids \subseteq Ids' /\ n \in Ids'
  BY <1>1
<1>4. \A i, k \in Ids' :
        assignments'[i].lane = assignments'[k].lane
          /\ assignments'[i].generation = assignments'[k].generation => i = k
  <2>1. \A i \in Ids : ~(assignments[i].lane = row.lane
                           /\ assignments[i].generation = row.generation)
    BY DEF InsertAssignment, FreshGeneration
  <2>2. \A i, k \in Ids :
          assignments[i].lane = assignments[k].lane
            /\ assignments[i].generation = assignments[k].generation => i = k
    BY DEF Chained
  <2>3. ASSUME NEW i \in Ids', NEW k \in Ids',
               assignments'[i].lane = assignments'[k].lane,
               assignments'[i].generation = assignments'[k].generation
        PROVE  i = k
    <3>1. CASE i \in Ids /\ k \in Ids
      BY <1>1, <2>2, <2>3, <3>1
    <3>2. CASE i = n /\ k \in Ids
      BY <1>1, <2>1, <2>3, <3>2
    <3>3. CASE i \in Ids /\ k = n
      BY <1>1, <2>1, <2>3, <3>3
    <3>. QED BY <1>1, <3>1, <3>2, <3>3
  <2>. QED BY <2>3
<1>5. row.generation # 1 =>
        /\ row.replaces \in Ids
        /\ assignments[row.replaces].lane = row.lane
        /\ assignments[row.replaces].generation + 1 = row.generation
  BY DEF InsertAssignment, ContinuesChain
<1>6. ASSUME NEW i \in Ids', assignments'[i].generation # 1
      PROVE  /\ assignments'[i].replaces \in Ids'
             /\ assignments'[assignments'[i].replaces].lane = assignments'[i].lane
             /\ assignments'[assignments'[i].replaces].generation + 1
                  = assignments'[i].generation
  <2>1. CASE i = n
    BY <1>1, <1>5, <1>6, <2>1
  <2>2. CASE i \in Ids
    <3>1. assignments'[i] = assignments[i]
      BY <1>1, <2>2
    <3>2. /\ assignments[i].replaces \in Ids
          /\ assignments[assignments[i].replaces].lane = assignments[i].lane
          /\ assignments[assignments[i].replaces].generation + 1
               = assignments[i].generation
      BY <1>6, <2>2, <3>1 DEF Chained
    <3>3. assignments'[assignments[i].replaces] = assignments[assignments[i].replaces]
      BY <1>1, <3>2
    <3>. QED BY <1>3, <3>1, <3>2, <3>3
  <2>. QED BY <1>1, <2>1, <2>2
<1>7. ASSUME NEW i \in Ids, NEW g \in 1..assignments[i].generation
      PROVE  \E k \in Ids' : assignments'[k].lane = assignments[i].lane
                             /\ assignments'[k].generation = g
  <2>1. PICK k \in Ids : assignments[k].lane = assignments[i].lane
                         /\ assignments[k].generation = g
    BY <1>7 DEF Chained
  <2>2. assignments'[k] = assignments[k] /\ k \in Ids'
    BY <1>1, <1>3
  <2>. QED BY <2>1, <2>2
<1>8. ASSUME NEW g \in 1..row.generation
      PROVE  \E k \in Ids' : assignments'[k].lane = row.lane
                             /\ assignments'[k].generation = g
  <2>1. CASE g = row.generation
    BY <1>1, <1>3, <2>1
  <2>2. CASE g # row.generation
    <3>1. row.generation # 1 /\ g \in 1..(row.generation - 1)
      BY <1>8, <2>2 DEF Assignment
    <3>2. assignments[row.replaces].generation = row.generation - 1
      BY <1>2, <1>5, <3>1 DEF Assignment
    <3>. QED BY <1>5, <1>7, <3>1, <3>2
  <2>. QED BY <2>1, <2>2
<1>9. ASSUME NEW i \in Ids', NEW g \in 1..assignments'[i].generation
      PROVE  \E k \in Ids' : assignments'[k].lane = assignments'[i].lane
                             /\ assignments'[k].generation = g
  <2>1. CASE i = n
    <3>1. assignments'[i] = row
      BY <1>1, <2>1
    <3>. QED BY <1>8, <1>9, <3>1
  <2>2. CASE i \in Ids
    <3>1. assignments'[i] = assignments[i]
      BY <1>1, <2>2
    <3>. QED BY <1>7, <1>9, <2>2, <3>1
  <2>. QED BY <1>1, <2>1, <2>2
<1>. QED BY <1>4, <1>6, <1>9 DEF Chained

(* The assignments of every lane form one unbroken chain, whatever         *)
(* generations and links clients try.                                      *)
THEOREM AlwaysChained == ChainSpec => []Chained
<1>1. ChainInit => Chained
  BY DEF ChainInit, Chained, Ids
<1>2. ChainTypeOK /\ Chained /\ [ChainNext]_chainVars => Chained'
  <2> SUFFICES ASSUME ChainTypeOK, Chained, [ChainNext]_chainVars PROVE Chained'
    OBVIOUS
  <2>1. CASE UNCHANGED chainVars
    BY <2>1 DEF chainVars, Chained, Ids
  <2>2. ASSUME NEW l \in Lanes, NEW g \in 0..MaxGen, NEW p \in Profiles,
               NEW r \in Ids \cup {None}, NEW a \in Answers \cup {NoAnswer},
               InsertAssignment([lane |-> l, generation |-> g, profile |-> p,
                                 replaces |-> r, answer |-> a])
        PROVE  Chained'
    BY <2>2, InsertedRow, InsertionKeepsChains
  <2>3. ASSUME NEW rd \in Rounds, NEW l \in Lanes, NEW a \in Answers,
               InsertWaiver([round |-> rd, lane |-> l, answer |-> a])
        PROVE  Chained'
    BY <2>3 DEF InsertWaiver, Chained, Ids
  <2>. QED BY <2>1, <2>2, <2>3 DEF ChainNext
<1>. QED BY <1>1, <1>2, ChainTypeCorrect, PTL DEF ChainSpec

(* In a whole chain only the last link is unreplaced.                      *)
LEMMA OneTailPerChain ==
  ASSUME ChainTypeOK, Chained
  PROVE  OneEffective
<1>1. \A i \in Ids : assignments[i] \in Assignment
  BY DEF ChainTypeOK, Ids
<1>2. ASSUME NEW i \in Ids, NEW k \in Ids,
             assignments[i].lane = assignments[k].lane,
             assignments[i].generation < assignments[k].generation
      PROVE  ~Effective(i)
  <2>1. assignments[i].generation + 1 \in 1..assignments[k].generation
    BY <1>1, <1>2 DEF Assignment
  <2>2. PICK s \in Ids : /\ assignments[s].lane = assignments[k].lane
                         /\ assignments[s].generation = assignments[i].generation + 1
    BY <2>1 DEF Chained
  <2>3. assignments[s].generation # 1
    BY <1>1, <2>2 DEF Assignment
  <2>4. /\ assignments[s].replaces \in Ids
        /\ assignments[assignments[s].replaces].lane = assignments[i].lane
        /\ assignments[assignments[s].replaces].generation + 1
             = assignments[i].generation + 1
    BY <1>2, <2>2, <2>3 DEF Chained
  <2>5. assignments[assignments[s].replaces].generation = assignments[i].generation
    BY <1>1, <2>4 DEF Assignment
  <2>6. assignments[s].replaces = i
    BY <2>4, <2>5 DEF Chained
  <2>. QED BY <2>6 DEF Effective
<1>3. ASSUME NEW i \in Ids, NEW k \in Ids,
             assignments[i].lane = assignments[k].lane, Effective(i), Effective(k)
      PROVE  i = k
  <2>1. assignments[i].generation = assignments[k].generation
    BY <1>1, <1>2, <1>3 DEF Assignment
  <2>. QED BY <2>1, <1>3 DEF Chained
<1>. QED BY <1>3 DEF OneEffective

(* A slot never has two executors: at any time at most one assignment of a *)
(* lane is in effective_roster.                                            *)
THEOREM OneExecutorPerLane == ChainSpec => []OneEffective
  BY ChainTypeCorrect, AlwaysChained, OneTailPerChain, PTL

(* One human answer authorizes one action: a replacement or a waiver,      *)
(* never two of them.                                                      *)
THEOREM OneActionPerAnswer == ChainSpec => []AnswerSpentOnce
<1>1. ChainInit => AnswerSpentOnce
  BY DEF ChainInit, AnswerSpentOnce, Ids
<1>2. ChainTypeOK /\ AnswerSpentOnce /\ [ChainNext]_chainVars => AnswerSpentOnce'
  <2> SUFFICES ASSUME ChainTypeOK, AnswerSpentOnce, [ChainNext]_chainVars
               PROVE  AnswerSpentOnce'
    OBVIOUS
  <2>1. CASE UNCHANGED chainVars
    BY <2>1 DEF chainVars, AnswerSpentOnce, Ids
  <2>2. ASSUME NEW l \in Lanes, NEW g \in 0..MaxGen, NEW p \in Profiles,
               NEW r \in Ids \cup {None}, NEW a \in Answers \cup {NoAnswer},
               InsertAssignment([lane |-> l, generation |-> g, profile |-> p,
                                 replaces |-> r, answer |-> a])
        PROVE  AnswerSpentOnce'
    <3> DEFINE row == [lane |-> l, generation |-> g, profile |-> p,
                       replaces |-> r, answer |-> a]
               n == Len(assignments) + 1
    <3>1. row \in Assignment
      BY <2>2, InsertedRow
    <3>2. /\ Ids' = Ids \cup {n}
          /\ \A i \in Ids : assignments'[i] = assignments[i]
          /\ assignments'[n] = row
          /\ waivers' = waivers
      BY <2>2, <3>1, AppendedRow DEF InsertAssignment, ChainTypeOK, Ids
    <3>3. a # NoAnswer => AnswerUnspent(a)
      BY <2>2 DEF InsertAssignment
    <3>4. \A b \in Answers : b # NoAnswer
      BY ChainAssumption DEF ChainAssumption
    <3>5. row.answer = a
      OBVIOUS
    <3>. HIDE DEF row, n
    <3>. QED BY <3>2, <3>3, <3>4, <3>5 DEF AnswerSpentOnce, AnswerUnspent
  <2>3. ASSUME NEW rd \in Rounds, NEW l \in Lanes, NEW a \in Answers,
               InsertWaiver([round |-> rd, lane |-> l, answer |-> a])
        PROVE  AnswerSpentOnce'
    BY <2>3 DEF InsertWaiver, AnswerSpentOnce, AnswerUnspent, Ids
  <2>. QED BY <2>1, <2>2, <2>3 DEF ChainNext
<1>. QED BY <1>1, <1>2, ChainTypeCorrect, PTL DEF ChainSpec

-----------------------------------------------------------------------------
(* The repositories.                                                       *)

Terminal == Outcomes \ {"succeeded"}

LEMMA ActiveIsNoOutcome == "active" \notin Outcomes
  BY RosterAssumption DEF RosterAssumption, Retryable

-----------------------------------------------------------------------------
(* The operations on the roster implement the two tables.                  *)

LEMMA AssignFirstInserts ==
  ASSUME NEW l \in Lanes, NEW p \in Profiles, AssignFirst(l, p)
  PROVE  ChainNext
<1>1. 1 \in 0..MaxGen
  BY ChainAssumption DEF ChainAssumption
<1>2. None \in Ids \cup {None} /\ NoAnswer \in Answers \cup {NoAnswer}
  OBVIOUS
<1>3. InsertAssignment([lane |-> l, generation |-> 1, profile |-> p,
                        replaces |-> None, answer |-> NoAnswer])
  BY DEF AssignFirst
<1>. QED BY <1>1, <1>2, <1>3 DEF ChainNext

LEMMA ReplaceInserts ==
  ASSUME ChainTypeOK, NEW i \in Ids, NEW p \in Profiles, NEW a \in Answers,
         ReplaceLaneAssignment(i, p, a)
  PROVE  ChainNext
<1>1. assignments[i] \in Assignment
  BY DEF ChainTypeOK, Ids
<1>2. assignments[i].lane \in Lanes /\ assignments[i].generation \in Nat \ {0}
  BY <1>1 DEF Assignment
<1>3. assignments[i].generation + 1 \in 0..MaxGen
  BY <1>2, ChainAssumption DEF ReplaceLaneAssignment, ChainAssumption
<1>4. InsertAssignment([lane |-> assignments[i].lane,
                        generation |-> assignments[i].generation + 1,
                        profile |-> p, replaces |-> i, answer |-> a])
  BY DEF ReplaceLaneAssignment
<1>. QED BY <1>2, <1>3, <1>4 DEF ChainNext

LEMMA WaiveInserts ==
  ASSUME NEW l \in Lanes, NEW a \in Answers, WaiveLaneForRound(l, a)
  PROVE  ChainNext
  BY RosterAssumption DEF WaiveLaneForRound, ChainNext, RosterAssumption, Discovery

LEMMA RosterStepIsChainStep ==
  ASSUME ChainTypeOK, [RosterNext]_rosterVars
  PROVE  [ChainNext]_chainVars
<1>1. CASE UNCHANGED rosterVars
  BY <1>1 DEF rosterVars
<1>2. ASSUME NEW l \in Lanes, NEW p \in Profiles, AssignFirst(l, p)
      PROVE  ChainNext
  BY <1>2, AssignFirstInserts
<1>3. ASSUME NEW i \in Ids, NEW r \in DOMAIN revisionOf, StartReviewer(i, r)
      PROVE  UNCHANGED chainVars
  BY <1>3 DEF StartReviewer, StartAttempt
<1>4. ASSUME NEW p \in Profiles, NEW r \in DOMAIN revisionOf, StartReconciler(p, r)
      PROVE  UNCHANGED chainVars
  BY <1>4 DEF StartReconciler, StartAttempt
<1>5. ASSUME NEW k \in DOMAIN attempts, NEW o \in Outcomes, CompleteAttempt(k, o)
      PROVE  UNCHANGED chainVars
  BY <1>5 DEF CompleteAttempt
<1>6. ASSUME NEW i \in Ids, NEW p \in Profiles, NEW a \in Answers,
             ReplaceLaneAssignment(i, p, a)
      PROVE  ChainNext
  BY <1>6, ReplaceInserts
<1>7. ASSUME NEW l \in Lanes, NEW a \in Answers, WaiveLaneForRound(l, a)
      PROVE  ChainNext
  BY <1>7, WaiveInserts
<1>8. ASSUME NEW r \in Rounds, NEW v \in Revisions, OpenRound(r, v)
      PROVE  UNCHANGED chainVars
  BY <1>8 DEF OpenRound
<1>9. ASSUME NEW r \in Rounds, CloseRound(r)
      PROVE  UNCHANGED chainVars
  BY <1>9 DEF CloseRound
<1>10. ASSUME CompleteDiscovery
       PROVE  UNCHANGED chainVars
  BY <1>10 DEF CompleteDiscovery
<1>11. ASSUME NEW new \in CampaignStates, TransitionCampaign(new)
       PROVE  UNCHANGED chainVars
  BY <1>11 DEF TransitionCampaign
<1>. QED BY <1>1, <1>2, <1>3, <1>4, <1>5, <1>6, <1>7, <1>8, <1>9, <1>10, <1>11
     DEF RosterNext

(* The repositories' operations on assignments and waivers are insertions  *)
(* the schema admits, in the order the schema admits them: LaneRoster      *)
(* implements AssignmentChain.                                             *)
THEOREM ImplementsChain == RosterSpec => ChainSpec
<1>1. RosterInit => ChainInit /\ ChainTypeOK
  BY DEF RosterInit, ChainInit, ChainTypeOK
<1>2. ChainTypeOK /\ [RosterNext]_rosterVars => ChainTypeOK' /\ [ChainNext]_chainVars
  BY RosterStepIsChainStep, ChainTypeStep
<1>. QED BY <1>1, <1>2, PTL DEF RosterSpec, ChainSpec

(* Whatever the repositories are asked to do, a lane has at most one       *)
(* executor in force.                                                      *)
THEOREM RosterOneExecutor == RosterSpec => []OneEffective
  BY ImplementsChain, OneExecutorPerLane, PTL

(* And one human answer pays for one action.                               *)
THEOREM RosterOneActionPerAnswer == RosterSpec => []AnswerSpentOnce
  BY ImplementsChain, OneActionPerAnswer, PTL

-----------------------------------------------------------------------------
(* The inductive invariant of the roster.                                  *)

(* A replaced assignment is an earlier row.                                *)
ReplacesEarlier == \A i \in Ids : assignments[i].replaces \in Ids \cup {None}

(* The foreign keys of an attempt: a reviewer's lane and profile are those *)
(* of its assignment, a reconciler has no lane.                            *)
MatchesAssignment(a) ==
  /\ a.role = "reviewer" => /\ a.assignment \in Ids
                            /\ a.lane = assignments[a.assignment].lane
                            /\ a.profile = assignments[a.assignment].profile
  /\ a.role = "reconciler" => a.lane = NoLane

AttemptsMatch == \A k \in DOMAIN attempts : MatchesAssignment(attempts[k])

(* What an attempt shows its model: the reading of an exposure.            *)
Shows(a, e) == RevisionGiven(a) = e.revision /\ PairOf[a.profile] = e.pair

(* Every reading that ever took place is exposed, once, by the attempt     *)
(* that was the first to take it; every reviewer that took it reviewed for *)
(* the lane of that first attempt.                                         *)
EveryReadingExposed == \A k \in DOMAIN attempts : \E e \in exposures : Shows(attempts[k], e)

ExposedOnce == \A e, f \in exposures : e.revision = f.revision /\ e.pair = f.pair => e = f

FirstReaderOwns ==
  \A e \in exposures :
    /\ e.first \in DOMAIN attempts
    /\ Shows(attempts[e.first], e)
    /\ \A k \in DOMAIN attempts : Shows(attempts[k], e) =>
         /\ e.first <= k
         /\ attempts[k].role = "reviewer" => attempts[e.first].lane = attempts[k].lane

(* A replaced assignment has failed in the discovery round.                *)
DisplacedReviewed ==
  \A i \in Ids : ~Effective(i) => Reviewed(i, Discovery, Terminal) # {}

RosterInv ==
  /\ RosterTypeOK /\ ReplacesEarlier /\ AttemptsMatch
  /\ EveryReadingExposed /\ ExposedOnce /\ FirstReaderOwns
  /\ DisplacedReviewed /\ DisplacedHasNoOpinion

LEMMA InitEstablishesInv == RosterInit => RosterInv
<1> SUFFICES ASSUME RosterInit PROVE RosterInv
  OBVIOUS
<1>1. Ids = {} /\ DOMAIN attempts = {} /\ exposures = {}
  BY DEF RosterInit, ChainInit, Ids
<1>2. RosterTypeOK
  BY <1>1, RosterAssumption
     DEF RosterInit, ChainInit, RosterTypeOK, ChainTypeOK, RosterAssumption,
         Discovery, CampaignStates
<1>. QED BY <1>1, <1>2
     DEF RosterInv, ReplacesEarlier, AttemptsMatch, EveryReadingExposed, ExposedOnce,
         FirstReaderOwns, DisplacedReviewed, DisplacedHasNoOpinion

(* What an inserted assignment changes: its own row is in force, and the   *)
(* row it replaces is not any more.                                        *)
LEMMA InsertionDisplacesOne ==
  ASSUME RosterInv, NEW row \in Assignment, InsertAssignment(row),
         UNCHANGED <<attemptVars, roundVars, campaign>>
  PROVE  \E n \in Nat :
           /\ Ids' = Ids \cup {n} /\ n \notin Ids
           /\ \A i \in Ids : assignments'[i] = assignments[i]
           /\ assignments'[n] = row
           /\ Effective(n)'
           /\ \A i \in Ids : Effective(i)' <=> Effective(i) /\ i # row.replaces
           /\ row.replaces \in Ids \cup {None}
<1>1. PICK n \in Nat : n = Len(assignments) + 1
  BY DEF RosterInv, RosterTypeOK, ChainTypeOK
<1>2. /\ Ids = 1..Len(assignments) /\ Len(assignments) \in Nat
      /\ n \notin Ids /\ n # None
      /\ Ids' = Ids \cup {n}
      /\ \A i \in Ids : assignments'[i] = assignments[i]
      /\ assignments'[n] = row
  BY <1>1, AppendedRow DEF InsertAssignment, RosterInv, RosterTypeOK, ChainTypeOK, Ids, None
<1>3. row.replaces \in Ids \cup {None}
  BY DEF InsertAssignment, None
<1>4. Effective(n)'
  BY <1>2, <1>3 DEF Effective, RosterInv, ReplacesEarlier
<1>5. \A i \in Ids : Effective(i)' <=> Effective(i) /\ i # row.replaces
  BY <1>2 DEF Effective
<1>. QED BY <1>2, <1>3, <1>4, <1>5

(* Nothing but the tables of assignments changes, and what is displaced    *)
(* has failed.                                                             *)
LEMMA InsertionKeepsInv ==
  ASSUME RosterInv, NEW row \in Assignment, InsertAssignment(row),
         UNCHANGED <<attemptVars, roundVars, campaign>>,
         row.replaces \in Ids => FailedCurrent(row.replaces)
  PROVE  RosterInv'
<1>1. PICK n \in Nat :
        /\ Ids' = Ids \cup {n} /\ n \notin Ids
        /\ \A i \in Ids : assignments'[i] = assignments[i]
        /\ assignments'[n] = row
        /\ Effective(n)'
        /\ \A i \in Ids : Effective(i)' <=> Effective(i) /\ i # row.replaces
        /\ row.replaces \in Ids \cup {None}
  BY InsertionDisplacesOne
<1>2. UNCHANGED <<attempts, exposures, revisionOf, closedRounds, campaign, waivers>>
  BY DEF attemptVars, roundVars, InsertAssignment
<1>3. RosterTypeOK'
  BY <1>2 DEF RosterInv, RosterTypeOK, ChainTypeOK, InsertAssignment
<1>4. ReplacesEarlier'
  BY <1>1 DEF RosterInv, ReplacesEarlier
<1>5. AttemptsMatch'
  BY <1>1, <1>2 DEF RosterInv, AttemptsMatch, MatchesAssignment
<1>6. EveryReadingExposed' /\ ExposedOnce' /\ FirstReaderOwns'
  BY <1>2 DEF RosterInv, EveryReadingExposed, ExposedOnce, FirstReaderOwns, Shows,
              RevisionGiven
<1>7. \A i, r, o : Reviewed(i, r, o)' = Reviewed(i, r, o)
  BY <1>2 DEF Reviewed
<1>8. ASSUME NEW i \in Ids', ~Effective(i)'
      PROVE  /\ Reviewed(i, Discovery, Terminal) # {}
             /\ Reviewed(i, Discovery, {"active", "succeeded"}) = {}
  <2>1. i \in Ids
    BY <1>1, <1>8
  <2>2. CASE i = row.replaces
    BY <2>1, <2>2 DEF FailedCurrent, NothingElse, Terminal
  <2>3. CASE i # row.replaces
    BY <1>1, <1>8, <2>1, <2>3 DEF RosterInv, DisplacedReviewed, DisplacedHasNoOpinion
  <2>. QED BY <2>2, <2>3
<1>9. DisplacedReviewed' /\ DisplacedHasNoOpinion'
  BY <1>7, <1>8 DEF DisplacedReviewed, DisplacedHasNoOpinion, Terminal, Discovery
<1>. QED BY <1>3, <1>4, <1>5, <1>6, <1>9 DEF RosterInv

(* What a new attempt changes: one row more, the readings so far as they   *)
(* were.                                                                   *)
LEMMA StartedRow ==
  ASSUME RosterInv, NEW a \in Attempt, a.round \in DOMAIN revisionOf, StartAttempt(a)
  PROVE  /\ attempts \in Seq(Attempt) /\ Len(attempts) \in Nat
         /\ DOMAIN attempts = 1..Len(attempts)
         /\ NextAttempt = Len(attempts) + 1
         /\ attempts' \in Seq(Attempt)
         /\ DOMAIN attempts' = DOMAIN attempts \cup {NextAttempt}
         /\ NextAttempt \notin DOMAIN attempts /\ NextAttempt \in Nat \ {0}
         /\ \A k \in DOMAIN attempts : attempts'[k] = attempts[k]
         /\ attempts'[NextAttempt] = a
         /\ UNCHANGED <<assignments, waivers, revisionOf, closedRounds, campaign>>
<1>1. attempts \in Seq(Attempt)
  BY DEF RosterInv, RosterTypeOK
<1>2. attempts' = Append(attempts, a)
  BY DEF StartAttempt
<1>3. UNCHANGED <<assignments, waivers, revisionOf, closedRounds, campaign>>
  BY DEF StartAttempt, chainVars, roundVars
<1>. QED BY <1>1, <1>2, <1>3, AppendedRow DEF NextAttempt

(* A started attempt either is the first to take its reading, or shares    *)
(* the exposure under the conditions of _can_reuse_exposure.               *)
LEMMA StartKeepsInv ==
  ASSUME RosterInv, NEW a \in Attempt, a.round \in DOMAIN revisionOf,
         MatchesAssignment(a), StartAttempt(a)
  PROVE  RosterInv'
<1> DEFINE fresh == [revision |-> RevisionGiven(a), pair |-> PairOf[a.profile],
                     first |-> NextAttempt]
<1>1. /\ attempts' \in Seq(Attempt)
      /\ DOMAIN attempts' = DOMAIN attempts \cup {NextAttempt}
      /\ NextAttempt \notin DOMAIN attempts /\ NextAttempt \in Nat \ {0}
      /\ \A k \in DOMAIN attempts : attempts'[k] = attempts[k]
      /\ attempts'[NextAttempt] = a
      /\ UNCHANGED <<assignments, waivers, revisionOf, closedRounds, campaign>>
      /\ DOMAIN attempts = 1..Len(attempts) /\ NextAttempt = Len(attempts) + 1
      /\ Len(attempts) \in Nat
  BY StartedRow
<1>2. \/ /\ \A e \in exposures : ~Shows(a, e)
         /\ exposures' = exposures \cup {fresh}
      \/ /\ \E e \in exposures : Shows(a, e)
         /\ \A e \in exposures : Shows(a, e) => CanReuseExposure(a, e)
         /\ exposures' = exposures
  BY DEF StartAttempt, Shows
<1>3. Shows(a, fresh) /\ fresh.first = NextAttempt
  BY DEF Shows
<1>4. \A b, e : Shows(b, e)' <=> Shows(b, e)
  BY <1>1 DEF Shows, RevisionGiven
<1>5. fresh \in Exposure
  BY <1>1, RosterAssumption
     DEF RosterInv, RosterTypeOK, Exposure, RevisionGiven, Attempt, RosterAssumption
<1>6. RosterTypeOK'
  <2>1. ChainTypeOK' /\ campaign' \in CampaignStates
    BY <1>1 DEF RosterInv, RosterTypeOK, ChainTypeOK
  <2>2. /\ DOMAIN revisionOf' \subseteq Rounds
        /\ revisionOf' \in [DOMAIN revisionOf' -> Revisions]
        /\ closedRounds' \subseteq DOMAIN revisionOf'
    BY <1>1 DEF RosterInv, RosterTypeOK
  <2>3. exposures' \subseteq Exposure
    BY <1>2, <1>5 DEF RosterInv, RosterTypeOK
  <2>4. \A k \in DOMAIN attempts' : attempts'[k].round \in DOMAIN revisionOf'
    BY <1>1 DEF RosterInv, RosterTypeOK
  <2>5. \A e \in exposures' : e.first \in DOMAIN attempts'
    BY <1>1, <1>2, <1>3 DEF RosterInv, RosterTypeOK
  <2>. QED BY <1>1, <2>1, <2>2, <2>3, <2>4, <2>5 DEF RosterTypeOK
<1>7. ReplacesEarlier'
  BY <1>1 DEF RosterInv, ReplacesEarlier, Ids
<1>8. AttemptsMatch'
  BY <1>1 DEF RosterInv, AttemptsMatch, MatchesAssignment, Ids
<1>. HIDE DEF fresh
<1>9. EveryReadingExposed'
  <2>1. ASSUME NEW k \in DOMAIN attempts
        PROVE  \E e \in exposures' : Shows(attempts'[k], e)
    BY <1>1, <1>2 DEF RosterInv, EveryReadingExposed
  <2>2. \E e \in exposures' : Shows(a, e)
    BY <1>2, <1>3
  <2>. QED BY <1>1, <1>4, <2>1, <2>2 DEF EveryReadingExposed
<1>10. ExposedOnce'
  <2>1. \A e \in exposures : e.revision = fresh.revision /\ e.pair = fresh.pair => Shows(a, e)
    BY DEF Shows, fresh
  <2>. QED BY <1>2, <2>1 DEF RosterInv, ExposedOnce
<1>11. FirstReaderOwns'
  <2>1. ASSUME NEW e \in exposures
        PROVE  /\ e.first \in DOMAIN attempts'
               /\ Shows(attempts'[e.first], e)
               /\ \A k \in DOMAIN attempts' : Shows(attempts'[k], e) =>
                    /\ e.first <= k
                    /\ attempts'[k].role = "reviewer" =>
                         attempts'[e.first].lane = attempts'[k].lane
    <3>1. e.first \in DOMAIN attempts /\ Shows(attempts[e.first], e)
      BY DEF RosterInv, FirstReaderOwns
    <3>2. ASSUME NEW k \in DOMAIN attempts, Shows(attempts[k], e)
          PROVE  /\ e.first <= k
                 /\ attempts[k].role = "reviewer" =>
                      attempts[e.first].lane = attempts[k].lane
      BY <3>2 DEF RosterInv, FirstReaderOwns
    <3>3. ASSUME Shows(a, e)
          PROVE  /\ e.first <= NextAttempt
                 /\ a.role = "reviewer" => attempts[e.first].lane = a.lane
      <4>1. e.first <= NextAttempt
        BY <1>1, <3>1
      <4>2. CanReuseExposure(a, e)
        BY <1>2, <3>3
      <4>. QED BY <4>1, <4>2 DEF CanReuseExposure, OwnsExposure
    <3>. QED BY <1>1, <3>1, <3>2, <3>3
  <2>2. ASSUME \A e \in exposures : ~Shows(a, e)
        PROVE  /\ fresh.first \in DOMAIN attempts'
               /\ Shows(attempts'[fresh.first], fresh)
               /\ \A k \in DOMAIN attempts' : Shows(attempts'[k], fresh) =>
                    /\ fresh.first <= k
                    /\ attempts'[k].role = "reviewer" =>
                         attempts'[fresh.first].lane = attempts'[k].lane
    <3>1. ASSUME NEW k \in DOMAIN attempts, Shows(attempts[k], fresh)
          PROVE  FALSE
      <4>1. PICK e \in exposures : Shows(attempts[k], e)
        BY DEF RosterInv, EveryReadingExposed
      <4>2. Shows(a, e)
        BY <1>3, <3>1, <4>1 DEF Shows
      <4>. QED BY <2>2, <4>2
    <3>. QED BY <1>1, <1>3, <3>1
  <2>. QED BY <1>2, <1>4, <2>1, <2>2 DEF FirstReaderOwns
<1>12. DisplacedReviewed'
  BY <1>1 DEF RosterInv, DisplacedReviewed, Reviewed, Effective, Ids, Terminal, Discovery
<1>13. DisplacedHasNoOpinion'
  <2>1. ASSUME NEW i \in Ids, ~Effective(i)
        PROVE  ~(a.role = "reviewer" /\ a.round = Discovery /\ a.assignment = i)
    <3>1. SUFFICES ASSUME a.role = "reviewer", a.round = Discovery, a.assignment = i
                   PROVE  FALSE
      OBVIOUS
    <3>2. PICK k \in DOMAIN attempts : /\ attempts[k].role = "reviewer"
                                       /\ attempts[k].round = Discovery
                                       /\ attempts[k].assignment = i
      BY <2>1 DEF RosterInv, DisplacedReviewed, Reviewed
    <3>3. attempts[k].profile = a.profile
      BY <3>1, <3>2 DEF RosterInv, AttemptsMatch, MatchesAssignment
    <3>4. PICK e \in exposures : Shows(attempts[k], e)
      BY DEF RosterInv, EveryReadingExposed
    <3>5. Shows(a, e)
      BY <3>1, <3>2, <3>3, <3>4 DEF Shows, RevisionGiven
    <3>6. CanReuseExposure(a, e)
      BY <1>2, <3>5
    <3>. QED BY <2>1, <3>1, <3>6 DEF CanReuseExposure, IsCurrent
  <2>. QED BY <1>1, <2>1 DEF RosterInv, DisplacedHasNoOpinion, Reviewed, Effective, Ids,
                             Discovery
<1>. QED BY <1>6, <1>7, <1>8, <1>9, <1>10, <1>11, <1>12, <1>13 DEF RosterInv

(* Completing an attempt changes its outcome and nothing else.             *)
LEMMA CompletedRow ==
  ASSUME RosterInv, NEW k \in DOMAIN attempts, NEW o \in Outcomes, CompleteAttempt(k, o)
  PROVE  /\ attempts' \in Seq(Attempt)
         /\ DOMAIN attempts' = DOMAIN attempts
         /\ attempts[k].outcome = "active" /\ attempts'[k].outcome = o
         /\ \A j \in DOMAIN attempts :
              /\ attempts'[j].role = attempts[j].role
              /\ attempts'[j].round = attempts[j].round
              /\ attempts'[j].lane = attempts[j].lane
              /\ attempts'[j].assignment = attempts[j].assignment
              /\ attempts'[j].profile = attempts[j].profile
              /\ j # k => attempts'[j].outcome = attempts[j].outcome
         /\ UNCHANGED <<exposures, assignments, waivers, revisionOf, closedRounds, campaign>>
<1>1. attempts \in Seq(Attempt) /\ attempts[k] \in Attempt
  BY DEF RosterInv, RosterTypeOK
<1>2. attempts' = [attempts EXCEPT ![k].outcome = o]
  BY DEF CompleteAttempt
<1>3. [attempts[k] EXCEPT !.outcome = o] \in Attempt
  BY <1>1 DEF Attempt
<1>4. attempts' \in Seq(Attempt) /\ DOMAIN attempts' = DOMAIN attempts
  BY <1>1, <1>2, <1>3
<1>. QED BY <1>1, <1>2, <1>4
     DEF CompleteAttempt, AwaitsOutcome, chainVars, roundVars, Attempt

(* Only an active attempt gets an outcome, so a displaced assignment,      *)
(* which has none, gets no success.                                        *)
LEMMA CompleteKeepsInv ==
  ASSUME RosterInv, NEW k \in DOMAIN attempts, NEW o \in Outcomes, CompleteAttempt(k, o)
  PROVE  RosterInv'
<1>1. /\ attempts' \in Seq(Attempt)
      /\ DOMAIN attempts' = DOMAIN attempts
      /\ attempts[k].outcome = "active" /\ attempts'[k].outcome = o
      /\ \A j \in DOMAIN attempts :
           /\ attempts'[j].role = attempts[j].role
           /\ attempts'[j].round = attempts[j].round
           /\ attempts'[j].lane = attempts[j].lane
           /\ attempts'[j].assignment = attempts[j].assignment
           /\ attempts'[j].profile = attempts[j].profile
           /\ j # k => attempts'[j].outcome = attempts[j].outcome
      /\ UNCHANGED <<exposures, assignments, waivers, revisionOf, closedRounds, campaign>>
  BY CompletedRow
<1>2. RosterTypeOK'
  BY <1>1 DEF RosterInv, RosterTypeOK, ChainTypeOK
<1>3. ReplacesEarlier' /\ AttemptsMatch'
  BY <1>1 DEF RosterInv, ReplacesEarlier, AttemptsMatch, MatchesAssignment, Ids
<1>4. \A j \in DOMAIN attempts : RevisionGiven(attempts[j])' = RevisionGiven(attempts[j])
  BY <1>1 DEF RevisionGiven
<1>5. EveryReadingExposed' /\ ExposedOnce' /\ FirstReaderOwns'
  <2>1. EveryReadingExposed'
    BY <1>1, <1>4 DEF RosterInv, EveryReadingExposed, Shows
  <2>2. ExposedOnce'
    BY <1>1 DEF RosterInv, ExposedOnce
  <2>3. FirstReaderOwns'
    BY <1>1, <1>4 DEF RosterInv, FirstReaderOwns, Shows
  <2>. QED BY <2>1, <2>2, <2>3
<1>6. \A i \in Ids : Effective(i)' <=> Effective(i)
  BY <1>1 DEF Effective, Ids
<1>7. DisplacedReviewed'
  <2>1. ASSUME NEW i \in Ids, NEW j \in Reviewed(i, Discovery, Terminal)
        PROVE  j \in Reviewed(i, Discovery, Terminal)'
    <3>1. j # k
      BY <1>1, ActiveIsNoOutcome DEF Reviewed, Terminal
    <3>. QED BY <1>1, <3>1 DEF Reviewed, Discovery, Terminal
  <2>. QED BY <1>1, <1>6, <2>1 DEF RosterInv, DisplacedReviewed, Ids, Discovery
<1>8. DisplacedHasNoOpinion'
  <2>1. ASSUME NEW i \in Ids, NEW j \in Reviewed(i, Discovery, {"active", "succeeded"})'
        PROVE  j \in Reviewed(i, Discovery, {"active", "succeeded"})
    BY <1>1, <2>1 DEF Reviewed, Discovery
  <2>. QED BY <1>1, <1>6, <2>1 DEF RosterInv, DisplacedHasNoOpinion, Ids, Discovery
<1>. QED BY <1>2, <1>3, <1>5, <1>7, <1>8 DEF RosterInv

(* Waivers, rounds and the campaign do not touch what the attempts show,   *)
(* as long as the rounds so far keep their revisions.                      *)
LEMMA RoundsKeepInv ==
  ASSUME RosterInv, RosterTypeOK',
         UNCHANGED <<assignments, attempts, exposures>>,
         \A r \in DOMAIN revisionOf : revisionOf'[r] = revisionOf[r]
  PROVE  RosterInv'
<1>1. ReplacesEarlier' /\ AttemptsMatch' /\ ExposedOnce'
  BY DEF RosterInv, ReplacesEarlier, AttemptsMatch, MatchesAssignment, ExposedOnce, Ids
<1>2. \A k \in DOMAIN attempts : RevisionGiven(attempts[k])' = RevisionGiven(attempts[k])
  BY DEF RevisionGiven, RosterInv, RosterTypeOK
<1>3. EveryReadingExposed' /\ FirstReaderOwns'
  BY <1>2 DEF RosterInv, EveryReadingExposed, FirstReaderOwns, Shows
<1>4. DisplacedReviewed' /\ DisplacedHasNoOpinion'
  BY DEF RosterInv, DisplacedReviewed, DisplacedHasNoOpinion, Reviewed, Effective, Ids,
         Terminal, Discovery
<1>. QED BY <1>1, <1>3, <1>4 DEF RosterInv

(* Both roles start an attempt whose foreign keys lead to its assignment.  *)
LEMMA ReviewerStarts ==
  ASSUME RosterInv, NEW i \in Ids, NEW r \in DOMAIN revisionOf, StartReviewer(i, r)
  PROVE  \E a \in Attempt : /\ a.round \in DOMAIN revisionOf /\ a.outcome = "active"
                            /\ MatchesAssignment(a) /\ StartAttempt(a)
<1> DEFINE a == [role |-> "reviewer", round |-> r, lane |-> assignments[i].lane,
                 assignment |-> i, profile |-> assignments[i].profile,
                 outcome |-> "active"]
<1>1. assignments[i] \in Assignment /\ i \in Nat
  BY DEF RosterInv, RosterTypeOK, ChainTypeOK, Ids
<1>2. a \in Attempt /\ a.round \in DOMAIN revisionOf /\ a.outcome = "active"
  BY <1>1 DEF Attempt, Assignment, RosterInv, RosterTypeOK
<1>3. MatchesAssignment(a)
  BY DEF MatchesAssignment
<1>4. StartAttempt(a)
  BY DEF StartReviewer
<1>. QED BY <1>2, <1>3, <1>4

LEMMA ReconcilerStarts ==
  ASSUME RosterInv, NEW p \in Profiles, NEW r \in DOMAIN revisionOf, StartReconciler(p, r)
  PROVE  \E a \in Attempt : /\ a.round \in DOMAIN revisionOf /\ a.outcome = "active"
                            /\ MatchesAssignment(a) /\ StartAttempt(a)
<1> DEFINE a == [role |-> "reconciler", round |-> r, lane |-> NoLane,
                 assignment |-> None, profile |-> p, outcome |-> "active"]
<1>1. a \in Attempt /\ a.round \in DOMAIN revisionOf /\ a.outcome = "active"
  BY RosterAssumption DEF Attempt, RosterInv, RosterTypeOK, None
<1>2. MatchesAssignment(a)
  BY DEF MatchesAssignment
<1>3. StartAttempt(a)
  BY DEF StartReconciler
<1>. QED BY <1>1, <1>2, <1>3

(* One case per action.                                                    *)
LEMMA StepKeepsInv ==
  ASSUME RosterInv, [RosterNext]_rosterVars
  PROVE  RosterInv'
<1>. USE RosterAssumption DEF RosterAssumption
<1>1. CASE UNCHANGED rosterVars
  <2>1. UNCHANGED <<assignments, waivers, attempts, exposures, revisionOf, closedRounds,
                    campaign>>
    BY <1>1 DEF rosterVars, chainVars, attemptVars, roundVars
  <2>2. RosterTypeOK'
    BY <2>1 DEF RosterInv, RosterTypeOK, ChainTypeOK
  <2>. QED BY <2>1, <2>2, RoundsKeepInv
<1>2. ASSUME NEW l \in Lanes, NEW p \in Profiles, AssignFirst(l, p)
      PROVE  RosterInv'
  <2> DEFINE row == [lane |-> l, generation |-> 1, profile |-> p,
                     replaces |-> None, answer |-> NoAnswer]
  <2>1. row \in Assignment /\ row.replaces = None
    BY DEF Assignment, None
  <2>2. None \notin Ids
    BY DEF RosterInv, RosterTypeOK, ChainTypeOK, Ids, None
  <2>. QED BY <1>2, <2>1, <2>2, InsertionKeepsInv DEF AssignFirst
<1>3. ASSUME NEW i \in Ids, NEW r \in DOMAIN revisionOf, StartReviewer(i, r)
      PROVE  RosterInv'
  BY <1>3, ReviewerStarts, StartKeepsInv
<1>4. ASSUME NEW p \in Profiles, NEW r \in DOMAIN revisionOf, StartReconciler(p, r)
      PROVE  RosterInv'
  BY <1>4, ReconcilerStarts, StartKeepsInv
<1>5. ASSUME NEW k \in DOMAIN attempts, NEW o \in Outcomes, CompleteAttempt(k, o)
      PROVE  RosterInv'
  BY <1>5, CompleteKeepsInv
<1>6. ASSUME NEW i \in Ids, NEW p \in Profiles, NEW a \in Answers,
             ReplaceLaneAssignment(i, p, a)
      PROVE  RosterInv'
  <2> DEFINE row == [lane |-> assignments[i].lane,
                     generation |-> assignments[i].generation + 1,
                     profile |-> p, replaces |-> i, answer |-> a]
  <2>1. assignments[i] \in Assignment /\ i \in Nat
    BY DEF RosterInv, RosterTypeOK, ChainTypeOK, Ids
  <2>2. row \in Assignment
    BY <2>1 DEF Assignment
  <2>3. /\ InsertAssignment(row) /\ FailedCurrent(row.replaces)
        /\ UNCHANGED <<attemptVars, roundVars, campaign>>
    BY <1>6 DEF ReplaceLaneAssignment
  <2>. QED BY <2>2, <2>3, InsertionKeepsInv
<1>7. ASSUME NEW l \in Lanes, NEW a \in Answers, WaiveLaneForRound(l, a)
      PROVE  RosterInv'
  <2>1. /\ waivers' = waivers \cup {[round |-> Discovery, lane |-> l, answer |-> a]}
        /\ UNCHANGED <<assignments, attempts, exposures, revisionOf, closedRounds, campaign>>
    BY <1>7 DEF WaiveLaneForRound, InsertWaiver, attemptVars, roundVars
  <2>2. RosterTypeOK'
    BY <2>1 DEF RosterInv, RosterTypeOK, ChainTypeOK, Waiver, Discovery
  <2>. QED BY <2>1, <2>2, RoundsKeepInv
<1>8. ASSUME NEW r \in Rounds, NEW v \in Revisions, OpenRound(r, v)
      PROVE  RosterInv'
  <2>1. /\ UNCHANGED <<assignments, waivers, attempts, exposures, closedRounds, campaign>>
        /\ revisionOf' = [s \in DOMAIN revisionOf \cup {r} |->
                            IF s = r THEN v ELSE revisionOf[s]]
        /\ r \notin DOMAIN revisionOf
    BY <1>8 DEF OpenRound, chainVars, attemptVars
  <2>2. RosterTypeOK'
    BY <2>1 DEF RosterInv, RosterTypeOK, ChainTypeOK
  <2>3. \A s \in DOMAIN revisionOf : revisionOf'[s] = revisionOf[s]
    BY <2>1
  <2>. QED BY <2>1, <2>2, <2>3, RoundsKeepInv
<1>9. ASSUME NEW r \in Rounds, CloseRound(r)
      PROVE  RosterInv'
  <2>1. /\ closedRounds' = closedRounds \cup {r} /\ r \in DOMAIN revisionOf
        /\ UNCHANGED <<assignments, waivers, attempts, exposures, revisionOf, campaign>>
    BY <1>9 DEF CloseRound, RoundOpen, chainVars, attemptVars
  <2>2. RosterTypeOK'
    BY <2>1 DEF RosterInv, RosterTypeOK, ChainTypeOK
  <2>. QED BY <2>1, <2>2, RoundsKeepInv
<1>10. ASSUME CompleteDiscovery
       PROVE  RosterInv'
  <2>1. /\ campaign' = "reconciliation"
        /\ UNCHANGED <<assignments, waivers, attempts, exposures, revisionOf, closedRounds>>
    BY <1>10 DEF CompleteDiscovery, chainVars, attemptVars, roundVars
  <2>2. RosterTypeOK'
    BY <2>1 DEF RosterInv, RosterTypeOK, ChainTypeOK, CampaignStates
  <2>. QED BY <2>1, <2>2, RoundsKeepInv
<1>11. ASSUME NEW new \in CampaignStates, TransitionCampaign(new)
       PROVE  RosterInv'
  <2>1. /\ campaign' \in CampaignStates
        /\ UNCHANGED <<assignments, waivers, attempts, exposures, revisionOf, closedRounds>>
    BY <1>11 DEF TransitionCampaign, chainVars, attemptVars, roundVars
  <2>2. RosterTypeOK'
    BY <2>1 DEF RosterInv, RosterTypeOK, ChainTypeOK
  <2>. QED BY <2>1, <2>2, RoundsKeepInv
<1>. QED BY <1>1, <1>2, <1>3, <1>4, <1>5, <1>6, <1>7, <1>8, <1>9, <1>10, <1>11
     DEF RosterNext

(* The invariant holds in every state the repositories can reach.          *)
THEOREM RosterInvariant == RosterSpec => []RosterInv
<1>1. RosterInv /\ [RosterNext]_rosterVars => RosterInv'
  BY StepKeepsInv
<1>. QED BY InitEstablishesInv, <1>1, PTL DEF RosterSpec

(* Attempts, exposures and rounds keep their types and references.         *)
THEOREM RosterTypeCorrect == RosterSpec => []RosterTypeOK
<1>1. RosterInv => RosterTypeOK
  BY DEF RosterInv
<1>. QED BY <1>1, RosterInvariant, PTL

(* An opinion is never displaced: a replaced assignment has no successful  *)
(* and no running attempt in discovery, and never comes by one.  It speaks *)
(* of replacements alone; see OpinionsAreKept for the waivers.             *)
THEOREM OpinionsStand == RosterSpec => []DisplacedHasNoOpinion
<1>1. RosterInv => DisplacedHasNoOpinion
  BY DEF RosterInv
<1>. QED BY <1>1, RosterInvariant, PTL

(* The first reader of a revision fixes the lane of its pair, so two lanes *)
(* never review it through the same model.                                 *)
LEMMA FirstReadersMakeIndependence ==
  ASSUME RosterInv
  PROVE  Independence
<1> SUFFICES ASSUME NEW j \in DOMAIN attempts, NEW k \in DOMAIN attempts,
                    j < k, attempts[k].role = "reviewer", SameReading(j, k)
             PROVE  \E i \in 1..j : /\ attempts[i].role = "reviewer"
                                    /\ attempts[i].lane = attempts[k].lane
                                    /\ SameReading(i, k)
                                    /\ attempts[j].role = "reviewer"
                                         => attempts[j].lane = attempts[k].lane
  BY DEF Independence
<1>1. PICK e \in exposures : Shows(attempts[k], e)
  BY DEF RosterInv, EveryReadingExposed
<1>2. Shows(attempts[j], e)
  BY <1>1 DEF SameReading, Shows
<1>3. /\ e.first \in DOMAIN attempts /\ e.first <= j
      /\ Shows(attempts[e.first], e)
      /\ attempts[e.first].lane = attempts[k].lane
      /\ attempts[j].role = "reviewer" => attempts[e.first].lane = attempts[j].lane
  BY <1>1, <1>2 DEF RosterInv, FirstReaderOwns
<1>4. e.first \in 1..j
  BY <1>3 DEF RosterInv, RosterTypeOK
<1>5. attempts[k].lane # NoLane
  <2>1. attempts[k].assignment \in Ids
        /\ attempts[k].lane = assignments[attempts[k].assignment].lane
    BY DEF RosterInv, AttemptsMatch, MatchesAssignment
  <2>2. assignments[attempts[k].assignment] \in Assignment
    BY <2>1 DEF RosterInv, RosterTypeOK, ChainTypeOK, Ids
  <2>. QED BY <2>1, <2>2, RosterAssumption DEF Assignment, RosterAssumption
<1>6. attempts[e.first].role = "reviewer"
  <2>1. attempts[e.first] \in Attempt
    BY <1>3 DEF RosterInv, RosterTypeOK
  <2>. QED BY <1>3, <1>5, <2>1 DEF Attempt, RosterInv, AttemptsMatch, MatchesAssignment
<1>7. SameReading(e.first, k)
  BY <1>1, <1>3 DEF SameReading, Shows
<1>. QED BY <1>3, <1>4, <1>6, <1>7

(* Opinions are independent: no reviewer reads a revision that its pair    *)
(* was shown for another lane, or first as a reconciler.                   *)
THEOREM OpinionsAreIndependent == RosterSpec => []Independence
  BY RosterInvariant, FirstReadersMakeIndependence, PTL

-----------------------------------------------------------------------------
(* Retries.                                                                *)

(* The operations other than the start and the end of an attempt leave the *)
(* attempts and exposures as they are.                                     *)
LEMMA AttemptSteps ==
  ASSUME RosterInv, [RosterNext]_rosterVars
  PROVE  \/ UNCHANGED attemptVars
         \/ \E a \in Attempt : /\ a.round \in DOMAIN revisionOf /\ a.outcome = "active"
                               /\ MatchesAssignment(a) /\ StartAttempt(a)
         \/ \E k \in DOMAIN attempts, o \in Outcomes : CompleteAttempt(k, o)
<1>1. CASE UNCHANGED rosterVars
  BY <1>1 DEF rosterVars
<1>2. ASSUME NEW l \in Lanes, NEW p \in Profiles, AssignFirst(l, p)
      PROVE  UNCHANGED attemptVars
  BY <1>2 DEF AssignFirst
<1>3. ASSUME NEW i \in Ids, NEW r \in DOMAIN revisionOf, StartReviewer(i, r)
      PROVE  \E a \in Attempt : /\ a.round \in DOMAIN revisionOf /\ a.outcome = "active"
                                /\ MatchesAssignment(a) /\ StartAttempt(a)
  BY <1>3, ReviewerStarts
<1>4. ASSUME NEW p \in Profiles, NEW r \in DOMAIN revisionOf, StartReconciler(p, r)
      PROVE  \E a \in Attempt : /\ a.round \in DOMAIN revisionOf /\ a.outcome = "active"
                                /\ MatchesAssignment(a) /\ StartAttempt(a)
  BY <1>4, ReconcilerStarts
<1>5. ASSUME NEW i \in Ids, NEW p \in Profiles, NEW a \in Answers,
             ReplaceLaneAssignment(i, p, a)
      PROVE  UNCHANGED attemptVars
  BY <1>5 DEF ReplaceLaneAssignment
<1>6. ASSUME NEW l \in Lanes, NEW a \in Answers, WaiveLaneForRound(l, a)
      PROVE  UNCHANGED attemptVars
  BY <1>6 DEF WaiveLaneForRound
<1>7. ASSUME NEW r \in Rounds, NEW v \in Revisions, OpenRound(r, v)
      PROVE  UNCHANGED attemptVars
  BY <1>7 DEF OpenRound
<1>8. ASSUME NEW r \in Rounds, CloseRound(r)
      PROVE  UNCHANGED attemptVars
  BY <1>8 DEF CloseRound
<1>9. ASSUME CompleteDiscovery
      PROVE  UNCHANGED attemptVars
  BY <1>9 DEF CompleteDiscovery
<1>10. ASSUME NEW new \in CampaignStates, TransitionCampaign(new)
       PROVE  UNCHANGED attemptVars
  BY <1>10 DEF TransitionCampaign
<1>. QED BY <1>1, <1>2, <1>3, <1>4, <1>5, <1>6, <1>7, <1>8, <1>9, <1>10 DEF RosterNext

(* A further attempt of an assignment in a round finds the reading of the  *)
(* earlier ones exposed, so _can_reuse_exposure looks at the last of them, *)
(* and an earlier one was followed by another.                             *)
LEMMA StartRetriesFailures ==
  ASSUME RosterInv, RetriesOnlyFailures, NEW a \in Attempt, a.round \in DOMAIN revisionOf,
         MatchesAssignment(a), StartAttempt(a)
  PROVE  RetriesOnlyFailures'
<1>1. /\ DOMAIN attempts' = DOMAIN attempts \cup {NextAttempt}
      /\ DOMAIN attempts = 1..Len(attempts) /\ NextAttempt = Len(attempts) + 1
      /\ Len(attempts) \in Nat
      /\ \A k \in DOMAIN attempts : attempts'[k] = attempts[k]
      /\ attempts'[NextAttempt] = a
  BY StartedRow
<1>2. ASSUME NEW j \in DOMAIN attempts, attempts[j].role = "reviewer", a.role = "reviewer",
             attempts[j].round = a.round, attempts[j].assignment = a.assignment
      PROVE  attempts[j].outcome \in Retryable
  <2>1. attempts[j].profile = a.profile
    BY <1>2 DEF RosterInv, AttemptsMatch, MatchesAssignment
  <2>2. PICK e \in exposures : Shows(attempts[j], e)
    BY DEF RosterInv, EveryReadingExposed
  <2>3. RevisionGiven(a) = e.revision /\ PairOf[a.profile] = e.pair
    BY <1>2, <2>1, <2>2 DEF Shows, RevisionGiven
  <2>4. CanReuseExposure(a, e)
    BY <2>3 DEF StartAttempt
  <2> DEFINE previous == Reviewed(a.assignment, a.round, Outcomes \cup {"active"})
  <2>5. \A k \in LastOf(previous) : attempts[k].outcome \in Retryable
    BY <1>2, <2>4 DEF CanReuseExposure
  <2>6. attempts[j] \in Attempt
    BY DEF RosterInv, RosterTypeOK
  <2>7. j \in previous
    BY <1>2, <2>6 DEF Reviewed, Attempt
  <2>8. CASE \A m \in previous : m <= j
    BY <2>5, <2>7, <2>8 DEF LastOf
  <2>9. CASE \E m \in previous : ~(m <= j)
    <3>1. PICK m \in previous : ~(m <= j)
      BY <2>9
    <3>2. m \in DOMAIN attempts /\ attempts[m].role = "reviewer"
          /\ attempts[m].round = a.round /\ attempts[m].assignment = a.assignment
      BY DEF Reviewed
    <3>3. j < m
      BY <1>1, <3>1, <3>2
    <3>. QED BY <1>2, <3>2, <3>3 DEF RetriesOnlyFailures
  <2>. QED BY <2>8, <2>9
<1>3. ASSUME NEW j \in DOMAIN attempts', NEW k \in DOMAIN attempts', j < k,
             attempts'[j].role = "reviewer", attempts'[k].role = "reviewer",
             attempts'[j].round = attempts'[k].round,
             attempts'[j].assignment = attempts'[k].assignment
      PROVE  attempts'[j].outcome \in Retryable
  <2>1. j \in DOMAIN attempts
    BY <1>1, <1>3
  <2>2. CASE k \in DOMAIN attempts
    BY <1>1, <1>3, <2>1, <2>2 DEF RetriesOnlyFailures
  <2>3. CASE k = NextAttempt
    BY <1>1, <1>2, <1>3, <2>1, <2>3
  <2>. QED BY <1>1, <2>2, <2>3
<1>. QED BY <1>3 DEF RetriesOnlyFailures

(* Only the last attempt can be active, so no earlier one gets an outcome. *)
LEMMA CompleteRetriesFailures ==
  ASSUME RosterInv, RetriesOnlyFailures, NEW k \in DOMAIN attempts, NEW o \in Outcomes,
         CompleteAttempt(k, o)
  PROVE  RetriesOnlyFailures'
<1>1. /\ DOMAIN attempts' = DOMAIN attempts
      /\ attempts[k].outcome = "active"
      /\ \A j \in DOMAIN attempts :
           /\ attempts'[j].role = attempts[j].role
           /\ attempts'[j].round = attempts[j].round
           /\ attempts'[j].assignment = attempts[j].assignment
           /\ j # k => attempts'[j].outcome = attempts[j].outcome
  BY CompletedRow
<1>2. "active" \notin Retryable
  BY DEF Retryable
<1>. QED BY <1>1, <1>2 DEF RetriesOnlyFailures

(* A retry answers only a retryable failure: in one round an assignment    *)
(* that succeeded, failed for good or still runs is never started again.   *)
THEOREM OnlyFailuresAreRetried == RosterSpec => []RetriesOnlyFailures
<1>1. RosterInit => RetriesOnlyFailures
  BY DEF RosterInit, RetriesOnlyFailures
<1>2. ASSUME RosterInv, RetriesOnlyFailures, [RosterNext]_rosterVars
      PROVE  RetriesOnlyFailures'
  <2>1. CASE UNCHANGED attemptVars
    BY <1>2, <2>1 DEF RetriesOnlyFailures, attemptVars
  <2>2. ASSUME NEW a \in Attempt, a.round \in DOMAIN revisionOf,
               MatchesAssignment(a), StartAttempt(a)
        PROVE  RetriesOnlyFailures'
    BY <1>2, <2>2, StartRetriesFailures
  <2>3. ASSUME NEW k \in DOMAIN attempts, NEW o \in Outcomes, CompleteAttempt(k, o)
        PROVE  RetriesOnlyFailures'
    BY <1>2, <2>3, CompleteRetriesFailures
  <2>. QED BY <1>2, <2>1, <2>2, <2>3, AttemptSteps
<1>. QED BY <1>1, <1>2, RosterInvariant, PTL DEF RosterSpec

-----------------------------------------------------------------------------
(* The quorum.                                                             *)

Waived(l) == \E w \in waivers : w.round = Discovery /\ w.lane = l
Succeeded(i) == Reviewed(i, Discovery, {"succeeded"}) # {}

(* What the gates of discovery must have seen of a lane, and of all.       *)
Covered(l) ==
  \E i \in Ids : assignments[i].lane = l /\ Effective(i) /\ (Succeeded(i) \/ Waived(l))
SomeOpinion == \E i \in Ids : Effective(i) /\ Succeeded(i)

QuorumMet == (\A l \in Lanes : Covered(l)) /\ SomeOpinion

LEMMA QuorumStates ==
  QuorumStaysMet <=>
    (campaign \in {"reconciliation", "fix_cycle", "closed_clean", "closed_escalated"}
       => QuorumMet)
  BY DEF QuorumStaysMet, QuorumMet, Covered, SomeOpinion, Succeeded, Waived

(* No lane has two executors, so as many executors as lanes leave no lane  *)
(* without one: the cardinality gate sees what the other gates do not, the *)
(* lane that is waived and has no assignment.                              *)
LEMMA GatesSeeQuorum ==
  ASSUME RosterInv, OneEffective, CompleteDiscovery
  PROVE  QuorumMet
<1> DEFINE InForce == {i \in Ids : Effective(i)}
           laneOf == [i \in InForce |-> assignments[i].lane]
<1>1. IsFiniteSet(Lanes)
  BY RosterAssumption DEF RosterAssumption
<1>2. \A i \in Ids : assignments[i].lane \in Lanes
  <2>1. \A i \in Ids : assignments[i] \in Assignment
    BY DEF RosterInv, RosterTypeOK, ChainTypeOK, Ids
  <2>. QED BY <2>1 DEF Assignment
<1>3. laneOf \in Injection(InForce, Lanes)
  BY <1>2 DEF OneEffective, Injection, IsInjective
<1>4. Cardinality(InForce) = Cardinality(Lanes)
  BY DEF CompleteDiscovery, CardinalityMismatch
<1>. HIDE DEF laneOf, InForce
<1>5. laneOf \in Surjection(InForce, Lanes)
  BY <1>1, <1>3, <1>4, FS_Injection
<1>6. \A l \in Lanes : \E i \in InForce : laneOf[i] = l
  BY <1>5 DEF Surjection
<1>7. ASSUME NEW l \in Lanes
      PROVE  Covered(l)
  <2>1. GaveOpinion(l) \/ Waived(l)
    BY DEF CompleteDiscovery, MissingParticipation, Waived
  <2>2. CASE GaveOpinion(l)
    BY <2>2 DEF GaveOpinion, Covered, Succeeded
  <2>3. CASE Waived(l)
    BY <1>6, <2>3 DEF Covered, InForce, laneOf
  <2>. QED BY <2>1, <2>2, <2>3
<1>8. SomeOpinion
  BY DEF CompleteDiscovery, WithoutOpinion, GaveOpinion, SomeOpinion, Succeeded
<1>. QED BY <1>7, <1>8 DEF QuorumMet

(* A replaced executor had no opinion, so its lane was waived and is still *)
(* waived for the one that takes its place.                                *)
LEMMA InsertionKeepsQuorum ==
  ASSUME RosterInv, QuorumMet, NEW row \in Assignment, InsertAssignment(row),
         UNCHANGED <<attemptVars, roundVars, campaign>>,
         row.replaces \in Ids => FailedCurrent(row.replaces)
  PROVE  QuorumMet'
<1>1. PICK n \in Nat :
        /\ Ids' = Ids \cup {n} /\ n \notin Ids
        /\ \A i \in Ids : assignments'[i] = assignments[i]
        /\ assignments'[n] = row
        /\ Effective(n)'
        /\ \A i \in Ids : Effective(i)' <=> Effective(i) /\ i # row.replaces
        /\ row.replaces \in Ids \cup {None}
  BY InsertionDisplacesOne
<1>2. attempts' = attempts /\ waivers' = waivers
  BY DEF attemptVars, InsertAssignment
<1>3. \A i, l : (Succeeded(i)' <=> Succeeded(i)) /\ (Waived(l)' <=> Waived(l))
  BY <1>2 DEF Succeeded, Waived, Reviewed, Discovery
<1>4. row.replaces \in Ids => ~Succeeded(row.replaces)
  BY DEF FailedCurrent, NothingElse, Reviewed, Succeeded
<1>5. row.replaces \in Ids => assignments[row.replaces].lane = row.lane
  <2>1. None \notin Ids
    BY DEF RosterInv, RosterTypeOK, ChainTypeOK, Ids, None
  <2>. QED BY <2>1 DEF InsertAssignment, ContinuesChain
<1>6. ASSUME NEW l \in Lanes
      PROVE  Covered(l)'
  <2>1. PICK i \in Ids : assignments[i].lane = l /\ Effective(i) /\ (Succeeded(i) \/ Waived(l))
    BY DEF QuorumMet, Covered
  <2>2. CASE i = row.replaces
    BY <1>1, <1>3, <1>4, <1>5, <2>1, <2>2 DEF Covered
  <2>3. CASE i # row.replaces
    BY <1>1, <1>3, <2>1, <2>3 DEF Covered
  <2>. QED BY <2>2, <2>3
<1>7. SomeOpinion'
  <2>1. PICK i \in Ids : Effective(i) /\ Succeeded(i)
    BY DEF QuorumMet, SomeOpinion
  <2>2. Effective(i)' /\ Succeeded(i)' /\ i \in Ids'
    BY <1>1, <1>3, <1>4, <2>1
  <2>. QED BY <2>2 DEF SomeOpinion
<1>. QED BY <1>6, <1>7 DEF QuorumMet

(* Whatever leaves the assignments alone and takes back neither a success  *)
(* nor a waiver keeps the quorum.                                          *)
LEMMA OthersKeepQuorum ==
  ASSUME QuorumMet, assignments' = assignments, waivers \subseteq waivers',
         \A i \in Ids : Succeeded(i) => Succeeded(i)'
  PROVE  QuorumMet'
<1>1. Ids' = Ids /\ \A i \in Ids : Effective(i)' <=> Effective(i)
  BY DEF Ids, Effective
<1>2. \A l : Waived(l) => Waived(l)'
  BY DEF Waived, Discovery
<1>3. \A l \in Lanes : Covered(l)'
  BY <1>1, <1>2 DEF QuorumMet, Covered
<1>4. SomeOpinion'
  BY <1>1 DEF QuorumMet, SomeOpinion
<1>. QED BY <1>3, <1>4 DEF QuorumMet

LEMMA StepKeepsQuorum ==
  ASSUME RosterInv, QuorumMet, [RosterNext]_rosterVars
  PROVE  QuorumMet'
<1>1. CASE UNCHANGED <<chainVars, attempts>>
  BY <1>1, OthersKeepQuorum DEF chainVars, Succeeded, Reviewed, Discovery
<1>2. ASSUME NEW l \in Lanes, NEW p \in Profiles, AssignFirst(l, p)
      PROVE  QuorumMet'
  <2> DEFINE row == [lane |-> l, generation |-> 1, profile |-> p,
                     replaces |-> None, answer |-> NoAnswer]
  <2>1. row \in Assignment /\ row.replaces = None
    BY DEF Assignment, None
  <2>2. None \notin Ids
    BY DEF RosterInv, RosterTypeOK, ChainTypeOK, Ids, None
  <2>. QED BY <1>2, <2>1, <2>2, InsertionKeepsQuorum DEF AssignFirst
<1>3. ASSUME NEW i \in Ids, NEW p \in Profiles, NEW a \in Answers,
             ReplaceLaneAssignment(i, p, a)
      PROVE  QuorumMet'
  <2> DEFINE row == [lane |-> assignments[i].lane,
                     generation |-> assignments[i].generation + 1,
                     profile |-> p, replaces |-> i, answer |-> a]
  <2>1. assignments[i] \in Assignment /\ i \in Nat
    BY DEF RosterInv, RosterTypeOK, ChainTypeOK, Ids
  <2>2. row \in Assignment
    BY <2>1 DEF Assignment
  <2>3. /\ InsertAssignment(row) /\ FailedCurrent(row.replaces)
        /\ UNCHANGED <<attemptVars, roundVars, campaign>>
    BY <1>3 DEF ReplaceLaneAssignment
  <2>. QED BY <2>2, <2>3, InsertionKeepsQuorum
<1>4. ASSUME NEW a \in Attempt, a.round \in DOMAIN revisionOf, StartAttempt(a)
      PROVE  QuorumMet'
  <2>1. \A i \in Ids : Succeeded(i) => Succeeded(i)'
    BY <1>4, StartedRow DEF Succeeded, Reviewed, Discovery
  <2>. QED BY <1>4, <2>1, StartedRow, OthersKeepQuorum
<1>5. ASSUME NEW k \in DOMAIN attempts, NEW o \in Outcomes, CompleteAttempt(k, o)
      PROVE  QuorumMet'
  <2>1. \A i \in Ids : Succeeded(i) => Succeeded(i)'
    BY <1>5, CompletedRow DEF Succeeded, Reviewed, Discovery
  <2>. QED BY <1>5, <2>1, CompletedRow, OthersKeepQuorum
<1>6. ASSUME NEW l \in Lanes, NEW a \in Answers, WaiveLaneForRound(l, a)
      PROVE  QuorumMet'
  <2>1. attempts' = attempts /\ assignments' = assignments /\ waivers \subseteq waivers'
    BY <1>6 DEF WaiveLaneForRound, InsertWaiver, attemptVars
  <2>. QED BY <2>1, OthersKeepQuorum DEF Succeeded, Reviewed, Discovery
<1>7. \/ UNCHANGED <<chainVars, attempts>>
      \/ \E l \in Lanes, p \in Profiles : AssignFirst(l, p)
      \/ \E i \in Ids, r \in DOMAIN revisionOf : StartReviewer(i, r)
      \/ \E p \in Profiles, r \in DOMAIN revisionOf : StartReconciler(p, r)
      \/ \E k \in DOMAIN attempts, o \in Outcomes : CompleteAttempt(k, o)
      \/ \E i \in Ids, p \in Profiles, a \in Answers : ReplaceLaneAssignment(i, p, a)
      \/ \E l \in Lanes, a \in Answers : WaiveLaneForRound(l, a)
  BY DEF RosterNext, rosterVars, attemptVars, OpenRound, CloseRound, CompleteDiscovery,
         TransitionCampaign
<1>8. ASSUME NEW i \in Ids, NEW r \in DOMAIN revisionOf, StartReviewer(i, r)
      PROVE  QuorumMet'
  BY <1>4, <1>8, ReviewerStarts
<1>9. ASSUME NEW p \in Profiles, NEW r \in DOMAIN revisionOf, StartReconciler(p, r)
      PROVE  QuorumMet'
  BY <1>4, <1>9, ReconcilerStarts
<1>. QED BY <1>1, <1>2, <1>3, <1>5, <1>6, <1>7, <1>8, <1>9

(* The table of assignments only grows.                                    *)
LEMMA AssignmentsRemain ==
  ASSUME RosterInv, [RosterNext]_rosterVars
  PROVE  Ids \subseteq Ids'
<1>1. assignments \in Seq(Assignment) /\ ChainTypeOK
  BY DEF RosterInv, RosterTypeOK, ChainTypeOK
<1>2. \/ assignments' = assignments
      \/ \E row : assignments' = Append(assignments, row)
  <2>1. [ChainNext]_chainVars
    BY <1>1, RosterStepIsChainStep
  <2>2. ASSUME NEW row, InsertAssignment(row)
        PROVE  \E r : assignments' = Append(assignments, r)
    BY <2>2 DEF InsertAssignment
  <2>3. ASSUME NEW row, InsertWaiver(row)
        PROVE  assignments' = assignments
    BY <2>3 DEF InsertWaiver
  <2>. QED BY <2>1, <2>2, <2>3, Zenon DEF ChainNext, chainVars
<1>3. ASSUME NEW row, assignments' = Append(assignments, row)
      PROVE  Ids \subseteq Ids'
  BY <1>1, <1>3 DEF Ids
<1>. QED BY <1>2, <1>3 DEF Ids

(* Only a running attempt is given an outcome, so a success is never taken *)
(* back.                                                                   *)
LEMMA SuccessesRemain ==
  ASSUME RosterInv, [RosterNext]_rosterVars, NEW i \in Ids, Succeeded(i)
  PROVE  Succeeded(i)'
<1>1. CASE UNCHANGED attemptVars
  BY <1>1 DEF attemptVars, Succeeded, Reviewed, Discovery
<1>2. ASSUME NEW a \in Attempt, a.round \in DOMAIN revisionOf, StartAttempt(a)
      PROVE  Succeeded(i)'
  BY <1>2, StartedRow DEF Succeeded, Reviewed, Discovery
<1>3. ASSUME NEW k \in DOMAIN attempts, NEW o \in Outcomes, CompleteAttempt(k, o)
      PROVE  Succeeded(i)'
  BY <1>3, CompletedRow DEF Succeeded, Reviewed, Discovery
<1>. QED BY <1>1, <1>2, <1>3, AttemptSteps

(* An executor that has given its opinion in discovery keeps it and stays  *)
(* in force, whatever follows: late answers, retries, replacements of      *)
(* other executors, and a waiver of its own lane, which the repository     *)
(* admits (waive_lane_for_round) and which therefore costs no opinion.     *)
THEOREM OpinionsAreKept ==
  RosterSpec => [][\A i \in Ids : Succeeded(i) =>
                     /\ i \in Ids' /\ Succeeded(i)' /\ Effective(i)']_rosterVars
<1>1. ASSUME RosterInv, RosterInv', [RosterNext]_rosterVars, NEW i \in Ids, Succeeded(i)
      PROVE  i \in Ids' /\ Succeeded(i)' /\ Effective(i)'
  <2>1. i \in Ids' /\ Succeeded(i)'
    BY <1>1, AssignmentsRemain, SuccessesRemain
  <2>2. DisplacedHasNoOpinion'
    BY <1>1 DEF RosterInv
  <2>. QED BY <2>1, <2>2 DEF DisplacedHasNoOpinion, Succeeded, Reviewed
<1>2. RosterInv /\ RosterInv' /\ [RosterNext]_rosterVars
        => [\A i \in Ids : Succeeded(i) =>
              /\ i \in Ids' /\ Succeeded(i)' /\ Effective(i)']_rosterVars
  BY <1>1
<1>. QED BY <1>2, RosterInvariant, PTL DEF RosterSpec

(* The campaign leaves discovery through the gates or is cancelled.        *)
LEMMA GatesComeFirst ==
  ASSUME [RosterNext]_rosterVars,
         campaign' \in {"reconciliation", "fix_cycle", "closed_clean", "closed_escalated"}
  PROVE  \/ campaign \in {"reconciliation", "fix_cycle", "closed_clean", "closed_escalated"}
         \/ CompleteDiscovery
<1>1. campaign' = campaign \/ CompleteDiscovery
      \/ \E new \in CampaignStates : TransitionCampaign(new)
  BY DEF RosterNext, rosterVars, AssignFirst, StartReviewer, StartReconciler, StartAttempt,
         CompleteAttempt, ReplaceLaneAssignment, WaiveLaneForRound, OpenRound, CloseRound
<1>2. ASSUME NEW new \in CampaignStates, TransitionCampaign(new)
      PROVE  campaign \in {"reconciliation", "fix_cycle", "closed_clean", "closed_escalated"}
  <2>1. <<campaign, campaign'>> \in CampaignTransition /\ campaign' # "reconciliation"
    BY <1>2 DEF TransitionCampaign
  <2>. QED BY <2>1 DEF CampaignTransition
<1>. QED BY <1>1, <1>2

(* Past discovery the quorum stays met: every lane keeps an executor that  *)
(* gave an opinion or is waived, and at least one opinion stands.          *)
THEOREM QuorumIsNeverUndone == RosterSpec => []QuorumStaysMet
<1>1. RosterInit => QuorumStaysMet
  BY DEF RosterInit, QuorumStaysMet
<1>2. ASSUME RosterInv, OneEffective, QuorumStaysMet, [RosterNext]_rosterVars
      PROVE  QuorumStaysMet'
  <2>1. SUFFICES ASSUME campaign' \in {"reconciliation", "fix_cycle", "closed_clean",
                                       "closed_escalated"}
                 PROVE  QuorumMet'
    BY DEF QuorumStaysMet, QuorumMet, Covered, SomeOpinion, Succeeded, Waived
  <2>2. QuorumMet
    BY <1>2, <2>1, GatesComeFirst, GatesSeeQuorum, QuorumStates
  <2>. QED BY <1>2, <2>2, StepKeepsQuorum
<1>. QED BY <1>1, <1>2, RosterInvariant, RosterOneExecutor, PTL DEF RosterSpec
=============================================================================
