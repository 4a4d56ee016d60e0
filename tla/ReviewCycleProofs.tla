-------------------------- MODULE ReviewCycleProofs --------------------------
(***************************************************************************)
(* Theorems about ReviewCycle for any cap, any number of revisions granted *)
(* by humans and any number of findings: every safety property its run     *)
(* checks, and the implementation of RevisionContract.                     *)
(***************************************************************************)
EXTENDS ReviewCycle, FiniteSetTheorems, TLAPS

(* The rounds are numbered and checked in the order of the revisions, and  *)
(* only the last one may be open.                                          *)
RoundsInOrder ==
  \A r \in DOMAIN rounds :
    /\ rounds[r].preceding = r - 1
    /\ rounds[r].kind = IF r = 1 THEN "discovery" ELSE "fix_check"
    /\ r # Current => rounds[r].result # None

(* Revisions and rounds alternate, and a revision is due only below the    *)
(* cap.                                                                    *)
Alternation ==
  /\ revisions \in {Current - 1, Current}
  /\ RoundOpen \/ question # None => revisions = Current - 1
  /\ RoundOpen => question = None
  /\ campaign \in {"discovery", "reconciliation"} => RoundOpen /\ Current = 1
  /\ revisions <= maxRevisions
  /\ RevisionDue => revisions < maxRevisions

(* Where the findings and the rows of the rounds stand to each other.      *)
Unsettled(row) ==
  row.entry = "issued" /\ row.decision \in {None, "still_present", "insists"}

FindingsSeen ==
  \A f \in DOMAIN findings :
    /\ findings[f].first <= findings[f].opened
    /\ findings[f].opened <= Current
    /\ InRound(f, findings[f].opened)

RowsMatch ==
  /\ \A row, other \in rows :
       row.round = other.round /\ row.finding = other.finding => row = other
  /\ \A row \in rows :
       /\ row.entry = "post_check" =>
            /\ row.disposition = None /\ row.decision = None
            /\ findings[row.finding].opened >= row.round
       /\ row.entry = "issued" => row.round > 1
       /\ row.entry = "issued" /\ row.decision = None => row.round = Current /\ RoundOpen
       /\ Unsettled(row) /\ row.round = Current /\ RoundOpen =>
            /\ findings[row.finding].status = "open"
            /\ findings[row.finding].opened < row.round

ClosedLater ==
  \A f \in DOMAIN findings : findings[f].status # "open" =>
    findings[f].closed > findings[f].opened /\ findings[f].closed <= Current

LedgerInv ==
  /\ FindingsSeen /\ RowsMatch /\ ClosedLater
  /\ DisputesReachHuman /\ CleanIsSettled /\ NothingForgotten

(* The inductive invariant.                                                *)
CycleInv == CycleTypeOK /\ RoundsInOrder /\ Alternation /\ LedgerInv

-----------------------------------------------------------------------------
USE CycleAssumption DEF CycleAssumption

LEMMA CurrentExists ==
  ASSUME CycleTypeOK
  PROVE  /\ Current \in Nat \ {0} /\ Current \in DOMAIN rounds
         /\ DOMAIN rounds = 1..Current
         /\ \A r \in DOMAIN rounds : rounds[r] \in Round
BY DEF CycleTypeOK, Current

(* close_round touches the result of the last round and nothing else.      *)
LEMMA ClosingARound ==
  ASSUME CycleTypeOK, NEW result \in Results, CloseRound(result)
  PROVE  /\ RoundOpen /\ ~RoundOpen'
         /\ rounds' \in Seq(Round) /\ Len(rounds') = Len(rounds)
         /\ rounds'[Current].result = result
         /\ \A r \in DOMAIN rounds :
              /\ rounds'[r].kind = rounds[r].kind
              /\ rounds'[r].preceding = rounds[r].preceding
              /\ r # Current => rounds'[r] = rounds[r]
<1>1. rounds' = [rounds EXCEPT ![Current].result = result] /\ RoundOpen
  BY DEF CloseRound
<1>2. rounds[Current] \in Round /\ Current \in DOMAIN rounds /\ rounds \in Seq(Round)
  BY CurrentExists DEF CycleTypeOK
<1>3. [rounds[Current] EXCEPT !.result = result] \in Round
  BY <1>2 DEF Round
<1>4. rounds' \in Seq(Round) /\ Len(rounds') = Len(rounds)
  BY <1>1, <1>2, <1>3
<1>5. rounds'[Current] = [rounds[Current] EXCEPT !.result = result]
  BY <1>1, <1>2
<1>6. rounds'[Current].result = result
  BY <1>5, <1>2 DEF Round
<1>7. ~RoundOpen'
  BY <1>4, <1>6 DEF RoundOpen, Current, Results, None
<1>8. ASSUME NEW r \in DOMAIN rounds
      PROVE  /\ rounds'[r].kind = rounds[r].kind
             /\ rounds'[r].preceding = rounds[r].preceding
             /\ r # Current => rounds'[r] = rounds[r]
  BY <1>1, <1>2, <1>5 DEF Round
<1> QED
  BY <1>1, <1>4, <1>6, <1>7, <1>8

(* Adding a round leaves the others alone.                                 *)
LEMMA OpeningARound ==
  ASSUME CycleTypeOK, OpenCheck
  PROVE  /\ rounds' \in Seq(Round) /\ Len(rounds') = Len(rounds) + 1
         /\ rounds'[Current + 1] = [kind |-> "fix_check", preceding |-> revisions, result |-> None]
         /\ \A r \in DOMAIN rounds : rounds'[r] = rounds[r]
<1> DEFINE new == [kind |-> "fix_check", preceding |-> revisions, result |-> None]
<1>1. rounds' = Append(rounds, new) /\ rounds \in Seq(Round) /\ revisions \in Nat
  BY DEF OpenCheck, CycleTypeOK
<1>2. new \in Round
  BY <1>1 DEF Round
<1> HIDE DEF new
<1>3. rounds' \in Seq(Round) /\ Len(rounds') = Len(rounds) + 1
  BY <1>1, <1>2
<1>4. rounds'[Current + 1] = new /\ \A r \in DOMAIN rounds : rounds'[r] = rounds[r]
  BY <1>1, <1>2 DEF Current
<1> QED
  BY <1>3, <1>4 DEF new

(* What a resolution and a reopening make of a finding.                    *)
Resolve(x, s, n) == [x EXCEPT !.status = s, !.closed = n]
Reopen(x, n) == [x EXCEPT !.status = "open", !.opened = n]

LEMMA ResolvedFinding ==
  ASSUME NEW x \in Finding, NEW s \in Resolutions, NEW n \in Nat
  PROVE  /\ Resolve(x, s, n) \in Finding
         /\ Resolve(x, s, n).status = s /\ Resolve(x, s, n).closed = n
         /\ Resolve(x, s, n).first = x.first /\ Resolve(x, s, n).opened = x.opened
         /\ Resolve(x, s, n).grave = x.grave
<1> DEFINE z == [x EXCEPT !.status = s]
<1>1. /\ z \in Finding /\ z.status = s
      /\ z.first = x.first /\ z.opened = x.opened /\ z.closed = x.closed /\ z.grave = x.grave
  BY DEF Finding
<1>2. Resolve(x, s, n) = [z EXCEPT !.closed = n]
  BY DEF Resolve
<1> HIDE DEF z
<1> QED
  BY <1>1, <1>2 DEF Finding

LEMMA ReopenedFinding ==
  ASSUME NEW x \in Finding, NEW n \in Nat \ {0}
  PROVE  /\ Reopen(x, n) \in Finding
         /\ Reopen(x, n).status = "open" /\ Reopen(x, n).opened = n
         /\ Reopen(x, n).first = x.first /\ Reopen(x, n).closed = x.closed
         /\ Reopen(x, n).grave = x.grave
<1> DEFINE z == [x EXCEPT !.status = "open"]
<1>1. /\ z \in Finding /\ z.status = "open"
      /\ z.first = x.first /\ z.opened = x.opened /\ z.closed = x.closed /\ z.grave = x.grave
  BY DEF Finding
<1>2. Reopen(x, n) = [z EXCEPT !.opened = n]
  BY DEF Reopen
<1> HIDE DEF z
<1> QED
  BY <1>1, <1>2 DEF Finding

(* The four actions that write findings, finding by finding.               *)
LEMMA Created ==
  ASSUME CycleTypeOK, NEW grave \in BOOLEAN, CreateFinding(grave)
  PROVE  LET n == Len(findings) + 1
         IN  /\ n \in 1..MaxFindings
             /\ findings' \in Seq(Finding) /\ Len(findings') = n
             /\ DOMAIN findings' = DOMAIN findings \cup {n}
             /\ findings'[n].status = "open" /\ findings'[n].grave = grave
             /\ findings'[n].first = Current /\ findings'[n].opened = Current
             /\ \A f \in DOMAIN findings : f # n /\ findings'[f] = findings[f]
<1> DEFINE n == Len(findings) + 1
<1> DEFINE new == [first |-> Current, opened |-> Current, closed |-> 0,
                   grave |-> grave, status |-> "open"]
<1>1. /\ new \in Finding /\ new.status = "open" /\ new.grave = grave
      /\ new.first = Current /\ new.opened = Current
  BY CurrentExists DEF Finding
<1>2. findings' = Append(findings, new) /\ n <= MaxFindings
  BY DEF CreateFinding
<1>3. findings \in Seq(Finding)
  BY DEF CycleTypeOK
<1> HIDE DEF new
<1>4. /\ findings' \in Seq(Finding) /\ Len(findings') = n /\ n \in 1..MaxFindings
      /\ findings'[n] = new
      /\ \A f \in DOMAIN findings : f # n /\ findings'[f] = findings[f]
  BY <1>1, <1>2, <1>3
<1>5. DOMAIN findings' = DOMAIN findings \cup {n}
  <2>1. Len(findings) \in Nat /\ DOMAIN findings = 1..Len(findings) /\ DOMAIN findings' = 1..n
    BY <1>3, <1>4
  <2> QED
    BY ONLY <2>1
<1> QED
  BY <1>1, <1>4, <1>5

LEMMA Reopened ==
  ASSUME CycleTypeOK, NEW f \in 1..MaxFindings, TakeUpFinding(f), f \notin OpenFindings
  PROVE  /\ f \in DOMAIN findings
         /\ findings' \in Seq(Finding) /\ Len(findings') = Len(findings)
         /\ findings'[f].status = "open" /\ findings'[f].opened = Current
         /\ findings'[f].first = findings[f].first /\ findings'[f].grave = findings[f].grave
         /\ \A g \in DOMAIN findings : g # f => findings'[g] = findings[g]
<1>1. f \in DOMAIN findings
  BY DEF TakeUpFinding
<1>2. findings \in Seq(Finding) /\ findings[f] \in Finding
  BY <1>1 DEF CycleTypeOK
<1>3. findings' = [findings EXCEPT ![f] = Reopen(findings[f], Current)]
  BY <1>1 DEF TakeUpFinding, Reopen
<1>4. /\ Reopen(findings[f], Current) \in Finding
      /\ Reopen(findings[f], Current).status = "open"
      /\ Reopen(findings[f], Current).opened = Current
      /\ Reopen(findings[f], Current).first = findings[f].first
      /\ Reopen(findings[f], Current).grave = findings[f].grave
  BY <1>2, CurrentExists, ReopenedFinding
<1> QED
  BY <1>1, <1>2, <1>3, <1>4

LEMMA Decided ==
  ASSUME CycleTypeOK, NEW row \in rows, NEW d \in Decisions, RecordReviewerDecision(row, d)
  PROVE  /\ findings' \in Seq(Finding) /\ Len(findings') = Len(findings)
         /\ row.finding \in DOMAIN findings
         /\ \A f \in DOMAIN findings :
              /\ findings'[f].first = findings[f].first
              /\ findings'[f].opened = findings[f].opened
              /\ findings'[f].grave = findings[f].grave
              /\ f # row.finding \/ d \notin Resolutions => findings'[f] = findings[f]
              /\ f = row.finding /\ d \in Resolutions =>
                   findings'[f].status = d /\ findings'[f].closed = row.round
<1>1. /\ row.finding \in DOMAIN findings /\ row.round \in Nat
      /\ findings \in Seq(Finding) /\ findings[row.finding] \in Finding
  BY DEF CycleTypeOK, Row
<1>2. CASE d \notin Resolutions
  BY <1>1, <1>2 DEF RecordReviewerDecision
<1>3. CASE d \in Resolutions
  <2> DEFINE new == Resolve(findings[row.finding], d, row.round)
  <2>1. findings' = [findings EXCEPT ![row.finding] = new]
    BY <1>1, <1>3 DEF RecordReviewerDecision, Resolve
  <2>2. /\ new \in Finding /\ new.status = d /\ new.closed = row.round
        /\ new.first = findings[row.finding].first
        /\ new.opened = findings[row.finding].opened
        /\ new.grave = findings[row.finding].grave
    BY <1>1, <1>3, ResolvedFinding
  <2> HIDE DEF new
  <2> QED
    BY <1>1, <1>3, <2>1, <2>2
<1> QED
  BY <1>2, <1>3

LEMMA CheckClosed ==
  ASSUME CycleTypeOK, CloseCheck
  PROVE  /\ findings' \in Seq(Finding) /\ Len(findings') = Len(findings)
         /\ \A f \in DOMAIN findings :
              /\ findings'[f].first = findings[f].first
              /\ findings'[f].opened = findings[f].opened
              /\ findings'[f].grave = findings[f].grave
              /\ f \notin PolicyClosed => findings'[f] = findings[f]
              /\ f \in PolicyClosed =>
                   findings'[f].status = "policy_closed" /\ findings'[f].closed = Current
<1> DEFINE new(f) == Resolve(findings[f], "policy_closed", Current)
<1>1. \A f \in DOMAIN findings : findings[f] \in Finding
  BY DEF CycleTypeOK
<1>2. \A f \in DOMAIN findings :
        /\ new(f) \in Finding /\ new(f).status = "policy_closed" /\ new(f).closed = Current
        /\ new(f).first = findings[f].first /\ new(f).opened = findings[f].opened
        /\ new(f).grave = findings[f].grave
  <2>1. Current \in Nat /\ "policy_closed" \in Resolutions
    BY CurrentExists DEF Resolutions
  <2> QED
    BY <1>1, <2>1, ResolvedFinding
<1>3. findings' = [f \in 1..Len(findings) |-> IF f \in PolicyClosed THEN new(f) ELSE findings[f]]
  <2>1. DOMAIN findings = 1..Len(findings) /\ Len(findings) \in Nat
    BY DEF CycleTypeOK
  <2> QED
    BY <2>1 DEF CloseCheck, Resolve
<1> HIDE DEF new
<1>4. DOMAIN findings = 1..Len(findings) /\ Len(findings) \in Nat
  BY DEF CycleTypeOK
<1>5. findings' \in Seq(Finding) /\ Len(findings') = Len(findings)
  BY <1>1, <1>2, <1>3, <1>4
<1> QED
  BY <1>2, <1>3, <1>4, <1>5

-----------------------------------------------------------------------------
LEMMA TypeInit == CycleInit => CycleTypeOK
BY DEF CycleInit, CycleTypeOK, CampaignStates, Round, Results, None, Reasons

LEMMA TypeStep ==
  ASSUME CycleTypeOK, [CycleNext]_reviewVars
  PROVE  CycleTypeOK'
<1> USE DEF CycleTypeOK
<1>1. CASE CompleteDiscovery
  BY <1>1 DEF CompleteDiscovery, Transition
<1>2. CASE CloseDiscovery
  <2>1. \E result \in Results : CloseRound(result)
    BY <1>2 DEF CloseDiscovery, Results
  <2>2. rounds' \in Seq(Round) /\ Len(rounds') = Len(rounds)
    BY <2>1, ClosingARound
  <2>3. campaign' \in CampaignStates
    BY <1>2 DEF CloseDiscovery, Transition
  <2>4. UNCHANGED <<maxRevisions, revisions, findings, rows, question>>
    BY <1>2 DEF CloseDiscovery
  <2> QED
    BY <2>2, <2>3, <2>4
<1>3. CASE CreateAuthorRevision
  <2>1. revisions' \in 0..Len(rounds)
    BY <1>3 DEF CreateAuthorRevision, RevisionDue
  <2> QED
    BY <1>3, <2>1 DEF CreateAuthorRevision
<1>4. CASE OpenCheck
  <2>1. rounds' \in Seq(Round) /\ Len(rounds') = Len(rounds) + 1
    BY <1>4, OpeningARound
  <2>2. UNCHANGED <<campaign, maxRevisions, revisions, findings, rows, question>>
    BY <1>4 DEF OpenCheck
  <2>3. \A row \in rows : row.round \in DOMAIN rounds'
    BY <2>1
  <2> QED
    BY <2>1, <2>2, <2>3
<1>5. CASE CloseCheck
  <2>1. \E result \in Results : CloseRound(result)
    BY <1>5 DEF CloseCheck, CloseClean, AskDispute, StartAuthorRevision, AskCap, Results
  <2>2. rounds' \in Seq(Round) /\ Len(rounds') = Len(rounds)
    BY <2>1, ClosingARound
  <2>3. campaign' \in CampaignStates
    BY <1>5 DEF CloseCheck, CloseClean, AskDispute, StartAuthorRevision, AskCap, Transition
  <2>4. question' \in Reasons \cup {None}
    BY <1>5 DEF CloseCheck, CloseClean, AskDispute, StartAuthorRevision, AskCap, Reasons
  <2>5. UNCHANGED <<maxRevisions, revisions, rows>>
    BY <1>5 DEF CloseCheck
  <2>6. findings' \in Seq(Finding) /\ Len(findings') = Len(findings)
    BY <1>5, CheckClosed
  <2> QED
    BY <2>2, <2>3, <2>4, <2>5, <2>6
<1>6. ASSUME NEW f \in 1..MaxFindings, NEW disposition \in Dispositions,
             IssueFinding(f, disposition)
      PROVE  CycleTypeOK'
  <2> DEFINE new == [round |-> Current, finding |-> f, entry |-> "issued",
                     disposition |-> disposition, decision |-> None]
  <2>1. f \in DOMAIN findings
    BY <1>6 DEF IssueFinding, OpenFindings
  <2>2. new \in Row /\ new.round \in DOMAIN rounds /\ new.finding \in DOMAIN findings
    BY <2>1, CurrentExists DEF Row
  <2>3. rows' = rows \cup {new}
    BY <1>6 DEF IssueFinding
  <2>4. UNCHANGED <<campaign, maxRevisions, revisions, rounds, findings, question>>
    BY <1>6 DEF IssueFinding
  <2> HIDE DEF new
  <2> QED
    BY <2>2, <2>3, <2>4
<1>7. ASSUME NEW grave \in BOOLEAN, CreateFinding(grave)
      PROVE  CycleTypeOK'
  <2> DEFINE f == Len(findings) + 1
  <2>1. f \in 1..MaxFindings /\ findings' \in Seq(Finding) /\ Len(findings') = f
    BY <1>7, Created
  <2>2. PostCheck(f) \in Row /\ PostCheck(f).round = Current /\ PostCheck(f).finding = f
    BY <2>1, CurrentExists DEF Row, PostCheck, Dispositions, Decisions
  <2>3. rows' = rows \cup {PostCheck(f)}
    BY <1>7 DEF CreateFinding
  <2>4. UNCHANGED <<campaign, maxRevisions, revisions, rounds, question>>
    BY <1>7 DEF CreateFinding
  <2>5. \A row \in rows' : row.round \in DOMAIN rounds /\ row.finding \in 1..f
    BY <2>2, <2>3, CurrentExists
  <2> QED
    BY <2>1, <2>2, <2>3, <2>4, <2>5
<1>8. ASSUME NEW f \in 1..MaxFindings, TakeUpFinding(f)
      PROVE  CycleTypeOK'
  <2>1. /\ f \in DOMAIN findings /\ findings' \in Seq(Finding)
        /\ Len(findings') = Len(findings)
    <3>1. CASE f \in OpenFindings
      BY <1>8, <3>1 DEF TakeUpFinding
    <3>2. CASE f \notin OpenFindings
      BY <1>8, <3>2, Reopened
    <3> QED
      BY <3>1, <3>2
  <2>2. UNCHANGED <<campaign, maxRevisions, revisions, rounds, question>>
    BY <1>8 DEF TakeUpFinding
  <2>3. PostCheck(f) \in Row /\ PostCheck(f).round = Current /\ PostCheck(f).finding = f
    BY CurrentExists DEF Row, PostCheck, Dispositions, Decisions
  <2>4. rows' \subseteq rows \cup {PostCheck(f)}
    BY <1>8 DEF TakeUpFinding
  <2>5. \A row \in rows' : row \in Row /\ row.round \in DOMAIN rounds /\ row.finding \in DOMAIN findings
    BY <2>1, <2>3, <2>4, CurrentExists
  <2> QED
    BY <2>1, <2>2, <2>5
<1>9. ASSUME NEW row \in rows, NEW d \in Decisions, RecordReviewerDecision(row, d)
      PROVE  CycleTypeOK'
  <2> DEFINE decided == [row EXCEPT !.decision = d]
  <2>1. UNCHANGED <<campaign, maxRevisions, revisions, rounds, question>>
    BY <1>9 DEF RecordReviewerDecision
  <2>2. rows' = (rows \ {row}) \cup {decided}
    BY <1>9 DEF RecordReviewerDecision
  <2>3. decided \in Row /\ decided.round = row.round /\ decided.finding = row.finding
    BY DEF Row
  <2> HIDE DEF decided
  <2>4. \A other \in rows' : other \in Row /\ other.round \in DOMAIN rounds
                                           /\ other.finding \in DOMAIN findings
    BY <2>2, <2>3
  <2>5. findings' \in Seq(Finding) /\ Len(findings') = Len(findings)
    BY <1>9, Decided
  <2> QED
    BY <2>1, <2>4, <2>5
<1>10. CASE GrantRevision
  BY <1>10 DEF GrantRevision, Transition
<1>11. CASE Finalize
  BY <1>11 DEF Finalize, Transition
<1>12. CASE Cancel
  BY <1>12 DEF Cancel, Transition
<1>13. CASE UNCHANGED reviewVars
  BY <1>13 DEF reviewVars
<1> QED
  BY <1>1, <1>2, <1>3, <1>4, <1>5, <1>6, <1>7, <1>8, <1>9, <1>10, <1>11, <1>12, <1>13
     DEF CycleNext, Caller

-----------------------------------------------------------------------------
LEMMA WhereEventsLead ==
  ASSUME NEW event, Transition(event)
  PROVE  /\ event = "discovery_completed" =>
              campaign = "discovery" /\ campaign' = "reconciliation"
         /\ event = "reconciliation_has_findings" =>
              campaign = "reconciliation" /\ campaign' = "fix_cycle"
         /\ event = "reconciliation_clean" =>
              campaign = "reconciliation" /\ campaign' = "closed_clean"
         /\ event \in {"check_needs_revision", "human_gate_opened", "human_extra_revision"} =>
              campaign = "fix_cycle" /\ campaign' = "fix_cycle"
         /\ event = "check_clean" =>
              campaign = "fix_cycle" /\ campaign' = "closed_clean"
         /\ event = "human_finalized" =>
              campaign = "fix_cycle" /\ campaign' = "closed_escalated"
         /\ event = "cancelled" => campaign \notin Closed /\ campaign' = "closed_cancelled"
BY DEF Transition, Transitions, Closed

LEMMA OrderInit == CycleInit => RoundsInOrder /\ Alternation
BY DEF CycleInit, RoundsInOrder, Alternation, Current, RoundOpen, RevisionDue, Proceeds, None

(* A step that leaves the rounds alone leaves their order alone.           *)
LEMMA OrderKept ==
  ASSUME RoundsInOrder, UNCHANGED rounds
  PROVE  RoundsInOrder' /\ UNCHANGED <<Current, RoundOpen>>
BY DEF RoundsInOrder, Current, RoundOpen

(* After a round is closed every round is.                                 *)
LEMMA OrderAfterClosing ==
  ASSUME CycleTypeOK, RoundsInOrder, NEW result \in Results, CloseRound(result)
  PROVE  RoundsInOrder' /\ UNCHANGED Current /\ ~RoundOpen'
<1>1. UNCHANGED Current /\ ~RoundOpen' /\ DOMAIN rounds' = DOMAIN rounds
  BY ClosingARound, CurrentExists DEF Current, CycleTypeOK
<1>2. ASSUME NEW r \in DOMAIN rounds
      PROVE  /\ rounds'[r].preceding = r - 1
             /\ rounds'[r].kind = IF r = 1 THEN "discovery" ELSE "fix_check"
             /\ r # Current => rounds'[r].result # None
  BY ClosingARound DEF RoundsInOrder
<1> QED
  BY <1>1, <1>2 DEF RoundsInOrder

LEMMA OrderStep ==
  ASSUME CycleTypeOK, RoundsInOrder, Alternation, [CycleNext]_reviewVars
  PROVE  RoundsInOrder' /\ Alternation'
<1>0. Current \in Nat \ {0} /\ revisions \in Nat /\ maxRevisions \in Nat \ {0}
  BY CurrentExists DEF CycleTypeOK
<1>1. CASE CompleteDiscovery
  BY <1>1, OrderKept, WhereEventsLead DEF CompleteDiscovery, Alternation, RevisionDue, Proceeds
<1>2. CASE CloseDiscovery
  <2>1. PICK result \in Results : CloseRound(result)
    BY <1>2 DEF CloseDiscovery, Results
  <2>2. RoundsInOrder' /\ UNCHANGED Current /\ ~RoundOpen'
    BY <2>1, OrderAfterClosing
  <2>3. campaign = "reconciliation" /\ campaign' \in {"fix_cycle", "closed_clean"}
    BY <1>2, WhereEventsLead DEF CloseDiscovery
  <2>4. UNCHANGED <<maxRevisions, revisions, question>>
    BY <1>2 DEF CloseDiscovery
  <2>5. Current = 1 /\ RoundOpen
    BY <2>3 DEF Alternation
  <2> QED
    BY <1>0, <2>2, <2>3, <2>4, <2>5 DEF Alternation
<1>3. CASE CreateAuthorRevision
  BY <1>0, <1>3, OrderKept DEF CreateAuthorRevision, RevisionDue, Proceeds, Alternation, Current
<1>4. CASE OpenCheck
  <2>1. /\ rounds' \in Seq(Round) /\ Current' = Current + 1 /\ DOMAIN rounds' = 1..Current'
        /\ rounds'[Current'] = [kind |-> "fix_check", preceding |-> revisions, result |-> None]
    BY <1>4, OpeningARound, CurrentExists DEF Current
  <2>2. /\ campaign = "fix_cycle" /\ ~RoundOpen /\ question = None /\ revisions = Current
        /\ UNCHANGED <<campaign, maxRevisions, revisions, findings, rows, question>>
    BY <1>4 DEF OpenCheck, CheckDue, Proceeds, Current
  <2>3. ASSUME NEW r \in DOMAIN rounds
        PROVE  /\ rounds'[r] = rounds[r] /\ r # Current'
               /\ rounds'[r].preceding = r - 1
               /\ rounds'[r].kind = IF r = 1 THEN "discovery" ELSE "fix_check"
               /\ rounds'[r].result # None
    BY <1>0, <1>4, <2>1, <2>2, OpeningARound, CurrentExists DEF RoundsInOrder, RoundOpen
  <2>4. RoundsInOrder'
    <3>1. SUFFICES ASSUME NEW r \in 1..(Current + 1)
                   PROVE  /\ rounds'[r].preceding = r - 1
                          /\ rounds'[r].kind = IF r = 1 THEN "discovery" ELSE "fix_check"
                          /\ r # Current + 1 => rounds'[r].result # None
      BY <2>1 DEF RoundsInOrder
    <3>2. CASE r = Current + 1
      BY <1>0, <2>1, <2>2, <3>2
    <3>3. CASE r # Current + 1
      BY <1>0, <2>3, <3>3, CurrentExists
    <3> QED
      BY <3>2, <3>3
  <2>5. RoundOpen'
    BY <2>1 DEF RoundOpen
  <2> QED
    BY <1>0, <2>1, <2>2, <2>4, <2>5 DEF Alternation, RevisionDue, Proceeds
<1>5. CASE CloseCheck
  <2>1. PICK result \in Results : CloseRound(result)
    BY <1>5 DEF CloseCheck, CloseClean, AskDispute, StartAuthorRevision, AskCap, Results
  <2>2. RoundsInOrder' /\ UNCHANGED Current /\ ~RoundOpen' /\ RoundOpen
    BY <2>1, OrderAfterClosing DEF CloseRound
  <2>3. UNCHANGED <<maxRevisions, revisions>>
    BY <1>5 DEF CloseCheck
  <2>4. \/ campaign' = "closed_clean" /\ UNCHANGED question
        \/ campaign' = "fix_cycle" /\ question' # None
        \/ campaign' = "fix_cycle" /\ UNCHANGED question /\ revisions < maxRevisions
    <3>1. CASE CloseClean
      BY <3>1, WhereEventsLead DEF CloseClean
    <3>2. CASE AskDispute
      BY <3>2, WhereEventsLead DEF AskDispute, None
    <3>3. CASE StartAuthorRevision
      BY <3>3, WhereEventsLead DEF StartAuthorRevision, RevisionsLeft
    <3>4. CASE AskCap
      BY <3>4, WhereEventsLead DEF AskCap, None
    <3> QED
      BY <1>5, <3>1, <3>2, <3>3, <3>4 DEF CloseCheck
  <2> QED
    BY <1>0, <2>2, <2>3, <2>4 DEF Alternation, RevisionDue, Proceeds
<1>6. ASSUME NEW f \in 1..MaxFindings, NEW disposition \in Dispositions,
             IssueFinding(f, disposition)
      PROVE  RoundsInOrder' /\ Alternation'
  BY <1>6, OrderKept DEF IssueFinding, Alternation, RevisionDue, Proceeds
<1>7. ASSUME NEW grave \in BOOLEAN, CreateFinding(grave)
      PROVE  RoundsInOrder' /\ Alternation'
  BY <1>7, OrderKept DEF CreateFinding, Alternation, RevisionDue, Proceeds
<1>8. ASSUME NEW f \in 1..MaxFindings, TakeUpFinding(f)
      PROVE  RoundsInOrder' /\ Alternation'
  BY <1>8, OrderKept DEF TakeUpFinding, Alternation, RevisionDue, Proceeds
<1>9. ASSUME NEW row \in rows, NEW d \in Decisions, RecordReviewerDecision(row, d)
      PROVE  RoundsInOrder' /\ Alternation'
  BY <1>9, OrderKept DEF RecordReviewerDecision, Alternation, RevisionDue, Proceeds
<1>10. CASE GrantRevision
  <2>1. /\ campaign = "fix_cycle" /\ UNCHANGED campaign
        /\ question # None /\ question' = None
        /\ maxRevisions' = maxRevisions + 1 /\ UNCHANGED <<revisions, rounds>>
    BY <1>10, WhereEventsLead DEF GrantRevision
  <2> QED
    BY <1>0, <2>1, OrderKept DEF Alternation, RevisionDue, Proceeds
<1>11. CASE Finalize
  <2>1. campaign' = "closed_escalated" /\ question' = None
        /\ question # None /\ UNCHANGED <<maxRevisions, revisions, rounds>>
    BY <1>11, WhereEventsLead DEF Finalize
  <2> QED
    BY <1>0, <2>1, OrderKept DEF Alternation, RevisionDue, Proceeds
<1>12. CASE Cancel
  <2>1. campaign' = "closed_cancelled" /\ UNCHANGED <<maxRevisions, revisions, rounds, question>>
    BY <1>12, WhereEventsLead DEF Cancel
  <2> QED
    BY <1>0, <2>1, OrderKept DEF Alternation, RevisionDue, Proceeds
<1>13. CASE UNCHANGED reviewVars
  BY <1>13, OrderKept DEF reviewVars, Alternation, RevisionDue, Proceeds
<1> QED
  BY <1>1, <1>2, <1>3, <1>4, <1>5, <1>6, <1>7, <1>8, <1>9, <1>10, <1>11, <1>12, <1>13
     DEF CycleNext, Caller

-----------------------------------------------------------------------------
LEMMA LedgerInit == CycleInit => LedgerInv
BY DEF CycleInit, LedgerInv, FindingsSeen, RowsMatch, ClosedLater, DisputesReachHuman,
       CleanIsSettled, NothingForgotten

(* What the records of a state are, for use in the steps.                  *)
LEMMA LedgerFacts ==
  ASSUME CycleTypeOK, RoundsInOrder, LedgerInv
  PROVE  /\ Current \in Nat \ {0} /\ DOMAIN rounds = 1..Current
         /\ \A row \in rows :
              /\ row.round \in 1..Current /\ row.finding \in DOMAIN findings
              /\ row.entry \in {"issued", "post_check"}
              /\ row.decision # None => row.entry = "issued"
              /\ row.disposition # None => row.entry = "issued"
         /\ \A f \in DOMAIN findings :
              /\ findings[f].opened \in 1..Current /\ findings[f].closed \in Nat
              /\ findings[f].first \in 1..findings[f].opened
<1>1. Current \in Nat \ {0} /\ DOMAIN rounds = 1..Current
  BY CurrentExists
<1>2. ASSUME NEW row \in rows
      PROVE  /\ row.round \in 1..Current /\ row.finding \in DOMAIN findings
             /\ row.entry \in {"issued", "post_check"}
             /\ row.decision # None => row.entry = "issued"
             /\ row.disposition # None => row.entry = "issued"
  <2>1. row \in Row /\ row.round \in 1..Current /\ row.finding \in DOMAIN findings
    BY <1>1 DEF CycleTypeOK
  <2>2. row.entry \in {"issued", "post_check"}
    BY <2>1 DEF Row
  <2> QED
    BY <2>1, <2>2 DEF LedgerInv, RowsMatch
<1>3. ASSUME NEW f \in DOMAIN findings
      PROVE  /\ findings[f].opened \in 1..Current /\ findings[f].closed \in Nat
             /\ findings[f].first \in 1..findings[f].opened
  <2>1. findings[f] \in Finding
    BY DEF CycleTypeOK
  <2>2. /\ findings[f].opened \in Nat \ {0} /\ findings[f].closed \in Nat
        /\ findings[f].first \in Nat \ {0}
    BY <2>1 DEF Finding
  <2>3. findings[f].first <= findings[f].opened /\ findings[f].opened <= Current
    BY DEF LedgerInv, FindingsSeen
  <2> QED
    BY <1>1, <2>2, <2>3
<1> QED
  BY <1>1, <1>2, <1>3

(* Steps that write neither rounds, nor findings, nor rows.                *)
LEMMA LedgerUntouched ==
  ASSUME LedgerInv, UNCHANGED <<rounds, findings, rows>>,
         campaign' = "closed_clean" => campaign = "closed_clean"
  PROVE  LedgerInv'
BY DEF LedgerInv, FindingsSeen, RowsMatch, ClosedLater, DisputesReachHuman, CleanIsSettled,
       NothingForgotten, Current, RoundOpen, RowsOf, InRound, OpenFindings, Unsettled

(* A new check finds no row of its own, and none undecided.                *)
LEMMA LedgerOpening ==
  ASSUME CycleTypeOK, RoundsInOrder, LedgerInv, OpenCheck
  PROVE  LedgerInv'
<1>1. /\ UNCHANGED <<campaign, findings, rows>> /\ campaign = "fix_cycle" /\ ~RoundOpen
      /\ Current' = Current + 1
      /\ rounds'[Current + 1].result = None
      /\ \A r \in DOMAIN rounds : rounds'[r] = rounds[r]
  BY OpeningARound DEF OpenCheck, CheckDue, Proceeds, Current
<1>2. FindingsSeen'
  BY <1>1, LedgerFacts DEF LedgerInv, FindingsSeen, InRound, RowsOf
<1>3. RowsMatch'
  BY <1>1, LedgerFacts DEF LedgerInv, RowsMatch, Unsettled
<1>4. ClosedLater'
  BY <1>1, LedgerFacts DEF LedgerInv, ClosedLater
<1>5. DisputesReachHuman'
  BY <1>1, LedgerFacts DEF LedgerInv, DisputesReachHuman
<1>6. CleanIsSettled'
  BY <1>1 DEF CleanIsSettled
<1>7. NothingForgotten'
  <2> SUFFICES ASSUME NEW r \in 2..Len(rounds'), NEW f \in DOMAIN findings,
                      rounds'[r].result # None, findings[f].status = "open",
                      findings[f].opened < r
               PROVE  \E row \in RowsOf(r) : /\ row.finding = f /\ row.entry = "issued"
                                             /\ row.decision # None
    BY <1>1 DEF NothingForgotten, RowsOf
  <2>1. r \in 2..Current
    BY <1>1, LedgerFacts DEF Current
  <2> QED
    BY <1>1, <2>1, LedgerFacts DEF LedgerInv, NothingForgotten, Current
<1> QED
  BY <1>2, <1>3, <1>4, <1>5, <1>6, <1>7 DEF LedgerInv

(* Nothing is issued in the discovery round.                               *)
LEMMA LedgerClosingDiscovery ==
  ASSUME CycleTypeOK, RoundsInOrder, Alternation, LedgerInv, CloseDiscovery
  PROVE  LedgerInv'
<1>1. PICK result \in Results : CloseRound(result)
  BY DEF CloseDiscovery, Results
<1>2. UNCHANGED <<Current, findings, rows>> /\ ~RoundOpen' /\ RoundOpen /\ Current = 1
  BY <1>1, OrderAfterClosing DEF CloseRound, CloseDiscovery, Alternation
<1>3. FindingsSeen'
  BY <1>2 DEF LedgerInv, FindingsSeen, InRound, RowsOf
<1>4. \A row \in rows : row.entry = "post_check"
  BY <1>2, LedgerFacts DEF LedgerInv, RowsMatch
<1>5. RowsMatch'
  BY <1>2, <1>4 DEF LedgerInv, RowsMatch, Unsettled
<1>6. ClosedLater'
  BY <1>2 DEF LedgerInv, ClosedLater
<1>7. DisputesReachHuman'
  BY <1>2, <1>4, LedgerFacts DEF DisputesReachHuman, None
<1>8. CleanIsSettled'
  <2>1. campaign' = "closed_clean" => OpenFindings = {}
    BY WhereEventsLead DEF CloseDiscovery
  <2> QED
    BY <1>2, <1>4, <2>1 DEF CleanIsSettled, OpenFindings
<1>9. NothingForgotten'
  BY <1>2, LedgerFacts DEF NothingForgotten, Current
<1> QED
  BY <1>3, <1>5, <1>6, <1>7, <1>8, <1>9 DEF LedgerInv

(* The gates, the policy closures and the decision of a check.             *)
LEMMA LedgerClosingCheck ==
  ASSUME CycleTypeOK, RoundsInOrder, LedgerInv, CloseCheck
  PROVE  LedgerInv'
<1>1. PICK result \in Results : CloseRound(result)
  BY DEF CloseCheck, CloseClean, AskDispute, StartAuthorRevision, AskCap, Results
<1>2. UNCHANGED <<Current, rows>> /\ ~RoundOpen' /\ RoundOpen
  BY <1>1, OrderAfterClosing DEF CloseRound, CloseCheck
<1>3. /\ DOMAIN findings' = DOMAIN findings
      /\ \A f \in DOMAIN findings :
           /\ findings'[f].first = findings[f].first
           /\ findings'[f].opened = findings[f].opened
           /\ findings'[f].grave = findings[f].grave
           /\ f \notin PolicyClosed => findings'[f] = findings[f]
           /\ f \in PolicyClosed =>
                findings'[f].status = "policy_closed" /\ findings'[f].closed = Current
  BY CheckClosed DEF CycleTypeOK
<1>4. \A row \in rows : row.entry = "issued" => row.decision # None
  <2>1. \A row \in rows : row.entry = "issued" /\ row.round = Current => row.decision # None
    BY DEF CloseCheck, GatesPassed, IncompleteIssued, RowsOf
  <2> QED
    BY <2>1 DEF LedgerInv, RowsMatch
<1>5. \A f \in Disputed : f \in OpenFindings /\ findings[f].opened < Current
  BY <1>2, LedgerFacts DEF Disputed, RowsOf, None, LedgerInv, RowsMatch, Unsettled
<1>6. FindingsSeen'
  BY <1>2, <1>3 DEF LedgerInv, FindingsSeen, InRound, RowsOf
<1>7. RowsMatch'
  BY <1>2, <1>3, <1>4, LedgerFacts DEF LedgerInv, RowsMatch, Unsettled
<1>8. ClosedLater'
  <2> SUFFICES ASSUME NEW f \in DOMAIN findings, findings'[f].status # "open"
               PROVE  findings'[f].closed > findings'[f].opened /\ findings'[f].closed <= Current
    BY <1>2, <1>3 DEF ClosedLater
  <2>1. CASE f \in PolicyClosed
    BY <1>3, <1>5, <2>1, LedgerFacts DEF PolicyClosed
  <2>2. CASE f \notin PolicyClosed
    BY <1>3, <2>2 DEF LedgerInv, ClosedLater
  <2> QED
    BY <2>1, <2>2
<1>9. DisputesReachHuman'
  <2> SUFFICES ASSUME NEW row \in rows, row.decision = "insists", findings'[row.finding].grave
               PROVE  rounds'[row.round].result \in {None, "escalated"}
    BY <1>2 DEF DisputesReachHuman
  <2>1. row.round \in DOMAIN rounds /\ row.finding \in DOMAIN findings /\ row.entry = "issued"
        /\ findings[row.finding].grave
    BY <1>3, LedgerFacts DEF None
  <2>2. CASE row.round # Current
    BY <1>1, <2>1, <2>2, ClosingARound DEF LedgerInv, DisputesReachHuman
  <2>3. CASE row.round = Current
    <3>1. row.finding \in Escalating
      BY <1>2, <2>1, <2>3 DEF LedgerInv, RowsMatch, Unsettled, Escalating, Disputed,
         OpenFindings, RowsOf
    <3>2. StillOpen # {} /\ Escalating # {}
      BY <3>1 DEF StillOpen, PolicyClosed, Escalating, Disputed
    <3>3. AskDispute
      BY <3>2 DEF CloseCheck, CloseClean, StartAuthorRevision, AskCap, NoDispute
    <3> QED
      BY <2>3, <3>3, ClosingARound DEF AskDispute, Results
  <2> QED
    BY <2>2, <2>3
<1>10. CleanIsSettled'
  <2> SUFFICES ASSUME campaign' = "closed_clean"
               PROVE  \A f \in DOMAIN findings : findings'[f].status # "open"
    BY <1>2, <1>3, <1>4 DEF CleanIsSettled, OpenFindings
  <2>1. CloseClean
    BY WhereEventsLead DEF CloseCheck, AskDispute, StartAuthorRevision, AskCap
  <2>2. OpenFindings \subseteq PolicyClosed
    BY <2>1 DEF CloseClean, StillOpen
  <2> QED
    BY <1>3, <2>2 DEF OpenFindings
<1>11. NothingForgotten'
  <2> SUFFICES ASSUME NEW r \in 2..Len(rounds), NEW f \in DOMAIN findings,
                      rounds'[r].result # None, findings'[f].status = "open",
                      findings[f].opened < r
               PROVE  \E row \in RowsOf(r) : /\ row.finding = f /\ row.entry = "issued"
                                             /\ row.decision # None
    BY <1>2, <1>3 DEF NothingForgotten, RowsOf, Current
  <2>1. findings[f].status = "open" /\ r \in DOMAIN rounds /\ f \in OpenFindings
    BY <1>3, LedgerFacts DEF Current, OpenFindings
  <2>2. CASE r # Current
    BY <1>1, <2>1, <2>2, ClosingARound DEF LedgerInv, NothingForgotten
  <2>3. CASE r = Current
    <3>1. PICK row \in RowsOf(r) : row.finding = f
      BY <2>1, <2>3 DEF CloseCheck, GatesPassed, MissingParticipation, InRound
    <3>2. row.entry = "issued"
      BY <2>1, <2>3, <3>1, LedgerFacts DEF LedgerInv, RowsMatch, RowsOf
    <3> QED
      BY <1>4, <3>1, <3>2 DEF RowsOf
  <2> QED
    BY <2>2, <2>3
<1> QED
  BY <1>6, <1>7, <1>8, <1>9, <1>10, <1>11 DEF LedgerInv

(* A finding issued in a round was opened in an earlier one.               *)
LEMMA LedgerIssuing ==
  ASSUME CycleTypeOK, RoundsInOrder, LedgerInv,
         NEW f \in 1..MaxFindings, NEW disposition \in Dispositions, IssueFinding(f, disposition)
  PROVE  LedgerInv'
<1> DEFINE new == [round |-> Current, finding |-> f, entry |-> "issued",
                   disposition |-> disposition, decision |-> None]
<1>1. /\ UNCHANGED <<campaign, rounds, findings, Current, RoundOpen>>
      /\ RoundOpen /\ rounds[Current].kind = "fix_check" /\ campaign = "fix_cycle"
      /\ f \in OpenFindings /\ ~InRound(f, Current) /\ rows' = rows \cup {new}
  BY DEF IssueFinding, Current, RoundOpen
<1>2. /\ new.round = Current /\ new.finding = f /\ new.entry = "issued" /\ new.decision = None
  OBVIOUS
<1>3. f \in DOMAIN findings /\ findings[f].status = "open" /\ findings[f].opened < Current
      /\ Current > 1
  BY <1>1, LedgerFacts, CurrentExists
     DEF OpenFindings, LedgerInv, FindingsSeen, InRound, RowsOf, RoundsInOrder
<1> HIDE DEF new
<1>4. FindingsSeen'
  BY <1>1 DEF LedgerInv, FindingsSeen, InRound, RowsOf
<1>5. RowsMatch'
  <2>1. ASSUME NEW row \in rows', NEW other \in rows',
               row.round = other.round, row.finding = other.finding
        PROVE  row = other
    BY <1>1, <1>2, <2>1 DEF LedgerInv, RowsMatch, InRound, RowsOf
  <2>2. ASSUME NEW row \in rows'
        PROVE  /\ row.entry = "post_check" =>
                    /\ row.disposition = None /\ row.decision = None
                    /\ findings[row.finding].opened >= row.round
               /\ row.entry = "issued" => row.round > 1
               /\ row.entry = "issued" /\ row.decision = None => row.round = Current /\ RoundOpen
               /\ Unsettled(row) /\ row.round = Current /\ RoundOpen =>
                    /\ findings[row.finding].status = "open"
                    /\ findings[row.finding].opened < row.round
    BY <1>1, <1>2, <1>3, <2>2 DEF LedgerInv, RowsMatch
  <2> QED
    BY <1>1, <2>1, <2>2 DEF RowsMatch, Unsettled
<1>6. ClosedLater'
  BY <1>1 DEF LedgerInv, ClosedLater
<1>7. DisputesReachHuman'
  BY <1>1, <1>2 DEF LedgerInv, DisputesReachHuman, None
<1>8. CleanIsSettled'
  BY <1>1 DEF CleanIsSettled
<1>9. NothingForgotten'
  BY <1>1 DEF LedgerInv, NothingForgotten, RowsOf, Current
<1> QED
  BY <1>4, <1>5, <1>6, <1>7, <1>8, <1>9 DEF LedgerInv

(* The row of a finding taken up in reconciliation.                        *)
LEMMA PostCheckRow ==
  ASSUME NEW f
  PROVE  /\ PostCheck(f).round = Current /\ PostCheck(f).finding = f
         /\ PostCheck(f).entry = "post_check"
         /\ PostCheck(f).disposition = None /\ PostCheck(f).decision = None
BY DEF PostCheck

LEMMA LedgerCreating ==
  ASSUME CycleTypeOK, RoundsInOrder, LedgerInv, NEW grave \in BOOLEAN, CreateFinding(grave)
  PROVE  LedgerInv'
<1> DEFINE n == Len(findings) + 1
<1> DEFINE new == PostCheck(n)
<1>1. /\ UNCHANGED <<campaign, rounds, Current, RoundOpen>>
      /\ RoundOpen /\ campaign \in {"reconciliation", "fix_cycle"}
      /\ rows' = rows \cup {new}
  BY DEF CreateFinding, Reconciling, GatesPassed, Current, RoundOpen
<1>2. /\ DOMAIN findings' = DOMAIN findings \cup {n}
      /\ findings'[n].status = "open"
      /\ findings'[n].first = Current /\ findings'[n].opened = Current
      /\ \A f \in DOMAIN findings : f # n /\ findings'[f] = findings[f]
  BY Created
<1>3. /\ new.round = Current /\ new.finding = n /\ new.entry = "post_check"
      /\ new.disposition = None /\ new.decision = None
  BY PostCheckRow
<1> HIDE DEF new, n
<1>4. FindingsSeen'
  BY <1>1, <1>2, <1>3, LedgerFacts DEF LedgerInv, FindingsSeen, InRound, RowsOf
<1>5. RowsMatch'
  <2>1. ASSUME NEW row \in rows', NEW other \in rows',
               row.round = other.round, row.finding = other.finding
        PROVE  row = other
    BY <1>1, <1>2, <1>3, <2>1, LedgerFacts DEF LedgerInv, RowsMatch
  <2>2. ASSUME NEW row \in rows'
        PROVE  /\ row.entry = "post_check" =>
                    /\ row.disposition = None /\ row.decision = None
                    /\ findings'[row.finding].opened >= row.round
               /\ row.entry = "issued" => row.round > 1
               /\ row.entry = "issued" /\ row.decision = None => row.round = Current /\ RoundOpen
               /\ Unsettled(row) /\ row.round = Current /\ RoundOpen =>
                    /\ findings'[row.finding].status = "open"
                    /\ findings'[row.finding].opened < row.round
    <3>1. CASE row = new
      BY <1>2, <1>3, <3>1, LedgerFacts DEF Unsettled
    <3>2. CASE row \in rows
      BY <1>2, <3>2, LedgerFacts DEF LedgerInv, RowsMatch
    <3> QED
      BY <1>1, <3>1, <3>2
  <2> QED
    BY <1>1, <2>1, <2>2 DEF RowsMatch, Unsettled
<1>6. ClosedLater'
  BY <1>1, <1>2 DEF LedgerInv, ClosedLater
<1>7. DisputesReachHuman'
  BY <1>1, <1>2, <1>3, LedgerFacts DEF LedgerInv, DisputesReachHuman, None
<1>8. CleanIsSettled'
  BY <1>1 DEF CleanIsSettled
<1>9. NothingForgotten'
  <2> SUFFICES ASSUME NEW r \in 2..Current, NEW f \in DOMAIN findings',
                      rounds[r].result # None, findings'[f].status = "open",
                      findings'[f].opened < r
               PROVE  \E row \in rows' : /\ row.round = r /\ row.finding = f
                                         /\ row.entry = "issued" /\ row.decision # None
    BY <1>1 DEF NothingForgotten, RowsOf, Current
  <2>1. f \in DOMAIN findings
    BY <1>2, LedgerFacts
  <2> QED
    BY <1>1, <1>2, <2>1 DEF LedgerInv, NothingForgotten, RowsOf, Current
<1> QED
  BY <1>4, <1>5, <1>6, <1>7, <1>8, <1>9 DEF LedgerInv

(* An open finding is in the round before reconciliation takes it up.      *)
LEMMA LedgerRecurrence ==
  ASSUME CycleTypeOK, RoundsInOrder, Alternation, LedgerInv,
         NEW f \in 1..MaxFindings, TakeUpFinding(f), f \in OpenFindings
  PROVE  LedgerInv'
<1>1. InRound(f, Current)
  <2>1. CASE GatesPassed
    BY <2>1 DEF GatesPassed, MissingParticipation
  <2>2. CASE campaign = "reconciliation"
    <3>1. Current = 1 /\ findings[f].opened \in 1..Current
      BY <2>2, LedgerFacts DEF Alternation, OpenFindings
    <3> QED
      BY <3>1 DEF LedgerInv, FindingsSeen, OpenFindings
  <2> QED
    BY <2>1, <2>2 DEF TakeUpFinding, Reconciling
<1> QED
  BY <1>1, LedgerUntouched DEF TakeUpFinding

(* A finding is reopened only in a round that has nothing unsettled of it. *)
LEMMA LedgerReopening ==
  ASSUME CycleTypeOK, RoundsInOrder, LedgerInv,
         NEW g \in 1..MaxFindings, TakeUpFinding(g), g \notin OpenFindings
  PROVE  LedgerInv'
<1> DEFINE new == PostCheck(g)
<1>1. /\ UNCHANGED <<campaign, rounds, Current, RoundOpen>>
      /\ RoundOpen /\ campaign \in {"reconciliation", "fix_cycle"}
      /\ rows' = rows \cup (IF InRound(g, Current) THEN {} ELSE {new})
  BY DEF TakeUpFinding, Reconciling, GatesPassed, Current, RoundOpen
<1>2. /\ DOMAIN findings' = DOMAIN findings /\ g \in DOMAIN findings
      /\ findings[g].status # "open"
      /\ findings'[g].status = "open" /\ findings'[g].opened = Current
      /\ findings'[g].first = findings[g].first /\ findings'[g].grave = findings[g].grave
      /\ \A f \in DOMAIN findings : f # g => findings'[f] = findings[f]
  BY Reopened DEF OpenFindings, CycleTypeOK
<1>3. /\ new.round = Current /\ new.finding = g /\ new.entry = "post_check"
      /\ new.disposition = None /\ new.decision = None
  BY PostCheckRow
<1>4. rows \subseteq rows' /\ \A row \in rows' : row \in rows \/ (row = new /\ ~InRound(g, Current))
  BY <1>1
<1> HIDE DEF new
<1>5. FindingsSeen'
  <2>1. \E row \in rows' : row.round = Current /\ row.finding = g
    BY <1>1, <1>3 DEF InRound, RowsOf
  <2>2. ASSUME NEW f \in DOMAIN findings
        PROVE  /\ findings'[f].first <= findings'[f].opened
               /\ findings'[f].opened <= Current
               /\ \E row \in rows' : row.round = findings'[f].opened /\ row.finding = f
    <3>1. CASE f = g
      BY <1>2, <2>1, <3>1, LedgerFacts
    <3>2. CASE f # g
      BY <1>2, <1>4, <3>2 DEF LedgerInv, FindingsSeen, InRound, RowsOf
    <3> QED
      BY <3>1, <3>2
  <2> QED
    BY <1>1, <1>2, <2>2 DEF FindingsSeen, InRound, RowsOf
<1>6. RowsMatch'
  <2>1. ASSUME NEW row \in rows', NEW other \in rows',
               row.round = other.round, row.finding = other.finding
        PROVE  row = other
    BY <1>3, <1>4, <2>1 DEF LedgerInv, RowsMatch, InRound, RowsOf
  <2>2. ASSUME NEW row \in rows'
        PROVE  /\ row.entry = "post_check" =>
                    /\ row.disposition = None /\ row.decision = None
                    /\ findings'[row.finding].opened >= row.round
               /\ row.entry = "issued" => row.round > 1
               /\ row.entry = "issued" /\ row.decision = None => row.round = Current /\ RoundOpen
               /\ Unsettled(row) /\ row.round = Current /\ RoundOpen =>
                    /\ findings'[row.finding].status = "open"
                    /\ findings'[row.finding].opened < row.round
    <3>1. CASE row = new
      BY <1>2, <1>3, <3>1, LedgerFacts DEF Unsettled
    <3>2. CASE row \in rows /\ row.finding # g
      BY <1>2, <3>2, LedgerFacts DEF LedgerInv, RowsMatch
    <3>3. CASE row \in rows /\ row.finding = g
      <4>1. /\ findings'[row.finding].opened >= row.round
            /\ ~(Unsettled(row) /\ row.round = Current /\ RoundOpen)
        BY <1>2, <3>3, LedgerFacts DEF LedgerInv, RowsMatch
      <4> QED
        BY <3>3, <4>1 DEF LedgerInv, RowsMatch
    <3> QED
      BY <1>4, <3>1, <3>2, <3>3
  <2> QED
    BY <1>1, <2>1, <2>2 DEF RowsMatch, Unsettled
<1>7. ClosedLater'
  BY <1>1, <1>2 DEF LedgerInv, ClosedLater
<1>8. DisputesReachHuman'
  BY <1>1, <1>2, <1>3, <1>4, LedgerFacts DEF LedgerInv, DisputesReachHuman, None
<1>9. CleanIsSettled'
  BY <1>1 DEF CleanIsSettled
<1>10. NothingForgotten'
  <2> SUFFICES ASSUME NEW r \in 2..Current, NEW f \in DOMAIN findings,
                      rounds[r].result # None, findings'[f].status = "open",
                      findings'[f].opened < r
               PROVE  \E row \in rows' : /\ row.round = r /\ row.finding = f
                                         /\ row.entry = "issued" /\ row.decision # None
    BY <1>1, <1>2 DEF NothingForgotten, RowsOf, Current
  <2>1. f # g
    BY <1>2, LedgerFacts
  <2> QED
    BY <1>2, <1>4, <2>1 DEF LedgerInv, NothingForgotten, RowsOf, Current
<1> QED
  BY <1>5, <1>6, <1>7, <1>8, <1>9, <1>10 DEF LedgerInv

(* What is decided is an open finding of the open round, opened before it. *)
LEMMA LedgerDeciding ==
  ASSUME CycleTypeOK, RoundsInOrder, LedgerInv,
         NEW old \in rows, NEW d \in Decisions, RecordReviewerDecision(old, d)
  PROVE  LedgerInv'
<1> DEFINE new == [old EXCEPT !.decision = d]
<1>1. /\ UNCHANGED <<campaign, rounds, Current, RoundOpen>>
      /\ old.decision = None /\ d \in Fitting(old.disposition)
      /\ rows' = (rows \ {old}) \cup {new}
  BY DEF RecordReviewerDecision, Undecided, Current, RoundOpen
<1>2. /\ new.round = old.round /\ new.finding = old.finding /\ new.entry = old.entry
      /\ new.disposition = old.disposition /\ new.decision = d
  BY DEF CycleTypeOK, Row
<1>3. old.entry = "issued"
  <2>1. old.disposition # None
    BY <1>1 DEF Fitting, None
  <2> QED
    BY <2>1, LedgerFacts
<1>4. /\ RoundOpen /\ old.round = Current /\ old.finding \in DOMAIN findings
      /\ findings[old.finding].status = "open" /\ findings[old.finding].opened < Current
  BY <1>1, <1>3, LedgerFacts DEF LedgerInv, RowsMatch, Unsettled
<1>5. /\ DOMAIN findings' = DOMAIN findings
      /\ \A f \in DOMAIN findings :
           /\ findings'[f].first = findings[f].first
           /\ findings'[f].opened = findings[f].opened
           /\ findings'[f].grave = findings[f].grave
           /\ f # old.finding \/ d \notin Resolutions => findings'[f] = findings[f]
           /\ f = old.finding /\ d \in Resolutions =>
                findings'[f].status = d /\ findings'[f].closed = old.round
  BY Decided DEF CycleTypeOK
<1>6. d # None /\ (d \notin Resolutions => d \in {"still_present", "insists"})
      /\ (d \in Resolutions => d # "open" /\ d \notin {"still_present", "insists"})
  BY DEF Decisions, Resolutions, None
<1> HIDE DEF new
<1>7. FindingsSeen'
  <2>1. ASSUME NEW f \in DOMAIN findings
        PROVE  \E row \in rows' : row.round = findings[f].opened /\ row.finding = f
    BY <1>1, <1>2 DEF LedgerInv, FindingsSeen, InRound, RowsOf
  <2> QED
    BY <1>1, <1>5, <2>1 DEF LedgerInv, FindingsSeen, InRound, RowsOf
<1>8. RowsMatch'
  <2>1. ASSUME NEW row \in rows', NEW other \in rows',
               row.round = other.round, row.finding = other.finding
        PROVE  row = other
    BY <1>1, <1>2, <2>1 DEF LedgerInv, RowsMatch
  <2>2. ASSUME NEW row \in rows'
        PROVE  /\ row.entry = "post_check" =>
                    /\ row.disposition = None /\ row.decision = None
                    /\ findings'[row.finding].opened >= row.round
               /\ row.entry = "issued" => row.round > 1
               /\ row.entry = "issued" /\ row.decision = None => row.round = Current /\ RoundOpen
               /\ Unsettled(row) /\ row.round = Current /\ RoundOpen =>
                    /\ findings'[row.finding].status = "open"
                    /\ findings'[row.finding].opened < row.round
    <3>1. CASE row = new
      <4>1. Unsettled(row) => findings'[row.finding].status = "open"
        BY <1>2, <1>4, <1>5, <1>6, <3>1 DEF Unsettled
      <4> QED
        BY <1>2, <1>3, <1>4, <1>5, <1>6, <3>1, <4>1 DEF LedgerInv, RowsMatch
    <3>2. CASE row \in rows /\ row # old
      <4>1. row.finding \in DOMAIN findings
        BY <3>2, LedgerFacts
      <4>2. row.round = Current => row.finding # old.finding
        BY <1>4, <3>2 DEF LedgerInv, RowsMatch
      <4> QED
        BY <1>5, <3>2, <4>1, <4>2 DEF LedgerInv, RowsMatch
    <3> QED
      BY <1>1, <3>1, <3>2
  <2> QED
    BY <1>1, <2>1, <2>2 DEF RowsMatch, Unsettled
<1>9. ClosedLater'
  BY <1>1, <1>4, <1>5, LedgerFacts DEF LedgerInv, ClosedLater
<1>10. DisputesReachHuman'
  <2>1. rounds[Current].result = None
    BY <1>4 DEF RoundOpen
  <2> QED
    BY <1>1, <1>2, <1>4, <1>5, <2>1, LedgerFacts DEF LedgerInv, DisputesReachHuman
<1>11. CleanIsSettled'
  BY <1>1, <1>3 DEF LedgerInv, CleanIsSettled
<1>12. NothingForgotten'
  <2> SUFFICES ASSUME NEW r \in 2..Current, NEW f \in DOMAIN findings,
                      rounds[r].result # None, findings'[f].status = "open",
                      findings[f].opened < r
               PROVE  \E row \in rows' : /\ row.round = r /\ row.finding = f
                                         /\ row.entry = "issued" /\ row.decision # None
    BY <1>1, <1>5 DEF NothingForgotten, RowsOf, Current
  <2>1. findings[f].status = "open"
    BY <1>4, <1>5
  <2>2. PICK row \in rows : /\ row.round = r /\ row.finding = f
                            /\ row.entry = "issued" /\ row.decision # None
    BY <2>1 DEF LedgerInv, NothingForgotten, RowsOf, Current
  <2> QED
    BY <1>1, <2>2
<1> QED
  BY <1>7, <1>8, <1>9, <1>10, <1>11, <1>12 DEF LedgerInv

LEMMA LedgerStep ==
  ASSUME CycleTypeOK, RoundsInOrder, Alternation, LedgerInv, [CycleNext]_reviewVars
  PROVE  LedgerInv'
<1>1. CASE CompleteDiscovery
  BY <1>1, LedgerUntouched, WhereEventsLead DEF CompleteDiscovery
<1>2. CASE CloseDiscovery
  BY <1>2, LedgerClosingDiscovery
<1>3. CASE CreateAuthorRevision
  BY <1>3, LedgerUntouched DEF CreateAuthorRevision
<1>4. CASE OpenCheck
  BY <1>4, LedgerOpening
<1>5. CASE CloseCheck
  BY <1>5, LedgerClosingCheck
<1>6. CASE \E f \in 1..MaxFindings, disposition \in Dispositions : IssueFinding(f, disposition)
  BY <1>6, LedgerIssuing
<1>7. CASE \E grave \in BOOLEAN : CreateFinding(grave)
  BY <1>7, LedgerCreating
<1>8. CASE \E f \in 1..MaxFindings : TakeUpFinding(f)
  BY <1>8, LedgerRecurrence, LedgerReopening
<1>9. CASE \E row \in rows, d \in Decisions : RecordReviewerDecision(row, d)
  BY <1>9, LedgerDeciding
<1>10. CASE GrantRevision \/ Finalize \/ Cancel
  BY <1>10, LedgerUntouched, WhereEventsLead DEF GrantRevision, Finalize, Cancel
<1>11. CASE UNCHANGED reviewVars
  BY <1>11, LedgerUntouched DEF reviewVars
<1> QED
  BY <1>1, <1>2, <1>3, <1>4, <1>5, <1>6, <1>7, <1>8, <1>9, <1>10, <1>11 DEF CycleNext, Caller

-----------------------------------------------------------------------------
(* CycleSpec keeps every value in its type: in particular, however findings *)
(* are created, reopened and closed, a finding_round row names a round and  *)
(* a finding that exist, and there is never a revision without a round it   *)
(* follows.                                                                 *)
THEOREM CycleTypeCorrect == CycleSpec => []CycleTypeOK
BY TypeInit, TypeStep, PTL DEF CycleSpec

LEMMA CycleInvariant == CycleSpec => []CycleInv
<1>1. CycleInit => CycleInv
  BY TypeInit, OrderInit, LedgerInit DEF CycleInv
<1>2. CycleInv /\ [CycleNext]_reviewVars => CycleInv'
  BY TypeStep, OrderStep, LedgerStep DEF CycleInv
<1> QED
  BY <1>1, <1>2, PTL DEF CycleSpec

(* The number of closed rounds, of which campaign_counters makes the count *)
(* of checks, follows from whether the last one is open.                   *)
LEMMA ChecksCounted ==
  CycleTypeOK /\ RoundsInOrder
    => ReviewCheckCount = IF RoundOpen THEN Current - 1 ELSE Current
<1> SUFFICES ASSUME CycleTypeOK, RoundsInOrder
             PROVE  ReviewCheckCount = IF RoundOpen THEN Current - 1 ELSE Current
  OBVIOUS
<1> DEFINE n == IF RoundOpen THEN Current - 1 ELSE Current
<1>1. n \in Nat
  BY CurrentExists
<1>2. {r \in DOMAIN rounds : rounds[r].result # None} = 1..n
  <2>1. ASSUME NEW r \in DOMAIN rounds
        PROVE  rounds[r].result # None <=> r \in 1..n
    BY <2>1, CurrentExists DEF RoundsInOrder, RoundOpen
  <2>2. \A r \in 1..n : r \in DOMAIN rounds
    BY CurrentExists
  <2> QED
    BY <2>1, <2>2
<1>3. Cardinality(1..n) = n
  <2> HIDE DEF n
  <2>1. Cardinality(1..n) = IF 1 > n THEN 0 ELSE n - 1 + 1
    BY <1>1, FS_Interval
  <2> QED
    BY <1>1, <2>1
<1> QED
  BY <1>2, <1>3 DEF ReviewCheckCount

(* A check of this caller is never refused by _validate_check_facts, for    *)
(* any cap and any number of revisions granted by humans: the number of    *)
(* revisions and the number of checks come from two tables, and meet       *)
(* whenever the gates of a check are passed.                               *)
THEOREM CheckNeverRefused == CycleSpec => []CheckAccepted
<1>1. CycleInv => CheckAccepted
  <2> SUFFICES ASSUME CycleInv, GatesPassed, campaign \notin Closed
               PROVE  CheckFactsValid
    BY DEF CheckAccepted
  <2>0. CycleTypeOK /\ RoundsInOrder /\ Alternation /\ LedgerInv
    BY DEF CycleInv
  <2>1. RoundOpen /\ Current # 1
    BY <2>0, CurrentExists DEF GatesPassed, RoundsInOrder
  <2>2. campaign = "fix_cycle"
    BY <2>0, <2>1 DEF Alternation, CycleTypeOK, CampaignStates, Closed
  <2>3. revisions <= maxRevisions /\ ReviewCheckCount = revisions
    BY <2>0, <2>1, ChecksCounted DEF Alternation
  <2>4. \A f \in StillOpen : findings[f].first <= Current
    BY <2>0, LedgerFacts DEF StillOpen, OpenFindings
  <2>5. Escalating \subseteq StillOpen
    BY DEF Escalating, StillOpen, PolicyClosed, Disputed
  <2> QED
    BY <2>2, <2>3, <2>4, <2>5 DEF CheckFactsValid
<1> QED
  BY <1>1, CycleInvariant, PTL

(* Whoever closes a finding - a reviewer who verifies the fix or accepts    *)
(* the reason, or the policy on mild disputes - does so on a later revision *)
(* than the one on which it was last opened, also when it is closed and    *)
(* reopened within a check (finding_round, record_reviewer_decision).      *)
THEOREM NeverClosedWhereSeen == CycleSpec => []ClosedByLaterRevision
<1>1. CycleInv => ClosedByLaterRevision
  <2> SUFFICES ASSUME CycleInv, NEW f \in DOMAIN findings, findings[f].status # "open"
               PROVE  /\ findings[f].closed > findings[f].opened
                      /\ rounds[findings[f].closed].preceding > rounds[findings[f].opened].preceding
    BY DEF ClosedByLaterRevision
  <2>1. /\ findings[f].opened \in 1..Current /\ findings[f].closed \in Nat
        /\ DOMAIN rounds = 1..Current /\ Current \in Nat
    BY LedgerFacts DEF CycleInv
  <2>2. findings[f].closed > findings[f].opened /\ findings[f].closed <= Current
    BY DEF CycleInv, LedgerInv, ClosedLater
  <2>3. /\ rounds[findings[f].closed].preceding = findings[f].closed - 1
        /\ rounds[findings[f].opened].preceding = findings[f].opened - 1
    BY <2>1, <2>2 DEF CycleInv, RoundsInOrder
  <2> QED
    BY <2>1, <2>2, <2>3
<1> QED
  BY <1>1, CycleInvariant, PTL

(* A check in which a reviewer insisted on a grave finding was escalated,  *)
(* whatever revisions were left (decide_after_check, evaluate_disputes).   *)
THEOREM GraveDisputesReachHuman == CycleSpec => []DisputesReachHuman
BY CycleInvariant, PTL DEF CycleInv, LedgerInv

(* The gates of close_round leave no finding of a closed check without an   *)
(* answer of the author and a decision of its owner.                        *)
THEOREM NoFindingForgotten == CycleSpec => []NothingForgotten
BY CycleInvariant, PTL DEF CycleInv, LedgerInv

(* A campaign becomes closed_clean with nothing open and nothing undecided, *)
(* and stays so.                                                            *)
THEOREM CleanCampaignSettled == CycleSpec => []CleanIsSettled
BY CycleInvariant, PTL DEF CycleInv, LedgerInv

(* The caps of INV-5 and INV-7 hold in every campaign: decide_after_check   *)
(* is asked before each revision, and decide_after_revision after it needs *)
(* no cap.                                                                 *)
THEOREM CapNeverExceeded == CycleSpec => []CapHeld
<1>1. CycleInv => CapHeld
  <2> SUFFICES ASSUME CycleTypeOK, RoundsInOrder, Alternation
               PROVE  revisions <= maxRevisions /\ ReviewCheckCount <= maxRevisions + 1
    BY DEF CapHeld, Contract!CapHeld, CycleInv
  <2>1. Current \in Nat /\ revisions \in Nat /\ maxRevisions \in Nat
    BY CurrentExists DEF CycleTypeOK
  <2>2. revisions \in {Current - 1, Current} /\ revisions <= maxRevisions
    BY DEF Alternation
  <2> QED
    BY <2>1, <2>2, ChecksCounted
<1> QED
  BY <1>1, CycleInvariant, PTL

-----------------------------------------------------------------------------
LEMMA StageOf ==
  /\ campaign \in Closed => Stage = "closed"
  /\ campaign \in {"discovery", "reconciliation"} => Stage = "first"
  /\ campaign = "fix_cycle" =>
       /\ question = "dispute" => Stage = "askingDispute"
       /\ question \in {"cap_exhausted_same", "cap_exhausted_new"} => Stage = "askingCap"
       /\ question = None /\ ~RoundOpen /\ revisions < Current => Stage = "revising"
       /\ question = None /\ (RoundOpen \/ ~(revisions < Current)) => Stage = "checking"
<1>1. ASSUME campaign \in Closed PROVE Stage = "closed"
  BY <1>1 DEF Stage
<1>2. ASSUME campaign \in {"discovery", "reconciliation"} PROVE Stage = "first"
  BY <1>2 DEF Stage, Closed
<1>3. ASSUME campaign = "fix_cycle", question = "dispute" PROVE Stage = "askingDispute"
  BY <1>3 DEF Stage, Closed
<1>4. ASSUME campaign = "fix_cycle", question \in {"cap_exhausted_same", "cap_exhausted_new"}
      PROVE  Stage = "askingCap"
  BY <1>4 DEF Stage, Closed, None
<1>5. ASSUME campaign = "fix_cycle", question = None
      PROVE  Stage = IF RevisionDue THEN "revising" ELSE "checking"
  BY <1>5 DEF Stage, Closed, Reasons, None
<1>6. ASSUME campaign = "fix_cycle", question = None
      PROVE  RevisionDue <=> ~RoundOpen /\ revisions < Current
  BY <1>6 DEF RevisionDue, Proceeds, Current
<1> QED
  BY <1>1, <1>2, <1>3, <1>4, <1>5, <1>6

(* The facts about a state from which its steps are read in the contract.  *)
CycleState ==
  /\ CycleTypeOK /\ Alternation
  /\ ReviewCheckCount = IF RoundOpen THEN Current - 1 ELSE Current
  /\ campaign \in Closed => Stage = "closed"
  /\ campaign \in {"discovery", "reconciliation"} => Stage = "first"
  /\ campaign = "fix_cycle" =>
       /\ question = "dispute" => Stage = "askingDispute"
       /\ question \in {"cap_exhausted_same", "cap_exhausted_new"} => Stage = "askingCap"
       /\ question = None /\ ~RoundOpen /\ revisions < Current => Stage = "revising"
       /\ question = None /\ (RoundOpen \/ ~(revisions < Current)) => Stage = "checking"

LEMMA ContractStep ==
  ASSUME RoundsInOrder, CycleState, CycleState', [CycleNext]_reviewVars
  PROVE  [Contract!ContractNext]_(Contract!contractVars)
<1> DEFINE Stutter == UNCHANGED <<Stage, revisions, ReviewCheckCount, maxRevisions>>
<1> SUFFICES \/ Contract!FirstCheck \/ Contract!Revise \/ Contract!Check
             \/ Contract!Extend \/ Contract!Close \/ Stutter
  BY DEF Contract!ContractNext, Contract!contractVars
<1>0. /\ Current \in Nat \ {0} /\ revisions \in Nat /\ maxRevisions \in Nat
      /\ Alternation /\ CycleTypeOK
  BY CurrentExists DEF CycleTypeOK, CycleState
<1>a. ASSUME UNCHANGED <<campaign, question, revisions, maxRevisions, rounds>>
      PROVE  Stutter
  <2>1. UNCHANGED <<Current, RoundOpen, ReviewCheckCount>>
    BY <1>a DEF Current, RoundOpen, ReviewCheckCount
  <2>2. UNCHANGED Stage
    BY <1>a, <2>1 DEF Stage, RevisionDue, Proceeds
  <2> QED
    BY <1>a, <2>1, <2>2
<1>1. CASE CompleteDiscovery
  <2>1. campaign = "discovery" /\ campaign' = "reconciliation"
    BY <1>1, WhereEventsLead DEF CompleteDiscovery
  <2>2. UNCHANGED <<maxRevisions, revisions, rounds>>
    BY <1>1 DEF CompleteDiscovery
  <2>3. UNCHANGED ReviewCheckCount
    BY <2>2 DEF ReviewCheckCount
  <2>4. Stage = "first" /\ Stage' = "first"
    BY <2>1 DEF CycleState
  <2> QED
    BY <2>2, <2>3, <2>4
<1>2. CASE CloseDiscovery
  <2>1. PICK result \in Results : CloseRound(result)
    BY <1>2 DEF CloseDiscovery, Results
  <2>2. UNCHANGED Current /\ ~RoundOpen' /\ RoundOpen
    BY <1>0, <2>1, OrderAfterClosing DEF CloseRound
  <2>3. campaign = "reconciliation" /\ campaign' \in {"fix_cycle", "closed_clean"}
    BY <1>2, WhereEventsLead DEF CloseDiscovery
  <2>4. UNCHANGED <<maxRevisions, revisions, question>>
    BY <1>2 DEF CloseDiscovery
  <2>5. Current = 1 /\ revisions = 0 /\ question = None
    BY <1>0, <2>2, <2>3 DEF Alternation
  <2>6. Stage = "first" /\ ReviewCheckCount' = 1
    BY <2>2, <2>3, <2>5 DEF CycleState
  <2>7. Stage' \in {"revising", "closed"}
    BY <2>2, <2>3, <2>4, <2>5 DEF CycleState, Closed
  <2> QED
    BY <2>4, <2>6, <2>7 DEF Contract!FirstCheck
<1>3. CASE CreateAuthorRevision
  <2>1. /\ campaign = "fix_cycle" /\ ~RoundOpen /\ question = None /\ revisions < Current
        /\ revisions' = revisions + 1 /\ UNCHANGED <<campaign, maxRevisions, rounds, question>>
    BY <1>3 DEF CreateAuthorRevision, RevisionDue, Proceeds, Current
  <2>2. UNCHANGED <<Current, RoundOpen, ReviewCheckCount>>
    BY <2>1 DEF Current, RoundOpen, ReviewCheckCount
  <2>3. revisions < maxRevisions /\ revisions' = Current
    BY <1>0, <1>3, <2>1 DEF Alternation, CreateAuthorRevision
  <2>4. Stage = "revising"
    BY <2>1 DEF CycleState
  <2>5. Stage' = "checking"
    BY <1>0, <2>1, <2>2, <2>3 DEF CycleState
  <2> QED
    BY <2>1, <2>2, <2>3, <2>4, <2>5 DEF Contract!Revise
<1>4. CASE OpenCheck
  <2>1. /\ Current' = Current + 1
        /\ rounds'[Current'] = [kind |-> "fix_check", preceding |-> revisions, result |-> None]
    BY <1>0, <1>4, OpeningARound, CurrentExists DEF Current
  <2>2. RoundOpen'
    BY <2>1 DEF RoundOpen
  <2>3. /\ campaign = "fix_cycle" /\ ~RoundOpen /\ question = None /\ revisions = Current
        /\ UNCHANGED <<campaign, maxRevisions, revisions, question>>
    BY <1>4 DEF OpenCheck, CheckDue, Proceeds, Current
  <2>4. Stage = "checking" /\ Stage' = "checking"
    BY <1>0, <2>2, <2>3 DEF CycleState
  <2>5. UNCHANGED ReviewCheckCount
    BY <1>0, <2>1, <2>2, <2>3 DEF CycleState
  <2> QED
    BY <2>3, <2>4, <2>5
<1>5. CASE CloseCheck
  <2>1. PICK result \in Results : CloseRound(result)
    BY <1>5 DEF CloseCheck, CloseClean, AskDispute, StartAuthorRevision, AskCap, Results
  <2>2. UNCHANGED Current /\ ~RoundOpen' /\ RoundOpen
    BY <1>0, <2>1, OrderAfterClosing DEF CloseRound
  <2>3. /\ UNCHANGED <<maxRevisions, revisions>> /\ campaign = "fix_cycle"
        /\ ReviewCheckCount = revisions
    BY <1>5 DEF CloseCheck, CheckFactsValid
  <2>4. question = None /\ revisions = Current - 1 /\ revisions <= maxRevisions
    BY <1>0, <2>2 DEF Alternation
  <2>5. Stage = "checking" /\ ReviewCheckCount' = ReviewCheckCount + 1
    BY <1>0, <2>2, <2>3, <2>4 DEF CycleState
  <2>6. \/ Stage' \in {"closed", "askingDispute"}
        \/ Stage' = "revising" /\ revisions < maxRevisions
        \/ Stage' = "askingCap" /\ revisions = maxRevisions
    <3>1. CASE CloseClean
      BY <3>1, WhereEventsLead DEF CloseClean, CycleState, Closed
    <3>2. CASE AskDispute
      BY <3>2, WhereEventsLead DEF AskDispute, CycleState
    <3>3. CASE StartAuthorRevision
      <4>1. campaign' = "fix_cycle" /\ question' = None /\ revisions < maxRevisions
        BY <2>4, <3>3, WhereEventsLead DEF StartAuthorRevision, RevisionsLeft
      <4>2. revisions' < Current'
        BY <1>0, <2>2, <2>3, <2>4
      <4> QED
        BY <2>2, <4>1, <4>2 DEF CycleState
    <3>4. CASE AskCap
      <4>1. /\ campaign' = "fix_cycle" /\ ~(revisions < maxRevisions)
            /\ question' \in {"cap_exhausted_same", "cap_exhausted_new"}
        BY <3>4, WhereEventsLead DEF AskCap, RevisionsLeft
      <4>2. revisions = maxRevisions
        BY <1>0, <2>4, <4>1
      <4> QED
        BY <4>1, <4>2 DEF CycleState
    <3> QED
      BY <1>5, <3>1, <3>2, <3>3, <3>4 DEF CloseCheck
  <2> QED
    BY <2>3, <2>5, <2>6 DEF Contract!Check
<1>6. ASSUME NEW f \in 1..MaxFindings, NEW disposition \in Dispositions,
             IssueFinding(f, disposition)
      PROVE  Stutter
  BY <1>6, <1>a DEF IssueFinding
<1>7. ASSUME NEW grave \in BOOLEAN, CreateFinding(grave)
      PROVE  Stutter
  BY <1>7, <1>a DEF CreateFinding
<1>8. ASSUME NEW f \in 1..MaxFindings, TakeUpFinding(f)
      PROVE  Stutter
  BY <1>8, <1>a DEF TakeUpFinding
<1>9. ASSUME NEW row \in rows, NEW d \in Decisions, RecordReviewerDecision(row, d)
      PROVE  Stutter
  BY <1>9, <1>a DEF RecordReviewerDecision
<1>10. CASE GrantRevision
  <2>1. /\ campaign = "fix_cycle" /\ UNCHANGED campaign
        /\ question # None /\ question' = None
        /\ maxRevisions' = maxRevisions + 1 /\ UNCHANGED <<revisions, rounds>>
    BY <1>10, WhereEventsLead DEF GrantRevision
  <2>2. UNCHANGED <<Current, RoundOpen, ReviewCheckCount>>
    BY <2>1 DEF Current, RoundOpen, ReviewCheckCount
  <2>3. ~RoundOpen /\ revisions < Current
    BY <1>0, <2>1 DEF Alternation
  <2>4. Stage \in {"askingDispute", "askingCap"}
    BY <1>0, <2>1 DEF CycleState, CycleTypeOK, Reasons
  <2>5. Stage' = "revising"
    BY <2>1, <2>2, <2>3 DEF CycleState
  <2> QED
    BY <2>1, <2>2, <2>4, <2>5 DEF Contract!Extend, Contract!Asking
<1>11. ASSUME campaign \notin Closed, campaign' \in Closed,
              UNCHANGED <<maxRevisions, revisions, rounds>>
       PROVE  Contract!Close
  <2>1. UNCHANGED ReviewCheckCount
    BY <1>11 DEF ReviewCheckCount
  <2>2. Stage' = "closed"
    BY <1>11 DEF CycleState
  <2>3. Stage # "closed"
    BY <1>11 DEF Stage
  <2> QED
    BY <1>11, <2>1, <2>2, <2>3 DEF Contract!Close
<1>12. CASE Finalize
  BY <1>11, <1>12, WhereEventsLead DEF Finalize, Closed
<1>13. CASE Cancel
  BY <1>11, <1>13, WhereEventsLead DEF Cancel, Closed
<1>14. CASE UNCHANGED reviewVars
  BY <1>14, <1>a DEF reviewVars
<1> QED
  BY <1>1, <1>2, <1>3, <1>4, <1>5, <1>6, <1>7, <1>8, <1>9, <1>10, <1>12, <1>13, <1>14
     DEF CycleNext, Caller

(* The rows the caller works from implement the revision contract: what is *)
(* stored by transition_campaign_state, create_author_revision,            *)
(* create_round and close_round, and counted by campaign_counters, is at   *)
(* every step either unchanged for the contract or one of its steps.       *)
THEOREM ImplementsContract == CycleSpec => KeepsContract
<1>1. CycleInit => Contract!ContractInit
  <2> SUFFICES ASSUME CycleInit
               PROVE  Stage = "first" /\ revisions = 0 /\ ReviewCheckCount = 0 /\ maxRevisions = Cap
    BY DEF Contract!ContractInit
  <2>1. Stage = "first" /\ revisions = 0 /\ maxRevisions = Cap
    BY StageOf DEF CycleInit
  <2>2. RoundOpen /\ Current = 1
    BY DEF CycleInit, RoundOpen, Current
  <2>3. ReviewCheckCount = 0
    BY <2>2, ChecksCounted, TypeInit, OrderInit
  <2> QED
    BY <2>1, <2>3
<1>2. CycleInv => RoundsInOrder /\ CycleState
  BY ChecksCounted, StageOf DEF CycleInv, CycleState
<1>3. CycleSpec => [](RoundsInOrder /\ CycleState)
  BY <1>2, CycleInvariant, PTL
<1>4. RoundsInOrder /\ CycleState /\ CycleState' /\ [CycleNext]_reviewVars
        => [Contract!ContractNext]_(Contract!contractVars)
  BY ContractStep
<1> QED
  BY <1>1, <1>3, <1>4, PTL DEF CycleSpec, KeepsContract, Contract!ContractSpec
=============================================================================
