------------------------ MODULE ReconciliationProofs ------------------------
(***************************************************************************)
(* Theorems about Reconciliation for any number of observations, any       *)
(* findings and lanes, any proposals and any number of attempts.           *)
(***************************************************************************)
EXTENDS Reconciliation, FiniteSetTheorems, SequenceTheorems, TLAPS

Id == Findings \cup {NoFinding}
TargetType == [finding : Id, index : Nat]
Link == [obs : Observations, target : TargetType,
         type : {"first_seen", "recurrence", "reaffirmation", "reopening"},
         by : {"reviewer", "reconciler", "reconcile_failed", "reopen_answer"}]
Row == [target : TargetType, owner : Lanes, entry : {"issued", "post_check"}]
Group == [obs : SUBSET (Observations \cup {Stranger}), outcome : DOMAIN LinkType,
          finding : Id, title : BOOLEAN, reason : BOOLEAN]
Choice == {"reopen", "keep_closed"}
Questions == UNION {[S -> SUBSET Observations] : S \in SUBSET Findings}
Replies == UNION {[S -> Choice] : S \in SUBSET Findings}
ResultType == [links : SUBSET Link, rows : SUBSET Row, requests : Questions,
               present : SUBSET TargetType]
Phases == {"drafting", "human_drafting", "decided", "asked", "written", "raised", "refused"}

ReconTypeOK ==
  /\ context \in {"discovery", "fix_check_new"}
  /\ lane \in [Observations -> Lanes] /\ ledger \in [Findings -> Statuses]
  /\ links \subseteq Link /\ rows \subseteq Row
  /\ proposal \in Seq(Group) /\ attempts \in Nat
  /\ result \in ResultType /\ answers \in Replies
  /\ phase \in Phases

-----------------------------------------------------------------------------
(* What was there before the reconciliation: what reviewers linked, and    *)
(* the rows that were issued.  It stays as it is.                          *)
Reviewed == {l \in links : l.by = "reviewer"}
Issued == {r \in rows : r.entry = "issued"}
ObsOf(ls) == {l.obs : l \in ls}
TargetsOf(x) == {y.target : y \in x}

ReviewedIsOpen ==
  /\ \A l \in Reviewed : /\ l.type = "recurrence" /\ Status(l.target.finding) = "open"
                         /\ l.target \in TargetsOf(Issued)
  /\ context = "discovery" => Reviewed = {} /\ Issued = {}

(* The type of a link agrees with what the ledger says of its finding, and *)
(* for a finding that a human closed with the answer of the human.         *)
Sound(l) ==
  LET f == l.target.finding IN
  \/ l.type = "first_seen" /\ f = NoFinding
  \/ l.type = "recurrence" /\ Status(f) = "open"
  \/ l.type = "reaffirmation" /\ Status(f) = "accepted_reason"
  \/ l.type = "reopening" /\ Status(f) \in {"accepted_reason", "verified_fixed"}
  \/ /\ Status(f) = "human_decision" /\ f \in DOMAIN answers
     /\ l.type = IF answers[f] = "reopen" THEN "reopening" ELSE "reaffirmation"

CountedTargets(ls) == TargetsOf({l \in ls : l.type \in Counted})

(* What holds of the intents from their making to the end.                 *)
Settled(r) ==
  /\ \A l \in r.links : Sound(l) /\ l.by # "reviewer"
  /\ r.rows = RowsFor(CountedTargets(r.links) \ TargetsOf(Issued), r.links)
  /\ r.present = TargetsOf(Issued)

(* What holds as long as questions may be open: the observations are those *)
(* that a reviewer linked, those linked by an intent, and those shown in a *)
(* question, each exactly once.                                            *)
Asked(r) == UNION {r.requests[f] : f \in DOMAIN r.requests}
Pending(r) ==
  /\ \A l \in r.links : Status(l.target.finding) # "human_decision" /\ l.by # "reopen_answer"
  /\ \A k, l \in r.links : k.obs = l.obs => k = l
  /\ ObsOf(r.links) \cap ObsOf(Reviewed) = {}
  /\ \A f \in DOMAIN r.requests :
       /\ Status(f) = "human_decision" /\ r.requests[f] # {}
       /\ r.requests[f] \cap (ObsOf(r.links) \cup ObsOf(Reviewed)) = {}
  /\ \A f, g \in DOMAIN r.requests : f # g => r.requests[f] \cap r.requests[g] = {}
  /\ Observations = ObsOf(Reviewed) \cup ObsOf(r.links) \cup Asked(r)

PhaseInv ==
  /\ phase \in {"drafting", "human_drafting", "decided"} =>
       links = Reviewed /\ rows = Issued /\ answers = NoAnswers
  /\ phase \in {"decided", "asked", "written"} => Settled(result)
  /\ phase \in {"decided", "asked"} => Pending(result)
  /\ phase \in {"asked", "written"} =>
       links = Reviewed \cup result.links /\ rows = Issued \cup result.rows
  /\ phase = "asked" => DOMAIN answers \subseteq DOMAIN result.requests
  /\ phase = "written" => Linked = Observations

ReconInv ==
  /\ ReconTypeOK
  /\ \A i \in DOMAIN proposal : proposal[i].obs # {}
  /\ ReviewedIsOpen
  /\ PhaseInv
  /\ NeverRefused

-----------------------------------------------------------------------------
(* The least of a set of lanes or of observations.                         *)

LEMMA LeastIsLeast ==
  ASSUME NEW S \in SUBSET Nat, S # {}
  PROVE  Least(S) \in S /\ \A n \in S : Least(S) <= n
<1> DEFINE Less == OpToRel(<, Nat)
<1>1. IsWellFoundedOn(Less, Nat)
  BY NatLessThanWellFounded, Zenon
<1>2. \A d, e \in Nat : <<d, e>> \in Less <=> d < e
  BY DEF OpToRel
<1>. HIDE DEF Less
<1>3. PICK k \in S : \A j \in S : ~(<<j, k>> \in Less)
  BY <1>1, WFMin
<1>4. \A j \in S : k <= j
  <2>. TAKE j \in S
  <2>1. j \in Nat /\ k \in Nat
    OBVIOUS
  <2>2. ~(j < k)
    BY <1>2, <1>3, <2>1
  <2>. QED BY <2>1, <2>2
<1>5. \E x \in S : \A y \in S : x <= y
  BY <1>3, <1>4
<1>. QED BY <1>5 DEF Least

LEMMA OwnerIsFirstReporter ==
  ASSUME ReconTypeOK, NEW obs \in SUBSET Observations, obs # {}
  PROVE  /\ Owner(obs) \in {lane[o] : o \in obs} /\ Owner(obs) \in Lanes
         /\ \A o \in obs : Owner(obs) <= lane[o]
<1> DEFINE reporters == {lane[o] : o \in obs}
<1>1. reporters \subseteq Lanes
  BY DEF ReconTypeOK
<1>2. reporters \subseteq Nat /\ reporters # {}
  BY <1>1, ReconciliationAssumption DEF ReconciliationAssumption
<1>3. Owner(obs) = Least(reporters)
  BY DEF Owner
<1>. HIDE DEF reporters
<1>4. Owner(obs) \in reporters /\ \A n \in reporters : Owner(obs) <= n
  BY <1>2, <1>3, LeastIsLeast
<1>. QED BY <1>1, <1>4 DEF reporters

(* Rows are made for targets that have a counted link, with its owner.     *)
LEMMA RowsForCounted ==
  ASSUME ReconTypeOK, NEW ls \in SUBSET Link, NEW ts \in SUBSET CountedTargets(ls)
  PROVE  /\ RowsFor(ts, ls) \subseteq Row
         /\ TargetsOf(RowsFor(ts, ls)) = ts
         /\ \A r \in RowsFor(ts, ls) :
              /\ r.entry = "post_check"
              /\ r.owner \in {lane[l.obs] : l \in LinksTo(r.target, ls)}
              /\ \A n \in {lane[l.obs] : l \in LinksTo(r.target, ls)} : r.owner <= n
         /\ \A q, r \in RowsFor(ts, ls) : q.target = r.target => q = r
<1>1. ASSUME NEW t \in ts
      PROVE  LET obs == {l.obs : l \in LinksTo(t, ls)}
             IN  t \in TargetType /\ obs \subseteq Observations /\ obs # {}
  <2>1. PICK l \in ls : l.type \in Counted /\ l.target = t
    BY DEF CountedTargets, TargetsOf
  <2>2. l \in LinksTo(t, ls)
    BY <2>1 DEF LinksTo
  <2>. QED BY <2>1, <2>2 DEF LinksTo, Link
<1>2. ASSUME NEW r \in RowsFor(ts, ls)
      PROVE  /\ r \in Row /\ r.target \in ts
             /\ r.entry = "post_check"
             /\ r.owner = Owner({l.obs : l \in LinksTo(r.target, ls)})
             /\ r.owner \in {lane[l.obs] : l \in LinksTo(r.target, ls)}
             /\ \A n \in {lane[l.obs] : l \in LinksTo(r.target, ls)} : r.owner <= n
  <2>1. PICK t \in ts : r = [target |-> t, owner |-> Owner({l.obs : l \in LinksTo(t, ls)}),
                             entry |-> "post_check"]
    BY DEF RowsFor
  <2> DEFINE obs == {l.obs : l \in LinksTo(t, ls)}
  <2>2. t \in TargetType /\ obs \subseteq Observations /\ obs # {}
    BY <1>1
  <2>3. {lane[o] : o \in obs} = {lane[l.obs] : l \in LinksTo(t, ls)}
    OBVIOUS
  <2>4. /\ r.target = t /\ r.entry = "post_check" /\ r.owner = Owner(obs)
    BY <2>1
  <2>. HIDE DEF obs
  <2>5. /\ Owner(obs) \in {lane[o] : o \in obs} /\ Owner(obs) \in Lanes
        /\ \A o \in obs : Owner(obs) <= lane[o]
    BY <2>2, OwnerIsFirstReporter
  <2>6. r \in Row
    BY <2>1, <2>2, <2>4, <2>5 DEF Row, obs
  <2>7. \A n \in {lane[l.obs] : l \in LinksTo(t, ls)} : r.owner <= n
    BY <2>3, <2>4, <2>5
  <2>. QED BY <2>3, <2>4, <2>5, <2>6, <2>7 DEF obs
<1>3. ASSUME NEW t \in ts PROVE t \in TargetsOf(RowsFor(ts, ls))
  <2>1. [target |-> t, owner |-> Owner({l.obs : l \in LinksTo(t, ls)}),
         entry |-> "post_check"] \in RowsFor(ts, ls)
    BY DEF RowsFor
  <2>. QED BY <2>1 DEF TargetsOf
<1>4. TargetsOf(RowsFor(ts, ls)) = ts
  BY <1>2, <1>3 DEF TargetsOf
<1>5. ASSUME NEW q \in RowsFor(ts, ls), NEW r \in RowsFor(ts, ls), q.target = r.target
      PROVE  q = r
  <2>1. PICK t \in ts : q = [target |-> t, owner |-> Owner({l.obs : l \in LinksTo(t, ls)}),
                             entry |-> "post_check"]
    BY DEF RowsFor
  <2>2. PICK u \in ts : r = [target |-> u, owner |-> Owner({l.obs : l \in LinksTo(u, ls)}),
                             entry |-> "post_check"]
    BY DEF RowsFor
  <2>3. t = u
    BY <1>5, <2>1, <2>2
  <2>. QED BY <2>1, <2>2, <2>3
<1>. QED BY <1>2, <1>4, <1>5

-----------------------------------------------------------------------------
(* The initial states.                                                     *)

LEMMA NothingAsked == NoAnswers \in Questions /\ NoAnswers \in Replies
<1>1. NoAnswers \in [{} -> SUBSET Observations] /\ NoAnswers \in [{} -> Choice]
  BY DEF NoAnswers
<1>2. {} \in SUBSET Findings
  OBVIOUS
<1>. QED BY <1>1, <1>2 DEF Questions, Replies

LEMMA InitInv == ReconInit => ReconInv
<1>. SUFFICES ASSUME ReconInit PROVE ReconInv
  OBVIOUS
<1>1. PICK issued \in SUBSET {f \in Findings : ledger[f] # "out_of_scope"}, owner \in Lanes :
       /\ rows = {[target |-> Existing(f), owner |-> owner, entry |-> "issued"] : f \in issued}
       /\ context = "discovery" => issued = {} /\ owner = Least(Lanes)
       /\ \/ links = {}
          \/ \E f \in issued :
               /\ N \in Observations /\ ledger[f] = "open" /\ owner = lane[N]
               /\ links = {[obs |-> N, target |-> Existing(f), type |-> "recurrence", by |-> "reviewer"]}
  BY DEF ReconInit
<1>2. rows \subseteq Row /\ rows = Issued
  <2>1. \A f \in issued : Existing(f) \in TargetType
    BY DEF Existing, TargetType, Id
  <2>2. \A r \in rows : r \in Row /\ r.entry = "issued"
    BY <1>1, <2>1 DEF Row
  <2>. QED BY <2>2 DEF Issued
<1>3. \A f \in issued : Existing(f) \in TargetsOf(Issued)
  <2>. TAKE f \in issued
  <2>1. [target |-> Existing(f), owner |-> owner, entry |-> "issued"] \in rows
    BY <1>1
  <2>. QED BY <1>2, <2>1 DEF TargetsOf
<1>4. /\ links \subseteq Link /\ links = Reviewed
      /\ \A l \in links : /\ l.type = "recurrence" /\ Status(l.target.finding) = "open"
                          /\ l.target \in TargetsOf(Issued)
      /\ context = "discovery" => links = {}
  <2>1. CASE links = {}
    BY <2>1 DEF Reviewed
  <2>2. ASSUME NEW f \in issued, N \in Observations, ledger[f] = "open", owner = lane[N],
               links = {[obs |-> N, target |-> Existing(f), type |-> "recurrence",
                         by |-> "reviewer"]}
        PROVE  /\ links \subseteq Link /\ links = Reviewed
               /\ \A l \in links : /\ l.type = "recurrence" /\ Status(l.target.finding) = "open"
                                   /\ l.target \in TargetsOf(Issued)
               /\ context = "discovery" => links = {}
    <3>1. Existing(f) \in TargetType /\ Existing(f).finding = f
      BY DEF Existing, TargetType, Id
    <3>2. Status(f) = "open"
      BY <2>2 DEF Status
    <3>3. links \subseteq Link
      BY <2>2, <3>1 DEF Link
    <3>4. links = Reviewed
      BY <2>2 DEF Reviewed
    <3>. QED BY <1>1, <1>3, <2>2, <3>1, <3>2, <3>3, <3>4
  <2>. QED BY <1>1, <2>1, <2>2
<1>5. context = "discovery" => Reviewed = {} /\ Issued = {}
  BY <1>1, <1>2, <1>4
<1>6. ReconTypeOK
  <2>1. result \in ResultType
    BY NothingAsked DEF ReconInit, NoResult, ResultType
  <2>. QED BY <1>2, <1>4, <2>1, NothingAsked DEF ReconInit, ReconTypeOK, Phases
<1>7. ReviewedIsOpen
  BY <1>4, <1>5 DEF ReviewedIsOpen
<1>8. PhaseInv /\ NeverRefused
  BY <1>2, <1>4 DEF PhaseInv, NeverRefused, ReconInit
<1>9. DOMAIN proposal = {}
  BY DEF ReconInit
<1>. QED BY <1>6, <1>7, <1>8, <1>9 DEF ReconInv

-----------------------------------------------------------------------------
(* A proposal is named and rejected without touching anything else.        *)

LEMMA DraftFrame ==
  ASSUME ReconInv,
         UNCHANGED <<context, lane, ledger, links, rows, result, answers>>,
         phase \in {"drafting", "human_drafting"}, phase' \in {"drafting", "human_drafting"},
         proposal' \in Seq(Group), \A i \in DOMAIN proposal' : proposal'[i].obs # {},
         attempts' \in Nat
  PROVE  ReconInv'
<1>. USE DEF ReconInv
<1>1. Reviewed' = Reviewed /\ Issued' = Issued
  BY DEF Reviewed, Issued
<1>2. ReconTypeOK'
  BY DEF ReconTypeOK, Phases
<1>3. ReviewedIsOpen'
  BY <1>1 DEF ReviewedIsOpen, Status, TargetsOf
<1>4. PhaseInv' /\ NeverRefused'
  BY <1>1 DEF PhaseInv, NeverRefused
<1>. QED BY <1>2, <1>3, <1>4

LEMMA ProposeGroupStep == ReconInv /\ ProposeGroup => ReconInv'
<1>. SUFFICES ASSUME ReconInv, ProposeGroup PROVE ReconInv'
  OBVIOUS
<1>1. PICK obs \in (SUBSET (Unlinked \ Named(proposal))) \ {{}},
           outcome \in DOMAIN LinkType, f \in Id :
        proposal' = Append(proposal, [obs |-> obs, outcome |-> outcome, finding |-> f,
                                      title |-> outcome = "new", reason |-> outcome = "reopen_closed"])
  BY DEF ProposeGroup, Id
<1> DEFINE g == [obs |-> obs, outcome |-> outcome, finding |-> f,
                 title |-> outcome = "new", reason |-> outcome = "reopen_closed"]
<1>2. g \in Group /\ g.obs # {}
  <2>1. \A title, reason \in BOOLEAN :
          [obs |-> obs, outcome |-> outcome, finding |-> f, title |-> title,
           reason |-> reason] \in Group
    BY DEF Group, Unlinked
  <2>2. (outcome = "new") \in BOOLEAN /\ (outcome = "reopen_closed") \in BOOLEAN
    OBVIOUS
  <2>. QED BY <2>1, <2>2, Zenon
<1>3. proposal \in Seq(Group) /\ \A i \in DOMAIN proposal : proposal[i].obs # {}
  BY DEF ReconInv, ReconTypeOK
<1>4. proposal' = Append(proposal, g)
  BY <1>1
<1>. HIDE DEF g
<1>5. proposal' \in Seq(Group) /\ \A i \in DOMAIN proposal' : proposal'[i].obs # {}
  BY <1>2, <1>3, <1>4
<1>. QED BY <1>5, DraftFrame DEF ProposeGroup, ReconInv, ReconTypeOK

LEMMA SpoilProposalStep == ReconInv /\ SpoilProposal => ReconInv'
<1>. SUFFICES ASSUME ReconInv, SpoilProposal PROVE ReconInv'
  OBVIOUS
<1>1. PICK o \in Observations \cup {Stranger} :
        \E g \in [obs : {{o}}, outcome : DOMAIN LinkType, finding : Id,
                   title : BOOLEAN, reason : BOOLEAN] : proposal' = Append(proposal, g)
  BY DEF SpoilProposal, Id
<1>2. PICK g \in [obs : {{o}}, outcome : DOMAIN LinkType, finding : Id,
                  title : BOOLEAN, reason : BOOLEAN] : proposal' = Append(proposal, g)
  BY <1>1
<1>3. g \in Group /\ g.obs # {}
  BY DEF Group
<1>4. proposal \in Seq(Group) /\ \A i \in DOMAIN proposal : proposal[i].obs # {}
  BY DEF ReconInv, ReconTypeOK
<1>5. proposal' \in Seq(Group) /\ \A i \in DOMAIN proposal' : proposal'[i].obs # {}
  BY <1>2, <1>3, <1>4
<1>. QED BY <1>5, DraftFrame DEF SpoilProposal, ReconInv, ReconTypeOK

LEMMA RejectAgentStep == ReconInv /\ RejectAgent => ReconInv'
<1>. SUFFICES ASSUME ReconInv, RejectAgent PROVE ReconInv'
  OBVIOUS
<1>1. proposal' \in Seq(Group) /\ DOMAIN proposal' = {}
  BY DEF RejectAgent
<1>2. attempts' \in Nat /\ phase = "drafting" /\ phase' \in {"drafting", "human_drafting"}
  BY DEF RejectAgent, ReconInv, ReconTypeOK
<1>. QED BY <1>1, <1>2, DraftFrame DEF RejectAgent

-----------------------------------------------------------------------------
(* What the contract lets pass, the domain lets pass.                      *)
LEMMA ContractImpliesDomain == ReconInv /\ ContractAccepts(proposal) => DomainAccepts(proposal)
<1>. SUFFICES ASSUME ReconInv, NEW i \in DOMAIN proposal, ContractGroup(proposal[i])
              PROVE  DomainGroup(proposal[i])
  BY DEF ContractAccepts, DomainAccepts
<1>. QED BY DEF ContractGroup, DomainGroup, MayName, Closed

(* What one accepted group is linked to.                                   *)
LEMMA GroupLink ==
  ASSUME ReconTypeOK, NEW i \in DOMAIN proposal, DomainGroup(proposal[i]),
         ~NeedsHuman(proposal[i]),
         NEW t, t = Target(proposal, i), NEW type, type = LinkType[proposal[i].outcome]
  PROVE  /\ t \in TargetType /\ Status(t.finding) # "human_decision"
         /\ \/ type = "first_seen" /\ t.finding = NoFinding
            \/ type = "recurrence" /\ Status(t.finding) = "open"
            \/ type = "reaffirmation" /\ Status(t.finding) = "accepted_reason"
            \/ type = "reopening" /\ Status(t.finding) \in {"accepted_reason", "verified_fixed"}
<1>1. proposal[i] \in Group
  BY DEF ReconTypeOK
<1>2. CASE proposal[i].outcome = "new"
  <2>1. NewIndex(proposal, i) \in Nat
    <3>1. Len(proposal) \in Nat /\ DOMAIN proposal = 1..Len(proposal)
      BY DEF ReconTypeOK
    <3>2. IsFiniteSet(DOMAIN proposal)
      BY <3>1, FS_Interval
    <3>3. IsFiniteSet({j \in DOMAIN proposal :
                         proposal[j].outcome = "new" /\ Before(proposal, j, i)})
      BY <3>2, FS_Subset
    <3>. QED BY <3>3, FS_CardinalityType DEF NewIndex
  <2>2. t = [finding |-> NoFinding, index |-> NewIndex(proposal, i)]
    BY <1>2 DEF Target, New
  <2>3. Status(NoFinding) = "out_of_scope"
    BY ReconciliationAssumption DEF ReconciliationAssumption, Status, NoFinding
  <2>. QED BY <1>2, <2>1, <2>2, <2>3 DEF TargetType, Id, LinkType
<1>3. CASE proposal[i].outcome # "new"
  <2>1. t = [finding |-> proposal[i].finding, index |-> 0]
    BY <1>3 DEF Target, Existing
  <2>2. t \in TargetType /\ t.finding = proposal[i].finding
    BY <1>1, <2>1 DEF TargetType, Group
  <2>3. proposal[i].outcome \in {"existing_open", "reaffirmed_closed", "reopen_closed"}
    BY <1>1, <1>3 DEF Group, LinkType
  <2>4. Status(t.finding) \in MayName[proposal[i].outcome]
    BY <1>3, <2>2 DEF DomainGroup
  <2>5. CASE proposal[i].outcome = "existing_open"
    BY <2>2, <2>4, <2>5 DEF MayName, LinkType
  <2>6. CASE proposal[i].outcome = "reaffirmed_closed"
    BY <2>2, <2>4, <2>6 DEF MayName, LinkType
  <2>7. CASE proposal[i].outcome = "reopen_closed"
    BY <2>2, <2>4, <2>7 DEF MayName, LinkType, NeedsHuman, Closed
  <2>. QED BY <2>3, <2>5, <2>6, <2>7
<1>. QED BY <1>2, <1>3

-----------------------------------------------------------------------------
(* What the domain makes of an accepted proposal.                          *)

LinksOf(p, i, by) ==
  {[obs |-> o, target |-> Target(p, i), type |-> LinkType[p[i].outcome], by |-> by] : o \in p[i].obs}
LinkedGroups(p) == {i \in DOMAIN p : ~NeedsHuman(p[i])}
AskedGroups(p, f) == {i \in DOMAIN p : NeedsHuman(p[i]) /\ p[i].finding = f}
AskedFindings(p) == {p[i].finding : i \in {i \in DOMAIN p : NeedsHuman(p[i])}}

LinksMade(p, by) == UNION {LinksOf(p, i, by) : i \in LinkedGroups(p)}
QuestionsMade(p) == [f \in AskedFindings(p) |-> UNION {p[i].obs : i \in AskedGroups(p, f)}]

LEMMA ReconcileParts ==
  ASSUME NEW p, NEW by
  PROVE  Reconcile(p, by) =
           [links |-> LinksMade(p, by),
            rows |-> RowsFor(CountedTargets(LinksMade(p, by)) \ Present, LinksMade(p, by)),
            requests |-> QuestionsMade(p), present |-> Present]
  BY DEF Reconcile, LinksMade, QuestionsMade, LinksOf, LinkedGroups, AskedGroups, AskedFindings, CountedTargets, TargetsOf

(* The groups of an accepted proposal share the observations out.          *)
LEMMA AcceptedGroups ==
  ASSUME ReconInv, DomainAccepts(proposal)
  PROVE  /\ Named(proposal) = Unlinked /\ Unlinked \subseteq Observations
         /\ \A i \in DOMAIN proposal :
              /\ DomainGroup(proposal[i]) /\ proposal[i].obs # {}
              /\ proposal[i].obs \subseteq Unlinked
         /\ \A i, j \in DOMAIN proposal : proposal[i].obs \cap proposal[j].obs # {} => i = j
         /\ \A o \in Unlinked : \E i \in DOMAIN proposal : o \in proposal[i].obs
<1>1. Named(proposal) = Unlinked /\ ~Overlap(proposal)
      /\ \A i \in DOMAIN proposal : DomainGroup(proposal[i])
  BY DEF DomainAccepts
<1>2. \A i \in DOMAIN proposal : proposal[i].obs \subseteq Unlinked
  BY <1>1 DEF Named
<1>3. \A o \in Unlinked : \E i \in DOMAIN proposal : o \in proposal[i].obs
  BY <1>1 DEF Named
<1>. QED BY <1>1, <1>2, <1>3 DEF Overlap, Unlinked, ReconInv

LEMMA ReconcileLinks ==
  ASSUME ReconInv, DomainAccepts(proposal), NEW by \in {"reconciler", "reconcile_failed"},
         NEW ls, ls = LinksMade(proposal, by)
  PROVE  /\ ls \subseteq Link
         /\ \A l \in ls : /\ Sound(l) /\ l.by = by /\ Status(l.target.finding) # "human_decision"
                          /\ \E i \in LinkedGroups(proposal) : l.obs \in proposal[i].obs
         /\ \A k, l \in ls : k.obs = l.obs => k = l
         /\ \A i \in LinkedGroups(proposal) : proposal[i].obs \subseteq ObsOf(ls)
<1>1. ASSUME NEW l \in ls
      PROVE  \E i \in LinkedGroups(proposal), o \in Observations :
               /\ o \in proposal[i].obs
               /\ l = [obs |-> o, target |-> Target(proposal, i),
                       type |-> LinkType[proposal[i].outcome], by |-> by]
  <2>1. PICK i \in LinkedGroups(proposal) : l \in LinksOf(proposal, i, by)
    BY DEF LinksMade
  <2>2. PICK o \in proposal[i].obs :
          l = [obs |-> o, target |-> Target(proposal, i),
               type |-> LinkType[proposal[i].outcome], by |-> by]
    BY <2>1 DEF LinksOf
  <2>3. o \in Observations
    BY AcceptedGroups DEF LinkedGroups
  <2>. QED BY <2>2, <2>3
<1>2. ASSUME NEW l \in ls
      PROVE  /\ l \in Link /\ Sound(l) /\ l.by = by /\ Status(l.target.finding) # "human_decision"
             /\ \E i \in LinkedGroups(proposal) : l.obs \in proposal[i].obs
  <2>1. PICK i \in LinkedGroups(proposal), o \in Observations :
               /\ o \in proposal[i].obs
               /\ l = [obs |-> o, target |-> Target(proposal, i),
                       type |-> LinkType[proposal[i].outcome], by |-> by]
    BY <1>1
  <2>2. i \in DOMAIN proposal /\ DomainGroup(proposal[i]) /\ ~NeedsHuman(proposal[i])
    BY AcceptedGroups DEF LinkedGroups
  <2>3. /\ l.obs = o /\ l.target = Target(proposal, i) /\ l.by = by
        /\ l.type = LinkType[proposal[i].outcome]
    BY <2>1
  <2>4. /\ l.target \in TargetType /\ Status(l.target.finding) # "human_decision"
        /\ \/ l.type = "first_seen" /\ l.target.finding = NoFinding
           \/ l.type = "recurrence" /\ Status(l.target.finding) = "open"
           \/ l.type = "reaffirmation" /\ Status(l.target.finding) = "accepted_reason"
           \/ l.type = "reopening" /\ Status(l.target.finding) \in {"accepted_reason", "verified_fixed"}
    BY <2>2, <2>3, GroupLink DEF ReconInv
  <2>5. Sound(l)
    BY <2>4 DEF Sound
  <2>6. l \in Link
    <3>1. l = [obs |-> l.obs, target |-> l.target, type |-> l.type, by |-> l.by]
      BY <2>1
    <3>. QED BY <2>1, <2>3, <2>4, <3>1 DEF Link
  <2>. QED BY <2>1, <2>3, <2>4, <2>5, <2>6
<1>3. ASSUME NEW k \in ls, NEW l \in ls, k.obs = l.obs
      PROVE  k = l
  <2>1. PICK i \in LinkedGroups(proposal), o \in Observations :
               /\ o \in proposal[i].obs
               /\ k = [obs |-> o, target |-> Target(proposal, i),
                       type |-> LinkType[proposal[i].outcome], by |-> by]
    BY <1>1
  <2>2. PICK j \in LinkedGroups(proposal), q \in Observations :
               /\ q \in proposal[j].obs
               /\ l = [obs |-> q, target |-> Target(proposal, j),
                       type |-> LinkType[proposal[j].outcome], by |-> by]
    BY <1>1
  <2>3. o = q
    BY <1>3, <2>1, <2>2
  <2>4. i = j
    BY <2>1, <2>2, <2>3, AcceptedGroups DEF LinkedGroups
  <2>. QED BY <2>1, <2>2, <2>3, <2>4
<1>4. ASSUME NEW i \in LinkedGroups(proposal), NEW o \in proposal[i].obs
      PROVE  o \in ObsOf(ls)
  <2>1. [obs |-> o, target |-> Target(proposal, i), type |-> LinkType[proposal[i].outcome],
         by |-> by] \in LinksOf(proposal, i, by)
    BY DEF LinksOf
  <2>2. [obs |-> o, target |-> Target(proposal, i), type |-> LinkType[proposal[i].outcome],
         by |-> by] \in ls
    BY <2>1 DEF LinksMade
  <2>. QED BY <2>2 DEF ObsOf
<1>. QED BY <1>2, <1>3, <1>4

LEMMA ReconcileRequests ==
  ASSUME ReconInv, DomainAccepts(proposal),
         NEW rq, rq = QuestionsMade(proposal)
  PROVE  /\ rq \in Questions
         /\ \A f \in DOMAIN rq : /\ Status(f) = "human_decision" /\ rq[f] # {}
                                 /\ \A o \in rq[f] : \E i \in AskedGroups(proposal, f) :
                                       o \in proposal[i].obs
         /\ \A f, g \in DOMAIN rq : f # g => rq[f] \cap rq[g] = {}
         /\ \A i \in DOMAIN proposal : NeedsHuman(proposal[i]) =>
              proposal[i].obs \subseteq UNION {rq[f] : f \in DOMAIN rq}
<1>1. rq = [f \in AskedFindings(proposal) |->
              UNION {proposal[i].obs : i \in AskedGroups(proposal, f)}]
  BY DEF QuestionsMade
<1>2. ASSUME NEW f \in AskedFindings(proposal)
      PROVE  /\ f \in Findings /\ Status(f) = "human_decision"
             /\ rq[f] = UNION {proposal[i].obs : i \in AskedGroups(proposal, f)}
             /\ rq[f] \subseteq Observations /\ rq[f] # {}
  <2>1. PICK i \in DOMAIN proposal : NeedsHuman(proposal[i]) /\ proposal[i].finding = f
    BY DEF AskedFindings
  <2>2. Status(f) = "human_decision" /\ f \in Findings
    BY <2>1 DEF NeedsHuman, Status
  <2>3. i \in AskedGroups(proposal, f) /\ proposal[i].obs # {}
    BY <2>1, AcceptedGroups DEF AskedGroups
  <2>4. \A j \in AskedGroups(proposal, f) : proposal[j].obs \subseteq Observations
    BY AcceptedGroups DEF AskedGroups
  <2>. QED BY <1>1, <2>2, <2>3, <2>4
<1>3. rq \in Questions
  <2>1. AskedFindings(proposal) \in SUBSET Findings
    BY <1>2
  <2>2. rq \in [AskedFindings(proposal) -> SUBSET Observations]
    BY <1>1, <1>2
  <2>. HIDE DEF AskedFindings
  <2>. QED BY <2>1, <2>2 DEF Questions
<1>4. \A f \in AskedFindings(proposal) : \A o \in rq[f] :
        \E i \in AskedGroups(proposal, f) : o \in proposal[i].obs
  BY <1>2
<1>5. ASSUME NEW f \in AskedFindings(proposal), NEW g \in AskedFindings(proposal), f # g
      PROVE  rq[f] \cap rq[g] = {}
  <2>. SUFFICES ASSUME NEW o \in rq[f], o \in rq[g] PROVE FALSE
    OBVIOUS
  <2>1. PICK i \in AskedGroups(proposal, f) : o \in proposal[i].obs
    BY <1>4
  <2>2. PICK j \in AskedGroups(proposal, g) : o \in proposal[j].obs
    BY <1>4
  <2>3. i = j
    BY <2>1, <2>2, AcceptedGroups DEF AskedGroups
  <2>. QED BY <1>5, <2>3 DEF AskedGroups
<1>6. ASSUME NEW i \in DOMAIN proposal, NeedsHuman(proposal[i])
      PROVE  proposal[i].obs \subseteq UNION {rq[f] : f \in DOMAIN rq}
  <2>1. proposal[i].finding \in AskedFindings(proposal)
    BY <1>6 DEF AskedFindings
  <2>2. i \in AskedGroups(proposal, proposal[i].finding)
    BY <1>6 DEF AskedGroups
  <2>3. proposal[i].obs \subseteq rq[proposal[i].finding]
    BY <1>2, <2>1, <2>2
  <2>. QED BY <1>1, <2>1, <2>3
<1>. QED BY <1>1, <1>2, <1>3, <1>4, <1>5, <1>6

LEMMA ReconcileResult ==
  ASSUME ReconInv, phase \in {"drafting", "human_drafting"}, DomainAccepts(proposal),
         NEW by \in {"reconciler", "reconcile_failed"}, NEW r, r = Reconcile(proposal, by)
  PROVE  r \in ResultType /\ Settled(r) /\ Pending(r)
<1> DEFINE ls == LinksMade(proposal, by)
           rq == QuestionsMade(proposal)
<1>1. r = [links |-> ls, rows |-> RowsFor(CountedTargets(ls) \ Present, ls),
           requests |-> rq, present |-> Present]
  BY ReconcileParts
<1>2. /\ ls \subseteq Link
      /\ \A l \in ls : /\ Sound(l) /\ l.by = by /\ Status(l.target.finding) # "human_decision"
                       /\ \E i \in LinkedGroups(proposal) : l.obs \in proposal[i].obs
      /\ \A k, l \in ls : k.obs = l.obs => k = l
      /\ \A i \in LinkedGroups(proposal) : proposal[i].obs \subseteq ObsOf(ls)
  BY ReconcileLinks
<1>3. /\ rq \in Questions
      /\ \A f \in DOMAIN rq : /\ Status(f) = "human_decision" /\ rq[f] # {}
                              /\ \A o \in rq[f] : \E i \in AskedGroups(proposal, f) :
                                    o \in proposal[i].obs
      /\ \A f, g \in DOMAIN rq : f # g => rq[f] \cap rq[g] = {}
      /\ \A i \in DOMAIN proposal : NeedsHuman(proposal[i]) =>
           proposal[i].obs \subseteq UNION {rq[f] : f \in DOMAIN rq}
  BY ReconcileRequests
<1>. HIDE DEF ls, rq
<1>4. links = Reviewed /\ rows = Issued
  BY DEF ReconInv, PhaseInv
<1>5. Present = TargetsOf(Issued) /\ Present \subseteq TargetType /\ Linked = ObsOf(Reviewed)
  BY <1>4 DEF Present, TargetsOf, Linked, ObsOf, ReconInv, ReconTypeOK, Row
<1>6. RowsFor(CountedTargets(ls) \ Present, ls) \subseteq Row
  BY <1>2, RowsForCounted DEF ReconInv
<1>7. r \in ResultType
  BY <1>1, <1>2, <1>3, <1>5, <1>6 DEF ResultType
<1>8. Settled(r)
  BY <1>1, <1>2, <1>5 DEF Settled
<1>9. ObsOf(ls) \cap Linked = {}
  BY <1>2, AcceptedGroups DEF ObsOf, LinkedGroups, Unlinked
<1>10. ASSUME NEW f \in DOMAIN rq
       PROVE  rq[f] \cap (ObsOf(ls) \cup Linked) = {}
  <2>. SUFFICES ASSUME NEW o \in rq[f], o \in ObsOf(ls) \cup Linked PROVE FALSE
    OBVIOUS
  <2>1. PICK i \in AskedGroups(proposal, f) : o \in proposal[i].obs
    BY <1>3
  <2>2. i \in DOMAIN proposal /\ NeedsHuman(proposal[i]) /\ o \notin Linked
    BY <2>1, AcceptedGroups DEF AskedGroups, Unlinked
  <2>3. PICK j \in LinkedGroups(proposal) : o \in proposal[j].obs
    BY <1>2, <2>2 DEF ObsOf
  <2>4. i = j
    BY <2>1, <2>2, <2>3, AcceptedGroups DEF LinkedGroups
  <2>. QED BY <2>2, <2>3, <2>4 DEF LinkedGroups
<1>11. Observations = Linked \cup ObsOf(ls) \cup UNION {rq[f] : f \in DOMAIN rq}
  <2>1. ASSUME NEW o \in Unlinked
        PROVE  o \in ObsOf(ls) \cup UNION {rq[f] : f \in DOMAIN rq}
    <3>1. PICK i \in DOMAIN proposal : o \in proposal[i].obs
      BY AcceptedGroups
    <3>. QED BY <1>2, <1>3, <3>1 DEF LinkedGroups
  <2>2. Linked \subseteq Observations /\ ObsOf(ls) \subseteq Observations
    BY <1>2 DEF Linked, ObsOf, ReconInv, ReconTypeOK, Link
  <2>3. UNION {rq[f] : f \in DOMAIN rq} \subseteq Observations
    BY <1>3, AcceptedGroups DEF AskedGroups
  <2>. QED BY <2>1, <2>2, <2>3 DEF Unlinked
<1>12. Pending(r)
  BY <1>1, <1>2, <1>3, <1>5, <1>9, <1>10, <1>11 DEF Pending, Asked
<1>. QED BY <1>7, <1>8, <1>12

-----------------------------------------------------------------------------
(* The facts about the intents depend on nothing that the steps between    *)
(* their making and their writing change.                                  *)
LEMMA SameGround ==
  ASSUME UNCHANGED <<lane, ledger>>, Reviewed' = Reviewed, Issued' = Issued
  PROVE  /\ \A ts, ls : RowsFor(ts, ls)' = RowsFor(ts, ls)
         /\ \A f : Status(f)' = Status(f)
         /\ ObsOf(Reviewed)' = ObsOf(Reviewed) /\ TargetsOf(Issued)' = TargetsOf(Issued)
  BY DEF RowsFor, Owner, LinksTo, Status, ObsOf, TargetsOf

LEMMA SettledKept ==
  ASSUME UNCHANGED <<lane, ledger>>, Reviewed' = Reviewed, Issued' = Issued,
         NEW r, Settled(r),
         \A l \in r.links : Status(l.target.finding) = "human_decision" =>
           /\ l.target.finding \in DOMAIN answers'
           /\ answers'[l.target.finding] = answers[l.target.finding]
  PROVE  Settled(r)'
<1>1. \A l \in r.links : Sound(l)'
  BY SameGround DEF Settled, Sound
<1>2. r.rows = RowsFor(CountedTargets(r.links) \ TargetsOf(Issued), r.links)'
  BY SameGround DEF Settled
<1>. QED BY <1>1, <1>2, SameGround DEF Settled

LEMMA PendingKept ==
  ASSUME UNCHANGED <<lane, ledger>>, Reviewed' = Reviewed, Issued' = Issued,
         NEW r, Pending(r)
  PROVE  Pending(r)'
  BY SameGround DEF Pending

LEMMA DecideStep ==
  ASSUME ReconInv, phase \in {"drafting", "human_drafting"}, DomainAccepts(proposal),
         NEW by \in {"reconciler", "reconcile_failed"}, Decide(by)
  PROVE  ReconInv'
<1>. USE DEF ReconInv
<1>1. /\ phase' = "decided" /\ result' = Reconcile(proposal, by)
      /\ UNCHANGED <<context, lane, ledger, links, rows, proposal, attempts, answers>>
  BY DEF Decide
<1>2. Reviewed' = Reviewed /\ Issued' = Issued
  BY <1>1 DEF Reviewed, Issued
<1>3. result' \in ResultType /\ Settled(result') /\ Pending(result')
  BY <1>1, ReconcileResult
<1>4. \A l \in result'.links : Status(l.target.finding) # "human_decision"
  BY <1>3 DEF Pending
<1>5. \A r : Settled(r) /\ Pending(r) => Settled(r)' /\ Pending(r)'
  <2>1. \A r : Pending(r) => \A l \in r.links : Status(l.target.finding) # "human_decision"
    BY DEF Pending
  <2>. QED BY <1>1, <1>2, <2>1, SettledKept, PendingKept
<1>6. Settled(result)' /\ Pending(result)'
  BY <1>3, <1>5 DEF Settled, Pending, Sound, CountedTargets, Asked
<1>7. ReconTypeOK'
  BY <1>1, <1>3 DEF ReconTypeOK, Phases
<1>8. ReviewedIsOpen'
  BY <1>1, <1>2, SameGround DEF ReviewedIsOpen
<1>9. PhaseInv' /\ NeverRefused'
  BY <1>1, <1>2, <1>6 DEF PhaseInv, NeverRefused
<1>. QED BY <1>1, <1>7, <1>8, <1>9

LEMMA SubmitAgentStep == ReconInv /\ SubmitAgent => ReconInv'
<1>. SUFFICES ASSUME ReconInv, SubmitAgent PROVE ReconInv'
  OBVIOUS
<1>1. DomainAccepts(proposal)
  BY ContractImpliesDomain DEF SubmitAgent
<1>. QED BY <1>1, DecideStep DEF SubmitAgent

LEMMA SubmitHumanStep == ReconInv /\ SubmitHuman => ReconInv'
  BY DecideStep DEF SubmitHuman

-----------------------------------------------------------------------------
(* The intents are written at once, and the questions asked.               *)

LEMMA SettledRows ==
  ASSUME ReconTypeOK, NEW r \in ResultType, Settled(r)
  PROVE  /\ TargetsOf(r.rows) = CountedTargets(r.links) \ TargetsOf(Issued)
         /\ \A q \in r.rows : /\ q.entry = "post_check"
                               /\ q.owner \in {lane[l.obs] : l \in LinksTo(q.target, r.links)}
                               /\ \A n \in {lane[l.obs] : l \in LinksTo(q.target, r.links)} :
                                    q.owner <= n
         /\ \A p, q \in r.rows : p.target = q.target => p = q
<1> DEFINE ls == r.links
           ts == CountedTargets(ls) \ TargetsOf(Issued)
<1>1. ls \in SUBSET Link
  BY DEF ResultType
<1>2. ts \in SUBSET CountedTargets(ls)
  OBVIOUS
<1>3. r.rows = RowsFor(ts, ls)
  BY DEF Settled
<1>. HIDE DEF ls, ts
<1>4. /\ TargetsOf(RowsFor(ts, ls)) = ts
      /\ \A q \in RowsFor(ts, ls) :
           /\ q.entry = "post_check"
           /\ q.owner \in {lane[l.obs] : l \in LinksTo(q.target, ls)}
           /\ \A n \in {lane[l.obs] : l \in LinksTo(q.target, ls)} : q.owner <= n
      /\ \A p, q \in RowsFor(ts, ls) : p.target = q.target => p = q
  BY <1>1, <1>2, RowsForCounted
<1>. QED BY <1>3, <1>4 DEF ls, ts

LEMMA IntentsFit ==
  ASSUME ReconInv, phase = "decided"
  PROVE  Fits(result.links, result.rows)
<1>1. /\ links = Reviewed /\ rows = Issued /\ Settled(result) /\ Pending(result)
      /\ result \in ResultType
  BY DEF ReconInv, PhaseInv, ReconTypeOK
<1>2. Linked = ObsOf(Reviewed) /\ Present = TargetsOf(Issued)
  BY <1>1 DEF Linked, ObsOf, Present, TargetsOf
<1>3. {l.obs : l \in result.links} \cap Linked = {}
  BY <1>1, <1>2 DEF Pending, ObsOf
<1>4. {r.target : r \in result.rows} \cap Present = {}
  BY <1>1, <1>2, SettledRows DEF TargetsOf, ReconInv
<1>5. \A k, l \in result.links : k.obs = l.obs => k = l
  BY <1>1 DEF Pending
<1>6. \A q, r \in result.rows : q.target = r.target => q = r
  BY <1>1, SettledRows DEF ReconInv
<1>7. \A l \in result.links : HumanAuthority(l)
  <2>1. \A l \in result.links : l.by # "reopen_answer" /\ l.obs \in Observations
    BY <1>1 DEF Pending, ResultType, Link
  <2>. QED BY <1>3, <2>1 DEF HumanAuthority, Unlinked
<1>. QED BY <1>3, <1>4, <1>5, <1>6, <1>7 DEF Fits

LEMMA WriteIntentsStep == ReconInv /\ WriteIntents => ReconInv'
<1>. SUFFICES ASSUME ReconInv, WriteIntents PROVE ReconInv'
  OBVIOUS
<1>. USE DEF ReconInv
<1>1. /\ phase = "decided" /\ Settled(result) /\ Pending(result) /\ result \in ResultType
      /\ links = Reviewed /\ rows = Issued /\ answers = NoAnswers
  BY DEF WriteIntents, PhaseInv, ReconTypeOK
<1>2. /\ links' = links \cup result.links /\ rows' = rows \cup result.rows
      /\ phase' = IF DOMAIN result.requests = {} THEN "written" ELSE "asked"
      /\ UNCHANGED <<context, lane, ledger, proposal, attempts, result, answers>>
  BY <1>1, IntentsFit DEF WriteIntents, Write
<1>3. Reviewed' = Reviewed /\ Issued' = Issued
  <2>1. \A l \in result.links : l.by # "reviewer"
    BY <1>1 DEF Settled
  <2>2. \A r \in result.rows : r.entry = "post_check"
    BY <1>1, SettledRows
  <2>. QED BY <1>2, <2>1, <2>2 DEF Reviewed, Issued
<1>4. Settled(result)' /\ Pending(result)'
  <2>1. \A r : Settled(r) /\ Pending(r) => Settled(r)' /\ Pending(r)'
    <3>1. \A r : Pending(r) => \A l \in r.links : Status(l.target.finding) # "human_decision"
      BY DEF Pending
    <3>. QED BY <1>2, <1>3, <3>1, SettledKept, PendingKept
  <2>2. Settled(result') /\ Pending(result')
    BY <1>1, <1>2
  <2>. QED BY <2>1, <2>2 DEF Settled, Pending, Sound, CountedTargets, Asked
<1>5. ReconTypeOK'
  BY <1>1, <1>2 DEF ReconTypeOK, ResultType, Phases
<1>6. ReviewedIsOpen'
  BY <1>2, <1>3, SameGround DEF ReviewedIsOpen
<1>7. phase' = "written" => Linked' = Observations
  <2>. SUFFICES ASSUME phase' = "written" PROVE Linked' = Observations
    OBVIOUS
  <2>1. DOMAIN result.requests = {}
    BY <1>2
  <2>2. Asked(result) = {}
    BY <2>1 DEF Asked
  <2>3. Linked' = ObsOf(Reviewed) \cup ObsOf(result.links)
    BY <1>1, <1>2 DEF Linked, ObsOf
  <2>. QED BY <1>1, <2>2, <2>3 DEF Pending
<1>8. PhaseInv' /\ NeverRefused'
  <2>1. DOMAIN answers' = {}
    BY <1>1, <1>2 DEF NoAnswers
  <2>. QED BY <1>1, <1>2, <1>3, <1>4, <1>7, <2>1 DEF PhaseInv, NeverRefused
<1>. QED BY <1>2, <1>5, <1>6, <1>8

LEMMA AnswerReopenStep ==
  ASSUME ReconInv, NEW f \in Findings, NEW choice \in Choice, AnswerReopen(f, choice)
  PROVE  ReconInv'
<1>. USE DEF ReconInv
<1>1. /\ phase = "asked" /\ phase' = phase /\ f \in DOMAIN result.requests \ DOMAIN answers
      /\ answers' = [g \in DOMAIN answers \cup {f} |-> IF g = f THEN choice ELSE answers[g]]
      /\ UNCHANGED <<context, lane, ledger, links, rows, proposal, attempts, result>>
  BY DEF AnswerReopen
<1>2. Settled(result) /\ Pending(result)
  BY <1>1 DEF PhaseInv
<1>3. Reviewed' = Reviewed /\ Issued' = Issued
  BY <1>1 DEF Reviewed, Issued
<1>4. answers' \in Replies
  <2>1. PICK S \in SUBSET Findings : answers \in [S -> Choice]
    BY DEF ReconTypeOK, Replies
  <2>2. answers' \in [S \cup {f} -> Choice]
    BY <1>1, <2>1
  <2>. QED BY <2>2 DEF Replies
<1>5. Settled(result)' /\ Pending(result)'
  <2>1. \A r : Settled(r) /\ Pending(r) => Settled(r)' /\ Pending(r)'
    <3>1. \A r : Pending(r) => \A l \in r.links : Status(l.target.finding) # "human_decision"
      BY DEF Pending
    <3>. QED BY <1>1, <1>3, <3>1, SettledKept, PendingKept
  <2>2. Settled(result') /\ Pending(result')
    BY <1>1, <1>2
  <2>. QED BY <2>1, <2>2 DEF Settled, Pending, Sound, CountedTargets, Asked
<1>6. ReconTypeOK'
  BY <1>1, <1>4 DEF ReconTypeOK
<1>7. ReviewedIsOpen'
  BY <1>1, <1>3, SameGround DEF ReviewedIsOpen
<1>8. PhaseInv' /\ NeverRefused'
  BY <1>1, <1>3, <1>5 DEF PhaseInv, NeverRefused
<1>. QED BY <1>1, <1>6, <1>7, <1>8

-----------------------------------------------------------------------------
(* The answers of the human are written when all are there.                *)

AnswerLinks(f) ==
  {[obs |-> o, target |-> Existing(f), by |-> "reopen_answer",
    type |-> IF answers[f] = "reopen" THEN "reopening" ELSE "reaffirmation"] : o \in result.requests[f]}
AllAnswerLinks == UNION {AnswerLinks(f) : f \in DOMAIN result.requests}
Joining == {Existing(f) : f \in {g \in DOMAIN result.requests :
                                   answers[g] = "reopen" /\ JoinsRound(result, g)}}

LEMMA ResolveParts ==
  Resolve(result, answers) =
    [result EXCEPT !.links = @ \cup AllAnswerLinks,
                   !.rows = @ \cup RowsFor(Joining, AllAnswerLinks)]
  BY DEF Resolve, AllAnswerLinks, AnswerLinks, Joining

LEMMA AnswerLinksFacts ==
  ASSUME ReconInv, phase = "asked", DOMAIN answers = DOMAIN result.requests
  PROVE  /\ AllAnswerLinks \subseteq Link
         /\ \A l \in AllAnswerLinks : \E f \in DOMAIN result.requests :
              /\ f \in Findings /\ Status(f) = "human_decision" /\ l.target = Existing(f)
              /\ l.obs \in result.requests[f] /\ l.by = "reopen_answer"
              /\ l.type = IF answers[f] = "reopen" THEN "reopening" ELSE "reaffirmation"
         /\ \A l \in AllAnswerLinks : Sound(l)
         /\ \A k, l \in AllAnswerLinks : k.obs = l.obs => k = l
         /\ ObsOf(AllAnswerLinks) = Asked(result)
         /\ CountedTargets(AllAnswerLinks) =
              {Existing(f) : f \in {g \in DOMAIN result.requests : answers[g] = "reopen"}}
<1>1. /\ Pending(result) /\ result \in ResultType /\ answers \in Replies
  BY DEF ReconInv, PhaseInv, ReconTypeOK
<1>2. \A f \in DOMAIN result.requests :
        /\ f \in Findings /\ Status(f) = "human_decision"
        /\ result.requests[f] \subseteq Observations /\ result.requests[f] # {}
  <2>1. result.requests \in Questions
    BY <1>1 DEF ResultType
  <2>2. PICK S \in SUBSET Findings : result.requests \in [S -> SUBSET Observations]
    BY <2>1 DEF Questions
  <2>. QED BY <1>1, <2>2 DEF Pending
<1>3. ASSUME NEW l \in AllAnswerLinks
      PROVE  \E f \in DOMAIN result.requests :
              /\ l \in AnswerLinks(f)
              /\ l = [obs |-> l.obs, target |-> Existing(f), by |-> "reopen_answer",
                      type |-> IF answers[f] = "reopen" THEN "reopening" ELSE "reaffirmation"]
              /\ f \in Findings /\ Status(f) = "human_decision" /\ l.target = Existing(f)
              /\ l.obs \in result.requests[f] /\ l.by = "reopen_answer"
              /\ l.type = IF answers[f] = "reopen" THEN "reopening" ELSE "reaffirmation"
  <2>1. PICK f \in DOMAIN result.requests : l \in AnswerLinks(f)
    BY DEF AllAnswerLinks
  <2>2. PICK o \in result.requests[f] :
          l = [obs |-> o, target |-> Existing(f), by |-> "reopen_answer",
               type |-> IF answers[f] = "reopen" THEN "reopening" ELSE "reaffirmation"]
    BY <2>1 DEF AnswerLinks
  <2>. QED BY <1>2, <2>1, <2>2
<1>4. ASSUME NEW l \in AllAnswerLinks
      PROVE  l \in Link /\ Sound(l)
  <2>1. PICK f \in DOMAIN result.requests :
              /\ l = [obs |-> l.obs, target |-> Existing(f), by |-> "reopen_answer",
                      type |-> IF answers[f] = "reopen" THEN "reopening" ELSE "reaffirmation"]
              /\ f \in Findings /\ Status(f) = "human_decision" /\ l.target = Existing(f)
              /\ l.obs \in result.requests[f] /\ l.by = "reopen_answer"
              /\ l.type = IF answers[f] = "reopen" THEN "reopening" ELSE "reaffirmation"
    BY <1>3
  <2>2. Existing(f) \in TargetType /\ Existing(f).finding = f
    BY <2>1 DEF Existing, TargetType, Id
  <2>3. l.obs \in Observations
    BY <1>2, <2>1
  <2>4. l.type \in {"reopening", "reaffirmation"}
    BY <2>1
  <2>5. l = [obs |-> l.obs, target |-> l.target, type |-> l.type, by |-> l.by]
    BY <2>1
  <2>6. l \in Link
    BY <2>1, <2>2, <2>3, <2>4, <2>5 DEF Link
  <2>7. Sound(l)
    BY <2>1, <2>2 DEF Sound
  <2>. QED BY <2>6, <2>7
<1>5. ASSUME NEW k \in AllAnswerLinks, NEW l \in AllAnswerLinks, k.obs = l.obs
      PROVE  k = l
  <2>1. PICK f \in DOMAIN result.requests :
          /\ k = [obs |-> k.obs, target |-> Existing(f), by |-> "reopen_answer",
                  type |-> IF answers[f] = "reopen" THEN "reopening" ELSE "reaffirmation"]
          /\ k.obs \in result.requests[f]
    BY <1>3
  <2>2. PICK g \in DOMAIN result.requests :
          /\ l = [obs |-> l.obs, target |-> Existing(g), by |-> "reopen_answer",
                  type |-> IF answers[g] = "reopen" THEN "reopening" ELSE "reaffirmation"]
          /\ l.obs \in result.requests[g]
    BY <1>3
  <2>3. f = g
    BY <1>1, <1>5, <2>1, <2>2 DEF Pending
  <2>. QED BY <1>5, <2>1, <2>2, <2>3
<1>6. ASSUME NEW f \in DOMAIN result.requests, NEW o \in result.requests[f]
      PROVE  \E l \in AllAnswerLinks :
               /\ l.obs = o /\ l.target = Existing(f)
               /\ l.type = IF answers[f] = "reopen" THEN "reopening" ELSE "reaffirmation"
  <2> DEFINE l == [obs |-> o, target |-> Existing(f), by |-> "reopen_answer",
                   type |-> IF answers[f] = "reopen" THEN "reopening" ELSE "reaffirmation"]
  <2>1. l \in AnswerLinks(f)
    BY DEF AnswerLinks
  <2>2. l \in AllAnswerLinks
    BY <2>1 DEF AllAnswerLinks
  <2>3. /\ l.obs = o /\ l.target = Existing(f)
        /\ l.type = IF answers[f] = "reopen" THEN "reopening" ELSE "reaffirmation"
    OBVIOUS
  <2>. HIDE DEF l
  <2>. QED BY <2>2, <2>3
<1>7. ObsOf(AllAnswerLinks) = Asked(result)
  <2>1. \A l \in AllAnswerLinks : l.obs \in Asked(result)
    BY <1>3 DEF Asked
  <2>2. \A o \in Asked(result) : o \in ObsOf(AllAnswerLinks)
    BY <1>6 DEF Asked, ObsOf
  <2>. QED BY <2>1, <2>2 DEF ObsOf
<1>8. CountedTargets(AllAnswerLinks) =
        {Existing(f) : f \in {g \in DOMAIN result.requests : answers[g] = "reopen"}}
  <2>1. ASSUME NEW l \in AllAnswerLinks, l.type \in Counted
        PROVE  \E f \in DOMAIN result.requests : answers[f] = "reopen" /\ l.target = Existing(f)
    BY <1>3, <2>1 DEF Counted
  <2>2. ASSUME NEW f \in DOMAIN result.requests, answers[f] = "reopen"
        PROVE  \E l \in AllAnswerLinks : l.type \in Counted /\ l.target = Existing(f)
    BY <1>2, <1>6, <2>2 DEF Counted
  <2>. QED BY <2>1, <2>2 DEF CountedTargets, TargetsOf
<1>. QED BY <1>3, <1>4, <1>5, <1>7, <1>8

(* Rows for different targets are made from their own links.               *)
LEMMA RowsForApart ==
  ASSUME NEW ts, NEW us, NEW ks, NEW ls,
         \A t \in ts : LinksTo(t, ls) = {}, \A u \in us : LinksTo(u, ks) = {}
  PROVE  RowsFor(ts, ks) \cup RowsFor(us, ls) = RowsFor(ts \cup us, ks \cup ls)
<1>1. /\ \A t \in ts : LinksTo(t, ks \cup ls) = LinksTo(t, ks)
      /\ \A u \in us : LinksTo(u, ks \cup ls) = LinksTo(u, ls)
  BY DEF LinksTo
<1> DEFINE row(t, ms) == [target |-> t, owner |-> Owner({l.obs : l \in LinksTo(t, ms)}),
                          entry |-> "post_check"]
<1>2. /\ \A t \in ts : row(t, ks \cup ls) = row(t, ks)
      /\ \A u \in us : row(u, ks \cup ls) = row(u, ls)
  BY <1>1
<1>3. \A vs, ms : RowsFor(vs, ms) = {row(v, ms) : v \in vs}
  BY DEF RowsFor
<1>. HIDE DEF row
<1>. QED BY <1>2, <1>3

(* What the answers add fits beside what is written.                       *)
LEMMA AnswersApart ==
  ASSUME ReconInv, phase = "asked", DOMAIN answers = DOMAIN result.requests
  PROVE  /\ Joining = CountedTargets(AllAnswerLinks) \ TargetsOf(Issued)
         /\ CountedTargets(AllAnswerLinks) \cap CountedTargets(result.links) = {}
         /\ \A l \in AllAnswerLinks : Status(l.target.finding) = "human_decision"
         /\ Joining \cap Present = {}
<1>1. /\ Pending(result) /\ Settled(result) /\ result \in ResultType
      /\ rows = Issued \cup result.rows
  BY DEF ReconInv, PhaseInv, ReconTypeOK
<1>2. Joining = CountedTargets(AllAnswerLinks) \ TargetsOf(Issued)
  <2>1. CountedTargets(AllAnswerLinks) =
          {Existing(f) : f \in {g \in DOMAIN result.requests : answers[g] = "reopen"}}
    BY AnswerLinksFacts
  <2>2. \A f : JoinsRound(result, f) <=> Existing(f) \notin TargetsOf(Issued)
    BY <1>1 DEF JoinsRound, Settled
  <2>. QED BY <2>1, <2>2 DEF Joining
<1>3. ASSUME NEW l \in AllAnswerLinks PROVE Status(l.target.finding) = "human_decision"
  <2>1. PICK f \in DOMAIN result.requests : Status(f) = "human_decision" /\ l.target = Existing(f)
    BY AnswerLinksFacts
  <2>. QED BY <2>1 DEF Existing
<1>4. \A t \in CountedTargets(AllAnswerLinks) : Status(t.finding) = "human_decision"
  BY <1>3 DEF CountedTargets, TargetsOf
<1>5. \A t \in CountedTargets(result.links) : Status(t.finding) # "human_decision"
  BY <1>1 DEF Pending, CountedTargets, TargetsOf
<1>6. TargetsOf(result.rows) = CountedTargets(result.links) \ TargetsOf(Issued)
  BY <1>1, SettledRows DEF ReconInv
<1>7. Present = TargetsOf(Issued) \cup TargetsOf(result.rows)
  BY <1>1 DEF Present, TargetsOf
<1>. QED BY <1>2, <1>3, <1>4, <1>5, <1>6, <1>7

LEMMA AnswersFit ==
  ASSUME ReconInv, phase = "asked", DOMAIN answers = DOMAIN result.requests,
         NEW ls \in SUBSET AllAnswerLinks, NEW rs \in SUBSET RowsFor(Joining, AllAnswerLinks)
  PROVE  Fits(ls, rs)
<1>1. /\ Pending(result) /\ links = Reviewed \cup result.links
  BY DEF ReconInv, PhaseInv
<1>2. /\ AllAnswerLinks \in SUBSET Link /\ Joining \in SUBSET CountedTargets(AllAnswerLinks)
  BY AnswersApart, AnswerLinksFacts
<1>3. /\ TargetsOf(RowsFor(Joining, AllAnswerLinks)) = Joining
      /\ \A q, r \in RowsFor(Joining, AllAnswerLinks) : q.target = r.target => q = r
  BY <1>2, RowsForCounted DEF ReconInv
<1>4. {l.obs : l \in ls} \cap Linked = {}
  <2>1. Linked = ObsOf(Reviewed) \cup ObsOf(result.links)
    BY <1>1 DEF Linked, ObsOf
  <2>2. Asked(result) \cap Linked = {}
    BY <1>1, <2>1 DEF Pending, Asked
  <2>3. {l.obs : l \in ls} \subseteq Asked(result)
    BY AnswerLinksFacts DEF ObsOf
  <2>. QED BY <2>2, <2>3
<1>5. {r.target : r \in rs} \cap Present = {}
  BY <1>3, AnswersApart DEF TargetsOf
<1>6. \A k, l \in ls : k.obs = l.obs => k = l
  BY AnswerLinksFacts
<1>7. \A l \in ls : HumanAuthority(l)
  <2>1. ASSUME NEW l \in ls
        PROVE  /\ l.by = "reopen_answer" /\ l.target.finding \in DOMAIN result.requests
               /\ l.obs \in result.requests[l.target.finding]
    <3>1. PICK f \in DOMAIN result.requests :
            l.target = Existing(f) /\ l.obs \in result.requests[f] /\ l.by = "reopen_answer"
      BY AnswerLinksFacts
    <3>. QED BY <3>1 DEF Existing
  <2>. QED BY <2>1 DEF HumanAuthority
<1>. QED BY <1>3, <1>4, <1>5, <1>6, <1>7 DEF Fits

LEMMA ResolvedResult ==
  ASSUME ReconInv, phase = "asked", DOMAIN answers = DOMAIN result.requests,
         NEW r, r = Resolve(result, answers)
  PROVE  /\ r \in ResultType /\ Settled(r)
         /\ r.links = result.links \cup AllAnswerLinks
         /\ r.rows = result.rows \cup RowsFor(Joining, AllAnswerLinks)
<1>1. /\ Pending(result) /\ Settled(result) /\ result \in ResultType
  BY DEF ReconInv, PhaseInv, ReconTypeOK
<1> DEFINE ks == result.links
           ts == CountedTargets(ks) \ TargetsOf(Issued)
<1>2. /\ AllAnswerLinks \in SUBSET Link /\ Joining \in SUBSET CountedTargets(AllAnswerLinks)
  BY AnswersApart, AnswerLinksFacts
<1>3. RowsFor(Joining, AllAnswerLinks) \subseteq Row
  BY <1>2, RowsForCounted DEF ReconInv
<1>4. /\ r.links = ks \cup AllAnswerLinks
      /\ r.rows = result.rows \cup RowsFor(Joining, AllAnswerLinks)
      /\ r.requests = result.requests /\ r.present = result.present
      /\ r = [links |-> r.links, rows |-> r.rows, requests |-> r.requests, present |-> r.present]
  BY <1>1, ResolveParts DEF ResultType
<1>5. r \in ResultType
  BY <1>1, <1>2, <1>3, <1>4 DEF ResultType
<1>6. \A l \in r.links : Sound(l) /\ l.by # "reviewer"
  BY <1>1, <1>4, AnswerLinksFacts DEF Settled
<1>7. /\ \A t \in ts : LinksTo(t, AllAnswerLinks) = {}
      /\ \A u \in Joining : LinksTo(u, ks) = {}
  BY AnswersApart DEF CountedTargets, TargetsOf, LinksTo
<1>8. CountedTargets(r.links) = CountedTargets(ks) \cup CountedTargets(AllAnswerLinks)
  BY <1>4 DEF CountedTargets, TargetsOf
<1>9. ts \cup Joining = CountedTargets(r.links) \ TargetsOf(Issued)
  BY <1>8, AnswersApart
<1>10. result.rows = RowsFor(ts, ks)
  BY <1>1 DEF Settled
<1>. HIDE DEF ks, ts
<1>11. r.rows = RowsFor(ts \cup Joining, ks \cup AllAnswerLinks)
  BY <1>4, <1>7, <1>10, RowsForApart
<1>12. Settled(r)
  BY <1>1, <1>4, <1>6, <1>9, <1>11 DEF Settled
<1>. QED BY <1>4, <1>5, <1>12 DEF ks

LEMMA ResolveReopensStep == ReconInv /\ ResolveReopens => ReconInv'
<1>. SUFFICES ASSUME ReconInv, ResolveReopens PROVE ReconInv'
  OBVIOUS
<1>. USE DEF ReconInv
<1> DEFINE ready == Resolve(result, answers)
<1>1. /\ phase = "asked" /\ DOMAIN answers = DOMAIN result.requests /\ result' = ready
      /\ UNCHANGED <<context, lane, ledger, proposal, attempts, answers>>
      /\ Write(ready.links \ links, ready.rows \ rows, "written")
  BY DEF ResolveReopens
<1>2. /\ ready \in ResultType /\ Settled(ready)
      /\ ready.links = result.links \cup AllAnswerLinks
      /\ ready.rows = result.rows \cup RowsFor(Joining, AllAnswerLinks)
  BY <1>1, ResolvedResult
<1>. HIDE DEF ready
<1>3. /\ links = Reviewed \cup result.links /\ rows = Issued \cup result.rows
      /\ Settled(result) /\ Pending(result)
  BY <1>1 DEF PhaseInv
<1>4. Fits(ready.links \ links, ready.rows \ rows)
  BY <1>1, <1>2, <1>3, AnswersFit
<1>5. /\ links' = Reviewed \cup ready.links /\ rows' = Issued \cup ready.rows
      /\ phase' = "written"
  BY <1>1, <1>2, <1>3, <1>4 DEF Write
<1>6. Reviewed' = Reviewed /\ Issued' = Issued
  <2>1. \A l \in ready.links : l.by # "reviewer"
    BY <1>2 DEF Settled
  <2>2. \A r \in ready.rows : r.entry = "post_check"
    BY <1>2, SettledRows
  <2>. QED BY <1>5, <2>1, <2>2 DEF Reviewed, Issued
<1>7. Settled(result)'
  <2>1. \A r : Settled(r) => Settled(r)'
    <3>1. \A r : Settled(r) => \A l \in r.links : Status(l.target.finding) = "human_decision" =>
            l.target.finding \in DOMAIN answers
      <4>1. Status(NoFinding) # "human_decision"
        BY ReconciliationAssumption DEF ReconciliationAssumption, Status, NoFinding
      <4>. QED BY <4>1 DEF Settled, Sound
    <3>. QED BY <1>1, <1>6, <3>1, SettledKept
  <2>2. Settled(result')
    BY <1>1, <1>2
  <2>. QED BY <2>1, <2>2 DEF Settled, Sound, CountedTargets
<1>8. ReconTypeOK'
  <2>1. links' \subseteq Link /\ rows' \subseteq Row
    BY <1>2, <1>5 DEF ReconTypeOK, ResultType, Reviewed, Issued
  <2>. QED BY <1>1, <1>2, <1>5, <2>1 DEF ReconTypeOK, Phases
<1>9. ReviewedIsOpen'
  BY <1>1, <1>6, SameGround DEF ReviewedIsOpen
<1>10. Linked' = Observations
  <2>1. Linked' = ObsOf(Reviewed) \cup ObsOf(result.links) \cup ObsOf(AllAnswerLinks)
    BY <1>2, <1>5 DEF Linked, ObsOf
  <2>2. ObsOf(AllAnswerLinks) = Asked(result)
    BY <1>1, AnswerLinksFacts
  <2>. QED BY <1>3, <2>1, <2>2 DEF Pending
<1>11. PhaseInv' /\ NeverRefused'
  BY <1>1, <1>5, <1>6, <1>7, <1>10 DEF PhaseInv, NeverRefused
<1>. QED BY <1>1, <1>8, <1>9, <1>11

-----------------------------------------------------------------------------
(* The theorems.                                                           *)

LEMMA NothingHappens == ReconInv /\ UNCHANGED reconVars => ReconInv'
<1>. SUFFICES ASSUME ReconInv, UNCHANGED reconVars PROVE ReconInv'
  OBVIOUS
<1>. USE DEF ReconInv
<1>1. UNCHANGED <<context, lane, ledger, links, rows, proposal, attempts, result, answers, phase>>
  BY DEF reconVars
<1>2. Reviewed' = Reviewed /\ Issued' = Issued
  BY <1>1 DEF Reviewed, Issued
<1>3. \A r : Settled(r) => Settled(r)'
  <2>1. Status(NoFinding) # "human_decision"
    BY ReconciliationAssumption DEF ReconciliationAssumption, Status, NoFinding
  <2>2. \A r : Settled(r) => \A l \in r.links : Status(l.target.finding) = "human_decision" =>
          l.target.finding \in DOMAIN answers
    BY <2>1 DEF Settled, Sound
  <2>. QED BY <1>1, <1>2, <2>2, SettledKept
<1>4. \A r : Pending(r) => Pending(r)'
  BY <1>1, <1>2, PendingKept
<1>5. Settled(result) => Settled(result)'
  BY <1>1, <1>3 DEF Settled, Sound, CountedTargets
<1>6. Pending(result) => Pending(result)'
  <2>. SUFFICES ASSUME Pending(result) PROVE Pending(result)'
    OBVIOUS
  <2>1. Pending(result')
    BY <1>1
  <2>. QED BY <1>4, <2>1 DEF Pending, Asked, CountedTargets
<1>7. ReconTypeOK'
  BY <1>1 DEF ReconTypeOK
<1>8. ReviewedIsOpen'
  BY <1>1, <1>2, SameGround DEF ReviewedIsOpen
<1>9. PhaseInv' /\ NeverRefused'
  BY <1>1, <1>2, <1>5, <1>6 DEF PhaseInv, NeverRefused, Linked
<1>. QED BY <1>1, <1>7, <1>8, <1>9

LEMMA ReconInvIsInductive == ReconInv /\ [ReconNext]_reconVars => ReconInv'
<1>. SUFFICES ASSUME ReconInv, [ReconNext]_reconVars PROVE ReconInv'
  OBVIOUS
<1>1. CASE ProposeGroup
  BY <1>1, ProposeGroupStep
<1>2. CASE SpoilProposal
  BY <1>2, SpoilProposalStep
<1>3. CASE SubmitAgent
  BY <1>3, SubmitAgentStep
<1>4. CASE RejectAgent
  BY <1>4, RejectAgentStep
<1>5. CASE SubmitHuman
  BY <1>5, SubmitHumanStep
<1>6. CASE WriteIntents
  BY <1>6, WriteIntentsStep
<1>7. ASSUME NEW f \in Findings, NEW choice \in {"reopen", "keep_closed"}, AnswerReopen(f, choice)
      PROVE  ReconInv'
  BY <1>7, AnswerReopenStep DEF Choice
<1>8. CASE ResolveReopens
  BY <1>8, ResolveReopensStep
<1>9. CASE UNCHANGED reconVars
  BY <1>9, NothingHappens
<1>. QED
  BY <1>1, <1>2, <1>3, <1>4, <1>5, <1>6, <1>7, <1>8, <1>9 DEF ReconNext

(* From the first proposal to the last answer every observation is linked  *)
(* by a reviewer, linked by an intent or shown in a question, exactly      *)
(* once; rows and links agree with each other and with the ledger          *)
(* (reconciliation.py 173-627).                                            *)
THEOREM ReconInvariant == ReconSpec => []ReconInv
<1>1. ReconInit => ReconInv
  BY InitInv
<1>2. ReconInv /\ [ReconNext]_reconVars => ReconInv'
  BY ReconInvIsInductive
<1>. QED BY <1>1, <1>2, PTL DEF ReconSpec

(* Proposals, intents, questions and the rows of the tables always have    *)
(* their type (reconciliation.py 60-171, finding_observation_link,         *)
(* finding_round).                                                         *)
THEOREM ReconTypeCorrect == ReconSpec => []ReconTypeOK
<1>1. ReconInv => ReconTypeOK
  BY DEF ReconInv
<1>. QED BY <1>1, ReconInvariant, PTL

(* No proposal that the contract accepts is refused by the domain or by    *)
(* the tables, before or after the answers of a human (validation.py       *)
(* 412-540, reconciliation.py 173-368).                                    *)
THEOREM NothingIsRefused == ReconSpec => []NeverRefused
<1>1. ReconInv => NeverRefused
  BY DEF ReconInv
<1>. QED BY <1>1, ReconInvariant, PTL

LEMMA NoFindingIsNoneOfThem == NoFinding \notin Findings /\ Status(NoFinding) = "out_of_scope"
  BY ReconciliationAssumption DEF ReconciliationAssumption, Status, NoFinding

LEMMA HumanFollows == ReconInv => HumanNotOverruled
<1>. SUFFICES ASSUME ReconInv PROVE HumanNotOverruled
  OBVIOUS
<1>1. phase \in {"drafting", "human_drafting", "decided", "asked", "written"}
  BY DEF ReconInv, NeverRefused, ReconTypeOK, Phases
<1>2. ASSUME NEW l \in links, l.type = "reopening", Status(l.target.finding) = "human_decision"
      PROVE  l.target.finding \in DOMAIN answers /\ answers[l.target.finding] = "reopen"
  <2>1. l \notin Reviewed
    BY <1>2 DEF ReconInv, ReviewedIsOpen
  <2>2. l \in result.links /\ Settled(result)
    BY <1>1, <2>1 DEF ReconInv, PhaseInv
  <2>3. Sound(l)
    BY <2>2 DEF Settled
  <2>. QED BY <1>2, <2>3, NoFindingIsNoneOfThem DEF Sound
<1>3. ASSUME phase = "asked"
      PROVE  Linked = Observations \ Asked(result)
  <2>1. Pending(result) /\ links = Reviewed \cup result.links
    BY <1>3 DEF ReconInv, PhaseInv
  <2>2. Linked = ObsOf(Reviewed) \cup ObsOf(result.links)
    BY <2>1 DEF Linked, ObsOf
  <2>3. Asked(result) \cap Linked = {}
    BY <2>1, <2>2 DEF Pending, Asked
  <2>4. Observations = Linked \cup Asked(result)
    BY <2>1, <2>2 DEF Pending
  <2>. QED BY <2>3, <2>4
<1>. QED BY <1>2, <1>3 DEF HumanNotOverruled, Asked

(* A finding that a human closed is reopened by a human only, and the      *)
(* observations of an open question stay unlinked (reconciliation.py       *)
(* 472-482, 549-627).                                                      *)
THEOREM HumanIsNotOverruled == ReconSpec => []HumanNotOverruled
  BY HumanFollows, ReconInvariant, PTL

(* What the written state says of links, rows and open findings.           *)
LEMMA WrittenFacts ==
  ASSUME ReconInv, phase = "written"
  PROVE  /\ links = Reviewed \cup result.links /\ rows = Issued \cup result.rows
         /\ Settled(result) /\ result \in ResultType /\ Linked = Observations
         /\ Present = TargetsOf(Issued) \cup TargetsOf(result.rows)
         /\ TargetsOf(result.rows) = CountedTargets(result.links) \ TargetsOf(Issued)
<1>1. /\ links = Reviewed \cup result.links /\ rows = Issued \cup result.rows
      /\ Settled(result) /\ result \in ResultType /\ Linked = Observations
  BY DEF ReconInv, PhaseInv, ReconTypeOK
<1>2. Present = TargetsOf(Issued) \cup TargetsOf(result.rows)
  BY <1>1 DEF Present, TargetsOf
<1>. QED BY <1>1, <1>2, SettledRows DEF ReconInv

LEMMA OwnersFollow == ReconInv => OwnerReportedFirst
<1>. SUFFICES ASSUME ReconInv, phase = "written", NEW r \in rows, r.entry = "post_check"
              PROVE  LET reporters == {lane[l.obs] : l \in LinksTo(r.target, links)}
                     IN  r.owner \in reporters /\ \A n \in reporters : r.owner <= n
  BY DEF OwnerReportedFirst
<1>1. r \in result.rows
  BY WrittenFacts DEF Issued
<1>2. /\ r.owner \in {lane[l.obs] : l \in LinksTo(r.target, result.links)}
      /\ \A n \in {lane[l.obs] : l \in LinksTo(r.target, result.links)} : r.owner <= n
  BY <1>1, WrittenFacts, SettledRows DEF ReconInv
<1>3. r.target \notin TargetsOf(Issued)
  BY <1>1, WrittenFacts DEF TargetsOf
<1>4. \A l \in Reviewed : l.target # r.target
  BY <1>3 DEF ReconInv, ReviewedIsOpen
<1>5. LinksTo(r.target, links) = LinksTo(r.target, result.links)
  BY <1>4, WrittenFacts DEF LinksTo
<1>. QED BY <1>2, <1>5

(* The next checker of a post_check row is the first lane that reported    *)
(* the finding in this round (reconciliation.py 485-520).                  *)
THEOREM OwnersReportedFirst == ReconSpec => []OwnerReportedFirst
  BY OwnersFollow, ReconInvariant, PTL

(* Of what an intent links, open is exactly what is counted.               *)
LEMMA CountedIsOpen ==
  ASSUME ReconInv, phase = "written", NEW l \in result.links
  PROVE  IsOpen(l.target) <=> l.target \in CountedTargets(result.links)
<1>1. \A k \in result.links : Sound(k)
  BY WrittenFacts DEF Settled
<1>2. ASSUME IsOpen(l.target) PROVE l.target \in CountedTargets(result.links)
  <2>1. CASE l.target.finding = NoFinding \/ Status(l.target.finding) = "open"
    <3>1. l.type \in {"first_seen", "recurrence"}
      BY <1>1, <2>1, NoFindingIsNoneOfThem DEF Sound
    <3>. QED BY <3>1 DEF CountedTargets, TargetsOf, Counted
  <2>2. ASSUME NEW k \in links, k.target = l.target, k.type = "reopening"
        PROVE  l.target \in CountedTargets(result.links)
    <3>1. k \in result.links
      BY <2>2, WrittenFacts DEF ReconInv, ReviewedIsOpen
    <3>. QED BY <2>2, <3>1 DEF CountedTargets, TargetsOf, Counted
  <2>. QED BY <1>2, <2>1, <2>2 DEF IsOpen
<1>3. ASSUME l.target \in CountedTargets(result.links) PROVE IsOpen(l.target)
  <2>1. PICK k \in result.links : k.type \in Counted /\ k.target = l.target
    BY <1>3 DEF CountedTargets, TargetsOf
  <2>2. k \in links
    BY WrittenFacts
  <2>3. \/ k.target.finding = NoFinding \/ Status(k.target.finding) = "open"
        \/ k.type = "reopening"
    BY <1>1, <2>1 DEF Sound, Counted
  <2>. QED BY <2>1, <2>2, <2>3 DEF IsOpen
<1>. QED BY <1>2, <1>3

LEMMA GatesFollow == ReconInv => GatesPass
<1>. SUFFICES ASSUME ReconInv, phase = "written" PROVE GatesPass
  BY DEF GatesPass
<1>1. Unlinked = {}
  BY WrittenFacts DEF Unlinked
<1>2. ASSUME NEW l \in links, IsOpen(l.target) PROVE l.target \in Present
  <2>1. CASE l \in Reviewed
    BY <2>1, WrittenFacts DEF ReconInv, ReviewedIsOpen
  <2>2. CASE l \in result.links
    BY <1>2, <2>2, WrittenFacts, CountedIsOpen
  <2>. QED BY <2>1, <2>2, WrittenFacts
<1>. QED BY <1>1, <1>2 DEF GatesPass

(* When reconciliation is over no observation is left and every open       *)
(* finding that was seen has its row (campaign.py 481-508).                *)
THEOREM GatesAlwaysPass == ReconSpec => []GatesPass
  BY GatesFollow, ReconInvariant, PTL

LEMMA WorkFollows == ReconInv => WorkIsWhatIsOpen
<1>. SUFFICES ASSUME ReconInv, phase = "written" PROVE WorkIsWhatIsOpen
  BY DEF WorkIsWhatIsOpen
<1>1. AuthorWork(result) = CountedTargets(result.links)
  BY DEF AuthorWork, WorkTypes, CountedTargets, TargetsOf
<1>2. {l \in links : l.by # "reviewer" /\ IsOpen(l.target)} = {l \in result.links : IsOpen(l.target)}
  BY WrittenFacts DEF Settled, Reviewed
<1>3. CountedTargets(result.links) = {l.target : l \in {l \in result.links : IsOpen(l.target)}}
  <2>1. \A l \in result.links : IsOpen(l.target) <=> l.target \in CountedTargets(result.links)
    BY CountedIsOpen
  <2>2. \A t \in CountedTargets(result.links) : \E l \in result.links : l.target = t
    BY DEF CountedTargets, TargetsOf
  <2>. QED BY <2>1, <2>2
<1>4. ASSUME context = "discovery"
      PROVE  PrimaryOutcome(result) = "clean" <=> rows = {}
  <2>1. Issued = {} /\ TargetsOf(Issued) = {}
    BY <1>4 DEF ReconInv, ReviewedIsOpen, TargetsOf
  <2>2. rows = result.rows /\ TargetsOf(rows) = CountedTargets(result.links)
    BY <2>1, WrittenFacts
  <2>3. rows = {} <=> CountedTargets(result.links) = {}
    BY <2>2 DEF TargetsOf
  <2>. QED BY <1>1, <2>3 DEF PrimaryOutcome
<1>. QED BY <1>1, <1>2, <1>3, <1>4 DEF WorkIsWhatIsOpen

(* The author gets exactly what is open and was seen, and a discovery is   *)
(* clean only when it opens nothing (reconciliation.py 636-664).           *)
THEOREM WorkIsAlwaysWhatIsOpen == ReconSpec => []WorkIsWhatIsOpen
  BY WorkFollows, ReconInvariant, PTL

-----------------------------------------------------------------------------
(* The order in which the groups are named.                                *)

NewBefore(p, i) == {j \in DOMAIN p : p[j].outcome = "new" /\ Before(p, j, i)}

LEMMA RenamedIndex ==
  ASSUME NEW p, IsFiniteSet(DOMAIN p), NEW q \in Bijection(DOMAIN p, DOMAIN p),
         NEW o, o = [i \in DOMAIN p |-> p[q[i]]], NEW i \in DOMAIN p
  PROVE  NewIndex(o, i) = NewIndex(p, q[i])
<1> DEFINE S == NewBefore(o, i)
           T == NewBefore(p, q[i])
           m == [j \in S |-> q[j]]
<1>1. /\ q \in [DOMAIN p -> DOMAIN p]
      /\ \A j, k \in DOMAIN p : q[j] = q[k] => j = k
      /\ \A k \in DOMAIN p : \E j \in DOMAIN p : q[j] = k
  BY DEF Bijection, Injection, Surjection, IsInjective
<1>2. DOMAIN o = DOMAIN p /\ \A j \in DOMAIN p : o[j] = p[q[j]]
  OBVIOUS
<1>3. \A j \in DOMAIN p : j \in S <=> q[j] \in T
  BY <1>1, <1>2 DEF NewBefore, Before
<1>4. S \subseteq DOMAIN p /\ T \subseteq DOMAIN p
  BY <1>2 DEF NewBefore
<1>. HIDE DEF S, T
<1>5. m \in [S -> T] /\ \A j \in S : m[j] = q[j]
  BY <1>3, <1>4
<1>6. m \in Injection(S, T)
  BY <1>1, <1>4, <1>5 DEF Injection, IsInjective
<1>7. m \in Surjection(S, T)
  <2>1. \A k \in T : \E j \in S : m[j] = k
    BY <1>1, <1>3, <1>4, <1>5
  <2>. QED BY <1>5, <2>1 DEF Surjection
<1>8. IsFiniteSet(S) /\ ExistsBijection(S, T)
  BY <1>4, <1>6, <1>7, FS_Subset DEF ExistsBijection, Bijection
<1>9. Cardinality(S) = Cardinality(T)
  BY <1>8, FS_Bijection
<1>. QED BY <1>9 DEF NewIndex, NewBefore, S, T

LEMMA RenamedResult ==
  ASSUME NEW p, IsFiniteSet(DOMAIN p), NEW q \in Bijection(DOMAIN p, DOMAIN p),
         NEW o, o = [i \in DOMAIN p |-> p[q[i]]], NEW by
  PROVE  Reconcile(o, by) = Reconcile(p, by)
<1>1. /\ \A i \in DOMAIN p : q[i] \in DOMAIN p
      /\ \A k \in DOMAIN p : \E j \in DOMAIN p : q[j] = k
  BY DEF Bijection, Surjection
<1>2. DOMAIN o = DOMAIN p /\ \A i \in DOMAIN p : o[i] = p[q[i]]
  OBVIOUS
<1>3. ASSUME NEW i \in DOMAIN p PROVE LinksOf(o, i, by) = LinksOf(p, q[i], by)
  <2>1. NewIndex(o, i) = NewIndex(p, q[i])
    BY RenamedIndex
  <2>2. Target(o, i) = Target(p, q[i])
    BY <1>2, <2>1 DEF Target
  <2>. QED BY <1>2, <2>2 DEF LinksOf
<1>4. LinksMade(o, by) = LinksMade(p, by)
  <2>1. \A i \in LinkedGroups(o) : q[i] \in LinkedGroups(p) /\ LinksOf(o, i, by) = LinksOf(p, q[i], by)
    BY <1>1, <1>2, <1>3 DEF LinkedGroups
  <2>2. ASSUME NEW k \in LinkedGroups(p)
        PROVE  \E i \in LinkedGroups(o) : LinksOf(o, i, by) = LinksOf(p, k, by)
    <3>1. PICK i \in DOMAIN p : q[i] = k
      BY <1>1 DEF LinkedGroups
    <3>2. i \in LinkedGroups(o)
      BY <1>2, <3>1 DEF LinkedGroups
    <3>. QED BY <1>3, <3>1, <3>2
  <2>. QED BY <2>1, <2>2 DEF LinksMade
<1>5. AskedFindings(o) = AskedFindings(p)
  <2>1. \A i \in DOMAIN o : NeedsHuman(o[i]) => o[i].finding \in AskedFindings(p)
    BY <1>1, <1>2 DEF AskedFindings
  <2>2. ASSUME NEW k \in DOMAIN p, NeedsHuman(p[k]) PROVE p[k].finding \in AskedFindings(o)
    <3>1. PICK i \in DOMAIN p : q[i] = k
      BY <1>1
    <3>2. o[i] = p[k]
      BY <1>2, <3>1
    <3>. QED BY <1>2, <2>2, <3>2 DEF AskedFindings
  <2>. QED BY <2>1, <2>2 DEF AskedFindings
<1>6. ASSUME NEW f
      PROVE  UNION {o[i].obs : i \in AskedGroups(o, f)} = UNION {p[i].obs : i \in AskedGroups(p, f)}
  <2>1. \A i \in AskedGroups(o, f) : q[i] \in AskedGroups(p, f) /\ o[i].obs = p[q[i]].obs
    BY <1>1, <1>2 DEF AskedGroups
  <2>2. ASSUME NEW k \in AskedGroups(p, f)
        PROVE  \E i \in AskedGroups(o, f) : o[i].obs = p[k].obs
    <3>1. PICK i \in DOMAIN p : q[i] = k
      BY <1>1 DEF AskedGroups
    <3>2. i \in AskedGroups(o, f)
      BY <1>2, <3>1 DEF AskedGroups
    <3>. QED BY <1>2, <3>1, <3>2
  <2>. QED BY <2>1, <2>2
<1>7. QuestionsMade(o) = QuestionsMade(p)
  BY <1>5, <1>6 DEF QuestionsMade
<1>. QED BY <1>4, <1>7, ReconcileParts

LEMMA OrderFollows == ReconInv => OrderIndependent
<1>. SUFFICES ASSUME ReconInv,
                     NEW q \in {f \in [DOMAIN proposal -> DOMAIN proposal] :
                                  \A i, j \in DOMAIN f : f[i] = f[j] => i = j},
                     NEW other, other = [i \in DOMAIN proposal |-> proposal[q[i]]]
              PROVE  Reconcile(other, "reconciler") = Reconcile(proposal, "reconciler")
  BY DEF OrderIndependent
<1>1. IsFiniteSet(DOMAIN proposal)
  <2>1. Len(proposal) \in Nat /\ DOMAIN proposal = 1..Len(proposal)
    BY DEF ReconInv, ReconTypeOK
  <2>. QED BY <2>1, FS_Interval
<1>2. q \in Injection(DOMAIN proposal, DOMAIN proposal)
  BY DEF Injection, IsInjective
<1>3. q \in Surjection(DOMAIN proposal, DOMAIN proposal)
  BY <1>1, <1>2, FS_Injection
<1>4. q \in Bijection(DOMAIN proposal, DOMAIN proposal)
  BY <1>2, <1>3 DEF Bijection
<1>. QED BY <1>1, <1>4, RenamedResult

(* The order in which an agent names its groups decides nothing            *)
(* (reconciliation.py 371-409).                                            *)
THEOREM OrderDecidesNothing == ReconSpec => []OrderIndependent
  BY OrderFollows, ReconInvariant, PTL
=============================================================================
