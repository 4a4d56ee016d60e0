---------------------------- MODULE Reconciliation ----------------------------
(***************************************************************************)
(* The observations of one round are classified by a reconciler agent, or, *)
(* when its answers keep breaking the contract, by a human; a finding that *)
(* a human closed is reopened only by a human (agents/validation.py        *)
(* 412-540, domain/review/reconciliation.py).  The intents of the domain   *)
(* are written by the repositories into finding_observation_link and       *)
(* finding_round, whose keys and triggers have the last word.              *)
(*                                                                         *)
(* Retrying, asking and writing are done by a caller that is not part of   *)
(* the repository yet; it is modelled as docs/task-plans/p1-a/t1.5.md and  *)
(* t1.7b.md use these functions.                                           *)
(*                                                                         *)
(* An operator whose name ends in Mut is a deliberately wrong form of the  *)
(* operator after it, used by no specification.                            *)
(***************************************************************************)
EXTENDS Naturals, Sequences, FiniteSets

CONSTANTS
  N,          (* observations of the round, numbered by seq                *)
  Findings,   (* findings of the run                                       *)
  Lanes,      (* lane indices                                              *)
  MaxAttempts,(* bound: proposals of the agent, the contract retry budget  *)
  SpoilAfter  (* bound: sound groups before a spoiled one                  *)

ASSUME ReconciliationAssumption ==
  /\ N \in Nat /\ MaxAttempts \in Nat /\ SpoilAfter \in Nat
  /\ Lanes \subseteq Nat /\ Lanes # {}
  /\ "none" \notin Findings   (* no id stands for the absence of one        *)

VARIABLES
  context,  (* ReconciliationInput.context                                 *)
  lane,     (* the lane that made an observation                           *)
  ledger,   (* what the scoped ledger says of a finding                    *)
  links,    (* finding_observation_link of the round                       *)
  rows,     (* finding_round of the round                                  *)
  proposal, (* the proposed groups, in the order they are named            *)
  attempts, (* proposals that were rejected                                *)
  result,   (* what reconcile or resolve_human_reopens returned            *)
  answers,  (* the answers to its requests                                 *)
  phase

reconVars == <<context, lane, ledger, links, rows, proposal, attempts, result, answers, phase>>

Observations == 1..N
Stranger == 0                (* an observation of another context          *)
NoFinding == "none"

(* policy_closed is treated like verified_fixed.                           *)
Closed == {"accepted_reason", "verified_fixed", "human_decision"}
Statuses == Closed \cup {"open", "out_of_scope"}
Status(f) == IF f \in Findings THEN ledger[f] ELSE "out_of_scope"

LinkType == [new |-> "first_seen", existing_open |-> "recurrence",
             reaffirmed_closed |-> "reaffirmation", reopen_closed |-> "reopening"]

(* FindingTarget: an existing finding, or a new one by its index.          *)
Existing(f) == [finding |-> f, index |-> 0]
New(i) == [finding |-> NoFinding, index |-> i]

Linked == {l.obs : l \in links}
Present == {r.target : r \in rows}
Least(S) == CHOOSE x \in S : \A y \in S : x <= y

(* read_reconciliation_observations: what no reviewer has linked directly. *)
UnlinkedMut == Observations
Unlinked == Observations \ Linked

-----------------------------------------------------------------------------
(* What is refused.                                                        *)

Overlap(p) == \E i, j \in DOMAIN p : i # j /\ p[i].obs \cap p[j].obs # {}
Named(p) == UNION {p[i].obs : i \in DOMAIN p}

(* _validate_reconciliation                                                *)
ContractGroup(g) ==
  \/ g.outcome = "new" /\ g.finding = NoFinding /\ g.title /\ ~g.reason
  \/ g.outcome = "existing_open" /\ Status(g.finding) = "open" /\ ~g.title /\ ~g.reason
  \/ g.outcome = "reaffirmed_closed" /\ Status(g.finding) = "accepted_reason"
     /\ ~g.title /\ ~g.reason
  \/ g.outcome = "reopen_closed" /\ Status(g.finding) \in Closed /\ ~g.title /\ g.reason
ContractAccepts(p) ==
  /\ Named(p) = Unlinked
  /\ ~Overlap(p)
  /\ \A i \in DOMAIN p : ContractGroup(p[i])

(* _validate_proposal, once more and for human proposals the only check.   *)
MayName == [existing_open |-> {"open"}, reaffirmed_closed |-> {"accepted_reason"},
            reopen_closed |-> Closed]
DomainGroup(g) ==
  IF g.outcome = "new" THEN g.finding = NoFinding /\ g.title
  ELSE /\ Status(g.finding) \in MayName[g.outcome] /\ ~g.title
       /\ g.outcome = "reopen_closed" => g.reason
DomainAccepts(p) ==
  /\ Named(p) = Unlinked
  /\ ~Overlap(p)
  /\ \A i \in DOMAIN p : DomainGroup(p[i])

-----------------------------------------------------------------------------
(* reconcile: from accepted groups to intents.                             *)

(* _group_key, for groups that do not overlap.                             *)
BeforeMut(p, i, j) == i < j
Before(p, i, j) == Least(p[i].obs) < Least(p[j].obs)

NewIndex(p, i) == Cardinality({j \in DOMAIN p : p[j].outcome = "new" /\ Before(p, j, i)})
Target(p, i) == IF p[i].outcome = "new" THEN New(NewIndex(p, i)) ELSE Existing(p[i].finding)

NeedsHumanMut(g) == FALSE
NeedsHuman(g) == g.outcome = "reopen_closed" /\ Status(g.finding) = "human_decision"

(* _owner, over the observations of all groups of one target.              *)
OwnerMut(obs) == lane[Least(obs)]
Owner(obs) == Least({lane[o] : o \in obs})

Counted == {"first_seen", "recurrence", "reopening"}
LinksTo(t, ls) == {l \in ls : l.target = t /\ l.type \in Counted}
RowsFor(ts, ls) ==
  {[target |-> t, owner |-> Owner({l.obs : l \in LinksTo(t, ls)}), entry |-> "post_check"] : t \in ts}

(* ReadyReconciliation, or AwaitHumanReopen when there are requests.       *)
Reconcile(p, by) ==
  LET linked(i) == {[obs |-> o, target |-> Target(p, i), type |-> LinkType[p[i].outcome],
                     by |-> by] : o \in p[i].obs}
      ls == UNION {linked(i) : i \in {i \in DOMAIN p : ~NeedsHuman(p[i])}}
      asked == {p[i].finding : i \in {i \in DOMAIN p : NeedsHuman(p[i])}}
  IN  [links |-> ls,
       rows |-> RowsFor({l.target : l \in {l \in ls : l.type \in Counted}} \ Present, ls),
       requests |-> [f \in asked |-> UNION {p[i].obs : i \in {i \in DOMAIN p :
                                              NeedsHuman(p[i]) /\ p[i].finding = f}}],
       present |-> Present]

(* resolve_human_reopens: the answered requests join what was there.       *)
JoinsRoundMut(awaiting, f) == FALSE
JoinsRound(awaiting, f) == Existing(f) \notin awaiting.present

Resolve(awaiting, choices) ==
  LET asked == DOMAIN awaiting.requests
      decided(f) == {[obs |-> o, target |-> Existing(f), by |-> "reopen_answer",
                      type |-> IF choices[f] = "reopen" THEN "reopening" ELSE "reaffirmation"] :
                       o \in awaiting.requests[f]}
      more == UNION {decided(f) : f \in asked}
      reopened == {f \in asked : choices[f] = "reopen" /\ JoinsRound(awaiting, f)}
  IN  [awaiting EXCEPT !.links = @ \cup more,
                       !.rows = @ \cup RowsFor({Existing(f) : f \in reopened}, more)]

(* derive_primary_round_outcome, derive_fix_check_contribution             *)
WorkTypesMut == Counted \cup {"reaffirmation"}
WorkTypes == Counted
AuthorWork(ready) == {l.target : l \in {l \in ready.links : l.type \in WorkTypes}}
PrimaryOutcome(ready) == IF AuthorWork(ready) = {} THEN "clean" ELSE "needs_revision"

-----------------------------------------------------------------------------
(* What the tables accept: one link per observation, one row per finding   *)
(* of the round, and a human link only for what the question showed.       *)
HumanAuthority(l) ==
  /\ l.by = "reopen_answer" => l.target.finding \in DOMAIN answers
                               /\ l.obs \in result.requests[l.target.finding]
  /\ l.by = "reconcile_failed" => l.obs \in Unlinked
Fits(ls, rs) ==
  /\ {l.obs : l \in ls} \cap Linked = {} /\ {r.target : r \in rs} \cap Present = {}
  /\ \A k, l \in ls : k.obs = l.obs => k = l
  /\ \A q, r \in rs : q.target = r.target => q = r
  /\ \A l \in ls : HumanAuthority(l)

Write(ls, rs, next) ==
  IF Fits(ls, rs)
  THEN links' = links \cup ls /\ rows' = rows \cup rs /\ phase' = next
  ELSE phase' = "refused" /\ UNCHANGED <<links, rows>>

NoAnswers == [f \in {} |-> "reopen"]
NoResult == [links |-> {}, rows |-> {}, requests |-> NoAnswers, present |-> {}]

(* A fix check has its issued rows, of findings that it may have closed    *)
(* since, and a reviewer may have linked an observation to one of them.    *)
ReconInit ==
  /\ context \in {"discovery", "fix_check_new"}
  /\ lane \in [Observations -> Lanes]
  /\ ledger \in [Findings -> Statuses]
  /\ \E issued \in SUBSET {f \in Findings : ledger[f] # "out_of_scope"}, owner \in Lanes :
       /\ rows = {[target |-> Existing(f), owner |-> owner, entry |-> "issued"] : f \in issued}
       /\ context = "discovery" => issued = {} /\ owner = Least(Lanes)
       /\ \/ links = {}
          \/ \E f \in issued :
               /\ N \in Observations /\ ledger[f] = "open" /\ owner = lane[N]
               /\ links = {[obs |-> N, target |-> Existing(f), type |-> "recurrence", by |-> "reviewer"]}
  /\ proposal = <<>> /\ attempts = 0
  /\ result = NoResult /\ answers = NoAnswers
  /\ phase = "drafting"

ProposeGroup ==
  /\ phase \in {"drafting", "human_drafting"}
  /\ \E obs \in (SUBSET (Unlinked \ Named(proposal))) \ {{}},
        outcome \in DOMAIN LinkType, f \in Findings \cup {NoFinding} :
       LET g == [obs |-> obs, outcome |-> outcome, finding |-> f,
                 title |-> outcome = "new", reason |-> outcome = "reopen_closed"]
       IN  ContractGroup(g) /\ proposal' = Append(proposal, g)
  /\ UNCHANGED <<context, lane, ledger, links, rows, attempts, result, answers, phase>>

(* An agent may spoil the last group of a proposal in any way.             *)
SpoilProposal ==
  /\ phase = "drafting" /\ Len(proposal) <= SpoilAfter
  /\ \E o \in Observations \cup {Stranger} :
       /\ Unlinked \subseteq Named(proposal) \cup {o}
       /\ \E g \in [obs : {{o}}, outcome : DOMAIN LinkType, finding : Findings \cup {NoFinding},
                     title : BOOLEAN, reason : BOOLEAN] :
            /\ ~(ContractGroup(g) /\ o \in Unlinked \ Named(proposal))
            /\ proposal' = Append(proposal, g)
  /\ UNCHANGED <<context, lane, ledger, links, rows, attempts, result, answers, phase>>

(* validate_agent_result first, then reconcile; a proposal that the        *)
(* contract accepts and the domain refuses would end in an exception.      *)
Decide(by) ==
  /\ \/ ~DomainAccepts(proposal) /\ phase' = "raised" /\ UNCHANGED result
     \/ DomainAccepts(proposal) /\ phase' = "decided" /\ result' = Reconcile(proposal, by)
  /\ UNCHANGED <<context, lane, ledger, links, rows, proposal, attempts, answers>>

SubmitAgent == phase = "drafting" /\ ContractAccepts(proposal) /\ Decide("reconciler")

(* A rejected attempt is retried within the budget, then the question of   *)
(* build_reconcile_failed_question shows all observations to a human.      *)
RejectAgent ==
  /\ phase = "drafting" /\ ~ContractAccepts(proposal)
  /\ attempts' = attempts + 1
  /\ phase' = IF attempts' < MaxAttempts THEN "drafting" ELSE "human_drafting"
  /\ proposal' = <<>>
  /\ UNCHANGED <<context, lane, ledger, links, rows, result, answers>>

SubmitHuman ==
  phase = "human_drafting" /\ DomainAccepts(proposal) /\ Decide("reconcile_failed")

(* What needs no human is written together with the questions.             *)
WriteIntents ==
  /\ phase = "decided"
  /\ Write(result.links, result.rows, IF DOMAIN result.requests = {} THEN "written" ELSE "asked")
  /\ UNCHANGED <<context, lane, ledger, proposal, attempts, result, answers>>

AnswerReopen(f, choice) ==
  /\ phase = "asked" /\ f \in DOMAIN result.requests \ DOMAIN answers
  /\ answers' = [g \in DOMAIN answers \cup {f} |-> IF g = f THEN choice ELSE answers[g]]
  /\ UNCHANGED <<context, lane, ledger, links, rows, proposal, attempts, result, phase>>

(* Only a full set of answers is accepted; resolve_human_reopens returns   *)
(* the intents written before as well, the caller writes the others.       *)
ResolveReopens ==
  /\ phase = "asked" /\ DOMAIN answers = DOMAIN result.requests
  /\ LET ready == Resolve(result, answers)
     IN  /\ result' = ready
         /\ Write(ready.links \ links, ready.rows \ rows, "written")
  /\ UNCHANGED <<context, lane, ledger, proposal, attempts, answers>>

ReconNext ==
  \/ ProposeGroup \/ SpoilProposal
  \/ SubmitAgent \/ RejectAgent \/ SubmitHuman
  \/ WriteIntents
  \/ \E f \in Findings, choice \in {"reopen", "keep_closed"} : AnswerReopen(f, choice)
  \/ ResolveReopens

ReconSpec == ReconInit /\ [][ReconNext]_reconVars

-----------------------------------------------------------------------------
IsOpen(t) == \/ t.finding = NoFinding
             \/ Status(t.finding) = "open"
             \/ \E l \in links : l.target = t /\ l.type = "reopening"

(* A proposal that the agent contract accepts is accepted by the domain,   *)
(* and what the domain makes of it is accepted by the tables, also when    *)
(* the answers of a human come later (validation.py 412-540,               *)
(* reconciliation.py 173-368, finding_observation_link, finding_round).    *)
NeverRefused == phase \notin {"raised", "refused"}

(* A finding that a human closed gets a reopening link only from a human   *)
(* who was asked about that finding and chose to reopen it, and while a    *)
(* question is open its observations stay unlinked (reconciliation.py      *)
(* 472-482, 549-627).                                                      *)
HumanNotOverruled ==
  /\ \A l \in links :
       l.type = "reopening" /\ Status(l.target.finding) = "human_decision" =>
         l.target.finding \in DOMAIN answers /\ answers[l.target.finding] = "reopen"
  /\ phase = "asked" => Linked = Observations \ UNION {result.requests[f] : f \in DOMAIN result.requests}

(* Whatever the order in which an agent names its groups, the same         *)
(* findings come out under the same index, with the same links and rows    *)
(* (reconciliation.py 371-409).                                            *)
OrderIndependent ==
  phase = "decided" =>
    \A q \in {f \in [DOMAIN proposal -> DOMAIN proposal] : \A i, j \in DOMAIN f : f[i] = f[j] => i = j} :
      LET other == [i \in DOMAIN proposal |-> proposal[q[i]]]
      IN  Reconcile(other, "reconciler") = Reconcile(proposal, "reconciler")

(* The finding of a post_check row is checked next by the first lane that  *)
(* reported it in this round, over all groups and answers (_owner).        *)
OwnerReportedFirst ==
  phase = "written" =>
    \A r \in rows : r.entry = "post_check" =>
      LET reporters == {lane[l.obs] : l \in LinksTo(r.target, links)}
      IN  r.owner \in reporters /\ \A n \in reporters : r.owner <= n

(* When reconciliation is over the two gates over its tables pass: no      *)
(* observation is left and every open finding seen has its row             *)
(* (campaign.py 481-508).                                                  *)
GatesPass ==
  phase = "written" =>
    /\ Unlinked = {}
    /\ \A l \in links : IsOpen(l.target) => l.target \in Present

(* The author gets exactly what is open and was seen, and a discovery is   *)
(* clean only when it leaves no row and opens nothing (reconciliation.py   *)
(* 636-664).                                                               *)
WorkIsWhatIsOpen ==
  phase = "written" =>
    /\ AuthorWork(result) = {l.target : l \in {l \in links : l.by # "reviewer" /\ IsOpen(l.target)}}
    /\ context = "discovery" => (PrimaryOutcome(result) = "clean" <=> rows = {})
=============================================================================
