----------------------------- MODULE ReviewCycle -----------------------------
(***************************************************************************)
(* One review campaign from its discovery round to its end: the state      *)
(* machine and decide_after_check of domain/review/transition.py, with the *)
(* rows the decisions are made from and write: rounds, author revisions,   *)
(* findings and their finding_round rows (store/repo/campaign.py and       *)
(* finding.py).                                                            *)
(*                                                                         *)
(* Each action is one call of a caller that does what the last decision    *)
(* told it.  What that was, is read from the rows, so a caller that dies   *)
(* between two calls changes nothing; joining a revision, its check and    *)
(* the rows it issues in one transaction only leaves out states.  A row of *)
(* finding_round with a decision stands for one decided by a successful    *)
(* attempt of its owner.  rejected and wont_fix are alike: "declined".     *)
(*                                                                         *)
(* An operator whose name ends in Mut is a deliberately wrong form of the  *)
(* operator after it, used by no specification.                            *)
(***************************************************************************)
EXTENDS Naturals, Sequences, FiniteSets

CONSTANTS
  Cap,         (* stage_execution.max_author_revisions                      *)
  MaxExtra,    (* bound: revisions a human grants beyond it                 *)
  MaxFindings  (* bound: findings of the campaign                           *)

ASSUME CycleAssumption ==
  /\ Cap \in Nat \ {0}
  /\ MaxExtra \in Nat
  /\ MaxFindings \in Nat

VARIABLES
  campaign,     (* review_campaign.state                                    *)
  maxRevisions, (* stage_execution.max_author_revisions                     *)
  revisions,    (* how many author_revision rows, numbered from 1           *)
  rounds,       (* review_round: kind, the revision checked, result         *)
  findings,     (* finding with its last opening and last resolution        *)
  rows,         (* finding_round                                            *)
  question      (* reason of the open human question of AskHuman            *)

reviewVars == <<campaign, maxRevisions, revisions, rounds, findings, rows, question>>

CampaignStates == {"discovery", "reconciliation", "fix_cycle",
                   "closed_clean", "closed_escalated", "closed_cancelled"}
Closed == {"closed_clean", "closed_escalated", "closed_cancelled"}
Results == {"clean", "needs_revision", "escalated"}
Reasons == {"dispute", "cap_exhausted_same", "cap_exhausted_new"}
Resolutions == {"verified_fixed", "accepted_reason", "policy_closed"}
Dispositions == {"fixed", "declined"}
Decisions == {"verified_fixed", "still_present", "accepted_reason", "insists"}

None == "none"

Round   == [kind : {"discovery", "fix_check"}, preceding : Nat, result : Results \cup {None}]
Finding == [first : Nat \ {0}, opened : Nat \ {0}, closed : Nat, grave : BOOLEAN,
            status : {"open"} \cup Resolutions]
Row     == [round : Nat \ {0}, finding : Nat \ {0}, entry : {"issued", "post_check"},
            disposition : Dispositions \cup {None}, decision : Decisions \cup {None}]

-----------------------------------------------------------------------------
(* The state machine, once in the domain and once in the schema.           *)
Transitions ==
  { <<"discovery", "discovery_completed", "reconciliation">>,
    <<"discovery", "cancelled", "closed_cancelled">>,
    <<"reconciliation", "reconciliation_has_findings", "fix_cycle">>,
    <<"reconciliation", "reconciliation_clean", "closed_clean">>,
    <<"reconciliation", "cancelled", "closed_cancelled">>,
    <<"fix_cycle", "check_needs_revision", "fix_cycle">>,
    <<"fix_cycle", "human_gate_opened", "fix_cycle">>,
    <<"fix_cycle", "human_extra_revision", "fix_cycle">>,
    <<"fix_cycle", "check_clean", "closed_clean">>,
    <<"fix_cycle", "human_finalized", "closed_escalated">>,
    <<"fix_cycle", "cancelled", "closed_cancelled">> }

CampaignTransition ==
  { <<"discovery", "reconciliation">>, <<"discovery", "closed_cancelled">>,
    <<"reconciliation", "fix_cycle">>, <<"reconciliation", "closed_clean">>,
    <<"reconciliation", "closed_cancelled">>, <<"fix_cycle", "fix_cycle">>,
    <<"fix_cycle", "closed_clean">>, <<"fix_cycle", "closed_escalated">>,
    <<"fix_cycle", "closed_cancelled">> }

(* next_campaign_state, and transition_campaign_state under the trigger    *)
(* trg_campaign_state_transition.                                          *)
Transition(event) ==
  \E new \in CampaignStates :
    /\ <<campaign, event, new>> \in Transitions
    /\ <<campaign, new>> \in CampaignTransition
    /\ campaign' = new

-----------------------------------------------------------------------------
Current == Len(rounds)
RoundOpen == rounds[Current].result = None

(* campaign_counters: the discovery round counts as the first check.       *)
ReviewCheckCountMut ==
  Cardinality({r \in DOMAIN rounds : rounds[r].result # None /\ rounds[r].kind = "fix_check"})
ReviewCheckCount == Cardinality({r \in DOMAIN rounds : rounds[r].result # None})

OpenFindings == {f \in DOMAIN findings : findings[f].status = "open"}
RowsOf(r) == {row \in rows : row.round = r}
InRound(f, r) == \E row \in RowsOf(r) : row.finding = f

(* close_round: WHERE result IS NULL                                       *)
CloseRound(result) ==
  /\ RoundOpen
  /\ rounds' = [rounds EXCEPT ![Current].result = result]

CycleInit ==
  /\ campaign = "discovery" /\ maxRevisions = Cap /\ revisions = 0
  /\ rounds = << [kind |-> "discovery", preceding |-> 0, result |-> None] >>
  /\ findings = <<>> /\ rows = {} /\ question = None

(* The blind phase is over (its gates are in LaneRoster).                  *)
CompleteDiscovery ==
  /\ campaign = "discovery"
  /\ Transition("discovery_completed")
  /\ UNCHANGED <<maxRevisions, revisions, rounds, findings, rows, question>>

(* The gates of a fix check: find_missing_finding_participation and        *)
(* find_incomplete_issued.                                                 *)
MissingParticipationMut == {}
MissingParticipation == {f \in OpenFindings : ~InRound(f, Current)}

IncompleteIssued ==
  {row \in RowsOf(Current) :
    /\ row.entry = "issued"
    /\ \/ rounds[Current].kind # "fix_check"
       \/ row.disposition = None
       \/ row.decision = None}

GatesPassed ==
  /\ RoundOpen /\ rounds[Current].kind = "fix_check"
  /\ MissingParticipation = {} /\ IncompleteIssued = {}

(* Reconciliation of the discovery round, or of a fix check after all its  *)
(* owners have answered.                                                   *)
Reconciling ==
  \/ RoundOpen /\ campaign = "reconciliation"
  \/ GatesPassed /\ campaign = "fix_cycle"

PostCheck(f) == [round |-> Current, finding |-> f, entry |-> "post_check",
                 disposition |-> None, decision |-> None]

(* It takes a group of observations for something new, ...                 *)
CreateFinding(grave) ==
  LET f == Len(findings) + 1
  IN  /\ Reconciling /\ f <= MaxFindings
      /\ findings' = Append(findings, [first |-> Current, opened |-> Current, closed |-> 0,
                                       grave |-> grave, status |-> "open"])
      /\ rows' = rows \cup {PostCheck(f)}
      /\ UNCHANGED <<campaign, maxRevisions, revisions, rounds, question>>

(* ... or for a finding already known, a closed one being reopened.  What  *)
(* was not in the round comes into it as post_check.                       *)
TakeUpFinding(f) ==
  /\ Reconciling
  /\ f \in DOMAIN findings
  /\ findings' = IF f \in OpenFindings THEN findings
                 ELSE [findings EXCEPT ![f].status = "open", ![f].opened = Current]
  /\ rows' = rows \cup (IF InRound(f, Current) THEN {} ELSE {PostCheck(f)})
  /\ UNCHANGED <<campaign, maxRevisions, revisions, rounds, question>>

(* The discovery round is closed by the outcome of its reconciliation.     *)
CloseDiscovery ==
  /\ campaign = "reconciliation"
  /\ \/ OpenFindings = {} /\ CloseRound("clean") /\ Transition("reconciliation_clean")
     \/ /\ OpenFindings # {}
        /\ CloseRound("needs_revision") /\ Transition("reconciliation_has_findings")
  /\ UNCHANGED <<maxRevisions, revisions, findings, rows, question>>

-----------------------------------------------------------------------------
(* StartAuthorRevision was decided, or a human granted one.                *)
Proceeds == campaign = "fix_cycle" /\ ~RoundOpen /\ question = None

RevisionDueMut == Proceeds
RevisionDue == Proceeds /\ revisions < Len(rounds)

CreateAuthorRevision ==
  /\ RevisionDue
  /\ revisions' = revisions + 1
  /\ UNCHANGED <<campaign, maxRevisions, rounds, findings, rows, question>>

(* decide_after_revision: a check, whatever the counters are.              *)
CheckDue == Proceeds /\ revisions = Len(rounds)

(* create_round                                                            *)
OpenCheck ==
  /\ CheckDue
  /\ rounds' = Append(rounds, [kind |-> "fix_check", preceding |-> revisions, result |-> None])
  /\ UNCHANGED <<campaign, maxRevisions, revisions, findings, rows, question>>

(* create_finding_round of a finding with what the author answered to it.  *)
IssueFinding(f, disposition) ==
  /\ RoundOpen /\ rounds[Current].kind = "fix_check" /\ campaign = "fix_cycle"
  /\ f \in OpenFindings /\ ~InRound(f, Current)
  /\ rows' = rows \cup {[round |-> Current, finding |-> f, entry |-> "issued",
                         disposition |-> disposition, decision |-> None]}
  /\ UNCHANGED <<campaign, maxRevisions, revisions, rounds, findings, question>>

(* The CHECK that a decision fits the disposition.                         *)
Fitting(disposition) ==
  CASE disposition = "fixed"    -> {"verified_fixed", "still_present"}
    [] disposition = "declined" -> {"accepted_reason", "insists"}
    [] OTHER -> {}

(* trg_finding_round_decision_once                                         *)
Undecided(row) == row.decision = None

(* record_reviewer_decision, with the resolution it amounts to.            *)
RecordReviewerDecision(row, d) ==
  /\ Undecided(row) /\ d \in Fitting(row.disposition)
  /\ rows' = (rows \ {row}) \cup {[row EXCEPT !.decision = d]}
  /\ findings' = IF d \in Resolutions
                 THEN [findings EXCEPT ![row.finding].status = d,
                                       ![row.finding].closed = row.round]
                 ELSE findings
  /\ UNCHANGED <<campaign, maxRevisions, revisions, rounds, question>>

-----------------------------------------------------------------------------
(* Closing a check: the gates, then evaluate_disputes, whose policy        *)
(* closures take effect first, then decide_after_check.                    *)
Disputed == {f \in OpenFindings : \E row \in RowsOf(Current) : row.finding = f /\ row.decision = "insists"}
Escalating == {f \in Disputed : findings[f].grave}
PolicyClosed == Disputed \ Escalating
StillOpen == OpenFindings \ PolicyClosed

(* _validate_check_facts                                                   *)
CheckFactsValid ==
  /\ campaign = "fix_cycle"
  /\ revisions <= maxRevisions
  /\ ReviewCheckCount = revisions
  /\ \A f \in StillOpen : findings[f].first <= Current
  /\ Escalating \subseteq StillOpen

RevisionsLeftMut == revisions <= maxRevisions
RevisionsLeft == revisions < maxRevisions

CloseClean ==
  /\ StillOpen = {}
  /\ CloseRound("clean") /\ Transition("check_clean")
  /\ UNCHANGED question

AskDispute ==
  /\ StillOpen # {} /\ Escalating # {}
  /\ CloseRound("escalated") /\ Transition("human_gate_opened")
  /\ question' = "dispute"

NoDisputeMut == Escalating = {} \/ RevisionsLeft
NoDispute == Escalating = {}

StartAuthorRevision ==
  /\ StillOpen # {} /\ NoDispute /\ RevisionsLeft
  /\ CloseRound("needs_revision") /\ Transition("check_needs_revision")
  /\ UNCHANGED question

AskCap ==
  /\ StillOpen # {} /\ NoDispute /\ ~RevisionsLeft
  /\ CloseRound("escalated") /\ Transition("human_gate_opened")
  /\ question' = IF \E f \in StillOpen : findings[f].first = Current
                 THEN "cap_exhausted_new" ELSE "cap_exhausted_same"

CloseCheck ==
  /\ GatesPassed /\ CheckFactsValid
  /\ CloseClean \/ AskDispute \/ StartAuthorRevision \/ AskCap
  /\ findings' = [f \in DOMAIN findings |->
                    IF f \in PolicyClosed
                    THEN [findings[f] EXCEPT !.status = "policy_closed", !.closed = Current]
                    ELSE findings[f]]
  /\ UNCHANGED <<maxRevisions, revisions, rows>>

-----------------------------------------------------------------------------
(* The human's answers to AskHuman, and a cancellation.                    *)
GrantRevision ==
  /\ question # None /\ maxRevisions < Cap + MaxExtra
  /\ Transition("human_extra_revision")
  /\ maxRevisions' = maxRevisions + 1
  /\ question' = None
  /\ UNCHANGED <<revisions, rounds, findings, rows>>

Finalize ==
  /\ question # None
  /\ Transition("human_finalized")
  /\ question' = None
  /\ UNCHANGED <<maxRevisions, revisions, rounds, findings, rows>>

Cancel ==
  /\ Transition("cancelled")
  /\ UNCHANGED <<maxRevisions, revisions, rounds, findings, rows, question>>

Caller ==
  \/ CompleteDiscovery \/ CloseDiscovery
  \/ CreateAuthorRevision \/ OpenCheck \/ CloseCheck
  \/ \E f \in 1..MaxFindings, disposition \in Dispositions : IssueFinding(f, disposition)

CycleNext ==
  \/ Caller
  \/ \E grave \in BOOLEAN : CreateFinding(grave)
  \/ \E f \in 1..MaxFindings : TakeUpFinding(f)
  \/ \E row \in rows, d \in Decisions : RecordReviewerDecision(row, d)
  \/ GrantRevision \/ Finalize \/ Cancel

CycleSpec == CycleInit /\ [][CycleNext]_reviewVars

(* The caller carries out what was decided and every reviewer answers; a   *)
(* human need not.                                                         *)
FairCycleSpec ==
  /\ CycleSpec
  /\ WF_reviewVars(Caller)
  /\ WF_reviewVars(\E row \in rows, d \in Decisions : RecordReviewerDecision(row, d))

-----------------------------------------------------------------------------
CycleTypeOK ==
  /\ campaign \in CampaignStates
  /\ maxRevisions \in Cap..(Cap + MaxExtra)
  /\ revisions \in 0..Len(rounds)
  /\ rounds \in Seq(Round) /\ rounds # <<>>
  /\ findings \in Seq(Finding) /\ Len(findings) <= MaxFindings
  /\ rows \subseteq Row
  /\ \A row \in rows : row.round \in DOMAIN rounds /\ row.finding \in DOMAIN findings
  /\ question \in Reasons \cup {None}

(* The facts of a check whose gates are passed are never refused as an     *)
(* unreachable combination: the counters, taken from two tables, meet, and *)
(* the cap is not exceeded, also after revisions granted by a human        *)
(* (_validate_check_facts).                                                *)
CheckAccepted ==
  GatesPassed /\ campaign \notin Closed => CheckFactsValid

(* No finding is closed on the revision on which it was seen: since it was *)
(* last opened, the author has answered it in a revision that was checked. *)
(* So a finding closed and reopened within one check cannot be closed      *)
(* again by the same check (finding_round with its triggers and CHECKs).   *)
ClosedByLaterRevision ==
  \A f \in DOMAIN findings : findings[f].status # "open" =>
    /\ findings[f].closed > findings[f].opened
    /\ rounds[findings[f].closed].preceding > rounds[findings[f].opened].preceding

(* A clean campaign has nothing open, and every check of it was answered   *)
(* in full by the reviewers (the gates of close_round).                    *)
CleanIsSettled ==
  campaign = "closed_clean" =>
    /\ OpenFindings = {}
    /\ \A row \in rows : row.entry = "issued" => row.decision # None

(* A grave dispute never costs the author another revision: the round in   *)
(* which a reviewer insisted was escalated (decide_after_check).           *)
DisputesReachHuman ==
  \A row \in rows : row.decision = "insists" /\ findings[row.finding].grave
                      => rounds[row.round].result \in {None, "escalated"}

(* Nothing is forgotten: in every check that was closed, the author has    *)
(* answered and its owner decided on each finding that was open before it  *)
(* (find_missing_finding_participation with find_incomplete_issued).       *)
NothingForgotten ==
  \A r \in 2..Len(rounds), f \in DOMAIN findings :
    rounds[r].result # None /\ findings[f].status = "open" /\ findings[f].opened < r =>
      \E row \in RowsOf(r) : row.finding = f /\ row.entry = "issued" /\ row.decision # None

(* The cycle keeps the revision contract.                                  *)
Stage ==
  IF campaign \in Closed THEN "closed"
  ELSE IF campaign # "fix_cycle" THEN "first"
  ELSE IF question = "dispute" THEN "askingDispute"
  ELSE IF question # None THEN "askingCap"
  ELSE IF RevisionDue THEN "revising" ELSE "checking"

Contract == INSTANCE RevisionContract
  WITH stage <- Stage, revisions <- revisions, checks <- ReviewCheckCount, cap <- maxRevisions

KeepsContract == Contract!ContractSpec

(* No more revisions than the cap with what humans added to it, and no     *)
(* more checks than one above that (the promise of decide_after_check).    *)
CapHeld == Contract!CapHeld

(* The cycle ends or waits for a human, whatever is found and reopened on  *)
(* the way; no gate stays shut.                                            *)
CycleEnds == []<>(campaign \in Closed \/ question # None)
=============================================================================
