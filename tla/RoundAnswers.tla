---------------------------- MODULE RoundAnswers ----------------------------
(***************************************************************************)
(* The answers of one fix check: the author says of every open finding     *)
(* what was done about it, then each lane decides on the findings it owns  *)
(* and may observe one of them again.  An answer is checked against what   *)
(* was asked (agents/validation.py 539-657, 903-968), and written later,   *)
(* row by row, into finding_round, review_observation and the links, whose *)
(* checks and triggers know other things than the contract does            *)
(* (store/repo/finding.py, domain/review/severity.py, 0001_initial.sql).   *)
(* In between another campaign may close or reopen a finding.              *)
(*                                                                         *)
(* The transactions around the writes belong to a caller that is not part  *)
(* of the repository yet; docs/task-plans/p1-a/t1.7b.md says what each     *)
(* holds together.  An answer is a set of items; of two items for one      *)
(* finding at least a field differs.                                       *)
(*                                                                         *)
(* An operator whose name ends in Mut is a deliberately wrong form of the  *)
(* operator after it, used by no specification.                            *)
(***************************************************************************)
EXTENDS Naturals, Sequences, FiniteSets, SequencesExt

CONSTANTS
  Findings, Lanes, Severities,
  Owners,      (* who may own what                                          *)
  AuthorSays,  (* the items of an author, as <<disposition, reason>>        *)
  MaxRounds,   (* bound: fix checks                                         *)
  MaxMoves     (* bound: what another campaign does to the findings         *)

Dispositions == {"fixed", "rejected", "wont_fix"}
Decisions == {"verified_fixed", "still_present", "accepted_reason", "insists"}

ASSUME AnswersAssumption ==
  /\ IsFiniteSet(Findings)   (* rows of a table                             *)
  /\ Owners \subseteq [Findings -> Lanes]
  /\ AuthorSays \subseteq Dispositions \X {"none", "blank", "given"}
  /\ Severities # {} /\ "none" \notin Severities
  /\ MaxRounds \in Nat /\ MaxMoves \in Nat

VARIABLES
  open,         (* finding_status.status = 'open'                           *)
  period,       (* the number of severity periods begun, and whether the    *)
  running,      (* last of them still runs (finding_period)                 *)
  owner,        (* owner_lane_id                                            *)
  observations, (* review_observation of the campaign by seq, with its link *)
  round, phase,
  asked,        (* expected_open_finding_ids                                *)
  rows,         (* finding_round of the round                               *)
  draft,        (* the author's accepted answer that is not yet written     *)
  verdicts,     (* the same for each lane                                   *)
  answered,     (* lanes whose answer is written                            *)
  moves

ledgerPart == <<open, period, running>>
roundPart == <<owner, round, phase, asked>>
answersVars == <<ledgerPart, roundPart, observations, rows, draft, verdicts, answered, moves>>

NoAnswer == {}                (* no accepted answer is empty                *)
Undecided == "none"
Outside == "outside"          (* a finding of the run, not of the campaign *)

About(items) == {i.finding : i \in items}
Repeated(items) == \E i, j \in items : i # j /\ i.finding = j.finding

Mine(l) == {f \in DOMAIN rows : owner[f] = l}

(* last_observation: the newest one of the finding in this campaign.       *)
Shown(f) ==
  CHOOSE n \in DOMAIN observations :
    /\ observations[n].finding = f
    /\ \A m \in DOMAIN observations : observations[m].finding = f => m <= n

-----------------------------------------------------------------------------
(* The contract.                                                           *)

ReasonMissing(i) == i.reason # "given"

DispositionIssues(items) ==
  \/ ~(About(items) \subseteq asked)
  \/ Repeated(items)
  \/ \E i \in items : IF i.disposition = "fixed" THEN i.reason # "none" ELSE ReasonMissing(i)
  \/ ~(asked \subseteq About(items))

PairIsValid(decision, disposition) ==
  decision \in (IF disposition = "fixed" THEN {"verified_fixed", "still_present"}
                                         ELSE {"accepted_reason", "insists"})

StaysOpen == {"still_present", "insists"}

Undone(l, items) == Mine(l) \ About(items)

NotMineMut(l, items) == {}
NotMine(l, items) == About(items) \ Mine(l)

BadPairsMut(l, items) == {}
BadPairs(l, items) ==
  {i \in items : i.finding \in Mine(l) /\ ~PairIsValid(i.decision, rows[i.finding].disposition)}

DecisionIssues(l, items) ==
  \/ NotMine(l, items) # {}
  \/ Repeated(items)
  \/ BadPairs(l, items) # {}
  \/ \E i \in items : i.followup # "none" /\ i.decision \notin StaysOpen
  \/ \E i \in items : i.followup = "elsewhere"
  \/ Undone(l, items) # {}

-----------------------------------------------------------------------------
(* What the writes refuse.                                                 *)

(* CHECKs of finding_round at INSERT, and UNIQUE (campaign_id, finding_id, *)
(* round_no).  Only findings of the campaign have an owner.                *)
RowsInsertable(items) ==
  /\ About(items) \subseteq Findings /\ ~Repeated(items)
  /\ \A i \in items : i.disposition # "fixed" => i.reason # "none"

(* record_reviewer_decision: the row exists, was not decided, and the pair *)
(* passes the CHECK.  Whose row it is, is not asked.                       *)
RowsDecidable(items) ==
  /\ ~Repeated(items)
  /\ \A i \in items :
       /\ i.finding \in DOMAIN rows /\ rows[i.finding].decision = Undecided
       /\ PairIsValid(i.decision, rows[i.finding].disposition)

Followups(items) == {i \in items : i.followup # "none"}

Parent(i) ==
  IF i.followup = "unchanged" THEN Shown(i.finding)
  ELSE Shown(CHOOSE f \in Findings \ {i.finding} : TRUE)

(* resolve_effective_severity: only an inherited severity is checked.      *)
SamePeriodMut(f, parent) == parent.finding = f
SamePeriod(f, parent) ==
  parent.finding = f /\ running[f] /\ parent.period = period[f]

Resolvable(i) ==
  i.followup \in Severities \/ SamePeriod(i.finding, observations[Parent(i)])

EffectiveSeverity(i) ==
  IF i.followup \in Severities THEN i.followup ELSE observations[Parent(i)].severity

Observed(i) ==
  [finding |-> i.finding, period |-> period[i.finding], severity |-> EffectiveSeverity(i),
   parent |-> IF i.followup \in Severities THEN 0 ELSE Parent(i)]

Writable(items) == RowsDecidable(items) /\ \A i \in Followups(items) : Resolvable(i)

-----------------------------------------------------------------------------
(* The findings of the discovery, each with the observation that its owner *)
(* made.                                                                   *)
AnswersInit ==
  /\ open = Findings /\ period = [f \in Findings |-> 1]
  /\ running = [f \in Findings |-> TRUE]
  /\ owner \in Owners
  /\ \E s \in [Findings -> Severities] :
       observations = SetToSeq({[finding |-> f, period |-> 1, severity |-> s[f], parent |-> 0]
                                : f \in Findings})
  /\ round = 1 /\ phase = "author" /\ asked = open
  /\ rows = <<>> /\ draft = NoAnswer
  /\ verdicts = [l \in Lanes |-> NoAnswer] /\ answered = {}
  /\ moves = 0

(* An answer with issues (AgentContractError) changes nothing: the agent   *)
(* is told and asked again, as long as contract_retry_budget lasts.  That  *)
(* an agent gives up is a behaviour that takes no further step for it.     *)
AuthorAnswers ==
  {{[finding |-> f, disposition |-> says[f][1], reason |-> says[f][2]]
      : f \in {g \in DOMAIN says : says[g] # <<>>}}
     : says \in [Findings \cup {Outside} -> AuthorSays \cup {<<>>}]}

AuthorAnswer ==
  /\ phase = "author" /\ draft = NoAnswer
  /\ \E items \in AuthorAnswers : ~DispositionIssues(items) /\ draft' = items
  /\ UNCHANGED <<ledgerPart, roundPart, observations, rows, verdicts, answered, moves>>

(* record_author_revision: the revision, the round and its rows.           *)
RecordAuthorRevision ==
  /\ phase = "author" /\ draft # NoAnswer /\ RowsInsertable(draft)
  /\ rows' = [f \in About(draft) |->
                LET i == CHOOSE j \in draft : j.finding = f
                IN  [disposition |-> i.disposition, decision |-> Undecided, by |-> "nobody"]]
  /\ draft' = NoAnswer /\ phase' = "review"
  /\ answered' = {l \in Lanes : \A f \in DOMAIN rows' : owner[f] # l}
  /\ UNCHANGED <<ledgerPart, owner, round, asked, observations, verdicts, moves>>

(* The answers of a lane: some of its findings decided in some way, and    *)
(* one item more, which may carry a follow-up, name a finding again or one *)
(* of another lane.                                                        *)
Plain(d) == {[finding |-> f, decision |-> d[f], followup |-> "none"] : f \in DOMAIN d}
OneMore == [finding : Findings, decision : Decisions,
            followup : Severities \cup {"none", "unchanged", "elsewhere"}]
LaneAnswers ==
  [mine \in SUBSET Findings |->
     UNION {{Plain(d), Plain(d) \cup {x}} :
              d \in UNION {[S -> Decisions] : S \in SUBSET mine}, x \in OneMore}]

LaneAnswer(l) ==
  /\ phase = "review" /\ l \notin answered /\ verdicts[l] = NoAnswer
  /\ \E items \in LaneAnswers[Mine(l)] :
       ~DecisionIssues(l, items) /\ verdicts' = [verdicts EXCEPT ![l] = items]
  /\ UNCHANGED <<ledgerPart, roundPart, observations, rows, draft, answered, moves>>

(* record_review_decisions: decisions, follow-ups with their recurrence    *)
(* links and resolutions, all or none.                                     *)
Closing(items) == {i.finding : i \in {j \in items : j.decision \notin StaysOpen}}

RecordReviewDecisions(l) ==
  LET items == verdicts[l] IN
  /\ items # NoAnswer /\ Writable(items)
  /\ rows' = [f \in DOMAIN rows |->
                IF f \in About(items)
                THEN [rows[f] EXCEPT !.decision = (CHOOSE i \in items : i.finding = f).decision,
                                     !.by = l]
                ELSE rows[f]]
  /\ observations' = observations \o SetToSeq({Observed(i) : i \in Followups(items)})
  /\ open' = open \ Closing(items)
  /\ running' = [f \in Findings |->
                   running[f] /\ ~\E i \in items : i.finding = f /\ i.decision = "verified_fixed"]
  /\ verdicts' = [verdicts EXCEPT ![l] = NoAnswer] /\ answered' = answered \cup {l}
  /\ UNCHANGED <<period, roundPart, draft, moves>>

(* The transaction is rolled back and the lane is asked again.             *)
RefuseReviewDecisions(l) ==
  /\ verdicts[l] # NoAnswer /\ ~Writable(verdicts[l])
  /\ verdicts' = [verdicts EXCEPT ![l] = NoAnswer]
  /\ UNCHANGED <<ledgerPart, roundPart, observations, rows, draft, answered, moves>>

(* find_incomplete_issued, for rows whose dispositions come from the       *)
(* attempt of the preceding revision.                                      *)
IncompleteIssued ==
  {f \in DOMAIN rows : rows[f].decision = Undecided \/ rows[f].by # owner[f]}

(* finalize_fix_check, and the next request to the author.                 *)
NextRound ==
  /\ phase = "review" /\ answered = Lanes /\ IncompleteIssued = {}
  /\ round < MaxRounds /\ open # {}
  /\ round' = round + 1 /\ phase' = "author" /\ asked' = open /\ rows' = <<>>
  /\ answered' = {}
  /\ UNCHANGED <<ledgerPart, owner, observations, draft, verdicts, moves>>

(* Another campaign of the run works on the same finding.                  *)
OtherCampaignCloses(f, resolution) ==
  /\ moves < MaxMoves /\ f \in open
  /\ moves' = moves + 1 /\ open' = open \ {f}
  /\ running' = [running EXCEPT ![f] = @ /\ resolution = "accepted_reason"]
  /\ UNCHANGED <<period, roundPart, observations, rows, draft, verdicts, answered>>

OtherCampaignReopens(f) ==
  /\ moves < MaxMoves /\ f \notin open
  /\ moves' = moves + 1 /\ open' = open \cup {f}
  /\ running' = [running EXCEPT ![f] = TRUE]
  /\ period' = [period EXCEPT ![f] = IF running[f] THEN @ ELSE @ + 1]
  /\ UNCHANGED <<roundPart, observations, rows, draft, verdicts, answered>>

AnswersNext ==
  \/ AuthorAnswer
  \/ RecordAuthorRevision
  \/ \E l \in Lanes : \/ LaneAnswer(l)
                      \/ RecordReviewDecisions(l) \/ RefuseReviewDecisions(l)
  \/ NextRound
  \/ \E f \in Findings : \/ \E r \in {"accepted_reason", "verified_fixed"} : OtherCampaignCloses(f, r)
                         \/ OtherCampaignReopens(f)

AnswersSpec == AnswersInit /\ [][AnswersNext]_answersVars

-----------------------------------------------------------------------------
(* A follow-up whose finding has left the severity period of the           *)
(* observation that was shown.                                             *)
LeftBehind(items) ==
  \E i \in Followups(items) : i.followup \notin Severities
    /\ (~running[i.finding] \/ observations[Shown(i.finding)].period # period[i.finding])

(* What the contract lets pass can be written, row by row, whatever other  *)
(* lanes have written in the meantime; only a finding that another         *)
(* campaign has moved on makes the transaction fail.                       *)
AcceptedIsWritable ==
  /\ RowsInsertable(draft)
  /\ \A l \in Lanes : Writable(verdicts[l]) \/ LeftBehind(verdicts[l])

(* What find_incomplete_issued reports is what still waits for its owner,  *)
(* never a row decided in a way the gate will not count: when every lane   *)
(* has had its answer written, the round can be closed                     *)
(* (record_reviewer_decision itself does not ask whose row it decides).    *)
OnlyOwnersAreWaitedFor ==
  phase = "review" =>
    /\ IncompleteIssued = {f \in DOMAIN rows : owner[f] \notin answered}
    /\ \A f \in IncompleteIssued : rows[f].decision = Undecided

(* A severity said to be unchanged is one of the same finding and severity *)
(* period, down to the observation that states it: nothing is carried over *)
(* from before a closing (unchanged_from).                                 *)
InheritedWithinPeriod ==
  \A n \in DOMAIN observations :
    LET o == observations[n] IN
    o.parent # 0 =>
      /\ o.parent < n
      /\ LET p == observations[o.parent]
         IN  p.finding = o.finding /\ p.period = o.period /\ p.severity = o.severity
=============================================================================
