----------------------------- MODULE LaneRoster -----------------------------
(***************************************************************************)
(* The quorum of one review campaign: who reviews which revision, retries, *)
(* replacements and waivers of failed lanes, and the end of the discovery  *)
(* round.  The operations are those of store/repo/campaign.py and          *)
(* store/repo/attempt.py, each with the constraints of 0001_initial.sql    *)
(* it runs into, and each one transaction.  They are called in any order,  *)
(* as no orchestrator exists yet.                                          *)
(*                                                                         *)
(* Beyond what the repository refuses, four things are taken of the caller *)
(* from docs/design/db-schema.md.  Two are compositions: an attempt and    *)
(* its exposure are created in one transaction, so a refused exposure      *)
(* leaves no attempt; and the gates of the discovery round are evaluated   *)
(* in the transaction that moves the campaign on.  Two are restrictions:   *)
(* create_lane_assignment, a plain insert, is used for generation 1 only   *)
(* (later generations come from replace_lane_assignment, which asks for a  *)
(* failed executor); and all attempts of a round are given the round's one *)
(* revision.  step_attempt.subject_revision is the caller's to choose, and *)
(* on a revision not yet exposed _can_reuse_exposure asks nothing, so that *)
(* an attempt of a round on another revision would repeat any earlier one. *)
(*                                                                         *)
(* An operator whose name ends in Mut is a deliberately wrong form of the  *)
(* operator after it, used by no specification.                            *)
(***************************************************************************)
EXTENDS AssignmentChain, FiniteSets

CONSTANTS
  Pairs,              (* the pairs of provider and model                    *)
  PairOf,             (* run_profile_resolution: the pair of a profile      *)
  Revisions,          (* the revisions of the subject                       *)
  Outcomes,           (* the attempt outcomes that occur                    *)
  NoLane,             (* lane_id IS NULL                                    *)
  LaneFailureAnswers, (* the answers to lane_failure questions of this      *)
                      (* campaign that are not bound to another round       *)
  MaxAttempts         (* bound: the number of attempts                      *)

Retryable == {"contract_error", "transient", "hung", "interrupted"}

ASSUME RosterAssumption ==
  /\ PairOf \in [Profiles -> Pairs]
  /\ 1 \in Rounds
  /\ Outcomes \subseteq Retryable \cup {"succeeded", "failed"}
  /\ IsFiniteSet(Lanes) /\ NoLane \notin Lanes
  /\ LaneFailureAnswers \subseteq Answers
  /\ MaxAttempts \in Nat

VARIABLES
  campaign,    (* review_campaign.state                                     *)
  revisionOf,  (* review_round: the open or closed rounds, each with the    *)
               (* revision its attempts are given                           *)
  closedRounds,(* the rounds whose result is set                            *)
  attempts,    (* step_attempt; the id is the position                      *)
  exposures    (* reviewer_exposure: revision, pair, first_attempt_id       *)

attemptVars == <<attempts, exposures>>
roundVars   == <<revisionOf, closedRounds>>
rosterVars  == <<chainVars, attemptVars, roundVars, campaign>>

Discovery == 1

CampaignTransition ==
  {<<"discovery", "reconciliation">>, <<"discovery", "closed_cancelled">>,
   <<"reconciliation", "fix_cycle">>, <<"reconciliation", "closed_clean">>,
   <<"reconciliation", "closed_cancelled">>,
   <<"fix_cycle", "fix_cycle">>, <<"fix_cycle", "closed_clean">>,
   <<"fix_cycle", "closed_escalated">>, <<"fix_cycle", "closed_cancelled">>}

Closed == {"closed_clean", "closed_escalated", "closed_cancelled"}
CampaignStates == {"discovery", "reconciliation", "fix_cycle"} \cup Closed

Attempt == [role: {"reviewer", "reconciler"}, round: Rounds,
            lane: Lanes \cup {NoLane}, assignment: Nat, profile: Profiles,
            outcome: Outcomes \cup {"active"}]
Exposure == [revision: Revisions, pair: Pairs, first: Nat \ {0}]

RosterInit ==
  /\ ChainInit
  /\ campaign = "discovery"
  /\ revisionOf \in [{Discovery} -> Revisions]
  /\ closedRounds = {}
  /\ attempts = <<>> /\ exposures = {}

RevisionGiven(a) == revisionOf[a.round]

(* The reviewer attempts of assignment i in round r with such an outcome.  *)
Reviewed(i, r, outcomes) ==
  {k \in DOMAIN attempts :
     /\ attempts[k].role = "reviewer" /\ attempts[k].round = r
     /\ attempts[k].assignment = i /\ attempts[k].outcome \in outcomes}

-----------------------------------------------------------------------------
(* create_lane_assignment, as used: the first executor of a lane.          *)
AssignFirst(l, p) ==
  /\ InsertAssignment([lane |-> l, generation |-> 1, profile |-> p,
                       replaces |-> None, answer |-> NoAnswer])
  /\ UNCHANGED <<attemptVars, roundVars, campaign>>

(* _can_reuse_exposure, of an attempt about to be created.  previous is    *)
(* the last attempt of this assignment in this round.                      *)
IsCurrentMut(i) == TRUE
IsCurrent(i) == Effective(i)

LastOfMut(ks) == {k \in ks : \A j \in ks : j >= k}
LastOf(ks) == {k \in ks : \A j \in ks : j <= k}

OwnsExposureMut(a, e) == TRUE
OwnsExposure(a, e) == attempts[e.first].lane = a.lane

CanReuseExposure(a, e) ==
  \/ a.role = "reconciler"
  \/ /\ OwnsExposure(a, e)
     /\ IsCurrent(a.assignment)
     /\ \A k \in LastOf(Reviewed(a.assignment, a.round, Outcomes \cup {"active"})) :
          attempts[k].outcome \in Retryable

(* AUTOINCREMENT                                                           *)
NextAttempt == Len(attempts) + 1

(* create_attempt with reserve_reviewer_exposure: ux_attempt_active, then  *)
(* the membership of the pair is inserted, or found and compared.          *)
StartAttempt(a) ==
  LET existing == {e \in exposures : e.revision = RevisionGiven(a)
                                     /\ e.pair = PairOf[a.profile]}
  IN  /\ Len(attempts) < MaxAttempts
      /\ \A k \in DOMAIN attempts : attempts[k].outcome = "active" =>
           <<attempts[k].role, attempts[k].lane>> # <<a.role, a.lane>>
      /\ attempts' = Append(attempts, a)
      /\ \/ /\ existing = {}
            /\ exposures' = exposures \cup
                 {[revision |-> RevisionGiven(a), pair |-> PairOf[a.profile],
                   first |-> NextAttempt]}
         \/ /\ existing # {}
            /\ \A e \in existing : CanReuseExposure(a, e)
            /\ UNCHANGED exposures
      /\ UNCHANGED <<chainVars, roundVars, campaign>>

(* The foreign keys make the round exist and tie lane and profile to the   *)
(* assignment; nothing asks whether the assignment is in force, the round  *)
(* open or the campaign running.                                           *)
StartReviewer(i, r) ==
  StartAttempt([role |-> "reviewer", round |-> r,
                lane |-> assignments[i].lane, assignment |-> i,
                profile |-> assignments[i].profile, outcome |-> "active"])

StartReconciler(p, r) ==
  StartAttempt([role |-> "reconciler", round |-> r, lane |-> NoLane,
                assignment |-> None, profile |-> p, outcome |-> "active"])

(* complete_attempt: WHERE outcome IS NULL, so a late answer after a       *)
(* timeout finds the attempt terminal and is refused.                      *)
AwaitsOutcomeMut(k) == TRUE
AwaitsOutcome(k) == attempts[k].outcome = "active"

CompleteAttempt(k, outcome) ==
  /\ AwaitsOutcome(k)
  /\ attempts' = [attempts EXCEPT ![k].outcome = outcome]
  /\ UNCHANGED <<exposures, chainVars, roundVars, campaign>>

-----------------------------------------------------------------------------
(* _require_discovery_lane_failure_answer                                  *)
LaneActionAuthorized(a) ==
  /\ Discovery \notin closedRounds
  /\ a \in LaneFailureAnswers

(* The effective assignment failed in this round: it has an unsuccessful   *)
(* attempt, and neither a running nor a successful one.                    *)
NothingElse(i) == Reviewed(i, Discovery, {"active", "succeeded"}) = {}

FailedCurrent(i) ==
  /\ Effective(i)
  /\ Reviewed(i, Discovery, Outcomes \ {"succeeded"}) # {}
  /\ NothingElse(i)

ReplaceLaneAssignment(i, p, a) ==
  /\ LaneActionAuthorized(a)
  /\ FailedCurrent(i)
  /\ assignments[i].generation < MaxGen
  /\ InsertAssignment([lane |-> assignments[i].lane,
                       generation |-> assignments[i].generation + 1,
                       profile |-> p, replaces |-> i, answer |-> a])
  /\ UNCHANGED <<attemptVars, roundVars, campaign>>

WaiveLaneForRound(l, a) ==
  /\ LaneActionAuthorized(a)
  /\ InsertWaiver([round |-> Discovery, lane |-> l, answer |-> a])
  /\ UNCHANGED <<attemptVars, roundVars, campaign>>

-----------------------------------------------------------------------------
(* create_round: a fix check has a round number of its own.                *)
OpenRound(r, v) ==
  /\ r \notin DOMAIN revisionOf
  /\ revisionOf' = [s \in DOMAIN revisionOf \cup {r} |->
                      IF s = r THEN v ELSE revisionOf[s]]
  /\ UNCHANGED <<closedRounds, chainVars, attemptVars, campaign>>

(* close_round: WHERE result IS NULL.                                      *)
RoundOpen(r) == r \in DOMAIN revisionOf \ closedRounds

CloseRound(r) ==
  /\ RoundOpen(r)
  /\ closedRounds' = closedRounds \cup {r}
  /\ UNCHANGED <<revisionOf, chainVars, attemptVars, campaign>>

(* The gates find_missing_discovery_lane_participation,                    *)
(* find_discovery_without_successful_opinion and                           *)
(* find_discovery_roster_cardinality_mismatch.                             *)
GaveOpinion(l) ==
  \E i \in Ids : /\ assignments[i].lane = l /\ Effective(i)
                 /\ Reviewed(i, Discovery, {"succeeded"}) # {}

MissingParticipation ==
  {l \in Lanes : ~GaveOpinion(l) /\ ~\E w \in waivers : w.round = Discovery /\ w.lane = l}

WithoutOpinion == ~\E l \in Lanes : GaveOpinion(l)

CardinalityMismatch ==
  Cardinality({i \in Ids : Effective(i)}) # Cardinality(Lanes)

(* transition_campaign_state after the gates, in one transaction.  The     *)
(* round stays open for its reconciliation.                                *)
CompleteDiscovery ==
  /\ MissingParticipation = {} /\ ~WithoutOpinion /\ ~CardinalityMismatch
  /\ campaign = "discovery"
  /\ campaign' = "reconciliation"
  /\ UNCHANGED <<chainVars, attemptVars, roundVars>>

(* transition_campaign_state: WHERE state = expected, along the transition *)
(* table.                                                                  *)
TransitionCampaign(new) ==
  /\ <<campaign, new>> \in CampaignTransition
  /\ new # "reconciliation"
  /\ campaign' = new
  /\ UNCHANGED <<chainVars, attemptVars, roundVars>>

RosterNext ==
  \/ \E l \in Lanes, p \in Profiles : AssignFirst(l, p)
  \/ \E i \in Ids, r \in DOMAIN revisionOf : StartReviewer(i, r)
  \/ \E p \in Profiles, r \in DOMAIN revisionOf : StartReconciler(p, r)
  \/ \E k \in DOMAIN attempts, o \in Outcomes : CompleteAttempt(k, o)
  \/ \E i \in Ids, p \in Profiles, a \in Answers : ReplaceLaneAssignment(i, p, a)
  \/ \E l \in Lanes, a \in Answers : WaiveLaneForRound(l, a)
  \/ \E r \in Rounds, v \in Revisions : OpenRound(r, v)
  \/ \E r \in Rounds : CloseRound(r)
  \/ CompleteDiscovery
  \/ \E new \in CampaignStates : TransitionCampaign(new)

RosterSpec == RosterInit /\ [][RosterNext]_rosterVars

-----------------------------------------------------------------------------
(* The rows have their type, and the foreign keys of attempts and          *)
(* exposures lead somewhere.                                               *)
RosterTypeOK ==
  /\ ChainTypeOK
  /\ campaign \in CampaignStates
  /\ DOMAIN revisionOf \subseteq Rounds
  /\ revisionOf \in [DOMAIN revisionOf -> Revisions]
  /\ closedRounds \subseteq DOMAIN revisionOf
  /\ attempts \in Seq(Attempt)
  /\ exposures \subseteq Exposure
  /\ \A k \in DOMAIN attempts : attempts[k].round \in DOMAIN revisionOf
  /\ \A e \in exposures : e.first \in DOMAIN attempts

SameReading(j, k) ==
  /\ RevisionGiven(attempts[j]) = RevisionGiven(attempts[k])
  /\ PairOf[attempts[j].profile] = PairOf[attempts[k].profile]

(* Independent opinions: whatever profiles the lanes were given at first   *)
(* and by replacements, a reviewer never reads a revision that its pair of *)
(* provider and model was already shown for another lane, nor one it was   *)
(* first shown as reconciler (_can_reuse_exposure).                        *)
Independence ==
  \A j, k \in DOMAIN attempts :
    /\ j < k /\ attempts[k].role = "reviewer" /\ SameReading(j, k)
    => \E i \in 1..j : /\ attempts[i].role = "reviewer"
                       /\ attempts[i].lane = attempts[k].lane
                       /\ SameReading(i, k)
                       /\ attempts[j].role = "reviewer"
                            => attempts[j].lane = attempts[k].lane

(* A retry answers only a retryable failure: once an assignment succeeded  *)
(* in a round, or failed for good, it is not run again in that round,      *)
(* however many retries came before (previous in _can_reuse_exposure).     *)
RetriesOnlyFailures ==
  \A j, k \in DOMAIN attempts :
    /\ j < k /\ attempts[j].role = "reviewer" /\ attempts[k].role = "reviewer"
    /\ attempts[j].round = attempts[k].round
    /\ attempts[j].assignment = attempts[k].assignment
    => attempts[j].outcome \in Retryable

(* An opinion is never displaced: a replaced assignment has no successful  *)
(* and no running attempt in the discovery round, and cannot come by one   *)
(* later, neither by a retry nor by a late answer.  (A waiver displaces    *)
(* nobody: waive_lane_for_round takes a lane whose executor succeeded.)    *)
DisplacedHasNoOpinion ==
  \A i \in Ids : ~Effective(i) =>
    Reviewed(i, Discovery, {"active", "succeeded"}) = {}

(* Past discovery the quorum stays met: every lane has an executor in      *)
(* force, every lane without an opinion of it is waived, and somebody gave *)
(* one.  No later replacement, waiver or answer may undo what the gates    *)
(* saw.                                                                    *)
QuorumStaysMet ==
  campaign \in {"reconciliation", "fix_cycle", "closed_clean", "closed_escalated"} =>
    /\ \A l \in Lanes : \E i \in Ids :
         /\ assignments[i].lane = l /\ Effective(i)
         /\ Reviewed(i, Discovery, {"succeeded"}) = {} =>
              \E w \in waivers : w.round = Discovery /\ w.lane = l
    /\ \E i \in Ids : Effective(i) /\ Reviewed(i, Discovery, {"succeeded"}) # {}

(* docs/design/db-schema.md asks of replace_lane_assignment that the       *)
(* campaign be not closed.                                                 *)
ReplacesOnlyInOpenCampaign ==
  [][Len(assignments') > Len(assignments) /\ assignments'[Len(assignments')].replaces # None
       => campaign \notin Closed]_rosterVars
=============================================================================
