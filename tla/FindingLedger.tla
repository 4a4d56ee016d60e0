---------------------------- MODULE FindingLedger ----------------------------
(***************************************************************************)
(* The life of one finding: observations linked to it, resolutions and     *)
(* severity overrides, all append-only and ordered by the run event they   *)
(* were written under (store/repo/finding.py, 0001_initial.sql 768-1154),  *)
(* and what is derived from them twice: by the views finding_period,       *)
(* finding_status, finding_last_override and finding_severity, and by the  *)
(* pure functions of domain/review/severity.py, here called the oracle.    *)
(*                                                                         *)
(* An operator whose name ends in Mut is a deliberately wrong form of the  *)
(* operator after it, used by no specification.                            *)
(***************************************************************************)
EXTENDS Naturals, FiniteSets

CONSTANTS
  Severities,  (* the severities that occur                                 *)
  Types,       (* the link types that occur after creation                  *)
  Resolutions, (* the resolutions that occur                                *)
  Threshold,   (* review_campaign.severity_threshold                        *)
  MaxEvents,   (* bound: events of the run, with and without inOrder        *)
  MaxRows      (* bound: links, resolutions and overrides together, alike   *)

Rank == [none |-> 0, low |-> 10, medium |-> 20, high |-> 30, critical |-> 40]

(* closes_period                                                           *)
Closing == {"verified_fixed", "human_decision"}
ResolutionKinds == Closing \cup {"accepted_reason", "policy_closed"}
LinkTypes == {"first_seen", "recurrence", "reaffirmation", "reopening"}
Counted == {"first_seen", "recurrence", "reopening"}

ASSUME LedgerAssumption ==
  /\ Severities \subseteq DOMAIN Rank \ {"none"}
  /\ Types \subseteq LinkTypes
  /\ Resolutions \subseteq ResolutionKinds
  /\ Threshold \in Severities
  /\ MaxEvents \in [BOOLEAN -> Nat \ {0}] /\ MaxRows \in [BOOLEAN -> Nat]

VARIABLES
  inOrder,     (* the writer puts its rows under the event it has just      *)
               (* appended and takes old_severity from the view; otherwise  *)
               (* it writes anything the schema accepts                     *)
  now,         (* the newest run_event.id                                   *)
  shown,       (* escalation_severity before anything was written under it  *)
  created,     (* finding.event_id                                          *)
  links,       (* finding_observation_link with severity_effective          *)
  resolutions, (* finding_resolution                                        *)
  overrides    (* severity_override                                         *)

ledgerVars == <<inOrder, now, shown, created, links, resolutions, overrides>>

Events == 1..now
EventsOf(rows) == {row.event : row \in rows}

NoEvent == 0
Latest(es) == IF es = {} THEN NoEvent ELSE CHOOSE e \in es : \A d \in es : d <= e
Earliest(es) == IF es = {} THEN NoEvent ELSE CHOOSE e \in es : \A d \in es : e <= d

(* ORDER BY rank DESC LIMIT 1, and _max_severity; "none" is NULL and None. *)
Highest(ss) == IF ss = {} THEN "none" ELSE CHOOSE s \in ss : \A t \in ss : Rank[t] <= Rank[s]

Opens  == {created} \cup EventsOf({l \in links : l.type = "reopening"})
Closes == EventsOf({r \in resolutions : r.kind \in Closing})
CountedLinks == {l \in links : l.type \in Counted}

-----------------------------------------------------------------------------
(* The views.                                                              *)

(* The period starts with the first opening after the last closing.        *)
StartAmongMut(es) == Latest(es)
StartAmong(es) == Earliest(es)
ViewPeriod == StartAmong({e \in Opens : e > Latest(Closes)})

(* Any resolution closes the finding, but not every one its period.        *)
SettlesMut(r) == r.kind \in Closing
Settles(r) == TRUE
LastSettled == Latest(EventsOf({r \in resolutions : Settles(r)}))

ReopenedSinceMut(e) == Latest(Opens) >= e
ReopenedSince(e) == Latest(Opens) > e

ViewStatus ==
  IF LastSettled = NoEvent \/ ReopenedSince(LastSettled) THEN "open" ELSE "closed"

ViewLastOverride ==
  LET start == ViewPeriod
      inPeriod == {o \in overrides : start # NoEvent /\ o.event >= start}
  IN  {o \in inPeriod : o.event = Latest(EventsOf(inPeriod))}

(* Observations up to the last override of the period do not count.        *)
AfterCutMut(l, cut) == TRUE
AfterCut(l, cut) == l.event > cut

InPeriodMut(l, start) == start # NoEvent
InPeriod(l, start) == start # NoEvent /\ l.event >= start

ViewEscalation ==
  LET start == ViewPeriod
      last  == ViewLastOverride
      cut   == Latest(EventsOf(last))
  IN  Highest({l.severity : l \in {k \in CountedLinks : InPeriod(k, start) /\ AfterCut(k, cut)}}
              \cup {o.new : o \in last})

ViewHistoricalMax == Highest({l.severity : l \in links})

-----------------------------------------------------------------------------
(* derive_severity_snapshot.                                               *)

(* _period_start_at                                                        *)
OraclePeriodAt(e) ==
  LET closed == Latest({c \in Closes : c <= e})
  IN  Earliest({o \in Opens : closed < o /\ o <= e})

(* The overrides that fall into a period, and for each of them the one     *)
(* before it in the same period.                                           *)
InSomePeriod == {o \in overrides : OraclePeriodAt(o.event) # NoEvent}
SamePeriod(o) == {p \in InSomePeriod : OraclePeriodAt(p.event) = OraclePeriodAt(o.event)}
Previous(o) ==
  LET earlier == {p \in SamePeriod(o) : p.event < o.event}
  IN  {p \in earlier : p.event = Latest(EventsOf(earlier))}

(* _severity_before_override                                               *)
ExpectedOld(o) ==
  LET from == IF Previous(o) = {} THEN OraclePeriodAt(o.event)
              ELSE Latest(EventsOf(Previous(o))) + 1
  IN  Highest({l.severity : l \in {k \in CountedLinks : from <= k.event /\ k.event < o.event}}
              \cup {p.new : p \in Previous(o)})

(* Facts that are not refused.                                             *)
OpensAndCloses == Opens \cap Closes
OracleAccepts ==
  /\ OpensAndCloses = {}
  /\ \A o \in InSomePeriod : ExpectedOld(o) \in {"none", o.old}

OraclePeriod == Earliest({e \in Opens : e > Latest(Closes)})

InCurrentPeriodMut == InSomePeriod
InCurrentPeriod ==
  LET start == OraclePeriod IN {o \in InSomePeriod : OraclePeriodAt(o.event) = start}

OracleEscalation ==
  LET last == LET current == InCurrentPeriod
              IN  {o \in current : o.event = Latest(EventsOf(current))}
      start == OraclePeriod
      from == IF last = {} THEN start ELSE Latest(EventsOf(last)) + 1
  IN  IF start = NoEvent THEN "none"
      ELSE Highest({l.severity : l \in {k \in CountedLinks : k.event >= from}}
                   \cup {o.new : o \in last})

-----------------------------------------------------------------------------
(* A finding is created with the link of its first observation, in one     *)
(* transaction; the schema alone would also take it without.               *)
LedgerInit ==
  /\ inOrder \in BOOLEAN
  /\ now = 1 /\ created = 1 /\ shown = "none"
  /\ \/ \E s \in Severities : links = {[event |-> 1, type |-> "first_seen", severity |-> s]}
     \/ ~inOrder /\ links = {}
  /\ resolutions = {} /\ overrides = {}

Rows == Cardinality(links) + Cardinality(resolutions) + Cardinality(overrides)

(* event_id REFERENCES run_event(id)                                       *)
Writable(e) == Rows < MaxRows[inOrder] /\ IF inOrder THEN e = now ELSE e \in Events

(* append_run_event                                                        *)
AppendEvent ==
  /\ now < MaxEvents[inOrder]
  /\ now' = now + 1
  /\ shown' = ViewEscalation
  /\ UNCHANGED <<inOrder, created, links, resolutions, overrides>>

(* create_observation_link                                                 *)
CreateObservationLink(e, type, s) ==
  /\ Writable(e)
  /\ links' = links \cup {[event |-> e, type |-> type, severity |-> s]}
  /\ UNCHANGED <<inOrder, now, shown, created, resolutions, overrides>>

(* create_resolution: UNIQUE (finding_id, event_id).                       *)
Unresolved(e) == e \notin EventsOf(resolutions)

CreateResolution(e, kind) ==
  /\ Writable(e) /\ Unresolved(e)
  /\ resolutions' = resolutions \cup {[event |-> e, kind |-> kind]}
  /\ UNCHANGED <<inOrder, now, shown, created, links, overrides>>

(* create_severity_override: UNIQUE (finding_id, event_id).                *)
NotOverridden(e) == e \notin EventsOf(overrides)

CreateSeverityOverride(e, old, new) ==
  /\ Writable(e) /\ NotOverridden(e)
  /\ inOrder /\ shown # "none" => old = shown
  /\ overrides' = overrides \cup {[event |-> e, old |-> old, new |-> new]}
  /\ UNCHANGED <<inOrder, now, shown, created, links, resolutions>>

(* evaluate_disputes of a finding its reviewer insists on, and the closure *)
(* it intends.  From the threshold on a human is asked instead.            *)
DisputeCandidate == ViewStatus = "open"
MeetsThreshold(s) == Rank[s] >= Rank[Threshold]

ClosePolicy ==
  /\ DisputeCandidate /\ ~MeetsThreshold(ViewEscalation)
  /\ CreateResolution(now, "policy_closed")

LedgerNext ==
  \/ AppendEvent
  \/ \E e \in Events, type \in Types, s \in Severities : CreateObservationLink(e, type, s)
  \/ \E e \in Events, kind \in Resolutions \ {"policy_closed"} : CreateResolution(e, kind)
  \/ \E e \in Events, old, new \in Severities : CreateSeverityOverride(e, old, new)
  \/ ClosePolicy

LedgerSpec == LedgerInit /\ [][LedgerNext]_ledgerVars

-----------------------------------------------------------------------------
(* Two derivations, one truth: whatever was written, in whatever order,    *)
(* the view and derive_severity_snapshot show the same period and the same *)
(* escalation severity, unless the latter refuses the facts.               *)
SnapshotAgrees ==
  OracleAccepts => /\ OraclePeriod = ViewPeriod
                   /\ OracleEscalation = ViewEscalation

(* A writer that takes old_severity from the view, as it stood before its  *)
(* event, is never refused later, whatever else is appended in order; the  *)
(* only other refusal is of an event that both opens and closes.           *)
HonestOverrideAccepted == inOrder => OpensAndCloses # {} \/ OracleAccepts

(* An open finding can be graded: evaluate_disputes, which refuses a       *)
(* candidate without a period or without a severity, decides every         *)
(* candidate that read_dispute_candidates gives it.                        *)
OpenIsGraded ==
  inOrder /\ ViewStatus = "open" => ViewPeriod # NoEvent /\ ViewEscalation # "none"

(* Only a closing of the period and an override lower the severity: no     *)
(* link, no other resolution, no reopening after one and no late row does  *)
(* (db-schema.md 10, invariant 9).                                         *)
OnlyOverrideLowers ==
  [][Closes' = Closes /\ overrides' = overrides
       => Rank[ViewEscalation'] >= Rank[ViewEscalation]]_ledgerVars

(* A new period forgets: when a finding is opened again after a closing,   *)
(* its severity comes from rows of the event that opened it alone.         *)
NewPeriodForgets ==
  [][ViewPeriod' \notin {ViewPeriod, NoEvent} /\ inOrder =>
       ViewEscalation' \in {l.severity : l \in {k \in links' : k.event = now}}
                           \cup {o.new : o \in {p \in overrides' : p.event = now}}]_ledgerVars

(* A late row under an older event cannot overturn a later decision: what  *)
(* the last resolution and the last opening say stands                     *)
(* (db-schema.md 5.6).                                                     *)
LateRowsKeepStatus ==
  [][\A r \in resolutions' \ resolutions :
       r.event < Latest(EventsOf(resolutions)) => ViewStatus' = ViewStatus]_ledgerVars
=============================================================================
