# A TLA+ model of stable-metaswarm

This directory holds TLA+ modules translated from the code under `src/metaswarm`,
TLC configurations that check them on small instances, and TLAPS proofs that do
not depend on the instance. Paths are relative to the repository root.

## 1. The system

stable-metaswarm is to drive coding agents through planned work with review by a
quorum of independent models. At this commit the package holds the durable core
and the decision logic, and no orchestrator yet: nothing spawns an agent or runs
a stage. The parts that exist are passive and are called by a program still to be
written, so the models let their callers call them in any order and rely on what the
code itself refuses. Where the design fixes more about the caller, and a model takes
it over, section 2 says so under that module. Two such restrictions carry theorems of the
quorum: `create_lane_assignment`, a plain insert (campaign.py:260), is used for
generation 1 only, and all attempts of a round share one revision.

| part | code | state | operations | what makes it correct |
|---|---|---|---|---|
| database worker | `store/db.py` 426-641 | FIFO queue, worker thread, one SQLite connection, a future per job, `_state` | `open`, `read`, `transaction`, `close`, cancellation of any of them | serial effects in order of acceptance, answers only after the fate is sealed, failures never hidden, everything ends |
| migrations | `store/db.py` 282-424 | `schema_migration`, the schema | `_migrate`, `_apply_migration` | each version applied once and whole, also with two processes or a crash |
| session authorizer | `store/db.py` 144-272 | `_active` | `fetch_*`, `execute` | a callback cannot leave or end its transaction |
| lane assignments | `0001_initial.sql` 426-557 | `lane_assignment`, `lane_waiver` | inserts | one executor per lane, one action per human answer |
| quorum of a campaign | `store/repo/campaign.py`, `store/repo/attempt.py` | attempts, exposures, rounds, campaign state | create, complete and reserve attempts; replace, waive; close rounds; gates | independent opinions, no displaced opinion, a quorum that stays met |
| findings ledger | `store/repo/finding.py`, views 1045-1129 | observations, findings, links, resolutions, overrides, rows per round | appends, decisions and derived reads | status and severity derived alike in SQL and in Python; an accepted answer can be written |
| review cycle | `domain/review/transition.py`, `campaign_counters` | counters, campaign state | `next_campaign_state`, `decide_after_check` | the cycle ends, the cap holds, the two state machines agree |
| severity | `domain/review/severity.py` | none | derivations | snapshot of the period, disputes, nothing inherited across a closing |
| reconciliation | `domain/review/reconciliation.py` | none | `reconcile`, `resolve_human_reopens` | every observation linked once, human decisions not overruled, nothing accepted is refused later |
| run and blockers | `store/repo/run.py`, `store/repo/question.py`, view `run_state` | branches, blockers, questions, answers, outbox | create, answer, `set_branch_state`, audit reads | a blocked branch has its blocker and the reverse, nobody who waits for a human is hidden, questions arrive |
| events | `store/events.py` | `run_event` | `append_run_event` | canonical payload |
| agent contract | `agents/` | none | `validate_agent_result`, `render_retry_feedback` | what is accepted fits domain and schema; cycles found and told |

**Interaction.** Repositories run inside callbacks of `Database.transaction`, on
the worker thread, one callback at a time; the domain and agent modules are pure
and their results are written by repository calls. The schema repeats many rules
of the repositories as CHECKs, foreign keys and triggers, and often is the only
place that enforces them. Several processes may open one file; then SQLite's write
lock serializes them.

**What is hard.** In the worker: the race of a cancellation with the start, the
commit and the answer of a job; close against submit, open, and a second close; a
failed transaction on a connection everybody shares; process death. In the
quorum: late answers against timeouts, retries, replacements and waivers in any
order. In the ledger: periods reopened and closed over and over, with overrides.
In the cycle: two counters and a cap that a human may exceed. Around an answer of
an agent or a human: it is checked against what was asked and written later, by
other rules, after other lanes, other campaigns or a human have moved on. Around a
question: two lanes that both want to ask, and a crash between the question and its
message. `PROJECT.json` lists every such hazard at its line, also those no module
covers.

## 2. Modules

| module | models | extends / instantiates |
|---|---|---|
| `SerialStore` | what the store promises, abstractly | |
| `Database` | `store/db.py`: worker, callers, open and close, crash | instantiates `SerialStore` |
| `DatabaseProofs` | theorems about it, and that it implements `SerialStore` | extends `Database`, `TLAPS` |
| `AssignmentChain` | tables `lane_assignment`, `lane_waiver`, view `effective_roster` | |
| `LaneRoster` | campaign and attempt repositories on top of the two tables | extends `AssignmentChain` |
| `LaneRosterProofs` | theorems about both | extends `LaneRoster`, `TLAPS` |
| `Migration` | opening one file by processes of several releases | |
| `MigrationProofs` | theorems about it | extends `Migration`, `TLAPS` |
| `FindingLedger` | links, resolutions, overrides of a finding; SQL views against Python | |
| `FindingLedgerProofs` | theorems about it | extends `FindingLedger`, `TLAPS` |
| `RevisionContract` | what a review cycle promises, abstractly | |
| `ReviewCycle` | rounds, revisions, findings, decisions of one campaign | instantiates `RevisionContract` |
| `ReviewCycleProofs` | theorems about it | extends `ReviewCycle`, `TLAPS` |
| `Reconciliation` | a proposal of a round: contract, domain, the human's reopening answers, the rows written | |
| `ReconciliationProofs` | theorems about it | extends `Reconciliation`, `TLAPS` |
| `RoundAnswers` | the answers of a fix check: contract, severity of follow-ups, the rows written, another campaign | |
| `TaskGraph` | the search for a cycle in a breakdown, and the message of issues | |
| `AgentContractProofs` | theorems about the two modules before | extends `RoundAnswers`, `TaskGraph`, `TLAPS` |
| `HumanGate` | branches, blockers, questions, answers, the outbox and the run view | |
| `HumanGateProofs` | theorems about it | extends `HumanGate`, `TLAPS` |
| `MCDatabase`, `MCLaneRoster`, `MCMigration`, `MCFindingLedger`, `MCReviewCycle`, `MCReconciliation`, `MCRoundAnswers`, `MCTaskGraph`, `MCHumanGate` | constants for TLC | |

In most component modules there are operators whose name ends in `Mut`: each is a
wrong form of the operator that follows it, the way a plausible bug would read. No
specification uses one; putting it in the place of the right form makes TLC find
the property named for it in `PROJECT.json` violated.

### Database

*State.* `state`, `queue`, `opened`, `closed` are the fields of `Database`;
`cancelRequested` and `future` those of `_Job`; `wpc`, `wjob`, `wresult` are the
program counter and locals of `_worker_main`; `caller`, `signal`, `wrapped`,
`cancelSeen` are the coroutine in `_await_job`, a cancellation requested but not
delivered, the asyncio side of the future and the local `cancelled`; `proc...` are
the coroutines in `open` and `close`. `inTxn`, `staged` and `log` are the
connection's transaction and the committed content; a job is represented in them by
its own name, which is all the properties need. `seen` is what a read returned.

*Atomicity.* One action is a stretch of a coroutine between two awaits, or a
stretch of the worker between two accesses to shared state. `_submit` is one
action because it tests `_state` and queues under one hold of the lock. Delivery
of a completed future to the event loop is a separate action (`Deliver`), so a
cancellation can fall between completion and delivery. Each await is `shield`ed in
the code, so a cancellation reaches the coroutine and not the job; the join of
the thread is not shielded (`JoinCancelled`).

*Failures.* `BEGIN IMMEDIATE`, the callback, `COMMIT` and `connection.close()` may
each fail, the close also after a failed start (db.py:617), where it ends the thread
with neither future set: see section 6. A ROLLBACK that itself raises is not modelled. `Crash` drops everything
but `log` and restarts; `synchronous = FULL` (db.py:410) is what justifies that
`log` survives.

*Abstract specification.* `SerialStore` has a log, a queue of accepted jobs and
sealed outcomes. `Database` implements it under the mapping at the end of the
module: the job the worker holds is still pending until its commit or rollback,
and its outcome is sealed before the future is completed.

### AssignmentChain

A client may try any row. `InsertAssignment` and `InsertWaiver` let a row in
exactly when the constraints of the schema do. Ids are positions in the table,
which only grows (triggers `..._immutable`, `..._no_delete`); the one-time
binding of `session_id` is left out.

### LaneRoster

One campaign with its lanes. Round 1 is the discovery round, later ones fix
checks. Each action is one repository method in its own transaction, except two
that `docs/design/db-schema.md` composes: an attempt and its exposure are created
together (5.7), so `StartAttempt` is enabled only if the exposure can be reserved;
and `CompleteDiscovery` evaluates the three gates and moves the campaign to
reconciliation in one transaction (11); the round is closed later, by `CloseRound`.

Two things are left out because the design does not let a caller do them, though the
repository would. `AssignFirst` is `create_lane_assignment` for generation 1; a later
generation comes from `ReplaceLaneAssignment` only, which asks for a failed executor, while
the plain insert accepts any row that continues the chain (`AssignmentChain` has it).
And the attempts of a round take the round's revision (`RevisionGiven`):
`step_attempt.subject_revision` is the caller's, and on a revision not exposed yet
`reserve_reviewer_exposure` asks nothing (attempt.py:180), so that
`RetriesOnlyFailures` would not hold of a round with two revisions.

The outcome of an attempt is arbitrary; `"active"` is `outcome IS NULL`. An answer is in `LaneFailureAnswers` when it answers a
`lane_failure` question of this campaign that is bound to no other round. Which
profiles a caller assigns is free; the check of freshness against other campaigns
belongs to an operation that does not exist yet and is not modelled.

### Migration

*State.* `times` (how often each statement of each migration took effect), `registry`
(`schema_migration`) and `foreign` (the file held something else first) are the
committed file. `holder` and `done` are the one transaction inside
`BEGIN IMMEDIATE`. Each process has a release (`SupportedBy`), a position `pc` in
`_migrate`, its local `current` and the error of its last opening. The list of user
objects and the registry are read outside that transaction, as in the code, so a
process may find at its first statement or at the registration that another one was
faster. Only the first migration is given statements that collide when repeated
(`Conflicts`, its `CREATE TABLE`s): what later ones will contain is not known, and for
them the uniqueness of the registry is all the code relies on.

*Failures.* A statement, the registration or the commit may fail (`Fault`), a process
may die (`Crash`, SQLite drops its transaction), and another program may have left
its own tables in the file.

### FindingLedger

*State.* `links`, `resolutions` and `overrides` of one finding, each row with its
event; events are numbers in the order of `append_run_event`, `now` the newest. With
`inOrder`, chosen in the initial state, the writer puts its rows under the event it has
just appended and takes `old_severity` from the view; without it, rows come under any event and with any old
severity, as the schema accepts them. `shown` is what the view showed before the
current event's rows, so that a row's `old_severity` can be compared with it.

*Two readers.* The operators named `View...` are the views of the schema,
`Oracle...` is `derive_severity_snapshot`; both are functions of the same rows, and
`SnapshotAgrees` says they return the same period, status and severity wherever the
Python code accepts the rows.

### ReviewCycle

*State.* `review_campaign.state`, `max_author_revisions`, the number of
`author_revision` rows, the rounds, the findings with their last opening and closing,
the rows of `finding_round`, and the reason of an unanswered question of `AskHuman`.
A finding is `grave` when its escalation severity meets the threshold.

*The caller* does what the last decision told it: `StartAuthorRevision` leads to a
revision, a revision to a check, `AskHuman` to waiting. What it was told is read
from the rows, so no program counter is lost in a crash. `docs/design/architecture.md`
(7.1) joins the revision, the round and its `issued` rows in one transaction; here
they are separate calls, which is more than the design allows and makes the gate
over missing rows do its work. In a fix check reconciliation runs after the two
gates are empty (db-schema 5.2); the same gates are evaluated again at the close.
A decision in a row stands for one by a successful attempt of the owner. The human
may extend the cap (`GrantRevision`), finalize, or never answer.

*Abstract specification.* `RevisionContract` knows a stage and three counters, and
says that a revision is made only below the cap, that each revision is checked
before anything else is decided and that the cap is asked about only when it is
used up. `Stage` at the end of `ReviewCycle` is the mapping.

### Reconciliation

*State.* The round's observations with their lanes, what the scoped ledger says of
each finding, the links and rows of the round, the proposal that is being named group
by group, and what `reconcile` or `resolve_human_reopens` returned. A proposal passes
`_validate_reconciliation` (`ContractAccepts`), then `_validate_proposal`
(`DomainAccepts`); a human's own proposal, made when the agent's attempts are used up,
passes only the second. `Fits` is what the keys and triggers accept. Groups are records
without text: a title or a reason is there or not. `policy_closed` behaves as
`verified_fixed` and has no value of its own.

*Caller.* Retrying, asking and writing belong to operations that do not exist yet and
are modelled as `docs/task-plans/p1-a/t1.5.md` and `t1.7b.md` use these functions: what
needs no human is written in one transaction with the questions, the rest when every
question of the round has its answer.

### RoundAnswers

*State.* For each finding whether it is open and in which severity period, its owner
and its observations of the campaign; the rows of the round; the answer of the author
and of each lane between its acceptance (`AuthorAnswer`, `LaneAnswer`, the contract)
and its write (`RecordAuthorRevision`, `RecordReviewDecisions`, all rows or none). An
answer is any set of items that its schema admits; only the accepted ones change
anything. `Writable` is what the CHECKs, the triggers and
`resolve_effective_severity` accept. `OtherCampaignCloses` and `OtherCampaignReopens`
may come between any two steps.

### TaskGraph

`_find_cycle` one step of its loop at a time, and then the sorted issues and the
selection of `render_retry_feedback`. The stack and the path hold the same nodes and are
one sequence; the position in a sorted list of children is the set of children not yet
tried. Sizes in the message are scaled: a node of the shortened cycle and the line that
counts the omitted issues have size 1, and `GraphAssumption` keeps the one relation of
the real numbers that matters, that a shortened cycle (33 entries of some twenty bytes)
fits with that line into the 16384 bytes.

### HumanGate

*State.* `branch.state`, the open rows of `blocker`, the questions with their branch,
answers and outbox, and what is not durable: what lanes plan after having read their
branch, and what the sender has handed over without recording it. `SetBranchState` is
the compare-and-set of the repository; the three audit reads and `RunState` are
operators. The scheduler, the lanes, the sender, recovery and the human's commands are
not in the repository; they are external and take the transactions the schema is built
for, one action each. A lane plans to ask in one step and asks in another, so two lanes
of one branch may both have seen it running.

## 3. Runs

| run | instance | shows |
|---|---|---|
| `database_safety` | 2 transactions, 1 read, 1 closer, 1 crash | safety of the store and refinement of `SerialStore` |
| `database_liveness` | 1 transaction, 1 read, 2 closers, no crash | every accepted call, open and close ends, but for an open whose worker failed twice |
| `database_failed_open` | 1 transaction, 1 closer, no crash | a violation: see section 6 |
| `roster` | 2 lanes, 2 profiles, 2 usable answers of 3, 3 attempts, 2 rounds, 2 revisions, generations to 3 | no displaced opinion, quorum stays met, independence, retries |
| `roster_closed_campaign` | as `roster`, 1 round, 2 attempts | a violation: see section 6 |
| `migration` | 1 process of an older and 2 of a newer release, 2 faults or deaths, a new or a foreign file | each migration whole and once, nobody stranded, every opening ends |
| `ledger` | one finding, all kinds of later links, 2 resolutions; 4 events in order, or 3 events with rows under any of them; 4 rows | views and oracle agree, an honest override is accepted, an open finding can be graded, only an override or a closing lowers the severity, a new period forgets the old, a late row leaves the status |
| `review_cycle` | cap 2, one granted revision, 2 findings | the cycle keeps its contract (the cap is part of it), forgets nothing, brings grave disputes to the human, and ends or waits for one |
| `reconciliation` | 3 observations of 2 lanes, 2 findings in any state, sound proposals and spoiled ones, agent or human | nothing accepted is refused later, no human overruled, order of groups immaterial, owner and work right, gates pass |
| `round_answers` | 2 findings, 2 lanes, 2 severities, 2 fix checks, 2 moves of another campaign | accepted answers can be written, the gate waits for owners only, severities are inherited within a period |
| `task_graph` | every breakdown with up to 4 tasks and 5 dependencies, dangling and repeated ones included | cycles are real, none is missed, the agent is told |
| `human_gate` | 2 branches, 2 lanes each, 2 questions, 1 crash | blocked branch and blocker agree, nobody waits unseen, questions arrive |

*Bounds.* `MaxCrashes`, `MaxGen`, `MaxAttempts`, `MaxFaults`, `MaxEvents`,
`MaxRows`, `MaxExtra`, `MaxFindings`, `SpoilAfter`, `MaxRounds`, `MaxMoves` and
`MaxEdges` bound counters in the guards;
`StillRunning` stops `roster` at closed campaigns, after which the
repository operations do not depend on the campaign state. Two transactions and a
read are enough for a failed transaction to leak into a later write and a later
read; one crash is enough because `Crash` resets everything that is not durable.
Three attempts are needed for a retry judged by the wrong predecessor, two
answers for a replacement after a replacement or next to a waiver. Two migrations
and two processes show every position of one process inside another's opening. A
cap of 2 with one extra revision gives four checks, enough for a finding to be
closed, reopened and closed again; two findings are needed for a dispute next to
another open finding. Three observations make two groups for one finding beside a
third group, and an owner that comes from the later of two groups; two findings make
two questions answered in either order. Two moves of another campaign close a finding
and reopen it between an answer and its write. Four tasks with five dependencies hold
a cycle that is reached through a node shared by two roots. In `human_gate` both
branches ask, or one asks again after its answer.

*Symmetry* is used only in runs without temporal properties. In `roster`, lanes, the
usable answers and the revisions are interchangeable; profiles are so only together
with their pairs, which `ProfilesSwap` moves along. In `reconciliation` the findings
are; lanes and observations are numbers there and their order matters.

*Fairness* is assumed only for liveness. `FairSpec` of `Database`: weak fairness of
the worker thread, whose callbacks are synchronous and taken to end; of the event
loop's delivery and resumption for each job; and of each open and close coroutine.
Nobody is obliged to submit, cancel, close or crash. Weak fairness of `Resume(j)`
suffices although a coroutine may be cancelled again and again, because a delivered
cancellation with the result at hand ends the call. `FairMigrationSpec`: each
process that has begun to open goes on (`Advance`); faults and deaths are bounded,
and SQLite hands the lock to somebody. `FairCycleSpec`: the caller carries out what
was decided and the reviewers answer what was issued; nobody is obliged to find or
reopen anything, and a human need not answer, which is why `CycleEnds` counts
waiting for one as an end. `GateSpec`: the service is started again after a crash
(`Recover`), and its sender hands over and records what the outbox holds (`Send`,
`RecordSent`); the human, the lanes and the scheduler owe nothing. Crashes are bounded,
as a service that always dies before it sends shows nothing to anybody.

## 4. Theorems

The theorems hold for every value of the constants that satisfies the `ASSUME` of the
module they are about. These say no more than the code guarantees: names that stand
for nothing are not members of the sets they are excluded from, profiles have pairs,
bounds are numbers, and the lanes of a campaign and the findings of a run are finite.

`DatabaseProofs`, for any transactions, reads, closers and crashes:
`DatabaseTypeCorrect`, `AckedStaysDurable` (`AckedIsDurable`), `FailureIsTold`
(`FailureNeverHidden`), `FailedOpenIsClean` (`OpenLeavesNoWorker`), `AnswerIsLast`
(`NoWriteAfterReply`) and `StoreIsSerial`. `DatabaseInv` has a layer for each party.
`WorkerInv`: the worker holds a job exactly between `get` and the setting of its future,
a transaction is open only for the job it holds, and a good result means a committed
job. `JobInv`: a job is with its caller, once in the queue, with the worker or settled,
and in one of these only. `AnswerInv`: what a caller has been told agrees with its
future, and a future that is good with the log. `StopInv`: `_STOP` is the last element
the queue ever gets. `LifecycleInv`: the futures of start and end, where they are set,
agree with `_state` and the position of the worker. Durability is then the layer of the answers through the one
step that loses anything: a crash keeps the log. `StoreIsSerial` maps the queue without
`_STOP` (`JobsIn`), with the job the worker still works on before it, to the queue of
`SerialStore`, and goes through the actions: most are stutters, a commit, a rollback
and a skip each seal the first pending job.

`LaneRosterProofs` proves, first of the two tables alone, for any lanes, profiles,
rounds and answers and any `MaxGen \in Nat`:

* `ChainTypeCorrect`: the rows have their type. That no generation is 0 is not a
  CHECK: a row with generation 0 would have to replace one of generation -1.
* `AlwaysChained`, `OneExecutorPerLane`: `OneEffective` is not inductive, since a
  state with a gap in a lane's generations could branch. The inductive invariant is
  `Chained`: (lane, generation) is unique, every generation below an existing one
  exists, and each row replaces its predecessor. If two assignments of a lane
  were unreplaced, the row that follows the older one replaces a row of the older
  one's generation, which by uniqueness is the older one itself.
* `OneActionPerAnswer`: inductive as it stands.

Of the repositories on top of them, for any lanes, profiles, pairs, rounds, revisions
and answers and any bounds with `MaxGen # 0`: `RosterTypeCorrect`, `OpinionsStand`
(`DisplacedHasNoOpinion`), `OpinionsAreKept`, `OpinionsAreIndependent` (`Independence`), and
`ImplementsChain`: every repository step is a step of the two tables or leaves them
alone, through which the theorems about the tables hold of the repositories too.
`DisplacedHasNoOpinion` is not inductive: that the replaced executor has no success
at the moment of the replacement does not stop a late success. `RosterInv` adds what
does: an attempt of a displaced assignment is over (`DisplacedReviewed`), every
attempt that reads has its exposure, once, and the first reader of a pair on a
revision owns it (`EveryReadingExposed`, `ExposedOnce`, `FirstReaderOwns`), and each
assignment replaces an earlier one. `DisplacedHasNoOpinion` speaks of replacements; a
waiver may be given to a lane whose executor succeeded (`waive_lane_for_round` asks
only for the answer), and `OpinionsAreKept` says of every step, that one included, that
the success and the place in the roster stay. `OnlyFailuresAreRetried` (`RetriesOnlyFailures`)
follows from the same invariant: the attempt that `retry_of` names is the newest of its
lane, and an outcome does not change once it is set. `QuorumIsNeverUndone`
(`QuorumStaysMet`) is inductive relative to it. The gates of `CompleteDiscovery` do not
look at a waived lane without an assignment, but count the executors in force: as many
as lanes, and no two of one lane (`OneEffective`), leave no lane without one. Afterwards
an executor with an opinion cannot be replaced, one without belongs to a waived lane,
and the waiver holds for the executor that follows.

`MigrationProofs`, for any processes, releases and numbers of faults:
`MigrationTypeCorrect`, `AppliedWholeAndOnce`, `OpenSchemaComplete`, `OwnFileAccepted`.
The invariant adds `KnownApplied`, that versions a process has read stay registered:
it survives other processes' steps because the registry only grows, and it is why a
process that reads outside the transaction still never repeats a migration it
has seen.

`ReviewCycleProofs`, for any cap, any number of granted revisions and of findings:
every safety property of its run, `ImplementsContract`, the cap itself
(`CapNeverExceeded`), that a finding is never closed on the revision it was seen on
(`NeverClosedWhereSeen`) and that a clean campaign has nothing open (`CleanCampaignSettled`). `CycleInv` has three
layers. `RoundsInOrder`: rounds are numbered by the revisions they check and only the
last may be open. `Alternation`: revisions are one less than the rounds or as many,
one less whenever a round is open or a human is asked, and below the cap whenever one
is due; the count of checks then follows by counting an interval (`ChecksCounted`),
which gives `CheckNeverRefused` and the contract. `LedgerInv`: a finding has one row a
round; a row that is not settled yet is in the open round and its finding is open and
was opened earlier. The last part is why a finding reopened within a check cannot be
closed by it, and why a dispute in a row is still a dispute when the check is closed.

`FindingLedgerProofs`, for any severities, link types, resolutions and threshold and any
number of events and rows: `SnapshotsAgree` (`SnapshotAgrees`),
`HonestWritersAreAccepted` (`HonestOverrideAccepted`), `OpenFindingsAreGraded`
(`OpenIsGraded`) and the three action properties, `LateRowsLeaveStatus`,
`OnlyOverridesLower` and `PeriodsForget`. The views read the whole ledger, the oracle
reads it once before each event; the lemmas are therefore about the ledger as it stood
before an event *b* (`StartBefore`, `EscalationBefore`), and `ViewIsBeforeNext` says that
the views read it before the event to come. Rows under later events leave it alone, which
makes `OverridesStateWhatWas` inductive for a writer in order: every override states the
severity as it stood before its event, unless there was none to state. Agreement itself needs no
order of writing. It is a statement about any rows that the oracle does not refuse.

`ReconciliationProofs`, for any number of observations, any lanes, findings, proposals
and attempts: every property of its run. In `ReconInv`, what was there before
(`Reviewed`, `Issued`) stays as it was. `Settled` says of an intent, from its making
to the end, that the type of each link agrees with the ledger or with an answer of the
human, and that its rows are those of its counted links. `Pending` says, as long as
questions may be open, that the observations are shared out among reviewers' links,
intents and questions, each exactly once, and that no intent touches what a human
closed. This is why writing the answers
later cannot collide: their links are for other observations and their rows for other
findings than those already written (`AnswersApart`, `RowsForApart`). At the end all
observations are linked and the rows are those of the counted links, from which owner, gates and
work follow. `OrderDecidesNothing` (`OrderIndependent`) is a lemma about
`Reconcile`: renaming the groups by a bijection maps the new findings before a group to
the new findings before its image, and sets with a bijection between them are counted
alike (`RenamedIndex`).

`AgentContractProofs`, on `RoundAnswers`, for any lanes, severities and owners, any
finite set of findings, any number of fix checks and moves of another campaign:
`AnswersTypeCorrect`, `SeveritiesStayInPeriod` (`InheritedWithinPeriod`),
`GateWaitsForOwners` (`OnlyOwnersAreWaitedFor`) and `AcceptedAnswersAreWritable`
(`AcceptedIsWritable`). An accepted answer stays acceptable while it waits
(`DraftAccepted`, `VerdictAccepted`): other lanes write only rows of their own findings,
and the other campaign touches no row. A row is decided exactly when its owner has
answered (`RowsDecided`), and every finding has a last observation to show
(`EachIsObserved`), so the severity of an accepted follow-up is found where the
repository looks for it.

On `TaskGraph`, for any tasks and dependencies and any limits of the message:
`GraphInvariant`, `ReportedCycleIsReal` (`CycleIsReal`), `SearchIsComplete`
(`NoCycleMissed`), `CyclesAreTold` (`CycleIsTold`). The message keeps the cycle because
it sorts first and its shortened form fits with the line that counts what is left out,
which is the one relation `GraphAssumption` asks of the limits. The invariant of the search says that the path holds the nodes of color 1, once each and along
dependencies, that what a finished node leads to is finished, and that a child already
tried is finished or the next node of the path. `FinishedInv` carries completeness: no
set of finished nodes has a way on from each of its nodes. When a node finishes, a set
that became endless would have to contain it and, since all its children were finished
before, would have been endless without it.

`HumanGateProofs`, for any branches, lanes, questions and crashes: `GateTypeCorrect`,
`OneBlockerPerBranch`, `PairsAlwaysAgree` (`PairsAgree`) and `WaitingIsSeen`
(`NobodyWaitsUnseen`). `PairsAgree` is not inductive: with two blockers on one branch,
clearing one would let the branch go on under the other. `OneBlocker` adds that a
branch has at most one; it is kept because a blocker is only ever added together with
the step that takes the branch from running to blocked, or in the place of another one.

## 5. What is only model-checked, what is not modelled

Only model-checked is liveness: `CallsEnd` and `LifecycleEnds` of `Database`,
`OpeningEnds` of `Migration`, `CycleEnds` of `ReviewCycle` and `QuestionIsShown` of
`HumanGate`; TLAPS does not reach liveness under fairness. Every safety property of the
passing runs is proved. Only proved, and in no run: the type invariants of most
modules, and `OneEffective`, `AnswerSpentOnce`, `OpenedIsUpToDate`,
`ClosedByLaterRevision` and `CleanIsSettled`. The inductive invariants were checked with
TLC on the instances of section 3 before they were proved.

Not modelled:

* the session authorizer (a table of permitted statements), record mapping, canonical
  JSON of events, `dedup.py` (a hash of a canonical text), and `scripts/checks`, which
  check documents: sequential conversions without state;
* of `agents/`: extraction of the JSON text, the shapes that the models check, the
  verification plan, the cutoff, the human question, the files and number of new
  observations, all checks of one value against a list;
* of the run: stages, `terminal_state`, blockers and questions without a branch,
  repeated questions;
* `ReviewCycle` and `Reconciliation` have one campaign. What overlapping campaigns do
  to one finding is in `RoundAnswers` only. Two consequences remain open: the
  `first_round_id` of a finding that another campaign saw first (transition.py:57), and
  a finding that another campaign reopens while a human is asked whether to reopen it:
  the answer "keep closed" then brings no row for it, and
  `find_missing_finding_participation` reports it for the round.
* what makes a caller of `ReviewCycle` add the row of a finding that was created or
  reopened late in a check. `IssueFinding` is open to it at any time, so `CycleEnds` and
  `NothingForgotten` do not show that the gate over missing rows cannot stay shut under
  a caller that forgets;
* whether a new attempt in a fix check belongs to an assignment still in force
  (attempt.py:180): the operation that prepares such an attempt does not exist yet.

Two things met while modelling that are not disagreements of the code with its
documents. `read_scoped_finding_ledger` returns no `escalation_severity` for a finding
that a human closed, which `_validate_input` demands; `docs/task-plans/p1-a/t1.5.md`
(140, 352) lets the caller take it from the snapshot of the question. And a finding that
another campaign reopened has no observation of this campaign in its new period: an
"unchanged" follow-up passes the contract and is refused by
`resolve_effective_severity`, which is the one exception in `AcceptedIsWritable`.

## 6. Findings

`docs/design/db-schema.md` (line 1193) requires of `replace_lane_assignment` that
the campaign is not closed. The code checks the discovery round and the answer but
not the campaign, and cancelling a campaign leaves its discovery round open, so a
late answer still replaces an executor of a cancelled campaign
(`roster_closed_campaign`).

`docs/task-plans/p1-a/t1.2.md` (AC-7, lines 272-276) says that a failed `open()` ends with
the error of the migration and leaves no worker behind. In its failure branch
`_worker_main` closes the connection (db.py:617) before it completes `_opened` and
`_closed`, outside any `try`. If that close raises as well, which the same function
allows for at its normal end (636-641), the thread is gone and `open` waits for ever;
it cannot be cancelled either, as it waits on after each `CancelledError`
(`database_failed_open`). `close` of a sound SQLite connection seldom fails, so this
takes two faults in a row. `LifecycleEnds` holds with exactly this exception
(`NeverTold`); the close at the normal end is guarded and releases everybody.

## 7. Plan

Done, each with proofs: 1. `SerialStore`, `Database`; 2. `AssignmentChain`;
3. `LaneRoster`; 4. `Migration`; 5. `FindingLedger`; 6. `RevisionContract`,
`ReviewCycle`; 7. `Reconciliation`; 8. `RoundAnswers`; 9. `TaskGraph`; 10. `HumanGate`.

Theorems to come: action properties that say of each table which of its rows an
operation may touch, so that modules over the same tables can be composed; and, of
`ReviewCycle`, the safety half of its end, that every state of the contract has a next
step of the caller or waits for a human.

Models to come, when the program has the operations: two campaigns over shared
findings on top of `ReviewCycle`, and the transactions that today only
`docs/task-plans/p1-a/t1.7b.md` describes.
