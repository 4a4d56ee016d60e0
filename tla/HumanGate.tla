----------------------------- MODULE HumanGate -----------------------------
(***************************************************************************)
(* A branch of a run that stops for a human: the question, its outbox row, *)
(* the blocker that stands beside the branch's state, the answer, the      *)
(* command that lets the branch go on, and the view that reports the run   *)
(* (store/repo/run.py, store/repo/question.py, the tables of migration     *)
(* 0001).                                                                  *)
(*                                                                         *)
(* What the repository keeps is modelled from it: the compare-and-set on   *)
(* branch.state, the three reads of the recovery audit, UNIQUE(question),  *)
(* the outbox rows and the run_state view.  The callers (scheduler, steps, *)
(* recovery, sender, the human's commands) are not in the repository yet;  *)
(* they are external and take the transactions that the schema is built    *)
(* for, one step each.  A step reads the branch, then works, then commits: *)
(* the lanes of one review stage do so side by side, and any of them may   *)
(* have to ask.                                                            *)
(*                                                                         *)
(* Not modelled: terminal_state (the model stops before it is written),    *)
(* blockers and questions that belong to no branch.                        *)
(*                                                                         *)
(* An operator whose name ends in Mut is a deliberately wrong form of the  *)
(* operator after it, used by no specification.                            *)
(***************************************************************************)
EXTENDS Naturals, FiniteSets

CONSTANTS
    Branches,      \* branches of the run
    Lanes,         \* steps of one branch that run side by side
    Questions,     \* rows human_question that may be written
    MaxCrashes,    \* bound on the crashes of the service
    Nobody         \* the question no branch asked yet, the blocker of none

ASSUME GateAssumption == MaxCrashes \in Nat /\ Nobody \notin Branches \cup Questions

VARIABLES
    branch,     \* branch.state
    blockers,   \* rows blocker with cleared_at IS NULL
    asker,      \* human_question.branch_id, Nobody while there is no row
    answered,   \* questions with a row human_answer
    outbox,     \* questions with a row notification_outbox, sent_at IS NULL
    sending,    \* messages the sender handed over and has not recorded
    shown,      \* questions whose message reached the human
    planned,    \* steps that read their branch as running and want to ask
    paused,     \* run.pause_requested_at
    cancelling, \* run.cancel_requested_at
    crashes,    \* how often the service fell
    up          \* the service runs

vars == <<branch, blockers, asker, answered, outbox, sending, shown, planned,
          paused, cancelling, crashes, up>>

BranchStates == {"ready", "running", "retry_wait", "blocked", "done", "failed", "cancelled"}
Finished     == {"done", "failed", "cancelled"}
OtherKinds   == {"dependency", "drift"}      \* invalid_graph behaves as these do
Blocker(kind, b, q) == [kind |-> kind, branch |-> b, question |-> q]
Asked        == {q \in Questions : asker[q] # Nobody}

GateInit ==
    /\ branch = [b \in Branches |-> "ready"]
    /\ blockers = {} /\ outbox = {} /\ answered = {}
    /\ asker = [q \in Questions |-> Nobody]
    /\ sending = {} /\ shown = {} /\ planned = {}
    /\ paused = FALSE /\ cancelling = FALSE
    /\ crashes = 0 /\ up = TRUE

-----------------------------------------------------------------------------
(* What the repository reads and writes.                                   *)

(* RunRepository.set_branch_state: a compare-and-set.  When the row is not *)
(* in the expected state the call raises and the transaction is undone.    *)
SetBranchStateMut(b, expected, new) == branch' = [branch EXCEPT ![b] = new]

SetBranchState(b, expected, new) ==
    /\ branch[b] = expected
    /\ branch' = [branch EXCEPT ![b] = new]

(* The kinds of blocker that only a human's act clears.                    *)
HumanKindsMut == {"human_question"}

HumanKinds == {"human_question", "awaiting_continue"}

(* RunRepository.find_human_blockers_on_unblocked_branches.                *)
HumanBlockersOnUnblocked ==
    {k \in blockers : k.kind \in {"human_question", "awaiting_continue"}
                      /\ branch[k.branch] # "blocked"}

(* RunRepository.find_blocked_branches_without_blocker.                    *)
BlockedWithoutBlocker ==
    {b \in Branches : branch[b] = "blocked" /\ \A k \in blockers : k.branch # b}

(* RunRepository.find_questions_without_matching_blocker.                  *)
QuestionsWithoutBlocker ==
    {q \in Asked \ answered : Blocker("human_question", asker[q], q) \notin blockers}

(* The view run_state, before terminal_state is set.                       *)
RunState ==
    IF cancelling THEN "cancelling"
    ELSE IF paused THEN "paused"
    ELSE IF \E b \in Branches : branch[b] \in {"ready", "running", "retry_wait"} THEN "running"
    ELSE IF \E k \in blockers : k.kind \in HumanKinds THEN "waiting_human"
    ELSE IF blockers # {} THEN "stalled" ELSE "idle"

-----------------------------------------------------------------------------
(* Scheduler and steps.                                                    *)

(* The scheduler starts the next step of a branch.                         *)
Start(b) ==
    /\ up /\ ~paused /\ ~cancelling
    /\ SetBranchState(b, "ready", "running")
    /\ UNCHANGED <<blockers, asker, answered, outbox, sending, shown, planned,
                   paused, cancelling, crashes, up>>

(* A step ends: there is a next one, a pause before another try, the end   *)
(* of the branch, or its stop.  The step's lanes have all come back.       *)
StepEnds(b) ==
    /\ up /\ \A l \in Lanes : <<b, l>> \notin planned
    /\ \E new \in {"ready", "retry_wait", "done", "failed"} :
          SetBranchState(b, "running", new)
    /\ UNCHANGED <<blockers, asker, answered, outbox, sending, shown, planned,
                   paused, cancelling, crashes, up>>

RetryIsDue(b) ==
    /\ up /\ SetBranchState(b, "retry_wait", "ready")
    /\ UNCHANGED <<blockers, asker, answered, outbox, sending, shown, planned,
                   paused, cancelling, crashes, up>>

CancelBranch(b) ==
    /\ up /\ cancelling /\ SetBranchState(b, "ready", "cancelled")
    /\ UNCHANGED <<blockers, asker, answered, outbox, sending, shown, planned,
                   paused, cancelling, crashes, up>>

(* A step is stopped by something that is not a question, and is free      *)
(* again when that is gone.                                                *)
Block(b) ==
    /\ up /\ SetBranchState(b, "running", "blocked")
    /\ \E kind \in OtherKinds : blockers' = blockers \cup {Blocker(kind, b, Nobody)}
    /\ UNCHANGED <<asker, answered, outbox, sending, shown, planned,
                   paused, cancelling, crashes, up>>

Unblock(b) ==
    /\ up
    /\ \E kind \in OtherKinds :
          /\ Blocker(kind, b, Nobody) \in blockers
          /\ blockers' = blockers \ {Blocker(kind, b, Nobody)}
    /\ SetBranchState(b, "blocked", "ready")
    /\ UNCHANGED <<asker, answered, outbox, sending, shown, planned,
                   paused, cancelling, crashes, up>>

-----------------------------------------------------------------------------
(* The question.                                                           *)

(* A lane finds that it has to ask; it saw the branch running.             *)
Plan(b, l) ==
    /\ up /\ branch[b] = "running" /\ <<b, l>> \notin planned
    /\ planned' = planned \cup {<<b, l>>}
    /\ UNCHANGED <<branch, blockers, asker, answered, outbox, sending, shown,
                   paused, cancelling, crashes, up>>

(* create_question, create_outbox_message, create_blocker and the branch's *)
(* state in one transaction.                                               *)
MessageForMut(q) == {}

MessageFor(q) == {q}

Ask(b, l, q) ==
    /\ up /\ <<b, l>> \in planned /\ asker[q] = Nobody
    /\ SetBranchState(b, "running", "blocked")
    /\ asker' = [asker EXCEPT ![q] = b]
    /\ outbox' = outbox \cup MessageFor(q)
    /\ blockers' = blockers \cup {Blocker("human_question", b, q)}
    /\ planned' = planned \ {<<b, l>>}
    /\ UNCHANGED <<answered, sending, shown, paused, cancelling, crashes, up>>

(* Another lane was first: the precondition fails and nothing is written.  *)
AskRefused(b, l) ==
    /\ up /\ <<b, l>> \in planned /\ branch[b] # "running"
    /\ planned' = planned \ {<<b, l>>}
    /\ UNCHANGED <<branch, blockers, asker, answered, outbox, sending, shown,
                   paused, cancelling, crashes, up>>

(* The sender hands the message over, then writes sent_at: a crash between *)
(* the two sends it again.                                                 *)
Send(q) ==
    /\ up /\ q \in outbox \ sending
    /\ sending' = sending \cup {q} /\ shown' = shown \cup {q}
    /\ UNCHANGED <<branch, blockers, asker, answered, outbox, planned,
                   paused, cancelling, crashes, up>>

RecordSent(q) ==
    /\ up /\ q \in sending
    /\ sending' = sending \ {q} /\ outbox' = outbox \ {q}
    /\ UNCHANGED <<branch, blockers, asker, answered, shown, planned,
                   paused, cancelling, crashes, up>>

(* An answer arrives, by the message or by the command line, and may       *)
(* arrive again.  UNIQUE(human_answer.question_id) takes the first one;    *)
(* its transaction puts awaiting_continue where human_question stood and   *)
(* leaves the branch blocked.                                              *)
Answer(q) ==
    /\ up /\ q \in Asked \ answered
    /\ answered' = answered \cup {q}
    /\ blockers' = (blockers \ {Blocker("human_question", asker[q], q)})
                     \cup {Blocker("awaiting_continue", asker[q], Nobody)}
    /\ UNCHANGED <<branch, asker, outbox, sending, shown, planned,
                   paused, cancelling, crashes, up>>

(* The command continue.                                                   *)
Continue(b) ==
    /\ up /\ Blocker("awaiting_continue", b, Nobody) \in blockers
    /\ blockers' = blockers \ {Blocker("awaiting_continue", b, Nobody)}
    /\ SetBranchState(b, "blocked", "ready")
    /\ UNCHANGED <<asker, answered, outbox, sending, shown, planned,
                   paused, cancelling, crashes, up>>

-----------------------------------------------------------------------------
(* The run and the service.                                                *)

Pause ==
    /\ up /\ paused' = ~paused
    /\ UNCHANGED <<branch, blockers, asker, answered, outbox, sending, shown,
                   planned, cancelling, crashes, up>>

RequestCancel ==
    /\ up /\ ~cancelling /\ cancelling' = TRUE
    /\ UNCHANGED <<branch, blockers, asker, answered, outbox, sending, shown,
                   planned, paused, crashes, up>>

Crash ==
    /\ up /\ crashes < MaxCrashes
    /\ up' = FALSE /\ crashes' = crashes + 1 /\ planned' = {} /\ sending' = {}
    /\ UNCHANGED <<branch, blockers, asker, answered, outbox, shown, paused, cancelling>>

(* Recovery: a branch that was running waits for the human's continue.     *)
Recover ==
    LET cut == {b \in Branches : branch[b] = "running"}
    IN  /\ ~up /\ up' = TRUE
        /\ branch' = [b \in Branches |-> IF b \in cut THEN "blocked" ELSE branch[b]]
        /\ blockers' = blockers \cup {Blocker("awaiting_continue", b, Nobody) : b \in cut}
        /\ UNCHANGED <<asker, answered, outbox, sending, shown, planned,
                       paused, cancelling, crashes>>

GateNext ==
    \/ \E b \in Branches : \/ Start(b) \/ StepEnds(b) \/ RetryIsDue(b) \/ CancelBranch(b)
                           \/ Block(b) \/ Unblock(b) \/ Continue(b)
    \/ \E b \in Branches, l \in Lanes :
          Plan(b, l) \/ AskRefused(b, l) \/ \E q \in Questions : Ask(b, l, q)
    \/ \E q \in Questions : Send(q) \/ RecordSent(q) \/ Answer(q)
    \/ Pause \/ RequestCancel \/ Crash \/ Recover

(* The service is started again after a crash, and its sender keeps        *)
(* working; the human, the lanes and the scheduler owe nothing.            *)
GateSpec ==
    /\ GateInit /\ [][GateNext]_vars
    /\ WF_vars(Recover)
    /\ \A q \in Questions : WF_vars(Send(q)) /\ WF_vars(RecordSent(q))

-----------------------------------------------------------------------------
(* Properties.                                                             *)

(* Between any two transactions the three reads of the recovery audit      *)
(* (run.py:166-201) find nothing: no question or continue stands open on a *)
(* branch that is not blocked, no branch is blocked without a reason, no   *)
(* open question lacks its blocker.  Two lanes that both saw the branch    *)
(* running may both try to ask, and one answer may be delivered twice.     *)
PairsAgree ==
    /\ HumanBlockersOnUnblocked = {}
    /\ BlockedWithoutBlocker = {}
    /\ QuestionsWithoutBlocker = {}

(* The run_state view hides nobody who waits for a human: a run that shows *)
(* stalled waits for no answer and no continue, and a run that shows idle  *)
(* has finished every branch (the view's order of cases, 0001:1318-1342).  *)
NobodyWaitsUnseen ==
    /\ RunState = "stalled" =>
          /\ Asked \subseteq answered
          /\ \A b \in Branches : Blocker("awaiting_continue", b, Nobody) \notin blockers
    /\ RunState = "idle" => \A b \in Branches : branch[b] \in Finished

(* A question that is asked reaches the human, whatever crash comes        *)
(* between the commit and the sending: its outbox row is written with it.  *)
QuestionIsShown == \A q \in Questions : (q \in Asked) ~> (q \in shown)
=============================================================================
