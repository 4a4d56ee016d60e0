------------------------------ MODULE Database ------------------------------
(***************************************************************************)
(* store/db.py: one SQLite connection owned by one worker thread that      *)
(* takes whole jobs from a FIFO queue, called from coroutines of an        *)
(* asyncio loop.  The atomic steps are those of the code: a stretch of a   *)
(* coroutine between two awaits, a stretch of the worker between two       *)
(* accesses to what it shares (the queue, a job's lock, a future, the      *)
(* file).  Any caller may be cancelled at any time, the process may die    *)
(* between any two steps and be started again on the same file.            *)
(*                                                                         *)
(* An operator whose name ends in Mut is a deliberately wrong form of the  *)
(* operator after it.  No specification uses it: it is put in the place of *)
(* the right form to see that the runs notice.                             *)
(***************************************************************************)
EXTENDS Naturals, Sequences, Functions

CONSTANTS
  Jobs,        (* the calls of Database.read and Database.transaction       *)
  Reads,       (* those of them made through Database.read                  *)
  Opener,      (* the coroutine that awaits Database.open                   *)
  Closers,     (* the coroutines that call Database.close                   *)
  STOP,        (* the queue element _STOP                                   *)
  NoJob,       (* the worker holds no job                                   *)
  MaxCrashes   (* bound: how often the process dies                         *)

ASSUME ConstantsAssumption ==
  /\ Reads \subseteq Jobs
  /\ Opener \notin Closers
  /\ STOP \notin Jobs /\ NoJob \notin Jobs /\ STOP # NoJob
  /\ MaxCrashes \in Nat

Procs == Closers \cup {Opener}

VARIABLES
  state,            (* Database._state                                      *)
  queue,            (* Database._queue                                      *)
  opened, closed,   (* the futures Database._opened and Database._closed    *)
  wpc, wjob,        (* where the worker thread is, and with which job       *)
  wresult,          (* what it is about to put into the job's future        *)
  inTxn,            (* connection.in_transaction                            *)
  staged,           (* the write jobs whose writes sit in that transaction  *)
  log,              (* the committed write jobs, in commit order: the file  *)
  seen,             (* what a read job returned                             *)
  cancelRequested,  (* _Job._cancel_requested                               *)
  future,           (* _Job.future, completed by the worker                 *)
  wrapped,          (* asyncio.wrap_future(job.future) is done              *)
  caller,           (* where the coroutine of a job is                      *)
  signal,           (* task.cancel() was called and not yet delivered       *)
  cancelSeen,       (* the local variable cancelled of _await_job is set    *)
  reply,            (* how the call ended for its caller                    *)
  proc,             (* where the opener and the closers are                 *)
  procCancelled,    (* their local variable cancelled is set                *)
  procReply,        (* how open or close ended for them                     *)
  crashes           (* how often the process died so far                    *)

workerVars == <<wpc, wjob, wresult, inTxn, staged, log, seen, future>>
callerVars == <<cancelRequested, wrapped, caller, signal, cancelSeen, reply>>
procVars   == <<proc, procCancelled, procReply>>
vars == <<state, queue, opened, closed, workerVars, callerVars, procVars, crashes>>

(* What a step of the worker, of a caller, of open and close leaves alone. *)
workerFrame == <<state, callerVars, procVars, crashes>>
callerFrame == <<state, opened, closed, workerVars, procVars, crashes>>
procFrame   == <<opened, closed, workerVars, callerVars, crashes>>

Fates == {"ok", "error", "skipped"}

Init ==
  /\ state = "opening"
  /\ queue = <<>>
  /\ opened = "none" /\ closed = "none"
  /\ wpc = "migrating" /\ wjob = NoJob /\ wresult = "none"
  /\ inTxn = FALSE /\ staged = <<>> /\ log = <<>>
  /\ seen = [j \in Jobs |-> <<>>]
  /\ cancelRequested = [j \in Jobs |-> FALSE]
  /\ future = [j \in Jobs |-> "none"]
  /\ wrapped = [j \in Jobs |-> FALSE]
  /\ caller = [j \in Jobs |-> "idle"]
  /\ signal = [j \in Jobs |-> FALSE]
  /\ cancelSeen = [j \in Jobs |-> FALSE]
  /\ reply = [j \in Jobs |-> "none"]
  /\ proc = [p \in Procs |-> IF p = Opener THEN "opening" ELSE "idle"]
  /\ procCancelled = [p \in Procs |-> FALSE]
  /\ procReply = [p \in Procs |-> "none"]
  /\ crashes = 0

-----------------------------------------------------------------------------
(* The worker thread, _worker_main.                                        *)

(* Connecting, setting the PRAGMAs and migrating succeeds or fails.  After *)
(* a failure the connection is closed first and the opener told then, so a *)
(* connection.close() that raises ends the thread with neither future set. *)
WorkerOpen ==
  /\ wpc = "migrating"
  /\ \/ opened' = "ok" /\ wpc' = "get" /\ UNCHANGED closed
     \/ opened' = "error" /\ closed' = "ok" /\ wpc' = "dead"
     \/ wpc' = "dead" /\ UNCHANGED <<opened, closed>>
  /\ UNCHANGED <<queue, wjob, wresult, inTxn, staged, log, seen, future, workerFrame>>

(* The sentinel ends the loop.                                             *)
IsStop(element) == element = STOP

WorkerGet ==
  /\ wpc = "get" /\ queue # <<>>
  /\ queue' = Tail(queue)
  /\ IF IsStop(Head(queue))
     THEN wpc' = "exit" /\ UNCHANGED wjob
     ELSE wpc' = "try" /\ wjob' = Head(queue)
  /\ UNCHANGED <<opened, closed, wresult, inTxn, staged, log, seen, future, workerFrame>>

(* try_start under the job's lock: a job cancelled by now is skipped.      *)
WorkerTryStart ==
  /\ wpc = "try"
  /\ IF cancelRequested[wjob]
     THEN /\ future' = [future EXCEPT ![wjob] = "skipped"]
          /\ wpc' = "get" /\ wjob' = NoJob
     ELSE /\ wpc' = IF wjob \in Reads THEN "callback" ELSE "begin"
          /\ UNCHANGED <<future, wjob>>
  /\ UNCHANGED <<queue, opened, closed, wresult, inTxn, staged, log, seen, workerFrame>>

(* BEGIN IMMEDIATE, outside the try block: it may fail because another     *)
(* process holds the write lock, and must fail inside a transaction.       *)
WorkerBegin ==
  /\ wpc = "begin"
  /\ \/ /\ ~inTxn /\ inTxn' = TRUE
        /\ wpc' = "callback" /\ UNCHANGED wresult
     \/ /\ wpc' = "settle" /\ wresult' = "error"
        /\ UNCHANGED inTxn
  /\ UNCHANGED <<queue, opened, closed, wjob, staged, log, seen, future, workerFrame>>

(* The callback of a read returns what it saw, the file and whatever the   *)
(* connection has not committed, or raises.                                *)
ReadCallback ==
  /\ wpc = "callback" /\ wjob \in Reads
  /\ \/ seen' = [seen EXCEPT ![wjob] = log \o staged] /\ wresult' = "ok"
     \/ wresult' = "error" /\ UNCHANGED seen
  /\ wpc' = "settle"
  /\ UNCHANGED <<queue, opened, closed, wjob, inTxn, staged, log, future, workerFrame>>

(* The callback of a transaction writes, then returns or raises.  An       *)
(* awaitable result counts as raising.                                     *)
WriteCallback ==
  /\ wpc = "callback" /\ wjob \notin Reads
  /\ staged' = Append(staged, wjob)
  /\ wpc' \in {"commit", "rollback"}
  /\ UNCHANGED <<queue, opened, closed, wjob, wresult, inTxn, log, seen, future, workerFrame>>

(* COMMIT makes every staged write durable, or raises.                     *)
WorkerCommit ==
  /\ wpc = "commit"
  /\ \/ /\ log' = log \o staged /\ staged' = <<>> /\ inTxn' = FALSE
        /\ wpc' = "settle" /\ wresult' = "ok"
     \/ /\ wpc' = "rollback"
        /\ UNCHANGED <<log, staged, inTxn, wresult>>
  /\ UNCHANGED <<queue, opened, closed, wjob, seen, future, workerFrame>>

(* except BaseException: roll back what is open and raise on.              *)
RollbackMut == UNCHANGED <<staged, inTxn>>
Rollback == staged' = <<>> /\ inTxn' = FALSE

WorkerRollback ==
  /\ wpc = "rollback"
  /\ Rollback
  /\ wpc' = "settle" /\ wresult' = "error"
  /\ UNCHANGED <<queue, opened, closed, wjob, log, seen, future, workerFrame>>

WorkerSettle ==
  /\ wpc = "settle"
  /\ future' = [future EXCEPT ![wjob] = wresult]
  /\ wpc' = "get" /\ wjob' = NoJob /\ wresult' = "none"
  /\ UNCHANGED <<queue, opened, closed, inTxn, staged, log, seen, workerFrame>>

(* Closing the connection rolls back whatever it had open; _closed is      *)
(* completed whether or not connection.close() raises.                     *)
ClosedResultsMut == {"ok", "none"}
ClosedResults == {"ok", "error"}

WorkerExit ==
  /\ wpc = "exit"
  /\ staged' = <<>> /\ inTxn' = FALSE
  /\ closed' \in ClosedResults
  /\ wpc' = "dead"
  /\ UNCHANGED <<queue, opened, wjob, wresult, log, seen, future, workerFrame>>

Worker ==
  \/ WorkerOpen \/ WorkerGet \/ WorkerTryStart \/ WorkerBegin
  \/ ReadCallback \/ WriteCallback \/ WorkerCommit \/ WorkerRollback
  \/ WorkerSettle \/ WorkerExit

-----------------------------------------------------------------------------
(* The callers of read and transaction: _submit and _await_job.            *)

(* The Database object reaches callers once open has returned it.          *)
HasHandle == proc[Opener] = "done" /\ procReply[Opener] = "ok"

(* _submit tests the state and queues the job under one hold of the lock.  *)
MaySubmitMut == state # "closed"
MaySubmit == state = "open"

Submit(j) ==
  /\ HasHandle /\ caller[j] = "idle"
  /\ MaySubmit
  /\ queue' = Append(queue, j)
  /\ caller' = [caller EXCEPT ![j] = "waiting"]
  /\ UNCHANGED <<cancelRequested, wrapped, signal, cancelSeen, reply, callerFrame>>

SubmitRejected(j) ==
  /\ HasHandle /\ caller[j] = "idle"
  /\ ~MaySubmit
  /\ caller' = [caller EXCEPT ![j] = "done"]
  /\ reply' = [reply EXCEPT ![j] = "rejected"]
  /\ UNCHANGED <<queue, cancelRequested, wrapped, signal, cancelSeen, callerFrame>>

(* Somebody cancels the caller's task.                                     *)
CancelTask(j) ==
  /\ caller[j] = "waiting"
  /\ signal' = [signal EXCEPT ![j] = TRUE]
  /\ UNCHANGED <<queue, cancelRequested, wrapped, caller, cancelSeen, reply, callerFrame>>

(* The completion of the future crosses from the worker to the loop.       *)
Deliver(j) ==
  /\ caller[j] = "waiting"
  /\ future[j] # "none" /\ ~wrapped[j]
  /\ wrapped' = [wrapped EXCEPT ![j] = TRUE]
  /\ UNCHANGED <<queue, cancelRequested, caller, signal, cancelSeen, reply, callerFrame>>

Return(j, answer) ==
  /\ caller' = [caller EXCEPT ![j] = "done"]
  /\ reply' = [reply EXCEPT ![j] = answer]

ResultAtHandMut(j) == TRUE
ResultAtHand(j) == wrapped[j]

AnswerOnCancelMut(j) == "cancelled"
AnswerOnCancel(j) == IF future[j] = "error" THEN "error" ELSE "cancelled"

AnswerOnResultMut(j) == IF future[j] = "error" THEN "error" ELSE "ok"
AnswerOnResult(j) ==
  IF future[j] = "error" THEN "error"
  ELSE IF cancelSeen[j] \/ future[j] = "skipped" THEN "cancelled"
  ELSE "ok"

(* CancelledError reaches _await_job.  With the result at hand an error    *)
(* of the job wins; without it the job is asked not to start and the wait  *)
(* goes on.                                                                *)
ResumeCancelled(j) ==
  /\ caller[j] = "waiting" /\ signal[j]
  /\ signal' = [signal EXCEPT ![j] = FALSE]
  /\ IF ResultAtHand(j)
     THEN /\ Return(j, AnswerOnCancel(j))
          /\ UNCHANGED <<cancelRequested, cancelSeen>>
     ELSE /\ cancelSeen' = [cancelSeen EXCEPT ![j] = TRUE]
          /\ cancelRequested' = [cancelRequested EXCEPT ![j] = TRUE]
          /\ UNCHANGED <<caller, reply>>
  /\ UNCHANGED <<queue, wrapped, callerFrame>>

(* The shielded future is done: an error is raised as it is, a job that    *)
(* was skipped or whose caller was cancelled ends in CancelledError.       *)
ResumeResult(j) ==
  /\ caller[j] = "waiting" /\ wrapped[j] /\ ~signal[j]
  /\ Return(j, AnswerOnResult(j))
  /\ UNCHANGED <<queue, cancelRequested, wrapped, signal, cancelSeen, callerFrame>>

Resume(j) == ResumeCancelled(j) \/ ResumeResult(j)

-----------------------------------------------------------------------------
(* Database.open and Database.close.                                       *)

ProcReturn(p, answer) ==
  /\ proc' = [proc EXCEPT ![p] = "done"]
  /\ procReply' = [procReply EXCEPT ![p] = answer]

(* The cancellation of a caller that awaits open, close or the join.       *)
CancelProc(p) ==
  /\ proc[p] \in {"opening", "closing"}
  /\ procCancelled' = [procCancelled EXCEPT ![p] = TRUE]
  /\ UNCHANGED <<state, queue, proc, procReply, procFrame>>

(* close puts _STOP behind every job accepted so far.                      *)
WithStop(q) == Append(q, STOP)

(* A cancelled open closes what it has opened before it raises.            *)
AbandonOpenMut == ProcReturn(Opener, "cancelled") /\ UNCHANGED <<state, queue>>
AbandonOpen ==
  /\ state' = "closing" /\ queue' = WithStop(queue)
  /\ proc' = [proc EXCEPT ![Opener] = "closing"]
  /\ UNCHANGED procReply

(* open goes on after a successful start, with no await in between.        *)
OpenReturn ==
  /\ proc[Opener] = "opening" /\ opened = "ok"
  /\ IF procCancelled[Opener]
     THEN AbandonOpen
     ELSE /\ state' = "open"
          /\ ProcReturn(Opener, "ok")
          /\ UNCHANGED queue
  /\ UNCHANGED <<procCancelled, procFrame>>

OpenFailed ==
  /\ proc[Opener] = "opening" /\ opened = "error"
  /\ proc' = [proc EXCEPT ![Opener] = "joining_failed"]
  /\ UNCHANGED <<state, queue, procCancelled, procReply, procFrame>>

(* close: the first call stops the worker, a later one waits for the same  *)
(* end, one after the end returns at once.                                 *)
CloseCall(p) ==
  /\ p \in Closers /\ proc[p] = "idle" /\ HasHandle
  /\ IF state = "closed"
     THEN ProcReturn(p, "ok") /\ UNCHANGED <<state, queue>>
     ELSE /\ proc' = [proc EXCEPT ![p] = "closing"]
          /\ IF state = "open"
             THEN state' = "closing" /\ queue' = WithStop(queue)
             ELSE UNCHANGED <<state, queue>>
          /\ UNCHANGED procReply
  /\ UNCHANGED <<procCancelled, procFrame>>

(* _closed is done: on to the join, or an error of connection.close().     *)
CloseAwait(p) ==
  /\ proc[p] = "closing" /\ closed # "none"
  /\ IF closed = "error"
     THEN ProcReturn(p, "error")
     ELSE proc' = [proc EXCEPT ![p] = "joining"] /\ UNCHANGED procReply
  /\ UNCHANGED <<state, queue, procCancelled, procFrame>>

(* The joined thread is gone: close ends, or open raises what it caught.   *)
Join(p) ==
  /\ wpc = "dead"
  /\ \/ /\ proc[p] = "joining"
        /\ state' = "closed"
        /\ ProcReturn(p, IF procCancelled[p] THEN "cancelled" ELSE "ok")
     \/ /\ proc[p] = "joining_failed"
        /\ ProcReturn(p, "error")
        /\ UNCHANGED state
  /\ UNCHANGED <<queue, procCancelled, procFrame>>

(* The await of the join is not shielded: a cancellation ends the call     *)
(* there and leaves _state as it is.                                       *)
JoinCancelled(p) ==
  /\ proc[p] \in {"joining", "joining_failed"}
  /\ ProcReturn(p, "cancelled")
  /\ UNCHANGED <<state, queue, procCancelled, procFrame>>

ProcStep(p) ==
  \/ p = Opener /\ (OpenReturn \/ OpenFailed)
  \/ CloseAwait(p) \/ Join(p)

-----------------------------------------------------------------------------
(* The process dies and a new one opens the same file: the committed log   *)
(* is all that is left, unanswered calls are never answered.               *)
Crash ==
  /\ crashes < MaxCrashes
  /\ crashes' = crashes + 1
  /\ state' = "opening" /\ queue' = <<>>
  /\ opened' = "none" /\ closed' = "none"
  /\ wpc' = "migrating" /\ wjob' = NoJob /\ wresult' = "none"
  /\ inTxn' = FALSE /\ staged' = <<>>
  /\ future' = [j \in Jobs |-> IF caller[j] = "waiting" THEN "none" ELSE future[j]]
  /\ caller' = [j \in Jobs |-> IF caller[j] = "waiting" THEN "done" ELSE caller[j]]
  /\ reply' = [j \in Jobs |-> IF caller[j] = "waiting" THEN "lost" ELSE reply[j]]
  /\ signal' = [j \in Jobs |-> FALSE]
  /\ proc' = [p \in Procs |-> IF p = Opener THEN "opening" ELSE "idle"]
  /\ procCancelled' = [p \in Procs |-> FALSE]
  /\ procReply' = [p \in Procs |-> "none"]
  /\ UNCHANGED <<log, seen, cancelRequested, wrapped, cancelSeen>>

Next ==
  \/ Worker
  \/ \E j \in Jobs : Submit(j) \/ SubmitRejected(j) \/ CancelTask(j) \/ Deliver(j) \/ Resume(j)
  \/ \E p \in Procs : CancelProc(p) \/ CloseCall(p) \/ ProcStep(p) \/ JoinCancelled(p)
  \/ Crash

Spec == Init /\ [][Next]_vars

(* The worker thread keeps running (callbacks are synchronous and end),    *)
(* the loop runs its ready callbacks in turn, so neither a completed       *)
(* future nor a coroutine that can go on waits for ever, however often it  *)
(* is cancelled.  Nobody has to submit, cancel, close or crash.            *)
Fairness ==
  /\ WF_vars(Worker)
  /\ \A j \in Jobs : WF_vars(Deliver(j)) /\ WF_vars(Resume(j))
  /\ \A p \in Procs : WF_vars(ProcStep(p))

FairSpec == Spec /\ Fairness

-----------------------------------------------------------------------------
(* Properties.                                                             *)

Committed(j) == j \in Range(log)

(* A transaction answered with its result is in the file, and stays there  *)
(* through every later crash: _worker_main completes the future only after *)
(* COMMIT, and _await_job returns a result only from a completed future    *)
(* that is not _SKIPPED.                                                   *)
AckedIsDurable ==
  \A j \in Jobs \ Reads : reply[j] = "ok" => Committed(j)

(* A job whose caller has got its answer writes nothing any more: the      *)
(* cancellation of a started job is held back until commit or rollback, an *)
(* unstarted one is skipped (_await_job, try_start).                       *)
NoWriteAfterReply ==
  [][\A j \in Jobs : reply[j] # "none" /\ Committed(j)' => Committed(j)]_vars

(* The failure of a callback or a COMMIT is what the caller gets, whenever *)
(* its cancellation arrives (_await_job).                                  *)
FailureNeverHidden ==
  \A j \in Jobs : reply[j] \in {"ok", "cancelled"} => future[j] # "error"

(* An open that did not hand out a database leaves no worker thread and no *)
(* connection behind, whatever its caller's cancellation hit.              *)
OpenLeavesNoWorker ==
  procReply[Opener] \in {"error", "cancelled"} => wpc = "dead" /\ ~inTxn

(* Every accepted call ends.                                               *)
CallsEnd == \A j \in Jobs : caller[j] = "waiting" ~> caller[j] = "done"

(* The worker is gone and never completed _opened.                         *)
NeverTold == wpc = "dead" /\ opened = "none"

(* Every open and every close ends, also a close that is called while      *)
(* another one is under way and one whose connection.close() raises.  The  *)
(* one exception is an open whose worker failed twice, in opening and in   *)
(* closing what it had opened, and died without telling (_worker_main).    *)
LifecycleEnds ==
  \A p \in Procs :
    proc[p] \in {"opening", "closing"} ~> proc[p] = "done" \/ (p = Opener /\ NeverTold)

(* A failed open ends with its error and leaves no worker thread           *)
(* (docs/task-plans/p1-a/t1.2.md, AC-7).  The code does not keep this: see *)
(* NeverTold.                                                              *)
OpenEnds == proc[Opener] = "opening" ~> proc[Opener] = "done"

-----------------------------------------------------------------------------
(* The program implements SerialStore: a job leaves the abstract queue     *)
(* when its transaction commits or is rolled back, before its future is    *)
(* completed.                                                              *)
InFlight ==
  IF wpc \in {"try", "begin", "callback", "commit", "rollback"} THEN <<wjob>> ELSE <<>>

(* _STOP is queued once and nothing behind it.                             *)
JobsIn(q) ==
  IF q # <<>> /\ IsStop(q[Len(q)]) THEN SubSeq(q, 1, Len(q) - 1) ELSE q

Phase ==
  IF wpc = "dead" THEN "stopped"
  ELSE IF state \in {"opening", "open"} THEN state
  ELSE "draining"

Pending == InFlight \o JobsIn(queue)

Outcome == [j \in Jobs |-> IF wpc = "settle" /\ wjob = j THEN wresult ELSE future[j]]

Store == INSTANCE SerialStore WITH
  phase <- Phase, pending <- Pending, outcome <- Outcome

(* Callers of the database see a serial FIFO store: jobs take effect one   *)
(* at a time in the order of their acceptance, reads see exactly the       *)
(* committed jobs, answers match the sealed fates (_worker_main).          *)
ImplementsSerialStore == Store!Spec
=============================================================================
