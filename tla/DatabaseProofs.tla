--------------------------- MODULE DatabaseProofs ---------------------------
(***************************************************************************)
(* Theorems of Database, for any number of calls, of callers of close and  *)
(* of crashes: what an answer promises, what a failed open leaves behind,  *)
(* and that the program implements SerialStore.                            *)
(***************************************************************************)
EXTENDS Database, SequenceTheorems, TLAPS

States == {"opening", "open", "closing", "closed"}
WithJob == {"try", "begin", "callback", "commit", "rollback", "settle"}
WorkerPlaces == WithJob \cup {"migrating", "get", "exit", "dead"}
Replies == {"none", "ok", "error", "cancelled", "rejected", "lost"}
Places == {"idle", "opening", "closing", "joining", "joining_failed", "done"}

WorkerTypeOK ==
  /\ wpc \in WorkerPlaces
  /\ wjob \in Jobs \cup {NoJob}
  /\ wresult \in {"none", "ok", "error"}
  /\ inTxn \in BOOLEAN
  /\ staged \in Seq(Jobs) /\ log \in Seq(Jobs)
  /\ seen \in [Jobs -> Seq(Jobs)]
  /\ future \in [Jobs -> {"none"} \cup Fates]

CallerTypeOK ==
  /\ queue \in Seq(Jobs \cup {STOP})
  /\ cancelRequested \in [Jobs -> BOOLEAN]
  /\ wrapped \in [Jobs -> BOOLEAN]
  /\ caller \in [Jobs -> {"idle", "waiting", "done"}]
  /\ signal \in [Jobs -> BOOLEAN]
  /\ cancelSeen \in [Jobs -> BOOLEAN]
  /\ reply \in [Jobs -> Replies]

ProcTypeOK ==
  /\ state \in States
  /\ opened \in {"none", "ok", "error"} /\ closed \in {"none", "ok", "error"}
  /\ proc \in [Procs -> Places]
  /\ procCancelled \in [Procs -> BOOLEAN]
  /\ procReply \in [Procs -> {"none", "ok", "error", "cancelled"}]
  /\ crashes \in Nat

DatabaseTypeOK == WorkerTypeOK /\ CallerTypeOK /\ ProcTypeOK

(* The worker has a job between two visits to the queue; it has an open    *)
(* transaction, holding that job's writes alone, inside a write job only.  *)
WorkerInv ==
  /\ wjob \in Jobs <=> wpc \in WithJob
  /\ wpc \in {"begin", "commit", "rollback"} => wjob \notin Reads
  /\ inTxn <=> wpc \in {"commit", "rollback"} \/ (wpc = "callback" /\ wjob \notin Reads)
  /\ staged = IF wpc \in {"commit", "rollback"} THEN <<wjob>> ELSE <<>>
  /\ wpc = "settle" <=> wresult # "none"
  /\ wresult = "ok" /\ wjob \notin Reads => Committed(wjob)

(* A job is in one place: with its caller, once in the queue, with the     *)
(* worker, or settled.                                                     *)
Holds(q, e) == \E i \in 1..Len(q) : q[i] = e
Distinct(q) == \A i, k \in 1..Len(q) : q[i] = q[k] => i = k
Queued(j) == Holds(queue, j)

JobInv ==
  /\ Distinct(queue)
  /\ \A j \in Jobs :
       /\ Queued(j) \/ wjob = j => caller[j] = "waiting" /\ future[j] = "none"
       /\ ~(Queued(j) /\ wjob = j)
       /\ caller[j] = "waiting" /\ future[j] = "none" => Queued(j) \/ wjob = j

(* What a caller has been told is what became of its job.                  *)
AnswerInv ==
  \A j \in Jobs :
    /\ reply[j] = "none" <=> caller[j] # "done"
    /\ caller[j] = "idle" => ~wrapped[j] /\ future[j] = "none" /\ ~signal[j]
    /\ caller[j] = "waiting" /\ wrapped[j] => future[j] # "none"
    /\ reply[j] = "ok" => future[j] = "ok"
    /\ reply[j] = "cancelled" => future[j] \in {"ok", "skipped"}
    /\ reply[j] \in {"rejected", "lost"} => future[j] = "none"
    /\ future[j] = "ok" /\ j \notin Reads => Committed(j)

(* _STOP is the last element the queue ever gets, and the worker ends only *)
(* on it or on a failed start.                                             *)
StopInv ==
  /\ \A i \in 1..Len(queue) : queue[i] = STOP => i = Len(queue)
  /\ state \in {"opening", "open"} => ~Queued(STOP)
  /\ wpc \in {"exit", "dead"} => queue = <<>>
  /\ wpc = "exit" => opened = "ok"
  /\ wpc \in {"exit", "dead"} /\ opened = "ok" => state \in {"closing", "closed"}

LifecycleInv ==
  /\ wpc = "migrating" => opened = "none"
  /\ opened = "none" => wpc \in {"migrating", "dead"}
  /\ closed # "none" => wpc = "dead"
  /\ opened = "error" => wpc = "dead"
  /\ state # "opening" => opened = "ok"
  /\ state = "open" => HasHandle
  /\ state = "opening" => queue = <<>> /\ ~HasHandle
  /\ state = "closed" => wpc = "dead"
  /\ proc[Opener] # "idle"
  /\ proc[Opener] = "opening" => state = "opening"
  /\ proc[Opener] \in {"closing", "joining"} => procCancelled[Opener]
  /\ \A p \in Procs :
       /\ procReply[p] = "none" <=> proc[p] # "done"
       /\ proc[p] \in {"joining", "joining_failed"} => wpc = "dead"
       /\ proc[p] = "joining_failed" => p = Opener
       /\ p \in Closers /\ proc[p] # "idle" => HasHandle
       /\ proc[p] \in {"closing", "joining"} => state \in {"closing", "closed"}
  /\ OpenLeavesNoWorker

DatabaseInv ==
  /\ DatabaseTypeOK /\ WorkerInv /\ JobInv /\ AnswerInv /\ StopInv /\ LifecycleInv
  /\ AckedIsDurable /\ FailureNeverHidden

-----------------------------------------------------------------------------
(* Sequences.                                                              *)

LEMMA TailElements ==
  ASSUME NEW S, NEW q \in Seq(S), q # <<>>
  PROVE  /\ Head(q) = q[1] /\ Head(q) \in S
         /\ Tail(q) \in Seq(S) /\ Len(Tail(q)) = Len(q) - 1
         /\ Len(q) \in Nat \ {0}
         /\ \A i \in 1..Len(Tail(q)) : Tail(q)[i] = q[i + 1] /\ i + 1 \in 1..Len(q)
<1>1. Len(q) \in Nat \ {0}
  BY EmptySeq
<1>. QED BY <1>1, HeadTailProperties

LEMMA AppendRange ==
  ASSUME NEW S, NEW q \in Seq(S), NEW e \in S
  PROVE  Range(Append(q, e)) = Range(q) \cup {e}
<1>1. DOMAIN q = 1..Len(q) /\ Len(q) \in Nat
  BY LenProperties
<1>2. DOMAIN Append(q, e) = 1..(Len(q) + 1)
  BY AppendProperties, LenProperties
<1>3. \A i \in 1..Len(q) : Append(q, e)[i] = q[i]
  BY AppendProperties
<1>4. Append(q, e)[Len(q) + 1] = e
  BY AppendProperties
<1>5. 1..(Len(q) + 1) = 1..Len(q) \cup {Len(q) + 1}
  BY <1>1
<1>. QED BY <1>1, <1>2, <1>3, <1>4, <1>5 DEF Range

LEMMA TailHolds ==
  ASSUME NEW S, NEW q \in Seq(S), q # <<>>, Distinct(q)
  PROVE  /\ Distinct(Tail(q))
         /\ \A e : Holds(Tail(q), e) <=> Holds(q, e) /\ e # Head(q)
<1>1. Distinct(Tail(q))
  BY TailElements DEF Distinct
<1>2. ASSUME NEW e, Holds(Tail(q), e)
      PROVE  Holds(q, e) /\ e # Head(q)
  <2>1. PICK i \in 1..Len(Tail(q)) : Tail(q)[i] = e
    BY <1>2 DEF Holds
  <2>2. q[i + 1] = e /\ i + 1 \in 1..Len(q) /\ 1 \in 1..Len(q) /\ i + 1 # 1
    BY <2>1, TailElements
  <2>. QED BY <2>2, TailElements DEF Distinct, Holds
<1>3. ASSUME NEW e, Holds(q, e), e # Head(q)
      PROVE  Holds(Tail(q), e)
  <2>1. PICK i \in 1..Len(q) : q[i] = e
    BY <1>3 DEF Holds
  <2>2. i - 1 \in 1..Len(Tail(q)) /\ Tail(q)[i - 1] = e
    BY <1>3, <2>1, TailElements
  <2>. QED BY <2>2 DEF Holds
<1>. QED BY <1>1, <1>2, <1>3

LEMMA AppendHolds ==
  ASSUME NEW S, NEW q \in Seq(S), NEW e \in S
  PROVE  /\ \A x : Holds(Append(q, e), x) <=> Holds(q, x) \/ x = e
         /\ Distinct(q) /\ ~Holds(q, e) => Distinct(Append(q, e))
<1>1. /\ Len(q) \in Nat /\ Len(Append(q, e)) = Len(q) + 1
      /\ \A i \in 1..Len(q) : Append(q, e)[i] = q[i]
      /\ Append(q, e)[Len(q) + 1] = e
  BY AppendProperties, LenProperties
<1>2. \A i \in 1..(Len(q) + 1) : i \in 1..Len(q) \/ i = Len(q) + 1
  BY <1>1
<1>3. 1..Len(q) \subseteq 1..(Len(q) + 1) /\ Len(q) + 1 \in 1..(Len(q) + 1)
  BY <1>1
<1>. QED BY <1>1, <1>2, <1>3 DEF Holds, Distinct

LEMMA EmptyHolds == Distinct(<<>>) /\ \A e : ~Holds(<<>>, e)
BY DEF Distinct, Holds

-----------------------------------------------------------------------------
(* Types.                                                                  *)

LEMMA TypeInit == Init => DatabaseTypeOK
<1>. SUFFICES ASSUME Init PROVE DatabaseTypeOK
  OBVIOUS
<1>0. <<>> \in Seq(Jobs) /\ <<>> \in Seq(Jobs \cup {STOP})
  BY EmptySeq
<1>1. WorkerTypeOK
  BY <1>0 DEF Init, WorkerTypeOK, WorkerPlaces, Fates
<1>2. CallerTypeOK
  BY <1>0 DEF Init, CallerTypeOK, Replies
<1>3. ProcTypeOK
  BY DEF Init, ProcTypeOK, States, Places
<1>. QED BY <1>1, <1>2, <1>3 DEF DatabaseTypeOK

LEMMA WorkerKeepsTypes ==
  ASSUME DatabaseTypeOK, WorkerInv, Worker
  PROVE  DatabaseTypeOK'
<1>. USE DEF DatabaseTypeOK, WorkerTypeOK, CallerTypeOK, ProcTypeOK, WorkerPlaces,
       WithJob, Fates, workerFrame, callerVars, procVars
<1>1. CASE WorkerOpen
  BY <1>1 DEF WorkerOpen
<1>2. CASE WorkerGet
  <2>1. Head(queue) \in Jobs \cup {STOP} /\ Tail(queue) \in Seq(Jobs \cup {STOP})
    BY <1>2, TailElements DEF WorkerGet
  <2>. QED BY <1>2, <2>1 DEF WorkerGet, IsStop
<1>3. CASE WorkerTryStart
  BY <1>3 DEF WorkerTryStart, WorkerInv
<1>4. CASE WorkerBegin
  BY <1>4 DEF WorkerBegin
<1>5. CASE ReadCallback
  <2>1. log \o staged \in Seq(Jobs)
    BY ConcatProperties
  <2>2. seen' = [seen EXCEPT ![wjob] = log \o staged] \/ seen' = seen
    BY <1>5 DEF ReadCallback
  <2>3. seen' \in [Jobs -> Seq(Jobs)]
    BY <2>1, <2>2
  <2>4. wresult' \in {"ok", "error"}
    BY <1>5 DEF ReadCallback
  <2>. QED BY <1>5, <2>3, <2>4 DEF ReadCallback, WorkerInv
<1>6. CASE WriteCallback
  <2>1. Append(staged, wjob) \in Seq(Jobs)
    BY <1>6, AppendProperties DEF WriteCallback, WorkerInv
  <2>. QED BY <1>6, <2>1 DEF WriteCallback
<1>7. CASE WorkerCommit
  <2>1. log \o staged \in Seq(Jobs) /\ <<>> \in Seq(Jobs)
    BY ConcatProperties, EmptySeq
  <2>. QED BY <1>7, <2>1 DEF WorkerCommit
<1>8. CASE WorkerRollback
  BY <1>8, EmptySeq DEF WorkerRollback, Rollback
<1>9. CASE WorkerSettle
  BY <1>9 DEF WorkerSettle, WorkerInv
<1>10. CASE WorkerExit
  BY <1>10, EmptySeq DEF WorkerExit, ClosedResults
<1>. QED BY <1>1, <1>2, <1>3, <1>4, <1>5, <1>6, <1>7, <1>8, <1>9, <1>10 DEF Worker

LEMMA CallersKeepTypes ==
  ASSUME DatabaseTypeOK, NEW j \in Jobs,
         Submit(j) \/ SubmitRejected(j) \/ CancelTask(j) \/ Deliver(j) \/ Resume(j)
  PROVE  DatabaseTypeOK'
<1>. USE DEF DatabaseTypeOK, WorkerTypeOK, CallerTypeOK, ProcTypeOK, Replies,
       callerFrame, workerVars, procVars
<1>1. CASE Submit(j)
  <2>1. Append(queue, j) \in Seq(Jobs \cup {STOP})
    BY AppendProperties
  <2>. QED BY <1>1, <2>1 DEF Submit
<1>2. CASE SubmitRejected(j)
  BY <1>2 DEF SubmitRejected
<1>3. CASE CancelTask(j)
  BY <1>3 DEF CancelTask
<1>4. CASE Deliver(j)
  BY <1>4 DEF Deliver
<1>5. CASE ResumeCancelled(j)
  BY <1>5 DEF ResumeCancelled, Return, AnswerOnCancel
<1>6. CASE ResumeResult(j)
  BY <1>6 DEF ResumeResult, Return, AnswerOnResult
<1>. QED BY <1>1, <1>2, <1>3, <1>4, <1>5, <1>6 DEF Resume

LEMMA ProcsKeepTypes ==
  ASSUME DatabaseTypeOK, NEW p \in Procs,
         CancelProc(p) \/ CloseCall(p) \/ ProcStep(p) \/ JoinCancelled(p)
  PROVE  DatabaseTypeOK'
<1>. USE DEF DatabaseTypeOK, WorkerTypeOK, CallerTypeOK, ProcTypeOK, States, Places,
       procFrame, workerVars, callerVars, ProcReturn
<1>0. WithStop(queue) \in Seq(Jobs \cup {STOP})
  BY AppendProperties DEF WithStop
<1>1. CASE CancelProc(p)
  BY <1>1 DEF CancelProc
<1>2. CASE CloseCall(p)
  BY <1>0, <1>2 DEF CloseCall
<1>3. CASE OpenReturn
  BY <1>0, <1>3 DEF OpenReturn, AbandonOpen
<1>4. CASE OpenFailed
  BY <1>4 DEF OpenFailed
<1>5. CASE CloseAwait(p)
  BY <1>5 DEF CloseAwait
<1>6. CASE Join(p)
  BY <1>6 DEF Join
<1>7. CASE JoinCancelled(p)
  BY <1>7 DEF JoinCancelled
<1>. QED BY <1>1, <1>2, <1>3, <1>4, <1>5, <1>6, <1>7 DEF ProcStep

LEMMA CrashKeepsTypes ==
  ASSUME DatabaseTypeOK, Crash
  PROVE  DatabaseTypeOK'
<1>0. <<>> \in Seq(Jobs) /\ <<>> \in Seq(Jobs \cup {STOP})
  BY EmptySeq
<1>1. WorkerTypeOK'
  BY <1>0 DEF Crash, DatabaseTypeOK, WorkerTypeOK, CallerTypeOK, WorkerPlaces, Fates
<1>2. CallerTypeOK'
  BY <1>0 DEF Crash, DatabaseTypeOK, CallerTypeOK, Replies
<1>3. ProcTypeOK'
  BY DEF Crash, DatabaseTypeOK, ProcTypeOK, States, Places
<1>. QED BY <1>1, <1>2, <1>3 DEF DatabaseTypeOK

LEMMA StutterKeepsTypes ==
  ASSUME DatabaseTypeOK, UNCHANGED vars
  PROVE  DatabaseTypeOK'
BY DEF vars, workerVars, callerVars, procVars, DatabaseTypeOK, WorkerTypeOK,
     CallerTypeOK, ProcTypeOK

-----------------------------------------------------------------------------
(* The worker holds one job and one transaction at a time.                 *)

LEMMA WorkerKeepsWorkerInv ==
  ASSUME DatabaseTypeOK, WorkerInv, Worker
  PROVE  WorkerInv'
<1>. USE DEF DatabaseTypeOK, WorkerTypeOK, WorkerInv, WithJob, Committed
<1>1. CASE WorkerOpen
  BY <1>1 DEF WorkerOpen
<1>2. CASE WorkerGet
  <2>1. Head(queue) \in Jobs \cup {STOP}
    BY <1>2, TailElements DEF WorkerGet, CallerTypeOK
  <2>. QED BY <1>2, <2>1 DEF WorkerGet, IsStop
<1>3. CASE WorkerTryStart
  BY <1>3, ConstantsAssumption DEF WorkerTryStart, ConstantsAssumption
<1>4. CASE WorkerBegin
  BY <1>4 DEF WorkerBegin
<1>5. CASE ReadCallback
  BY <1>5 DEF ReadCallback
<1>6. CASE WriteCallback
  <2>1. Append(staged, wjob) = <<wjob>>
    BY <1>6 DEF WriteCallback
  <2>. QED BY <1>6, <2>1 DEF WriteCallback
<1>7. CASE WorkerCommit
  <2>1. wjob \in Jobs /\ staged = <<wjob>>
    BY <1>7 DEF WorkerCommit
  <2>2. Range(log \o staged) = Range(log) \cup {wjob}
    <3>1. log \o staged = Append(log, wjob)
      BY <2>1, AppendIsConcat
    <3>2. Range(Append(log, wjob)) = Range(log) \cup {wjob}
      BY <2>1, AppendRange DEF DatabaseTypeOK
    <3>. QED BY <3>1, <3>2
  <2>. QED BY <1>7, <2>1, <2>2 DEF WorkerCommit
<1>8. CASE WorkerRollback
  BY <1>8 DEF WorkerRollback, Rollback
<1>9. CASE WorkerSettle
  BY <1>9, ConstantsAssumption DEF WorkerSettle, ConstantsAssumption
<1>10. CASE WorkerExit
  BY <1>10 DEF WorkerExit
<1>. QED BY <1>1, <1>2, <1>3, <1>4, <1>5, <1>6, <1>7, <1>8, <1>9, <1>10 DEF Worker

LEMMA WorkerInvStep ==
  ASSUME DatabaseTypeOK, WorkerInv, [Next]_vars
  PROVE  WorkerInv'
<1>1. CASE Worker
  BY <1>1, WorkerKeepsWorkerInv
<1>2. CASE Crash
  BY <1>2, ConstantsAssumption DEF Crash, WorkerInv, WithJob, ConstantsAssumption
<1>3. CASE UNCHANGED workerVars
  BY <1>3 DEF workerVars, WorkerInv, Committed
<1>4. ASSUME NEW j \in Jobs,
             Submit(j) \/ SubmitRejected(j) \/ CancelTask(j) \/ Deliver(j) \/ Resume(j)
      PROVE  UNCHANGED workerVars
  BY <1>4 DEF Submit, SubmitRejected, CancelTask, Deliver, Resume, ResumeCancelled,
       ResumeResult, callerFrame
<1>5. ASSUME NEW p \in Procs,
             CancelProc(p) \/ CloseCall(p) \/ ProcStep(p) \/ JoinCancelled(p)
      PROVE  UNCHANGED workerVars
  BY <1>5 DEF CancelProc, CloseCall, ProcStep, OpenReturn, OpenFailed, CloseAwait, Join,
       JoinCancelled, procFrame
<1>. QED BY <1>1, <1>2, <1>3, <1>4, <1>5 DEF Next, vars

-----------------------------------------------------------------------------
(* A job is in one place.                                                  *)

LEMMA WorkerKeepsJobs ==
  ASSUME DatabaseInv, Worker
  PROVE  JobInv'
<1>. USE DEF DatabaseInv, DatabaseTypeOK, WorkerTypeOK, WorkerInv, JobInv, WithJob,
       Queued, workerFrame, callerVars
<1>1. CASE WorkerGet
  <2>1. /\ Head(queue) \in Jobs \cup {STOP}
        /\ Distinct(Tail(queue))
        /\ \A e : Holds(Tail(queue), e) <=> Holds(queue, e) /\ e # Head(queue)
    BY <1>1, TailElements, TailHolds DEF WorkerGet, CallerTypeOK
  <2>2. Holds(queue, Head(queue))
    BY <1>1, TailElements DEF WorkerGet, CallerTypeOK, Holds
  <2>3. CASE IsStop(Head(queue))
    BY <1>1, <2>1, <2>3, ConstantsAssumption DEF WorkerGet, IsStop, ConstantsAssumption
  <2>4. CASE ~IsStop(Head(queue))
    BY <1>1, <2>1, <2>2, <2>4 DEF WorkerGet, IsStop
  <2>. QED BY <2>3, <2>4
<1>2. CASE WorkerTryStart
  BY <1>2, ConstantsAssumption DEF WorkerTryStart, ConstantsAssumption
<1>3. CASE WorkerSettle
  BY <1>3, ConstantsAssumption DEF WorkerSettle, ConstantsAssumption
<1>4. CASE UNCHANGED <<queue, wjob, future, caller>>
  BY <1>4
<1>. QED BY <1>1, <1>2, <1>3, <1>4 DEF Worker, WorkerOpen, WorkerBegin, ReadCallback,
       WriteCallback, WorkerCommit, WorkerRollback, WorkerExit

LEMMA CallersKeepJobs ==
  ASSUME DatabaseInv, NEW c \in Jobs,
         Submit(c) \/ SubmitRejected(c) \/ CancelTask(c) \/ Deliver(c) \/ Resume(c)
  PROVE  JobInv'
<1>. USE DEF DatabaseInv, DatabaseTypeOK, JobInv, AnswerInv, Queued, callerFrame, workerVars
<1>1. CASE Submit(c)
  <2>1. /\ Distinct(Append(queue, c))
        /\ \A e : Holds(Append(queue, c), e) <=> Holds(queue, e) \/ e = c
    BY <1>1, AppendHolds DEF Submit, CallerTypeOK
  <2>. QED BY <1>1, <2>1 DEF Submit, CallerTypeOK
<1>0. UNCHANGED <<wjob, future>>
  BY DEF Submit, SubmitRejected, CancelTask, Deliver, Resume, ResumeCancelled, ResumeResult
<1>2. CASE UNCHANGED queue /\ \E a : caller[c] = "waiting" /\ wrapped[c] /\ Return(c, a)
  BY <1>0, <1>2 DEF Return, CallerTypeOK
<1>3. CASE SubmitRejected(c)
  BY <1>3 DEF SubmitRejected, CallerTypeOK
<1>4. CASE UNCHANGED <<queue, caller>>
  BY <1>0, <1>4
<1>. QED BY <1>1, <1>2, <1>3, <1>4 DEF CancelTask, Deliver, Resume, ResumeCancelled,
       ResumeResult, ResultAtHand

LEMMA ProcsKeepJobs ==
  ASSUME DatabaseInv, NEW p \in Procs,
         CancelProc(p) \/ CloseCall(p) \/ ProcStep(p) \/ JoinCancelled(p)
  PROVE  JobInv'
<1>. USE DEF DatabaseInv, JobInv, Queued, procFrame, workerVars, callerVars
<1>1. CASE queue' = WithStop(queue) /\ ~Queued(STOP)
  <2>1. /\ Distinct(WithStop(queue))
        /\ \A e : Holds(WithStop(queue), e) <=> Holds(queue, e) \/ e = STOP
    BY <1>1, AppendHolds DEF WithStop, DatabaseTypeOK, CallerTypeOK
  <2>. QED BY <1>1, <2>1, ConstantsAssumption
       DEF CancelProc, CloseCall, ProcStep, OpenReturn, OpenFailed, CloseAwait, Join,
         JoinCancelled, ConstantsAssumption
<1>2. CASE UNCHANGED queue
  BY <1>2 DEF CancelProc, CloseCall, ProcStep, OpenReturn, OpenFailed, CloseAwait, Join,
       JoinCancelled
<1>3. \/ UNCHANGED queue
      \/ queue' = WithStop(queue) /\ state \in {"opening", "open"}
  BY DEF LifecycleInv, CancelProc, CloseCall, ProcStep, OpenReturn, AbandonOpen,
       OpenFailed, CloseAwait, Join, JoinCancelled
<1>. QED BY <1>1, <1>2, <1>3 DEF StopInv

LEMMA JobStep ==
  ASSUME DatabaseInv, [Next]_vars
  PROVE  JobInv'
<1>1. CASE Crash
  BY <1>1, EmptyHolds, ConstantsAssumption
  DEF Crash, DatabaseInv, DatabaseTypeOK, CallerTypeOK, WorkerTypeOK, JobInv, Queued,
    ConstantsAssumption
<1>2. CASE UNCHANGED vars
  BY <1>2 DEF vars, workerVars, callerVars, DatabaseInv, JobInv, Queued
<1>. QED BY <1>1, <1>2, WorkerKeepsJobs, CallersKeepJobs, ProcsKeepJobs DEF Next

-----------------------------------------------------------------------------
(* An answer says what became of the job.                                  *)

LEMMA LogOnlyGrows ==
  ASSUME DatabaseInv, [Next]_vars
  PROVE  /\ Range(log) \subseteq Range(log')
         /\ Range(log') \subseteq Range(log) \cup {wjob}
<1>. USE DEF DatabaseInv, DatabaseTypeOK, WorkerTypeOK, WorkerInv
<1>1. CASE WorkerCommit /\ log' = log \o staged
  <2>1. wjob \in Jobs /\ staged = <<wjob>>
    BY <1>1 DEF WorkerCommit, WithJob
  <2>2. log' = Append(log, wjob)
    BY <1>1, <2>1, AppendIsConcat
  <2>3. Range(Append(log, wjob)) = Range(log) \cup {wjob}
    BY <2>1, AppendRange
  <2>. QED BY <2>2, <2>3
<1>2. CASE UNCHANGED log
  BY <1>2
<1>3. (WorkerCommit /\ log' = log \o staged) \/ UNCHANGED log
  BY DEF Next, Worker, WorkerOpen, WorkerGet, WorkerTryStart, WorkerBegin, ReadCallback,
       WriteCallback, WorkerCommit, WorkerRollback, WorkerSettle, WorkerExit, Submit,
       SubmitRejected, CancelTask, Deliver, Resume, ResumeCancelled, ResumeResult,
       CancelProc, CloseCall, ProcStep, OpenReturn, OpenFailed, CloseAwait, Join,
       JoinCancelled, Crash, callerFrame, procFrame, workerVars, vars
<1>. QED BY <1>1, <1>2, <1>3

LEMMA AnswerStep ==
  ASSUME DatabaseInv, [Next]_vars
  PROVE  AnswerInv'
<1>0. \A j \in Jobs : Committed(j) => Committed(j)'
  <2>1. Range(log) \subseteq Range(log')
    BY LogOnlyGrows
  <2>. QED BY <2>1 DEF Committed
<1>. USE DEF DatabaseInv, DatabaseTypeOK, WorkerTypeOK, CallerTypeOK, AnswerInv,
       callerVars, callerFrame, workerFrame, procFrame, workerVars
<1>1. CASE WorkerTryStart
  BY <1>0, <1>1 DEF WorkerTryStart, WorkerInv, WithJob, JobInv
<1>2. CASE WorkerSettle
  BY <1>0, <1>2 DEF WorkerSettle, WorkerInv, WithJob, JobInv
<1>3. CASE UNCHANGED <<future, callerVars>>
  BY <1>0, <1>3
<1>4. ASSUME NEW c \in Jobs, Submit(c)
      PROVE  AnswerInv'
  BY <1>0, <1>4 DEF Submit
<1>5. ASSUME NEW c \in Jobs, SubmitRejected(c)
      PROVE  AnswerInv'
  BY <1>0, <1>5 DEF SubmitRejected
<1>6. ASSUME NEW c \in Jobs, CancelTask(c)
      PROVE  AnswerInv'
  BY <1>0, <1>6 DEF CancelTask
<1>7. ASSUME NEW c \in Jobs, Deliver(c)
      PROVE  AnswerInv'
  BY <1>0, <1>7 DEF Deliver
<1>8. ASSUME NEW c \in Jobs, ResumeCancelled(c)
      PROVE  AnswerInv'
  BY <1>0, <1>8 DEF ResumeCancelled, Return, ResultAtHand, AnswerOnCancel, Fates
<1>9. ASSUME NEW c \in Jobs, ResumeResult(c)
      PROVE  AnswerInv'
  BY <1>0, <1>9 DEF ResumeResult, Return, AnswerOnResult, Fates
<1>10. CASE Crash
  BY <1>0, <1>10 DEF Crash
<1>. QED BY <1>1, <1>2, <1>3, <1>4, <1>5, <1>6, <1>7, <1>8, <1>9, <1>10
     DEF Next, Worker, WorkerOpen, WorkerGet, WorkerBegin, ReadCallback, WriteCallback,
       WorkerCommit, WorkerRollback, WorkerExit, Resume, CancelProc, CloseCall, ProcStep,
       OpenReturn, OpenFailed, CloseAwait, Join, JoinCancelled, vars

LEMMA AnswersAreTrue ==
  ASSUME AnswerInv, CallerTypeOK
  PROVE  AckedIsDurable /\ FailureNeverHidden
BY DEF AnswerInv, AckedIsDurable, FailureNeverHidden

-----------------------------------------------------------------------------
(* The sentinel comes last.                                                *)

LEMMA StopStep ==
  ASSUME DatabaseInv, [Next]_vars
  PROVE  StopInv'
<1>. USE DEF DatabaseInv, DatabaseTypeOK, CallerTypeOK, StopInv, Queued,
       workerVars, callerVars, procVars, workerFrame, callerFrame, procFrame
<1>1. CASE WorkerGet
  <2>1. queue' = Tail(queue) /\ wpc = "get" /\ queue # <<>>
    BY <1>1 DEF WorkerGet
  <2>2. \A e : Holds(Tail(queue), e) <=> Holds(queue, e) /\ e # Head(queue)
    BY <2>1, TailHolds DEF JobInv
  <2>3. /\ Len(queue) \in Int /\ Len(queue) >= 1
        /\ Len(Tail(queue)) = Len(queue) - 1
        /\ Head(queue) = queue[1]
    BY <2>1, TailElements
  <2>4. \A i \in 1..Len(queue') : queue'[i] = STOP => i = Len(queue')
    <3>1. SUFFICES ASSUME NEW i \in 1..Len(Tail(queue)), Tail(queue)[i] = STOP
                   PROVE  i = Len(Tail(queue))
      BY <2>1
    <3>2. queue[i + 1] = STOP /\ i + 1 \in 1..Len(queue)
      BY <2>1, <3>1, TailElements
    <3>3. i + 1 = Len(queue)
      BY <3>2
    <3>4. i \in Int
      OBVIOUS
    <3>. QED BY <2>3, <3>3, <3>4
  <2>5. state' \in {"opening", "open"} => ~Holds(queue', STOP)
    BY <1>1, <2>1, <2>2 DEF WorkerGet
  <2>6. CASE IsStop(Head(queue))
    <3>1. queue[1] = STOP /\ 1 \in 1..Len(queue)
      BY <2>3, <2>6 DEF IsStop
    <3>2. Len(queue') = 0 /\ queue' \in Seq(Jobs \cup {STOP})
      <4>1. Len(queue) = 1
        BY <3>1
      <4>2. Tail(queue) \in Seq(Jobs \cup {STOP})
        BY <1>1, TailElements DEF WorkerGet
      <4>. QED BY <2>1, <2>3, <4>1, <4>2
    <3>3. queue' = <<>>
      BY <3>2, EmptySeq
    <3>4. state \notin {"opening", "open"}
      <4>1. Holds(queue, STOP)
        BY <3>1 DEF Holds
      <4>. QED BY <4>1
    <3>5. opened = "ok"
      BY <1>1 DEF WorkerGet, LifecycleInv, ProcTypeOK
    <3>. QED BY <1>1, <2>4, <2>5, <2>6, <3>3, <3>4, <3>5
         DEF WorkerGet, ProcTypeOK, States
  <2>7. CASE ~IsStop(Head(queue))
    BY <1>1, <2>4, <2>5, <2>7 DEF WorkerGet
  <2>. QED BY <2>6, <2>7
<1>2. ASSUME Worker, ~WorkerGet
      PROVE  StopInv'
  <2>1. CASE WorkerOpen
    BY <2>1 DEF WorkerOpen, LifecycleInv, ProcTypeOK, States
  <2>2. CASE WorkerExit
    BY <2>2 DEF WorkerExit
  <2>3. ASSUME UNCHANGED <<state, queue, opened>>, wpc' \notin {"exit", "dead"}
        PROVE  StopInv'
    BY <2>3
  <2>. QED BY <1>2, <2>1, <2>2, <2>3
       DEF Worker, WorkerTryStart, WorkerBegin, ReadCallback, WriteCallback, WorkerCommit,
         WorkerRollback, WorkerSettle
<1>3. ASSUME NEW c \in Jobs, Submit(c)
      PROVE  StopInv'
  <2>1. /\ \A e : Holds(Append(queue, c), e) <=> Holds(queue, e) \/ e = c
        /\ Len(queue) \in Nat /\ Len(Append(queue, c)) = Len(queue) + 1
        /\ \A i \in 1..Len(queue) : Append(queue, c)[i] = queue[i]
        /\ Append(queue, c)[Len(queue) + 1] = c
    BY AppendHolds, AppendProperties, LenProperties
  <2>2. state = "open" /\ wpc \notin {"exit", "dead"} /\ opened = "ok" /\ ~Holds(queue, STOP)
    BY <1>3 DEF Submit, MaySubmit, LifecycleInv
  <2>3. \A i \in 1..Len(queue') : queue'[i] # STOP
    BY <1>3, <2>1, <2>2, ConstantsAssumption DEF Submit, Holds, ConstantsAssumption
  <2>. QED BY <1>3, <2>1, <2>2, <2>3, ConstantsAssumption
       DEF Submit, Holds, ConstantsAssumption
<1>4. ASSUME queue' = WithStop(queue), state \in {"opening", "open"}, opened = "ok",
             state' = "closing", UNCHANGED <<wpc, opened>>
      PROVE  StopInv'
  <2>1. /\ Len(queue) \in Nat /\ Len(WithStop(queue)) = Len(queue) + 1
        /\ \A i \in 1..Len(queue) : WithStop(queue)[i] = queue[i]
    BY AppendProperties, LenProperties DEF WithStop
  <2>2. \A i \in 1..Len(queue) : queue[i] # STOP
    BY <1>4 DEF Holds
  <2>3. \A i \in 1..Len(queue') : queue'[i] = STOP => i = Len(queue')
    BY <1>4, <2>1, <2>2
  <2>. QED BY <1>4, <2>3
<1>5. ASSUME NEW p \in Procs,
             CancelProc(p) \/ CloseCall(p) \/ ProcStep(p) \/ JoinCancelled(p)
      PROVE  \/ /\ queue' = WithStop(queue) /\ state \in {"opening", "open"} /\ opened = "ok"
                /\ state' = "closing" /\ UNCHANGED <<wpc, opened>>
             \/ UNCHANGED <<queue, wpc, opened>> /\ state' = state
             \/ UNCHANGED <<queue, wpc, opened>> /\ state = "opening" /\ state' = "open" /\ opened = "ok"
             \/ UNCHANGED <<queue, wpc, opened>> /\ state' = "closed" /\ wpc = "dead"
  BY <1>5 DEF CancelProc, CloseCall, ProcStep, OpenReturn, AbandonOpen, OpenFailed,
       CloseAwait, Join, JoinCancelled, LifecycleInv
<1>6. ASSUME NEW p \in Procs,
             CancelProc(p) \/ CloseCall(p) \/ ProcStep(p) \/ JoinCancelled(p)
      PROVE  StopInv'
  BY <1>4, <1>5, <1>6
<1>7. ASSUME NEW c \in Jobs,
             SubmitRejected(c) \/ CancelTask(c) \/ Deliver(c) \/ Resume(c)
      PROVE  StopInv'
  BY <1>7 DEF SubmitRejected, CancelTask, Deliver, Resume, ResumeCancelled, ResumeResult
<1>8. CASE Crash
  BY <1>8, EmptyHolds DEF Crash
<1>9. CASE UNCHANGED vars
  BY <1>9 DEF vars
<1>. QED BY <1>1, <1>2, <1>3, <1>6, <1>7, <1>8, <1>9 DEF Next

-----------------------------------------------------------------------------
(* Open, close and the end of the worker.                                  *)

LEMMA LifecycleStep ==
  ASSUME DatabaseInv, [Next]_vars
  PROVE  LifecycleInv'
<1>. USE DEF DatabaseInv, DatabaseTypeOK, ProcTypeOK, States, Places, LifecycleInv, HasHandle,
       OpenLeavesNoWorker, Procs, workerVars, callerVars, procVars, workerFrame,
       callerFrame, procFrame
<1>1. CASE Worker
  <2>. USE DEF WorkerInv
  <2>1. CASE WorkerOpen
    BY <1>1, <2>1 DEF WorkerOpen
  <2>2. CASE WorkerGet
    BY <1>1, <2>2, EmptySeq DEF WorkerGet
  <2>3. CASE WorkerExit
    BY <1>1, <2>3 DEF WorkerExit, ClosedResults, StopInv
  <2>4. ASSUME WorkerTryStart \/ WorkerBegin \/ ReadCallback \/ WriteCallback
               \/ WorkerCommit \/ WorkerRollback \/ WorkerSettle
        PROVE  LifecycleInv'
    BY <1>1, <2>4 DEF WorkerTryStart, WorkerBegin, ReadCallback, WriteCallback,
         WorkerCommit, WorkerRollback, WorkerSettle
  <2>. QED BY <1>1, <2>1, <2>2, <2>3, <2>4 DEF Worker
<1>2. ASSUME NEW c \in Jobs,
             Submit(c) \/ SubmitRejected(c) \/ CancelTask(c) \/ Deliver(c) \/ Resume(c)
      PROVE  LifecycleInv'
  BY <1>2 DEF Submit, SubmitRejected, CancelTask, Deliver, Resume, ResumeCancelled,
       ResumeResult, MaySubmit
<1>3. ASSUME NEW p \in Procs, CancelProc(p)
      PROVE  LifecycleInv'
  BY <1>3 DEF CancelProc
<1>4. ASSUME NEW p \in Procs, CloseCall(p)
      PROVE  LifecycleInv'
  BY <1>4, ConstantsAssumption DEF CloseCall, ProcReturn, ConstantsAssumption
<1>5. CASE OpenReturn
  BY <1>5 DEF OpenReturn, AbandonOpen, ProcReturn
<1>6. CASE OpenFailed
  BY <1>6 DEF OpenFailed
<1>7. ASSUME NEW p \in Procs, CloseAwait(p)
      PROVE  LifecycleInv'
  BY <1>7 DEF CloseAwait, ProcReturn, WorkerInv
<1>8. ASSUME NEW p \in Procs, Join(p)
      PROVE  LifecycleInv'
  BY <1>8 DEF Join, ProcReturn, WorkerInv
<1>9. ASSUME NEW p \in Procs, JoinCancelled(p)
      PROVE  LifecycleInv'
  BY <1>9 DEF JoinCancelled, ProcReturn, WorkerInv
<1>10. CASE Crash
  BY <1>10, ConstantsAssumption DEF Crash, ConstantsAssumption
<1>11. CASE UNCHANGED vars
  BY <1>11 DEF vars
<1>. QED BY <1>1, <1>2, <1>3, <1>4, <1>5, <1>6, <1>7, <1>8, <1>9, <1>10, <1>11
     DEF Next, ProcStep

-----------------------------------------------------------------------------
(* The theorems about the program.                                         *)

LEMMA InvInit == Init => DatabaseInv
<1>. SUFFICES ASSUME Init PROVE DatabaseInv
  OBVIOUS
<1>1. DatabaseTypeOK
  BY TypeInit
<1>2. WorkerInv
  BY ConstantsAssumption DEF Init, WorkerInv, WithJob, ConstantsAssumption
<1>3. JobInv
  BY EmptyHolds, ConstantsAssumption DEF Init, JobInv, Queued, ConstantsAssumption
<1>4. AnswerInv
  BY DEF Init, AnswerInv
<1>5. StopInv
  BY EmptyHolds DEF Init, StopInv, Queued
<1>6. LifecycleInv
  BY ConstantsAssumption
  DEF Init, LifecycleInv, HasHandle, OpenLeavesNoWorker, Procs, ConstantsAssumption
<1>7. AckedIsDurable /\ FailureNeverHidden
  BY <1>1, <1>4, AnswersAreTrue DEF DatabaseTypeOK
<1>. QED BY <1>1, <1>2, <1>3, <1>4, <1>5, <1>6, <1>7 DEF DatabaseInv

LEMMA InvStep ==
  ASSUME DatabaseInv, [Next]_vars
  PROVE  DatabaseInv'
<1>1. DatabaseTypeOK'
  BY WorkerKeepsTypes, CallersKeepTypes, ProcsKeepTypes, CrashKeepsTypes, StutterKeepsTypes
  DEF Next, DatabaseInv
<1>2. WorkerInv'
  BY WorkerInvStep DEF DatabaseInv
<1>3. JobInv'
  BY JobStep
<1>4. AnswerInv'
  BY AnswerStep
<1>5. StopInv'
  BY StopStep
<1>6. LifecycleInv'
  BY LifecycleStep
<1>7. (AckedIsDurable /\ FailureNeverHidden)'
  BY <1>1, <1>4 DEF DatabaseTypeOK, CallerTypeOK, AnswerInv, AckedIsDurable, FailureNeverHidden
<1>. QED BY <1>1, <1>2, <1>3, <1>4, <1>5, <1>6, <1>7 DEF DatabaseInv

(* The invariant of the worker, its callers and open and close.            *)
THEOREM DatabaseInvariant == Spec => []DatabaseInv
<1>1. DatabaseInv /\ [Next]_vars => DatabaseInv'
  BY InvStep
<1>. QED BY <1>1, InvInit, PTL DEF Spec

(* The variables of the worker, the callers and the lifecycle always have  *)
(* their type.                                                             *)
THEOREM DatabaseTypeCorrect == Spec => []DatabaseTypeOK
<1>1. DatabaseInv => DatabaseTypeOK
  BY DEF DatabaseInv
<1>. QED BY <1>1, DatabaseInvariant, PTL

(* An acknowledged transaction is in the file, through any number of       *)
(* crashes.                                                                *)
THEOREM AckedStaysDurable == Spec => []AckedIsDurable
<1>1. DatabaseInv => AckedIsDurable
  BY DEF DatabaseInv
<1>. QED BY <1>1, DatabaseInvariant, PTL

(* No cancellation turns the failure of a job into anything else.          *)
THEOREM FailureIsTold == Spec => []FailureNeverHidden
<1>1. DatabaseInv => FailureNeverHidden
  BY DEF DatabaseInv
<1>. QED BY <1>1, DatabaseInvariant, PTL

(* An open that hands out no database leaves no worker and no transaction. *)
THEOREM FailedOpenIsClean == Spec => []OpenLeavesNoWorker
<1>1. DatabaseInv => OpenLeavesNoWorker
  BY DEF DatabaseInv, LifecycleInv
<1>. QED BY <1>1, DatabaseInvariant, PTL

(* After its answer a job writes nothing.                                  *)
THEOREM AnswerIsLast == Spec => NoWriteAfterReply
<1>1. ASSUME DatabaseInv, [Next]_vars
      PROVE  \A j \in Jobs : reply[j] # "none" /\ Committed(j)' => Committed(j)
  <2>. SUFFICES ASSUME NEW j \in Jobs, reply[j] # "none", Committed(j)'
                PROVE  Committed(j)
    OBVIOUS
  <2>1. Range(log') \subseteq Range(log) \cup {wjob}
    BY <1>1, LogOnlyGrows
  <2>2. caller[j] # "waiting"
    BY <1>1 DEF DatabaseInv, DatabaseTypeOK, CallerTypeOK, AnswerInv
  <2>3. wjob # j
    BY <1>1, <2>2 DEF DatabaseInv, JobInv
  <2>. QED BY <2>1, <2>3 DEF Committed
<1>2. DatabaseInv /\ [Next]_vars
      => [\A j \in Jobs : reply[j] # "none" /\ Committed(j)' => Committed(j)]_vars
  BY <1>1
<1>. QED BY <1>2, DatabaseInvariant, PTL DEF Spec, NoWriteAfterReply

-----------------------------------------------------------------------------
(* The jobs in a queue that may end in the sentinel.                       *)

Elements == Jobs \cup {STOP}
StopIsLast(q) == \A i \in 1..Len(q) : q[i] = STOP => i = Len(q)

LEMMA PrefixProperties ==
  ASSUME NEW S, NEW q, NEW n \in Nat, \A i \in 1..n : q[i] \in S
  PROVE  /\ SubSeq(q, 1, n) \in Seq(S) /\ Len(SubSeq(q, 1, n)) = n
         /\ \A i \in 1..n : SubSeq(q, 1, n)[i] = q[i]
<1>1. n - 1 + 1 = n /\ \A i \in 1..n : 1 + i - 1 = i
  OBVIOUS
<1>. QED BY <1>1, SubSeqProperties

LEMMA JobsInWithoutStop ==
  ASSUME NEW q \in Seq(Elements), ~Holds(q, STOP)
  PROVE  JobsIn(q) = q /\ q \in Seq(Jobs)
<1>1. Len(q) \in Nat /\ (q # <<>> => Len(q) \in 1..Len(q))
  BY EmptySeq
<1>2. \A i \in 1..Len(q) : q[i] # STOP
  BY DEF Holds
<1>3. JobsIn(q) = q
  BY <1>1, <1>2 DEF JobsIn, IsStop
<1>4. \A i \in 1..Len(q) : q[i] \in Jobs
  BY <1>2, ElementOfSeq DEF Elements
<1>5. q \in [1..Len(q) -> Jobs]
  BY <1>4, LenProperties
<1>. QED BY <1>1, <1>3, <1>5, SeqDef

LEMMA JobsInWithStop ==
  ASSUME NEW q \in Seq(Elements), ~Holds(q, STOP)
  PROVE  JobsIn(Append(q, STOP)) = q
<1>. DEFINE a == Append(q, STOP)
<1>1. /\ a \in Seq(Elements) /\ a # <<>> /\ Len(a) = Len(q) + 1 /\ Len(q) \in Nat
      /\ \A i \in 1..Len(q) : a[i] = q[i]
      /\ a[Len(a)] = STOP
  BY AppendProperties, LenProperties DEF Elements
<1>2. JobsIn(a) = SubSeq(a, 1, Len(q))
  BY <1>1 DEF JobsIn, IsStop
<1>3. /\ SubSeq(a, 1, Len(q)) \in Seq(Elements)
      /\ Len(SubSeq(a, 1, Len(q))) = Len(q)
      /\ \A i \in 1..Len(q) : SubSeq(a, 1, Len(q))[i] = q[i]
  <2>1. \A i \in 1..Len(q) : a[i] \in Elements
    BY <1>1, ElementOfSeq
  <2>. QED BY <1>1, <2>1, SubSeqProperties
<1>. QED BY <1>2, <1>3, SeqEqual

LEMMA JobsInProperties ==
  ASSUME NEW q \in Seq(Elements), StopIsLast(q)
  PROVE  /\ JobsIn(q) \in Seq(Jobs)
         /\ Len(JobsIn(q)) = IF q # <<>> /\ q[Len(q)] = STOP THEN Len(q) - 1 ELSE Len(q)
         /\ \A i \in 1..Len(JobsIn(q)) : JobsIn(q)[i] = q[i]
<1>1. Len(q) \in Nat /\ (q # <<>> => Len(q) \in Nat \ {0})
  BY EmptySeq
<1>2. CASE q # <<>> /\ q[Len(q)] = STOP
  <2>1. \A i \in 1..(Len(q) - 1) : i \in 1..Len(q) /\ i # Len(q)
    BY <1>1, <1>2
  <2>2. \A i \in 1..(Len(q) - 1) : q[i] \in Jobs
    BY <2>1, ElementOfSeq DEF StopIsLast, Elements
  <2>3. JobsIn(q) = SubSeq(q, 1, Len(q) - 1)
    BY <1>2 DEF JobsIn, IsStop
  <2>4. /\ SubSeq(q, 1, Len(q) - 1) \in Seq(Jobs)
        /\ Len(SubSeq(q, 1, Len(q) - 1)) = Len(q) - 1
        /\ \A i \in 1..(Len(q) - 1) : SubSeq(q, 1, Len(q) - 1)[i] = q[i]
    <3>. DEFINE n == Len(q) - 1
    <3>1. n \in Nat /\ \A i \in 1..n : q[i] \in Jobs
      BY <1>1, <1>2, <2>2
    <3>. HIDE DEF n
    <3>2. /\ SubSeq(q, 1, n) \in Seq(Jobs) /\ Len(SubSeq(q, 1, n)) = n
          /\ \A i \in 1..n : SubSeq(q, 1, n)[i] = q[i]
      BY <3>1, PrefixProperties
    <3>. QED BY <3>2 DEF n
  <2>. QED BY <1>2, <2>3, <2>4
<1>3. CASE ~(q # <<>> /\ q[Len(q)] = STOP)
  <2>1. \A i \in 1..Len(q) : q[i] # STOP
    <3>1. CASE q = <<>>
      BY <3>1
    <3>2. CASE q # <<>>
      BY <1>1, <1>3, <3>2 DEF StopIsLast
    <3>. QED BY <3>1, <3>2
  <2>. QED BY <1>3, <2>1, JobsInWithoutStop DEF Holds
<1>. QED BY <1>2, <1>3

LEMMA JobsInHolds ==
  ASSUME NEW q \in Seq(Elements), StopIsLast(q), NEW j \in Jobs
  PROVE  j \in Range(JobsIn(q)) <=> Holds(q, j)
<1>1. /\ JobsIn(q) \in Seq(Jobs) /\ Len(q) \in Nat
      /\ Len(JobsIn(q)) = IF q # <<>> /\ q[Len(q)] = STOP THEN Len(q) - 1 ELSE Len(q)
      /\ \A i \in 1..Len(JobsIn(q)) : JobsIn(q)[i] = q[i]
  BY JobsInProperties, LenProperties
<1>2. DOMAIN JobsIn(q) = 1..Len(JobsIn(q))
  BY <1>1, LenProperties
<1>3. ASSUME NEW i \in 1..Len(q), q[i] = j
      PROVE  i \in 1..Len(JobsIn(q))
  BY <1>1, <1>3, ConstantsAssumption, EmptySeq DEF ConstantsAssumption
<1>4. 1..Len(JobsIn(q)) \subseteq 1..Len(q)
  BY <1>1, EmptySeq
<1>. QED BY <1>1, <1>2, <1>3, <1>4 DEF Range, Holds

(* Taking the first element is the same in the queue and in its jobs.      *)
LEMMA JobsInTail ==
  ASSUME NEW q \in Seq(Elements), StopIsLast(q), q # <<>>, Head(q) # STOP
  PROVE  JobsIn(q) = <<Head(q)>> \o JobsIn(Tail(q))
<1>. DEFINE t == Tail(q)
<1>1. /\ t \in Seq(Elements) /\ Len(q) \in Nat /\ Len(q) >= 1 /\ Len(t) = Len(q) - 1
      /\ \A i \in 1..Len(t) : t[i] = q[i + 1] /\ i + 1 \in 1..Len(q)
      /\ Head(q) = q[1] /\ Head(q) \in Elements
  BY TailElements
<1>. HIDE DEF t
<1>0. Len(q) \in Int /\ Len(t) \in Int /\ Len(t) = Len(q) - 1
  BY <1>1, LenProperties
<1>2. StopIsLast(t)
  <2>1. SUFFICES ASSUME NEW i \in 1..Len(t), t[i] = STOP
                 PROVE  i = Len(t)
    BY DEF StopIsLast
  <2>2. q[i + 1] = STOP /\ i + 1 \in 1..Len(q)
    BY <1>1, <2>1
  <2>3. i + 1 = Len(q)
    BY <2>2 DEF StopIsLast
  <2>4. i \in Int
    OBVIOUS
  <2>. QED BY <1>0, <2>3, <2>4
<1>3. t # <<>> <=> Len(q) # 1
  BY <1>1, EmptySeq
<1>4. (q # <<>> /\ q[Len(q)] = STOP) <=> (t # <<>> /\ t[Len(t)] = STOP)
  <2>1. CASE Len(q) = 1
    BY <1>1, <1>3, <2>1
  <2>2. CASE Len(q) # 1
    <3>1. Len(t) \in 1..Len(t) /\ t[Len(t)] = q[Len(q)]
      BY <1>1, <2>2
    <3>. QED BY <1>3, <2>2, <3>1
  <2>. QED BY <2>1, <2>2
<1>5. /\ JobsIn(q) \in Seq(Jobs) /\ JobsIn(t) \in Seq(Jobs)
      /\ \A i \in 1..Len(JobsIn(q)) : JobsIn(q)[i] = q[i]
      /\ \A i \in 1..Len(JobsIn(t)) : JobsIn(t)[i] = t[i]
  BY <1>1, <1>2, JobsInProperties
<1>6. Len(JobsIn(q)) = Len(JobsIn(t)) + 1 /\ Len(JobsIn(t)) \in Nat /\ Len(JobsIn(t)) <= Len(t)
  <2>1. Len(JobsIn(q)) = IF q # <<>> /\ q[Len(q)] = STOP THEN Len(q) - 1 ELSE Len(q)
    BY JobsInProperties
  <2>2. Len(JobsIn(t)) = IF t # <<>> /\ t[Len(t)] = STOP THEN Len(t) - 1 ELSE Len(t)
    BY <1>1, <1>2, JobsInProperties
  <2>3. Len(JobsIn(t)) \in Nat
    BY <1>5, LenProperties
  <2>. QED BY <1>0, <1>4, <2>1, <2>2, <2>3
<1>7. Head(q) \in Jobs
  BY <1>1 DEF Elements
<1>. DEFINE c == <<Head(q)>> \o JobsIn(t)
<1>8. /\ <<Head(q)>> \in Seq(Jobs) /\ Len(<<Head(q)>>) = 1 /\ <<Head(q)>>[1] = Head(q)
  BY <1>7
<1>9. /\ c \in Seq(Jobs) /\ Len(c) = 1 + Len(JobsIn(t))
      /\ \A i \in 1..(1 + Len(JobsIn(t))) :
           c[i] = IF i <= 1 THEN <<Head(q)>>[i] ELSE JobsIn(t)[i - 1]
  BY <1>5, <1>8, ConcatProperties
<1>10. ASSUME NEW i \in 1..Len(JobsIn(q))
       PROVE  JobsIn(q)[i] = c[i]
  <2>1. CASE i = 1
    BY <1>1, <1>5, <1>6, <1>8, <1>9, <2>1
  <2>2. CASE i # 1
    <3>1. i - 1 \in 1..Len(JobsIn(t)) /\ i - 1 \in 1..Len(t)
      BY <1>1, <1>6, <2>2
    <3>2. JobsIn(t)[i - 1] = t[i - 1] /\ t[i - 1] = q[(i - 1) + 1]
      BY <1>1, <1>5, <3>1
    <3>3. c[i] = JobsIn(t)[i - 1]
      BY <1>6, <1>9, <2>2
    <3>4. (i - 1) + 1 = i
      OBVIOUS
    <3>. QED BY <1>5, <3>2, <3>3, <3>4
  <2>. QED BY <2>1, <2>2
<1>11. Len(JobsIn(q)) = Len(c)
  BY <1>6, <1>9
<1>. HIDE DEF c
<1>. QED BY <1>5, <1>9, <1>10, <1>11, SeqEqual DEF c, t

LEMMA ConsProperties ==
  ASSUME NEW S, NEW x \in S, NEW t \in Seq(S)
  PROVE  /\ <<x>> \o t \in Seq(S) /\ <<x>> \o t # <<>>
         /\ Head(<<x>> \o t) = x /\ Tail(<<x>> \o t) = t
         /\ Range(<<x>> \o t) = {x} \cup Range(t)
<1>. DEFINE c == <<x>> \o t
<1>1. <<x>> \in Seq(S) /\ Len(<<x>>) = 1 /\ <<x>>[1] = x /\ Len(t) \in Nat
  BY LenProperties
<1>2. /\ c \in Seq(S) /\ Len(c) = 1 + Len(t)
      /\ \A i \in 1..(1 + Len(t)) : c[i] = IF i <= 1 THEN <<x>>[i] ELSE t[i - 1]
  BY <1>1, ConcatProperties
<1>3. c # <<>>
  BY <1>1, <1>2
<1>4. c[1] = x
  BY <1>1, <1>2
<1>5. Head(c) = x
  BY <1>2, <1>3, <1>4, TailElements
<1>6. /\ Tail(c) \in Seq(S) /\ Len(Tail(c)) = Len(t)
      /\ \A i \in 1..Len(t) : Tail(c)[i] = c[i + 1]
  BY <1>1, <1>2, <1>3, HeadTailProperties
<1>7. \A i \in 1..Len(t) : c[i + 1] = t[i]
  BY <1>1, <1>2
<1>8. Tail(c) = t
  BY <1>6, <1>7, SeqEqual
<1>9. DOMAIN c = 1..(1 + Len(t)) /\ DOMAIN t = 1..Len(t)
  BY <1>2, LenProperties
<1>10. \A i \in 1..(1 + Len(t)) : i = 1 \/ (i - 1 \in 1..Len(t) /\ c[i] = t[i - 1])
  BY <1>1, <1>2
<1>11. 1 \in 1..(1 + Len(t)) /\ \A i \in 1..Len(t) : i + 1 \in 1..(1 + Len(t))
  BY <1>1
<1>12. Range(c) = {x} \cup Range(t)
  <2>. HIDE DEF c
  <2>1. Range(c) = {c[i] : i \in 1..(1 + Len(t))} /\ Range(t) = {t[i] : i \in 1..Len(t)}
    BY <1>9 DEF Range
  <2>2. \A y \in Range(c) : y \in {x} \cup Range(t)
    BY <1>4, <1>10, <2>1
  <2>3. \A y \in {x} \cup Range(t) : y \in Range(c)
    BY <1>4, <1>7, <1>11, <2>1
  <2>. QED BY <2>2, <2>3
<1>. QED BY <1>2, <1>3, <1>5, <1>8, <1>12

-----------------------------------------------------------------------------
(* The program implements SerialStore.                                     *)

LEMMA QueueFacts ==
  ASSUME DatabaseInv
  PROVE  /\ queue \in Seq(Elements) /\ StopIsLast(queue) /\ JobsIn(queue) \in Seq(Jobs)
         /\ \A j \in Jobs : j \in Range(JobsIn(queue)) <=> Queued(j)
<1>1. queue \in Seq(Elements) /\ StopIsLast(queue)
  BY DEF DatabaseInv, DatabaseTypeOK, CallerTypeOK, StopInv, Elements, StopIsLast
<1>. QED BY <1>1, JobsInProperties, JobsInHolds DEF Queued

(* What waits or is with the worker, and what is not there.                *)
LEMMA PendingFacts ==
  ASSUME DatabaseInv
  PROVE  /\ Pending \in Seq(Jobs)
         /\ \A j \in Jobs : j \in Range(Pending)
                           <=> Queued(j) \/ (wjob = j /\ wpc # "settle")
<1>1. /\ JobsIn(queue) \in Seq(Jobs)
      /\ \A j \in Jobs : j \in Range(JobsIn(queue)) <=> Queued(j)
  BY QueueFacts
<1>2. CASE InFlight = <<>>
  <2>1. Pending = JobsIn(queue)
    BY <1>1, <1>2, ConcatEmptySeq DEF Pending
  <2>2. wpc \notin {"try", "begin", "callback", "commit", "rollback"}
    BY <1>2 DEF InFlight
  <2>. QED BY <1>1, <2>1, <2>2 DEF DatabaseInv, WorkerInv, WithJob
<1>3. CASE InFlight # <<>>
  <2>1. InFlight = <<wjob>> /\ wjob \in Jobs /\ wpc # "settle"
    BY <1>3 DEF InFlight, DatabaseInv, WorkerInv, WithJob
  <2>2. Pending \in Seq(Jobs) /\ Range(Pending) = {wjob} \cup Range(JobsIn(queue))
    BY <1>1, <2>1, ConsProperties DEF Pending
  <2>. QED BY <1>1, <2>1, <2>2
<1>. QED BY <1>2, <1>3

LEMMA AcceptedIsWaiting ==
  ASSUME DatabaseInv, NEW j \in Jobs, reply[j] = "none"
  PROVE  Store!Accepted(j) <=> caller[j] = "waiting"
<1>1. Store!Accepted(j) <=> j \in Range(Pending) \/ Outcome[j] # "none"
  BY DEF Store!Accepted, Store!Range, Range
<1>2. j \in Range(Pending) <=> Queued(j) \/ (wjob = j /\ wpc # "settle")
  BY PendingFacts
<1>3. Outcome[j] = IF wpc = "settle" /\ wjob = j THEN wresult ELSE future[j]
  BY DEF Outcome
<1>4. wpc = "settle" <=> wresult # "none"
  BY DEF DatabaseInv, WorkerInv
<1>5. caller[j] = "idle" \/ caller[j] = "waiting"
  BY DEF DatabaseInv, DatabaseTypeOK, CallerTypeOK, AnswerInv
<1>6. /\ Queued(j) \/ wjob = j => caller[j] = "waiting"
      /\ caller[j] = "waiting" /\ future[j] = "none" => Queued(j) \/ wjob = j
      /\ caller[j] = "idle" => future[j] = "none"
  BY DEF DatabaseInv, JobInv, AnswerInv
<1>. QED BY <1>1, <1>2, <1>3, <1>4, <1>5, <1>6

LEMMA SimulateInit == Init => Store!Init
<1>. SUFFICES ASSUME Init PROVE Store!Init
  OBVIOUS
<1>1. InFlight = <<>> /\ JobsIn(queue) = <<>>
  BY DEF Init, InFlight, JobsIn
<1>2. Pending = <<>>
  BY <1>1 DEF Pending
<1>3. Phase = "opening" /\ Outcome = [j \in Jobs |-> "none"]
  BY DEF Init, Phase, Outcome
<1>. QED BY <1>2, <1>3 DEF Init, Store!Init

(* The worker takes up a job: nothing a caller could see.                  *)
LEMMA SimulateGet ==
  ASSUME DatabaseInv, WorkerGet
  PROVE  UNCHANGED Store!vars
<1>. USE DEF WorkerGet, workerFrame, callerVars
<1>1. Phase' = Phase /\ UNCHANGED <<log, seen, reply>>
  BY DEF Phase
<1>2. Outcome' = Outcome
  BY ConstantsAssumption DEF Outcome
<1>3. InFlight = <<>> /\ JobsIn(queue) \in Seq(Jobs) /\ Pending = JobsIn(queue)
  BY QueueFacts, ConcatEmptySeq DEF InFlight, Pending
<1>4. CASE Head(queue) = STOP
  <2>1. queue[1] = STOP /\ Len(queue) \in Nat \ {0}
    BY <1>4, TailElements, QueueFacts
  <2>2. Len(queue) = 1
    <3>1. 1 \in 1..Len(queue)
      BY <2>1
    <3>2. queue[1] = STOP
      BY <2>1
    <3>. QED BY <3>1, <3>2, QueueFacts DEF StopIsLast
  <2>3. Len(Tail(queue)) = 0 /\ Tail(queue) \in Seq(Elements)
    BY <2>1, <2>2, TailElements, QueueFacts
  <2>4. queue' = <<>>
    BY <2>3, EmptySeq
  <2>5. JobsIn(queue) = <<>>
    <3>1. Len(JobsIn(queue)) = 0
      BY <2>1, <2>2, JobsInProperties, QueueFacts
    <3>. QED BY <1>3, <3>1, EmptySeq
  <2>6. JobsIn(queue') = <<>> /\ InFlight' = <<>>
    BY <1>4, <2>4 DEF JobsIn, InFlight, IsStop
  <2>7. Pending' = Pending
    BY <1>3, <2>5, <2>6 DEF Pending
  <2>. QED BY <1>1, <1>2, <2>7 DEF Store!vars
<1>5. CASE Head(queue) # STOP
  <2>1. InFlight' = <<Head(queue)>>
    BY <1>5 DEF InFlight, IsStop
  <2>2. JobsIn(queue) = <<Head(queue)>> \o JobsIn(Tail(queue))
    BY <1>5, QueueFacts, JobsInTail
  <2>3. Pending' = Pending
    BY <1>3, <2>1, <2>2 DEF Pending
  <2>. QED BY <1>1, <1>2, <2>3 DEF Store!vars
<1>. QED BY <1>4, <1>5

(* The job in the worker's hands is the oldest pending one.                *)
LEMMA OldestIsInHand ==
  ASSUME DatabaseInv, InFlight = <<wjob>>, wjob \in Jobs
  PROVE  Pending # <<>> /\ Head(Pending) = wjob /\ Tail(Pending) = JobsIn(queue)
BY QueueFacts, ConsProperties DEF Pending

(* It leaves the worker's hands with a fate.                               *)
LEMMA LeavesHand ==
  ASSUME DatabaseInv, wpc \in {"try", "begin", "callback", "commit", "rollback"},
         wpc' \in {"get", "settle"}, UNCHANGED <<queue, state>>
  PROVE  /\ wjob \in Jobs /\ Phase' = Phase
         /\ Pending # <<>> /\ Head(Pending) = wjob /\ Pending' = Tail(Pending)
<1>1. InFlight = <<wjob>> /\ wjob \in Jobs /\ InFlight' = <<>>
  BY DEF InFlight, DatabaseInv, WorkerInv, WithJob
<1>2. Pending' = JobsIn(queue)
  BY <1>1, QueueFacts, ConcatEmptySeq DEF Pending
<1>3. Phase' = Phase
  BY DEF Phase
<1>. QED BY <1>1, <1>2, <1>3, OldestIsInHand

LEMMA FateIsOutcome ==
  ASSUME DatabaseInv, wjob \in Jobs, wpc # "settle", wpc' = "settle",
         UNCHANGED <<wjob, future>>
  PROVE  Outcome' = [Outcome EXCEPT ![wjob] = wresult']
BY DEF Outcome

LEMMA SimulateTryStart ==
  ASSUME DatabaseInv, WorkerTryStart
  PROVE  [Store!Next]_(Store!vars)
<1>. USE DEF WorkerTryStart, workerFrame, callerVars
<1>1. CASE cancelRequested[wjob]
  <2>1. /\ wjob \in Jobs /\ Phase' = Phase
        /\ Pending # <<>> /\ Head(Pending) = wjob /\ Pending' = Tail(Pending)
    BY <1>1, LeavesHand
  <2>2. Outcome' = [Outcome EXCEPT ![wjob] = "skipped"]
    BY <1>1, <2>1 DEF Outcome, DatabaseInv, DatabaseTypeOK, WorkerTypeOK
  <2>3. Store!Abort("skipped")
    BY <2>1, <2>2 DEF Store!Abort
  <2>. QED BY <2>3 DEF Store!Next
<1>2. CASE ~cancelRequested[wjob]
  <2>1. wpc = "try" /\ wpc' \in {"begin", "callback"}
    BY <1>2
  <2>2. InFlight' = InFlight /\ Phase' = Phase /\ Outcome' = Outcome
    BY <1>2, <2>1 DEF InFlight, Phase, Outcome
  <2>3. Pending' = Pending
    BY <2>2 DEF Pending
  <2>. QED BY <2>2, <2>3 DEF Store!vars
<1>. QED BY <1>1, <1>2

LEMMA SimulateFailure ==
  ASSUME DatabaseInv, wpc \in {"begin", "callback", "rollback"},
         wpc' = "settle", wresult' = "error",
         UNCHANGED <<queue, state, wjob, log, seen, future, reply>>
  PROVE  Store!Next
<1>1. /\ wjob \in Jobs /\ Phase' = Phase
      /\ Pending # <<>> /\ Head(Pending) = wjob /\ Pending' = Tail(Pending)
  BY LeavesHand
<1>2. Outcome' = [Outcome EXCEPT ![wjob] = "error"]
  BY <1>1, FateIsOutcome
<1>3. Store!Abort("error")
  BY <1>1, <1>2 DEF Store!Abort
<1>. QED BY <1>3 DEF Store!Next

(* Between BEGIN and COMMIT or ROLLBACK nothing is visible.                *)
LEMMA SimulateInside ==
  ASSUME DatabaseInv, wpc \in {"begin", "callback", "commit"},
         wpc' \in {"callback", "commit", "rollback"},
         UNCHANGED <<queue, state, wjob, log, seen, future, reply>>
  PROVE  UNCHANGED Store!vars
<1>1. InFlight' = InFlight /\ Phase' = Phase /\ Outcome' = Outcome
  BY DEF InFlight, Phase, Outcome
<1>2. Pending' = Pending
  BY <1>1 DEF Pending
<1>. QED BY <1>1, <1>2 DEF Store!vars

LEMMA SimulateRead ==
  ASSUME DatabaseInv, ReadCallback
  PROVE  [Store!Next]_(Store!vars)
<1>. USE DEF ReadCallback, workerFrame, callerVars
<1>1. CASE wresult' = "error" /\ UNCHANGED seen
  BY <1>1, SimulateFailure
<1>2. CASE seen' = [seen EXCEPT ![wjob] = log \o staged] /\ wresult' = "ok"
  <2>1. /\ wjob \in Jobs /\ Phase' = Phase
        /\ Pending # <<>> /\ Head(Pending) = wjob /\ Pending' = Tail(Pending)
    BY LeavesHand
  <2>2. Outcome' = [Outcome EXCEPT ![wjob] = "ok"]
    BY <1>2, <2>1, FateIsOutcome
  <2>3. staged = <<>> /\ log \in Seq(Jobs)
    BY DEF DatabaseInv, WorkerInv, DatabaseTypeOK, WorkerTypeOK
  <2>4. log \o staged = log
    BY <2>3, ConcatEmptySeq
  <2>5. Store!Apply
    BY <1>2, <2>1, <2>2, <2>4 DEF Store!Apply
  <2>. QED BY <2>5 DEF Store!Next
<1>. QED BY <1>1, <1>2

LEMMA SimulateCommit ==
  ASSUME DatabaseInv, WorkerCommit
  PROVE  [Store!Next]_(Store!vars)
<1>. USE DEF WorkerCommit, workerFrame, callerVars
<1>1. CASE wpc' = "rollback" /\ UNCHANGED <<log, staged, inTxn, wresult>>
  BY <1>1, SimulateInside
<1>2. CASE log' = log \o staged /\ wpc' = "settle" /\ wresult' = "ok"
  <2>1. /\ wjob \in Jobs /\ Phase' = Phase
        /\ Pending # <<>> /\ Head(Pending) = wjob /\ Pending' = Tail(Pending)
    BY <1>2, LeavesHand
  <2>2. Outcome' = [Outcome EXCEPT ![wjob] = "ok"]
    BY <1>2, <2>1, FateIsOutcome
  <2>3. staged = <<wjob>> /\ log \in Seq(Jobs) /\ wjob \notin Reads
    BY DEF DatabaseInv, WorkerInv, DatabaseTypeOK, WorkerTypeOK
  <2>4. log' = Append(log, wjob)
    BY <1>2, <2>1, <2>3, AppendIsConcat
  <2>5. Store!Apply
    BY <2>1, <2>2, <2>3, <2>4 DEF Store!Apply
  <2>. QED BY <2>5 DEF Store!Next
<1>. QED BY <1>1, <1>2

LEMMA SimulateWorker ==
  ASSUME DatabaseInv, Worker
  PROVE  [Store!Next]_(Store!vars)
<1>1. CASE WorkerOpen
  <2>1. state = "opening" /\ queue = <<>> /\ wpc = "migrating"
    BY <1>1 DEF WorkerOpen, DatabaseInv, LifecycleInv
  <2>2. InFlight = <<>> /\ InFlight' = <<>> /\ queue' = queue /\ JobsIn(queue) = <<>>
    BY <1>1, <2>1 DEF WorkerOpen, InFlight, JobsIn
  <2>3. Pending = <<>> /\ Pending' = <<>>
    BY <2>2 DEF Pending
  <2>4. Outcome' = Outcome /\ UNCHANGED <<log, seen, reply>>
    BY <1>1, <2>1 DEF WorkerOpen, Outcome, workerFrame, callerVars
  <2>5. CASE wpc' = "get"
    <3>1. Phase' = Phase
      BY <1>1, <2>1, <2>5 DEF WorkerOpen, Phase, workerFrame
    <3>. QED BY <2>3, <2>4, <3>1 DEF Store!vars
  <2>6. CASE wpc' = "dead"
    <3>1. Phase = "opening" /\ Phase' = "stopped"
      BY <2>1, <2>6 DEF Phase
    <3>2. Store!Stop
      BY <2>3, <2>4, <3>1 DEF Store!Stop
    <3>. QED BY <3>2 DEF Store!Next
  <2>. QED BY <1>1, <2>5, <2>6 DEF WorkerOpen
<1>2. CASE WorkerGet
  BY <1>2, SimulateGet
<1>3. CASE WorkerTryStart
  BY <1>3, SimulateTryStart
<1>4. CASE WorkerBegin
  <2>1. UNCHANGED <<queue, state, wjob, log, seen, future, reply>>
    BY <1>4 DEF WorkerBegin, workerFrame, callerVars
  <2>. QED BY <1>4, <2>1, SimulateFailure, SimulateInside DEF WorkerBegin
<1>5. CASE ReadCallback
  BY <1>5, SimulateRead
<1>6. CASE WriteCallback
  <2>1. UNCHANGED <<queue, state, wjob, log, seen, future, reply>>
    BY <1>6 DEF WriteCallback, workerFrame, callerVars
  <2>. QED BY <1>6, <2>1, SimulateInside DEF WriteCallback
<1>7. CASE WorkerCommit
  BY <1>7, SimulateCommit
<1>8. CASE WorkerRollback
  <2>1. UNCHANGED <<queue, state, wjob, log, seen, future, reply>>
    BY <1>8 DEF WorkerRollback, workerFrame, callerVars
  <2>. QED BY <1>8, <2>1, SimulateFailure DEF WorkerRollback
<1>9. CASE WorkerSettle
  <2>1. InFlight' = InFlight /\ Phase' = Phase /\ UNCHANGED <<queue, log, seen, reply>>
    BY <1>9 DEF WorkerSettle, InFlight, Phase, workerFrame, callerVars
  <2>2. Outcome' = Outcome
    BY <1>9, ConstantsAssumption
    DEF WorkerSettle, Outcome, DatabaseInv, DatabaseTypeOK, WorkerTypeOK, ConstantsAssumption
  <2>3. Pending' = Pending
    BY <2>1 DEF Pending
  <2>. QED BY <2>1, <2>2, <2>3 DEF Store!vars
<1>10. CASE WorkerExit
  <2>1. queue = <<>> /\ state \in {"closing", "closed"} /\ wpc = "exit" /\ wpc' = "dead"
    BY <1>10 DEF WorkerExit, DatabaseInv, StopInv
  <2>2. state # "closed"
    BY <2>1 DEF DatabaseInv, LifecycleInv
  <2>3. InFlight = <<>> /\ InFlight' = <<>> /\ queue' = queue /\ JobsIn(queue) = <<>>
    BY <1>10, <2>1 DEF WorkerExit, InFlight, JobsIn
  <2>4. Pending = <<>> /\ Pending' = <<>>
    BY <2>3 DEF Pending
  <2>5. Outcome' = Outcome /\ UNCHANGED <<log, seen, reply>>
    BY <1>10, <2>1 DEF WorkerExit, Outcome, workerFrame, callerVars
  <2>6. Phase = "draining" /\ Phase' = "stopped"
    BY <2>1, <2>2 DEF Phase
  <2>7. Store!Stop
    BY <2>4, <2>5, <2>6 DEF Store!Stop
  <2>. QED BY <2>7 DEF Store!Next
<1>. QED BY <1>1, <1>2, <1>3, <1>4, <1>5, <1>6, <1>7, <1>8, <1>9, <1>10 DEF Worker

(* Everything but the worker leaves its part of the mapping alone.         *)
LEMMA FrameOfMapping ==
  ASSUME UNCHANGED workerVars
  PROVE  InFlight' = InFlight /\ Outcome' = Outcome /\ UNCHANGED <<wpc, log, seen>>
BY DEF workerVars, InFlight, Outcome

LEMMA AppendToPending ==
  ASSUME DatabaseInv, NEW j \in Jobs, ~Holds(queue, STOP), queue' = Append(queue, j),
         UNCHANGED workerVars
  PROVE  Pending' = Append(Pending, j)
<1>1. queue \in Seq(Elements) /\ JobsIn(queue) = queue /\ queue \in Seq(Jobs)
  BY QueueFacts, JobsInWithoutStop
<1>2. queue' \in Seq(Elements) /\ ~Holds(queue', STOP)
  <2>1. j \in Elements /\ j # STOP
    BY ConstantsAssumption DEF Elements, ConstantsAssumption
  <2>. QED BY <1>1, <2>1, AppendProperties, AppendHolds
<1>3. JobsIn(queue') = Append(queue, j)
  BY <1>2, JobsInWithoutStop
<1>4. InFlight' = InFlight /\ InFlight \in Seq(Jobs)
  <2>1. InFlight = <<>> \/ (InFlight = <<wjob>> /\ wjob \in Jobs)
    BY DEF InFlight, DatabaseInv, WorkerInv, WithJob
  <2>2. <<>> \in Seq(Jobs) /\ (wjob \in Jobs => <<wjob>> \in Seq(Jobs))
    BY EmptySeq
  <2>. QED BY <2>1, <2>2, FrameOfMapping
<1>5. Append(queue, j) = queue \o <<j>> /\ <<j>> \in Seq(Jobs)
  BY <1>1, AppendIsConcat
<1>6. InFlight \o (queue \o <<j>>) = (InFlight \o queue) \o <<j>>
  BY <1>1, <1>4, <1>5, ConcatAssociative
<1>7. InFlight \o queue \in Seq(Jobs)
  BY <1>1, <1>4, ConcatProperties
<1>8. Append(InFlight \o queue, j) = (InFlight \o queue) \o <<j>>
  BY <1>7, AppendIsConcat
<1>. QED BY <1>1, <1>3, <1>4, <1>5, <1>6, <1>8 DEF Pending

LEMMA SimulateSubmit ==
  ASSUME DatabaseInv, NEW j \in Jobs, Submit(j)
  PROVE  Store!Next
<1>1. state = "open" /\ opened = "ok" /\ ~Holds(queue, STOP) /\ wpc # "dead"
  BY DEF Submit, MaySubmit, DatabaseInv, LifecycleInv, StopInv, Queued
<1>2. Pending' = Append(Pending, j)
  BY <1>1, AppendToPending DEF Submit, callerFrame
<1>3. reply[j] = "none" /\ caller[j] = "idle"
  BY DEF Submit, DatabaseInv, AnswerInv
<1>4. ~Store!Accepted(j)
  BY <1>3, AcceptedIsWaiting
<1>5. Phase = "open" /\ Phase' = Phase
  BY <1>1 DEF Phase, Submit, callerFrame, workerVars
<1>6. Outcome' = Outcome /\ UNCHANGED <<log, seen, reply>>
  BY FrameOfMapping DEF Submit, callerFrame
<1>7. Store!Accept(j)
  BY <1>2, <1>3, <1>4, <1>5, <1>6 DEF Store!Accept
<1>. QED BY <1>7 DEF Store!Next

LEMMA CallerFrameOfMapping ==
  ASSUME callerFrame' = callerFrame, UNCHANGED queue
  PROVE  Phase' = Phase /\ Pending' = Pending /\ Outcome' = Outcome /\ UNCHANGED <<log, seen>>
<1>1. InFlight' = InFlight /\ Outcome' = Outcome /\ UNCHANGED <<wpc, log, seen>>
  BY FrameOfMapping DEF callerFrame
<1>2. Pending' = Pending
  BY <1>1 DEF Pending
<1>3. Phase' = Phase
  BY <1>1 DEF Phase, callerFrame
<1>. QED BY <1>1, <1>2, <1>3

LEMMA SimulateReject ==
  ASSUME DatabaseInv, NEW j \in Jobs, SubmitRejected(j)
  PROVE  Store!Next
<1>1. Phase' = Phase /\ Pending' = Pending /\ Outcome' = Outcome /\ UNCHANGED <<log, seen>>
  BY CallerFrameOfMapping DEF SubmitRejected
<1>2. reply[j] = "none" /\ caller[j] = "idle"
  BY DEF SubmitRejected, DatabaseInv, AnswerInv
<1>3. ~Store!Accepted(j)
  BY <1>2, AcceptedIsWaiting
<1>4. state \notin {"opening", "open"}
  BY DEF SubmitRejected, MaySubmit, DatabaseInv, LifecycleInv
<1>5. Phase \in {"draining", "stopped"}
  BY <1>4 DEF Phase
<1>6. Store!Reject(j)
  BY <1>1, <1>2, <1>3, <1>5 DEF Store!Reject, SubmitRejected
<1>. QED BY <1>6 DEF Store!Next

LEMMA SimulateAnswer ==
  ASSUME DatabaseInv, NEW j \in Jobs, caller[j] = "waiting", wrapped[j],
         NEW answer, answer \in Store!AnswersFor(future[j]),
         Return(j, answer), UNCHANGED <<queue, callerFrame>>
  PROVE  Store!Next
<1>1. Phase' = Phase /\ Pending' = Pending /\ Outcome' = Outcome /\ UNCHANGED <<log, seen>>
  BY CallerFrameOfMapping
<1>2. reply[j] = "none" /\ future[j] # "none" /\ wjob # j
  BY DEF DatabaseInv, AnswerInv, JobInv
<1>3. Outcome[j] = future[j]
  BY <1>2 DEF Outcome
<1>4. Store!Answer(j)
  BY <1>1, <1>2, <1>3 DEF Store!Answer, Return
<1>. QED BY <1>4 DEF Store!Next

LEMMA SimulateCaller ==
  ASSUME DatabaseInv, NEW j \in Jobs,
         Submit(j) \/ SubmitRejected(j) \/ CancelTask(j) \/ Deliver(j) \/ Resume(j)
  PROVE  [Store!Next]_(Store!vars)
<1>1. CASE Submit(j)
  BY <1>1, SimulateSubmit
<1>2. CASE SubmitRejected(j)
  BY <1>2, SimulateReject
<1>3. CASE UNCHANGED <<queue, reply, callerFrame>>
  <2>1. Phase' = Phase /\ Pending' = Pending /\ Outcome' = Outcome /\ UNCHANGED <<log, seen>>
    BY <1>3, CallerFrameOfMapping
  <2>. QED BY <1>3, <2>1 DEF Store!vars
<1>4. CASE ResumeCancelled(j) /\ wrapped[j]
  <2>1. AnswerOnCancel(j) \in Store!AnswersFor(future[j])
    BY DEF AnswerOnCancel, Store!AnswersFor
  <2>2. /\ caller[j] = "waiting" /\ Return(j, AnswerOnCancel(j))
        /\ UNCHANGED <<queue, callerFrame>>
    BY <1>4 DEF ResumeCancelled, ResultAtHand
  <2>. QED BY <1>4, <2>1, <2>2, SimulateAnswer
<1>5. CASE ResumeResult(j)
  <2>1. caller[j] = "waiting" /\ wrapped[j]
    BY <1>5 DEF ResumeResult
  <2>2. future[j] \in Fates
    BY <2>1 DEF DatabaseInv, DatabaseTypeOK, WorkerTypeOK, AnswerInv
  <2>3. AnswerOnResult(j) \in Store!AnswersFor(future[j])
    BY <2>2 DEF AnswerOnResult, Store!AnswersFor, Fates
  <2>4. Return(j, AnswerOnResult(j)) /\ UNCHANGED <<queue, callerFrame>>
    BY <1>5 DEF ResumeResult
  <2>. QED BY <2>1, <2>3, <2>4, SimulateAnswer
<1>. QED BY <1>1, <1>2, <1>3, <1>4, <1>5
     DEF CancelTask, Deliver, Resume, ResumeCancelled, ResultAtHand

LEMMA SimulateProc ==
  ASSUME DatabaseInv, NEW p \in Procs,
         CancelProc(p) \/ CloseCall(p) \/ ProcStep(p) \/ JoinCancelled(p)
  PROVE  [Store!Next]_(Store!vars)
<1>1. UNCHANGED <<log, seen, reply, wpc>> /\ InFlight' = InFlight /\ Outcome' = Outcome
  <2>1. UNCHANGED workerVars /\ UNCHANGED callerVars
    BY DEF CancelProc, CloseCall, ProcStep, OpenReturn, OpenFailed, CloseAwait, Join,
         JoinCancelled, procFrame
  <2>. QED BY <2>1, FrameOfMapping DEF callerVars
<1>2. \/ queue' = WithStop(queue) /\ state \in {"opening", "open"} /\ opened = "ok" /\ state' = "closing"
      \/ queue' = queue /\ state' = state
      \/ queue' = queue /\ state = "opening" /\ state' = "open" /\ opened = "ok"
      \/ queue' = queue /\ wpc = "dead"
  BY DEF DatabaseInv, LifecycleInv, CancelProc, CloseCall, ProcStep, OpenReturn, AbandonOpen,
       OpenFailed, CloseAwait, Join, JoinCancelled
<1>3. CASE queue' = WithStop(queue) /\ state \in {"opening", "open"} /\ opened = "ok" /\ state' = "closing"
  <2>1. ~Holds(queue, STOP) /\ wpc # "dead"
    BY <1>3 DEF DatabaseInv, StopInv, Queued
  <2>2. JobsIn(queue') = queue /\ JobsIn(queue) = queue
    BY <1>3, <2>1, QueueFacts, JobsInWithStop, JobsInWithoutStop DEF WithStop
  <2>3. Pending' = Pending
    BY <1>1, <2>2 DEF Pending
  <2>4. Phase \in {"opening", "open"} /\ Phase' = "draining"
    BY <1>1, <1>3, <2>1 DEF Phase
  <2>5. Store!Drain
    BY <1>1, <2>3, <2>4 DEF Store!Drain
  <2>. QED BY <2>5 DEF Store!Next
<1>4. CASE queue' = queue /\ state' = state
  <2>1. Pending' = Pending /\ Phase' = Phase
    BY <1>1, <1>4 DEF Pending, Phase
  <2>. QED BY <1>1, <2>1 DEF Store!vars
<1>5. CASE queue' = queue /\ state = "opening" /\ state' = "open" /\ opened = "ok"
  <2>1. wpc # "dead"
    BY <1>5 DEF DatabaseInv, StopInv
  <2>2. Pending' = Pending /\ Phase = "opening" /\ Phase' = "open"
    BY <1>1, <1>5, <2>1 DEF Pending, Phase
  <2>3. Store!Open
    BY <1>1, <2>2 DEF Store!Open
  <2>. QED BY <2>3 DEF Store!Next
<1>6. CASE queue' = queue /\ wpc = "dead"
  <2>1. Pending' = Pending /\ Phase' = Phase
    BY <1>1, <1>6 DEF Pending, Phase
  <2>. QED BY <1>1, <2>1 DEF Store!vars
<1>. QED BY <1>2, <1>3, <1>4, <1>5, <1>6

LEMMA SimulateCrash ==
  ASSUME DatabaseInv, Crash
  PROVE  Store!Next
<1>1. Phase' = "opening" /\ UNCHANGED <<log, seen>>
  BY DEF Crash, Phase
<1>2. InFlight' = <<>> /\ JobsIn(queue') = <<>>
  BY DEF Crash, InFlight, JobsIn
<1>3. Pending' = <<>>
  BY <1>2 DEF Pending
<1>4. \A j \in Jobs : caller[j] = "waiting" <=> reply[j] = "none" /\ Store!Accepted(j)
  <2>. SUFFICES ASSUME NEW j \in Jobs
                PROVE  caller[j] = "waiting" <=> reply[j] = "none" /\ Store!Accepted(j)
    OBVIOUS
  <2>1. caller[j] = "waiting" => reply[j] = "none"
    BY DEF DatabaseInv, AnswerInv
  <2>. QED BY <2>1, AcceptedIsWaiting
<1>5. reply' = [j \in Jobs |-> IF reply[j] = "none" /\ Store!Accepted(j)
                              THEN "lost" ELSE reply[j]]
  BY <1>4 DEF Crash
<1>6. Outcome' = [j \in Jobs |-> IF reply[j] = "none" THEN "none" ELSE Outcome[j]]
  <2>1. Outcome' = [j \in Jobs |-> IF caller[j] = "waiting" THEN "none" ELSE future[j]]
    BY DEF Crash, Outcome
  <2>2. ASSUME NEW j \in Jobs
        PROVE  (IF caller[j] = "waiting" THEN "none" ELSE future[j])
                 = (IF reply[j] = "none" THEN "none" ELSE Outcome[j])
    <3>1. reply[j] = "none" <=> caller[j] # "done"
      BY DEF DatabaseInv, AnswerInv
    <3>2. CASE caller[j] = "waiting"
      BY <3>1, <3>2
    <3>3. CASE caller[j] = "idle"
      BY <3>1, <3>3 DEF DatabaseInv, AnswerInv
    <3>4. CASE caller[j] = "done"
      <4>1. wjob # j
        BY <3>4 DEF DatabaseInv, JobInv
      <4>. QED BY <3>1, <3>4, <4>1 DEF Outcome
    <3>. QED BY <3>2, <3>3, <3>4 DEF DatabaseInv, DatabaseTypeOK, CallerTypeOK
  <2>. QED BY <2>1, <2>2
<1>7. Store!Crash
  BY <1>1, <1>3, <1>5, <1>6 DEF Store!Crash
<1>. QED BY <1>7 DEF Store!Next

(* Every step of the program is a step of a serial FIFO store or invisible *)
(* to its callers: jobs take effect one at a time in the order of their    *)
(* acceptance, reads see exactly the committed jobs, answers match fates.  *)
THEOREM StoreIsSerial == Spec => ImplementsSerialStore
<1>1. DatabaseInv /\ [Next]_vars => [Store!Next]_(Store!vars)
  <2>. SUFFICES ASSUME DatabaseInv, [Next]_vars
                PROVE  [Store!Next]_(Store!vars)
    OBVIOUS
  <2>1. CASE Crash
    BY <2>1, SimulateCrash
  <2>2. CASE UNCHANGED vars
    <3>1. Phase' = Phase /\ Pending' = Pending /\ Outcome' = Outcome
      BY <2>2 DEF vars, workerVars, Phase, Pending, InFlight, Outcome
    <3>. QED BY <2>2, <3>1 DEF Store!vars, vars, workerVars, callerVars
  <2>. QED BY <2>1, <2>2, SimulateWorker, SimulateCaller, SimulateProc DEF Next
<1>. QED BY <1>1, SimulateInit, DatabaseInvariant, PTL DEF Spec, ImplementsSerialStore, Store!Spec

=============================================================================
