---------------------------- MODULE SerialStore ----------------------------
(***************************************************************************)
(* What the store promises its callers, with no thread, queue object or    *)
(* event loop in sight: jobs are accepted in some order, take effect one   *)
(* at a time in that same order, and an answer is given to a caller only   *)
(* for a job whose fate is already sealed.  Module Database is the program *)
(* that has to keep this promise.                                          *)
(***************************************************************************)
EXTENDS Sequences, Functions

CONSTANTS
  Jobs,    (* the calls of Database.read and Database.transaction           *)
  Reads    (* those of them made through Database.read                      *)

VARIABLES
  phase,    (* "opening", "open", "draining" or "stopped"                   *)
  pending,  (* accepted jobs whose fate is open, oldest first               *)
  log,      (* the committed write jobs, in commit order: the database      *)
  seen,     (* what a read job saw of the log                               *)
  outcome,  (* the sealed fate of a job                                     *)
  reply     (* what the caller of a job has been told                       *)

vars == <<phase, pending, log, seen, outcome, reply>>

Init ==
  /\ phase = "opening"
  /\ pending = <<>>
  /\ log = <<>>
  /\ seen = [j \in Jobs |-> <<>>]
  /\ outcome = [j \in Jobs |-> "none"]
  /\ reply = [j \in Jobs |-> "none"]

Accepted(j) == j \in Range(pending) \/ outcome[j] # "none"

Open ==
  /\ phase = "opening"
  /\ phase' = "open"
  /\ UNCHANGED <<pending, log, seen, outcome, reply>>

Accept(j) ==
  /\ phase = "open"
  /\ reply[j] = "none" /\ ~Accepted(j)
  /\ pending' = Append(pending, j)
  /\ UNCHANGED <<phase, log, seen, outcome, reply>>

Reject(j) ==
  /\ phase \in {"draining", "stopped"}
  /\ reply[j] = "none" /\ ~Accepted(j)
  /\ reply' = [reply EXCEPT ![j] = "rejected"]
  /\ UNCHANGED <<phase, pending, log, seen, outcome>>

(* The oldest job takes effect in one step: a write extends the log, a     *)
(* read sees exactly the log.                                              *)
Apply ==
  /\ pending # <<>>
  /\ LET j == Head(pending) IN
     /\ outcome' = [outcome EXCEPT ![j] = "ok"]
     /\ IF j \in Reads
        THEN seen' = [seen EXCEPT ![j] = log] /\ UNCHANGED log
        ELSE log' = Append(log, j) /\ UNCHANGED seen
  /\ pending' = Tail(pending)
  /\ UNCHANGED <<phase, reply>>

(* Or it is given up without a trace in the log: it failed, or it was      *)
(* cancelled before it started.                                            *)
Abort(fate) ==
  /\ pending # <<>>
  /\ outcome' = [outcome EXCEPT ![Head(pending)] = fate]
  /\ pending' = Tail(pending)
  /\ UNCHANGED <<phase, log, seen, reply>>

(* A failure is always reported as that failure; a success may be hidden   *)
(* behind the cancellation of the caller.                                  *)
AnswersFor(fate) ==
  IF fate = "ok" THEN {"ok", "cancelled"}
  ELSE IF fate = "error" THEN {"error"}
  ELSE {"cancelled"}

Answer(j) ==
  /\ reply[j] = "none" /\ outcome[j] # "none"
  /\ \E answer \in AnswersFor(outcome[j]) : reply' = [reply EXCEPT ![j] = answer]
  /\ UNCHANGED <<phase, pending, log, seen, outcome>>

Drain ==
  /\ phase \in {"opening", "open"}
  /\ phase' = "draining"
  /\ UNCHANGED <<pending, log, seen, outcome, reply>>

Stop ==
  /\ phase \in {"opening", "draining"}
  /\ pending = <<>>
  /\ phase' = "stopped"
  /\ UNCHANGED <<pending, log, seen, outcome, reply>>

(* The process dies and a new one opens the same file: the log survives,   *)
(* nobody is told anything any more.                                       *)
Crash ==
  /\ phase' = "opening"
  /\ pending' = <<>>
  /\ reply' = [j \in Jobs |-> IF reply[j] = "none" /\ Accepted(j)
                              THEN "lost" ELSE reply[j]]
  /\ outcome' = [j \in Jobs |-> IF reply[j] = "none" THEN "none" ELSE outcome[j]]
  /\ UNCHANGED <<log, seen>>

Next ==
  \/ Open
  \/ \E j \in Jobs : Accept(j) \/ Reject(j) \/ Answer(j)
  \/ Apply
  \/ \E fate \in {"error", "skipped"} : Abort(fate)
  \/ Drain
  \/ Stop
  \/ Crash

Spec == Init /\ [][Next]_vars
=============================================================================
