------------------------------ MODULE Migration ------------------------------
(***************************************************************************)
(* Bringing the schema of a database file up to date: _migrate and         *)
(* _apply_migration of store/db.py, run by every process that opens the    *)
(* file.  The processes may be of different releases, may overlap, fail    *)
(* and die anywhere.  The objects and the applied versions are read        *)
(* outside the transaction that applies the next migration.                *)
(*                                                                         *)
(* A migration is Statements statements; the content of the file is how    *)
(* often each took effect.  An operator whose name ends in Mut is a        *)
(* deliberately wrong form of the operator after it, used by no            *)
(* specification.                                                          *)
(***************************************************************************)
EXTENDS Naturals

CONSTANTS
  Processes,   (* each one connection to the file                           *)
  SupportedBy, (* SUPPORTED_SCHEMA_VERSION of the release a process runs    *)
  MaxVersion,  (* the newest of these                                       *)
  Statements,  (* statements of one migration                               *)
  NoHolder,    (* nobody holds SQLite's write lock                          *)
  MaxFaults    (* bound: failures that are not the outcome of a race        *)

Versions == 1..MaxVersion

ASSUME MigrationAssumption ==
  /\ MaxVersion \in Nat \ {0}
  /\ SupportedBy \in [Processes -> Versions]
  /\ Statements \in Nat \ {0}
  /\ NoHolder \notin Processes
  /\ MaxFaults \in Nat

VARIABLES
  times,    (* how often each statement took effect in the committed file   *)
  registry, (* schema_migration, committed                                  *)
  foreign,  (* the file held something else before it was first opened      *)
  holder,   (* who is inside BEGIN IMMEDIATE .. COMMIT                       *)
  done,     (* how many statements the open transaction has executed        *)
  pc,       (* where each process is in _migrate                            *)
  current,  (* _migrate's local current                                     *)
  refusal,  (* the error its last opening ended with                        *)
  faults    (* failures so far                                              *)

file == <<times, registry, foreign>>
txn  == <<holder, done>>
migrationVars == <<file, txn, pc, current, refusal, faults>>

Running == {"objects", "versions", "loop", "apply"}
Refusals == {"none", "adoption", "newer", "gap", "migration"}

Highest(vs) == CHOOSE v \in vs : \A w \in vs : w <= v
Continuous(vs) == \E n \in 0..MaxVersion : vs = 1..n

(* A new file, a file of another program, or one whose registry has a gap. *)
Init ==
  /\ times = [v \in Versions |-> [s \in 1..Statements |-> 0]]
  /\ \/ foreign = FALSE /\ registry = {}
     \/ foreign = TRUE /\ registry \in {{}, Versions \ {1}}
  /\ holder = NoHolder /\ done = 0
  /\ pc = [p \in Processes |-> "closed"]
  /\ current = [p \in Processes |-> 0]
  /\ refusal = [p \in Processes |-> "none"]
  /\ faults = 0

Goto(p, l) == pc' = [pc EXCEPT ![p] = l]

Refuse(p, why) ==
  /\ Goto(p, "closed")
  /\ refusal' = [refusal EXCEPT ![p] = why]

(* sqlite3.connect and _configure_connection.                              *)
Start(p) ==
  /\ pc[p] = "closed"
  /\ Goto(p, "objects")
  /\ refusal' = [refusal EXCEPT ![p] = "none"]
  /\ UNCHANGED <<file, txn, current, faults>>

-----------------------------------------------------------------------------
(* _user_objects: the first look at the file.                              *)
HasObjects == foreign \/ \E v \in Versions, s \in 1..Statements : times[v][s] > 0
HasRegistry == registry # {}

RefusesAdoption == HasObjects /\ ~HasRegistry

ReadObjects(p) ==
  /\ pc[p] = "objects"
  /\ \/ RefusesAdoption /\ Refuse(p, "adoption") /\ UNCHANGED current
     \/ /\ ~RefusesAdoption /\ HasRegistry
        /\ Goto(p, "versions") /\ UNCHANGED <<current, refusal>>
     \/ /\ ~RefusesAdoption /\ ~HasRegistry
        /\ Goto(p, "loop")
        /\ current' = [current EXCEPT ![p] = 0]
        /\ UNCHANGED refusal
  /\ UNCHANGED <<file, txn, faults>>

(* The second look, and the checks on what it saw.                         *)
Newer(p) == Highest(registry) > SupportedBy[p]

ReadVersions(p) ==
  /\ pc[p] = "versions"
  /\ \/ Newer(p) /\ Refuse(p, "newer") /\ UNCHANGED current
     \/ /\ ~Newer(p) /\ ~Continuous(registry)
        /\ Refuse(p, "gap") /\ UNCHANGED current
     \/ /\ ~Newer(p) /\ Continuous(registry)
        /\ Goto(p, "loop")
        /\ current' = [current EXCEPT ![p] = Highest(registry)]
        /\ UNCHANGED refusal
  /\ UNCHANGED <<file, txn, faults>>

-----------------------------------------------------------------------------
(* The loop over the migrations of the release.                            *)
HasNext(p) == current[p] < SupportedBy[p]

Opened(p) ==
  /\ pc[p] = "loop" /\ ~HasNext(p)
  /\ Goto(p, "open")
  /\ UNCHANGED <<file, txn, current, refusal, faults>>

(* _apply_migration of version current + 1.  BEGIN IMMEDIATE waits for the *)
(* write lock.                                                             *)
Begin(p) ==
  /\ pc[p] = "loop" /\ HasNext(p)
  /\ holder = NoHolder
  /\ holder' = p /\ done' = 0
  /\ Goto(p, "apply")
  /\ UNCHANGED <<file, current, refusal, faults>>

(* The first migration only creates and seeds, which fails on a schema     *)
(* that is there; what a later one does to such a schema is left open.     *)
Conflicts(v) == v = 1 /\ \E s \in 1..Statements : times[v][s] > 0

ExecuteStatement(p) ==
  /\ pc[p] = "apply" /\ done < Statements
  /\ ~Conflicts(current[p] + 1)
  /\ done' = done + 1
  /\ UNCHANGED <<file, holder, pc, current, refusal, faults>>

(* schema_migration.version is the primary key.                            *)
FreshVersionMut(v) == TRUE
FreshVersion(v) == v \notin registry

(* foreign_key_check found nothing; the registry row and COMMIT.           *)
RegisterAndCommit(p) ==
  LET v == current[p] + 1
  IN  /\ pc[p] = "apply" /\ done = Statements
      /\ FreshVersion(v)
      /\ times' = [times EXCEPT ![v] = [s \in 1..Statements |-> @[s] + 1]]
      /\ registry' = registry \cup {v}
      /\ holder' = NoHolder /\ done' = 0
      /\ current' = [current EXCEPT ![p] = v]
      /\ Goto(p, "loop")
      /\ UNCHANGED <<foreign, refusal, faults>>

(* ROLLBACK, or SQLite's recovery when the process is gone: what the       *)
(* transaction executed is not in the file.                                *)
AbandonedMut == [v \in Versions |-> [s \in 1..Statements |->
  times[v][s] + IF v = current[holder] + 1 /\ s <= done THEN 1 ELSE 0]]
Abandoned == times

LockAfterMut == holder
LockAfter == NoHolder

Abandon(p) ==
  \/ /\ holder = p
     /\ times' = Abandoned
     /\ holder' = LockAfter /\ done' = 0
     /\ UNCHANGED <<registry, foreign>>
  \/ holder # p /\ UNCHANGED <<file, txn>>

(* Somebody else applied this migration since the versions were read.      *)
LostRace(p) ==
  /\ pc[p] = "apply"
  /\ \/ done < Statements /\ Conflicts(current[p] + 1)
     \/ done = Statements /\ ~FreshVersion(current[p] + 1)
  /\ Abandon(p)
  /\ Refuse(p, "migration")
  /\ UNCHANGED <<current, faults>>

(* A pragma, a read, a statement, foreign_key_check, COMMIT or the wait    *)
(* for the lock fails.                                                     *)
Fault(p) ==
  /\ pc[p] \in Running /\ faults < MaxFaults
  /\ faults' = faults + 1
  /\ Abandon(p)
  /\ Refuse(p, "migration")
  /\ UNCHANGED current

Crash(p) ==
  /\ pc[p] \in Running /\ faults < MaxFaults
  /\ faults' = faults + 1
  /\ Abandon(p)
  /\ Goto(p, "closed")
  /\ UNCHANGED <<current, refusal>>

Close(p) ==
  /\ pc[p] = "open"
  /\ Goto(p, "closed")
  /\ UNCHANGED <<file, txn, current, refusal, faults>>

Advance(p) ==
  \/ ReadObjects(p) \/ ReadVersions(p) \/ Opened(p) \/ Begin(p)
  \/ ExecuteStatement(p) \/ RegisterAndCommit(p) \/ LostRace(p)

Next == \E p \in Processes : Start(p) \/ Advance(p) \/ Fault(p) \/ Crash(p) \/ Close(p)

MigrationSpec == Init /\ [][Next]_migrationVars

(* An opening once begun is taken to its end: _migrate runs on the worker  *)
(* thread without waiting for anything but the write lock.                 *)
FairMigrationSpec == MigrationSpec /\ \A p \in Processes : WF_migrationVars(Advance(p))

-----------------------------------------------------------------------------
MigrationTypeOK ==
  /\ times \in [Versions -> [1..Statements -> Nat]]
  /\ registry \subseteq Versions
  /\ foreign \in BOOLEAN
  /\ holder \in Processes \cup {NoHolder}
  /\ done \in 0..Statements
  /\ pc \in [Processes -> Running \cup {"closed", "open"}]
  /\ current \in [Processes -> 0..MaxVersion]
  /\ refusal \in [Processes -> Refusals]
  /\ faults \in 0..MaxFaults
  /\ \A p \in Processes : holder = p <=> pc[p] = "apply"

(* Whole and once: the file holds exactly the statements of the versions   *)
(* its registry lists, each once, and these are 1..n without a gap, however*)
(* many processes apply them and wherever they fail (_apply_migration).    *)
WholeAndOnce ==
  ~foreign =>
    /\ \A v \in Versions, s \in 1..Statements :
         times[v][s] = IF v \in registry THEN 1 ELSE 0
    /\ \E n \in 0..MaxVersion : registry = 1..n

(* A process that opened the file works on a schema with every migration   *)
(* of its release, whoever applied them (_migrate).                        *)
OpenedIsUpToDate ==
  \A p \in Processes : pc[p] = "open" => 1..SupportedBy[p] \subseteq registry

(* No race and no death strands a file: one that only this program wrote   *)
(* is never refused as foreign or as having a gap, and is refused as newer *)
(* only by an older release (the checks of _migrate).                      *)
NeverStranded ==
  ~foreign => \A p \in Processes :
    /\ refusal[p] \notin {"adoption", "gap"}
    /\ refusal[p] = "newer" => ~(registry \subseteq 1..SupportedBy[p])

(* Every opening ends: nobody waits for the write lock for ever, whatever  *)
(* the others do (BEGIN IMMEDIATE and the ROLLBACK of _apply_migration).   *)
OpeningEnds == \A p \in Processes : pc[p] \in Running ~> pc[p] \in {"open", "closed"}

=============================================================================
