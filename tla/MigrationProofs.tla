--------------------------- MODULE MigrationProofs ---------------------------
(***************************************************************************)
(* Theorems of Migration, for any number of processes of any releases, any *)
(* number of versions and statements, and any number of failures.          *)
(***************************************************************************)
EXTENDS Migration, TLAPS

USE MigrationAssumption DEF MigrationAssumption

(* What a process believes was applied is applied: the registry only       *)
(* grows, so what it read stays true however old it is by now.             *)
KnownApplied ==
  \A p \in Processes :
    /\ pc[p] = "versions" => registry # {}
    /\ pc[p] = "apply" => current[p] < SupportedBy[p]
    /\ pc[p] \in {"loop", "apply", "open"} => 1..current[p] \subseteq registry
    /\ pc[p] = "open" => SupportedBy[p] <= current[p]

MigrationInv ==
  MigrationTypeOK /\ WholeAndOnce /\ KnownApplied /\ NeverStranded

LEMMA HighestOfInterval ==
  ASSUME NEW n \in Nat \ {0}
  PROVE  Highest(1..n) = n
BY DEF Highest

LEMMA ContinuousIsInterval ==
  ASSUME NEW vs, vs # {}, Continuous(vs)
  PROVE  /\ Highest(vs) \in 1..MaxVersion
         /\ vs = 1..Highest(vs)
<1>1. PICK n \in 0..MaxVersion : vs = 1..n
  BY DEF Continuous
<1>2. n \in Nat \ {0}
  BY <1>1
<1> QED
  BY <1>1, <1>2, HighestOfInterval

-----------------------------------------------------------------------------
LEMMA MigrationTypeInit == Init => MigrationTypeOK
<1> SUFFICES ASSUME Init
             PROVE  MigrationTypeOK
  OBVIOUS
<1> USE DEF Init, Versions, Refusals, Running
<1>1. registry \subseteq Versions /\ foreign \in BOOLEAN
  OBVIOUS
<1>2. times \in [Versions -> [1..Statements -> Nat]]
  OBVIOUS
<1>3. done \in 0..Statements /\ faults \in 0..MaxFaults
  OBVIOUS
<1>4. /\ pc \in [Processes -> Running \cup {"closed", "open"}]
      /\ current \in [Processes -> 0..MaxVersion]
      /\ refusal \in [Processes -> Refusals]
  OBVIOUS
<1>5. \A p \in Processes : holder = p <=> pc[p] = "apply"
  OBVIOUS
<1> QED
  BY <1>1, <1>2, <1>3, <1>4, <1>5 DEF MigrationTypeOK

(* Who gives up leaves the lock, if it had it, and the file as they were.  *)
LEMMA AbandonKeepsFile ==
  ASSUME MigrationTypeOK, NEW p \in Processes, Abandon(p), Goto(p, "closed")
  PROVE  /\ UNCHANGED file
         /\ done' \in 0..Statements
         /\ holder' \in Processes \cup {NoHolder}
         /\ \A q \in Processes : holder' = q <=> pc'[q] = "apply"
<1> USE DEF MigrationTypeOK, Goto, Abandon, Abandoned, LockAfter, file, txn, Running
<1>1. CASE holder = p
  BY <1>1
<1>2. CASE holder # p
  BY <1>2
<1> QED
  BY <1>1, <1>2

LEMMA MigrationTypeStep ==
  MigrationTypeOK /\ KnownApplied /\ [Next]_migrationVars => MigrationTypeOK'
<1> SUFFICES ASSUME MigrationTypeOK, KnownApplied, [Next]_migrationVars
             PROVE  MigrationTypeOK'
  OBVIOUS
<1> USE DEF MigrationTypeOK, Versions, Refusals, Running, Goto, Refuse, file, txn
<1>1. ASSUME NEW p \in Processes, Start(p)
      PROVE  MigrationTypeOK'
  BY <1>1 DEF Start
<1>2. ASSUME NEW p \in Processes, ReadObjects(p)
      PROVE  MigrationTypeOK'
  <2>1. CASE RefusesAdoption
    BY <1>2, <2>1 DEF ReadObjects
  <2>2. CASE ~RefusesAdoption /\ HasRegistry
    BY <1>2, <2>2 DEF ReadObjects
  <2>3. CASE ~RefusesAdoption /\ ~HasRegistry
    <3>1. current' = [current EXCEPT ![p] = 0] /\ 0 \in 0..MaxVersion
      BY <1>2, <2>3 DEF ReadObjects
    <3> QED
      BY <1>2, <2>3, <3>1 DEF ReadObjects
  <2> QED
    BY <2>1, <2>2, <2>3
<1>3. ASSUME NEW p \in Processes, ReadVersions(p)
      PROVE  MigrationTypeOK'
  <2>1. Continuous(registry) => Highest(registry) \in 0..MaxVersion
    BY <1>3, ContinuousIsInterval DEF KnownApplied, ReadVersions
  <2>2. /\ pc' \in [Processes -> Running \cup {"closed", "open"}]
        /\ refusal' \in [Processes -> Refusals]
        /\ \A q \in Processes : holder' = q <=> pc'[q] = "apply"
    BY <1>3 DEF ReadVersions
  <2>3. current' \in [Processes -> 0..MaxVersion]
    BY <1>3, <2>1 DEF ReadVersions
  <2> QED
    BY <1>3, <2>2, <2>3 DEF ReadVersions
<1>4. ASSUME NEW p \in Processes, Opened(p)
      PROVE  MigrationTypeOK'
  BY <1>4 DEF Opened
<1>5. ASSUME NEW p \in Processes, Begin(p)
      PROVE  MigrationTypeOK'
  BY <1>5 DEF Begin
<1>6. ASSUME NEW p \in Processes, ExecuteStatement(p)
      PROVE  MigrationTypeOK'
  <2>1. done' \in 0..Statements
    <3>1. done \in 0..Statements /\ done < Statements /\ done' = done + 1
      BY <1>6 DEF ExecuteStatement
    <3> QED
      BY <3>1
  <2> QED
    BY <1>6, <2>1 DEF ExecuteStatement
<1>7. ASSUME NEW p \in Processes, RegisterAndCommit(p)
      PROVE  MigrationTypeOK'
  <2>1. current[p] + 1 \in Versions
    BY <1>7 DEF KnownApplied, RegisterAndCommit
  <2>2. holder = p
    BY <1>7 DEF RegisterAndCommit
  <2> DEFINE v == current[p] + 1
             once == [s \in 1..Statements |-> times[v][s] + 1]
  <2>3. times' \in [Versions -> [1..Statements -> Nat]]
    <3>3. times[v] \in [1..Statements -> Nat]
      BY <2>1
    <3>4. ASSUME NEW s \in 1..Statements
          PROVE  times[v][s] + 1 \in Nat
      <4>1. times[v][s] \in Nat
        BY <3>3, Zenon
      <4> QED
        BY ONLY <4>1
    <3>1. once \in [1..Statements -> Nat]
      BY <3>4, Zenon
    <3>2. times' = [times EXCEPT ![v] = once]
      BY <1>7 DEF RegisterAndCommit
    <3> QED
      BY <2>1, <3>1, <3>2
  <2>4. registry' \subseteq Versions /\ current' \in [Processes -> 0..MaxVersion]
    <3>1. registry' = registry \cup {v} /\ current' = [current EXCEPT ![p] = v]
      BY <1>7 DEF RegisterAndCommit
    <3>2. v \in 0..MaxVersion
      BY <2>1
    <3> QED
      BY <2>1, <3>1, <3>2
  <2>5. \A q \in Processes : holder' = q <=> pc'[q] = "apply"
    BY <1>7, <2>2 DEF RegisterAndCommit
  <2> QED
    BY <1>7, <2>3, <2>4, <2>5 DEF RegisterAndCommit
<1>8. ASSUME NEW p \in Processes, LostRace(p)
      PROVE  MigrationTypeOK'
  <2>1. Abandon(p) /\ Goto(p, "closed")
    BY <1>8 DEF LostRace
  <2> QED
    BY <1>8, <2>1, AbandonKeepsFile DEF LostRace
<1>9. ASSUME NEW p \in Processes, Fault(p) \/ Crash(p)
      PROVE  MigrationTypeOK'
  <2>1. Abandon(p) /\ Goto(p, "closed")
    BY <1>9 DEF Fault, Crash
  <2>2. faults' = faults + 1 /\ faults < MaxFaults
    BY <1>9 DEF Fault, Crash
  <2>4. refusal' \in [Processes -> Refusals]
    BY <1>9 DEF Fault, Crash
  <2>3. UNCHANGED current
    BY <1>9 DEF Fault, Crash
  <2>5. faults' \in 0..MaxFaults
    BY <2>2
  <2>6. pc' \in [Processes -> Running \cup {"closed", "open"}]
    BY <2>1
  <2> QED
    BY <2>1, <2>3, <2>4, <2>5, <2>6, AbandonKeepsFile
<1>10. ASSUME NEW p \in Processes, Close(p)
       PROVE  MigrationTypeOK'
  BY <1>10 DEF Close
<1>11. CASE UNCHANGED migrationVars
  BY <1>11 DEF migrationVars
<1> QED
  BY <1>1, <1>2, <1>3, <1>4, <1>5, <1>6, <1>7, <1>8, <1>9, <1>10, <1>11 DEF Next, Advance

-----------------------------------------------------------------------------
LEMMA MigrationInitInv == Init => WholeAndOnce /\ KnownApplied /\ NeverStranded
<1> SUFFICES ASSUME Init
             PROVE  WholeAndOnce /\ KnownApplied /\ NeverStranded
  OBVIOUS
<1>1. WholeAndOnce
  <2>1. ~foreign => registry = {}
    BY DEF Init
  <2>2. {} = 1..0 /\ 0 \in 0..MaxVersion
    OBVIOUS
  <2>3. \A v \in Versions, s \in 1..Statements : times[v][s] = 0
    BY DEF Init
  <2> QED
    BY <2>1, <2>2, <2>3, Zenon DEF WholeAndOnce
<1>2. KnownApplied /\ NeverStranded
  BY DEF Init, KnownApplied, NeverStranded
<1> QED
  BY <1>1, <1>2

(* Only a commit writes to the file.                                       *)
LEMMA OnlyCommitWrites ==
  ASSUME MigrationTypeOK, [Next]_migrationVars,
         \A p \in Processes : ~RegisterAndCommit(p)
  PROVE  UNCHANGED file
<1>1. ASSUME NEW p \in Processes, LostRace(p) \/ Fault(p) \/ Crash(p)
      PROVE  UNCHANGED file
  <2>1. Abandon(p) /\ Goto(p, "closed")
    BY <1>1 DEF LostRace, Fault, Crash, Refuse
  <2> QED
    BY <2>1, AbandonKeepsFile
<1> QED
  BY <1>1 DEF Next, Advance, Start, ReadObjects, ReadVersions, Opened, Begin,
     ExecuteStatement, Close, migrationVars

(* A commit appends the next version: the primary key refuses one that is  *)
(* there, and every version below it is there already.                     *)
LEMMA CommitKeepsWhole ==
  ASSUME MigrationTypeOK, WholeAndOnce, KnownApplied,
         NEW p \in Processes, RegisterAndCommit(p)
  PROVE  WholeAndOnce' /\ registry \subseteq registry'
<1> DEFINE v == current[p] + 1
<1>1. /\ v \in Versions /\ v \notin registry /\ 1..(v - 1) \subseteq registry
      /\ registry' = registry \cup {v} /\ UNCHANGED foreign
  BY DEF MigrationTypeOK, KnownApplied, RegisterAndCommit, FreshVersion, Versions
<1>2. times' = [times EXCEPT ![v] = [s \in 1..Statements |-> times[v][s] + 1]]
  BY DEF RegisterAndCommit
<1>3. ASSUME ~foreign
      PROVE  /\ \A w \in Versions, s \in 1..Statements :
                  times'[w][s] = IF w \in registry' THEN 1 ELSE 0
             /\ \E n \in 0..MaxVersion : registry' = 1..n
  <2>1. PICK n \in 0..MaxVersion : registry = 1..n
    BY <1>3 DEF WholeAndOnce
  <2>4. v \in Nat /\ v >= 1 /\ v > n
    BY <1>1, <2>1 DEF Versions
  <2>5. v - 1 <= n
    <3>1. CASE v = 1
      BY <2>1, <3>1
    <3>2. CASE v > 1
      <4>1. v - 1 \in 1..(v - 1)
        BY <2>4, <3>2
      <4> QED
        BY <1>1, <2>1, <4>1
    <3> QED
      BY <2>4, <3>1, <3>2
  <2>6. v = n + 1
    BY <2>1, <2>4, <2>5
  <2>2. registry' = 1..v
    BY <1>1, <2>1, <2>6
  <2>3. ASSUME NEW w \in Versions, NEW s \in 1..Statements
        PROVE  times'[w][s] = IF w \in registry' THEN 1 ELSE 0
    <3>1. times[w][s] = IF w \in registry THEN 1 ELSE 0
      BY <1>3 DEF WholeAndOnce
    <3>2. CASE w = v
      BY <1>1, <1>2, <3>1, <3>2 DEF MigrationTypeOK
    <3>3. CASE w # v
      BY <1>1, <1>2, <3>1, <3>3 DEF MigrationTypeOK
    <3> QED
      BY <3>2, <3>3
  <2> QED
    BY <1>1, <2>2, <2>3 DEF Versions
<1> QED
  BY <1>1, <1>3 DEF WholeAndOnce

LEMMA MigrationGrows ==
  ASSUME MigrationTypeOK, WholeAndOnce, KnownApplied, [Next]_migrationVars
  PROVE  /\ WholeAndOnce' /\ registry \subseteq registry' /\ UNCHANGED foreign
<1>1. ASSUME NEW p \in Processes, RegisterAndCommit(p)
      PROVE  WholeAndOnce' /\ registry \subseteq registry' /\ UNCHANGED foreign
  BY <1>1, CommitKeepsWhole DEF RegisterAndCommit
<1>2. CASE \A p \in Processes : ~RegisterAndCommit(p)
  BY <1>2, OnlyCommitWrites DEF file, WholeAndOnce
<1> QED
  BY <1>1, <1>2

-----------------------------------------------------------------------------
LEMMA KnownAppliedStep ==
  ASSUME MigrationTypeOK, WholeAndOnce, KnownApplied, [Next]_migrationVars
  PROVE  KnownApplied'
<1>1. registry \subseteq registry'
  BY MigrationGrows
<1> USE <1>1 DEF MigrationTypeOK, KnownApplied, Goto, Refuse, Running, file
<1>2. ASSUME NEW p \in Processes, Start(p)
      PROVE  KnownApplied'
  BY <1>2 DEF Start
<1>3. ASSUME NEW p \in Processes, ReadObjects(p)
      PROVE  KnownApplied'
  <2>1. 1..0 = {}
    OBVIOUS
  <2>2. CASE ~RefusesAdoption /\ ~HasRegistry
    <3>1. Goto(p, "loop") /\ current' = [current EXCEPT ![p] = 0]
      BY <1>3, <2>2 DEF ReadObjects
    <3> QED
      BY <2>1, <3>1
  <2>3. CASE RefusesAdoption
    BY <1>3, <2>3 DEF ReadObjects
  <2>4. CASE ~RefusesAdoption /\ HasRegistry
    BY <1>3, <2>4 DEF ReadObjects, HasRegistry
  <2> QED
    BY <2>2, <2>3, <2>4
<1>4. ASSUME NEW p \in Processes, ReadVersions(p)
      PROVE  KnownApplied'
  <2>1. Continuous(registry) => 1..Highest(registry) \subseteq registry
    BY <1>4, ContinuousIsInterval DEF ReadVersions
  <2> QED
    BY <1>4, <2>1 DEF ReadVersions
<1>5. ASSUME NEW p \in Processes, Opened(p)
      PROVE  KnownApplied'
  BY <1>5 DEF Opened, HasNext, Versions
<1>6. ASSUME NEW p \in Processes, Begin(p)
      PROVE  KnownApplied'
  BY <1>6 DEF Begin, HasNext
<1>7. ASSUME NEW p \in Processes, ExecuteStatement(p)
      PROVE  KnownApplied'
  BY <1>7 DEF ExecuteStatement
<1>8. ASSUME NEW p \in Processes, RegisterAndCommit(p)
      PROVE  KnownApplied'
  BY <1>8 DEF RegisterAndCommit, Versions
<1>9. ASSUME NEW p \in Processes, LostRace(p) \/ Fault(p) \/ Crash(p)
      PROVE  KnownApplied'
  <2>1. Goto(p, "closed") /\ UNCHANGED current
    BY <1>9 DEF LostRace, Fault, Crash
  <2> QED
    BY <2>1
<1>10. ASSUME NEW p \in Processes, Close(p)
       PROVE  KnownApplied'
  BY <1>10 DEF Close
<1>11. CASE UNCHANGED migrationVars
  BY <1>11 DEF migrationVars
<1> QED
  BY <1>2, <1>3, <1>4, <1>5, <1>6, <1>7, <1>8, <1>9, <1>10, <1>11 DEF Next, Advance

(* What a process reads is whole already, so it is refused for no gap and  *)
(* for no missing registry; and a file that was too new stays too new.     *)
LEMMA NeverStrandedStep ==
  ASSUME MigrationTypeOK, WholeAndOnce, KnownApplied, NeverStranded,
         [Next]_migrationVars
  PROVE  NeverStranded'
<1>1. registry \subseteq registry' /\ UNCHANGED foreign
  BY MigrationGrows
<1> SUFFICES ASSUME ~foreign
             PROVE  NeverStranded'
  BY <1>1 DEF NeverStranded
<1>2. Continuous(registry)
  BY DEF WholeAndOnce, Continuous
<1>3. ~RefusesAdoption
  <2>1. \A v \in Versions, s \in 1..Statements : times[v][s] > 0 => v \in registry
    BY DEF WholeAndOnce
  <2> QED
    BY <2>1 DEF RefusesAdoption, HasObjects, HasRegistry
<1>4. \A p \in Processes : registry # {} /\ Newer(p) => ~(registry \subseteq 1..SupportedBy[p])
  BY <1>2, ContinuousIsInterval DEF Newer, Versions
<1> USE DEF MigrationTypeOK, NeverStranded, Goto, Refuse, Running, Refusals
<1>5. ASSUME NEW p \in Processes, Start(p)
      PROVE  NeverStranded'
  BY <1>1, <1>5 DEF Start
<1>6. ASSUME NEW p \in Processes, ReadObjects(p)
      PROVE  NeverStranded'
  BY <1>1, <1>3, <1>6 DEF ReadObjects
<1>7. ASSUME NEW p \in Processes, ReadVersions(p)
      PROVE  NeverStranded'
  <2>1. registry # {}
    BY <1>7 DEF ReadVersions, KnownApplied
  <2> QED
    BY <1>1, <1>2, <1>4, <1>7, <2>1 DEF ReadVersions, file
<1>8. ASSUME NEW p \in Processes, LostRace(p) \/ Fault(p)
      PROVE  NeverStranded'
  <2>1. refusal' = [refusal EXCEPT ![p] = "migration"]
    BY <1>8 DEF LostRace, Fault
  <2> QED
    BY <1>1, <2>1
<1>9. CASE UNCHANGED refusal
  BY <1>1, <1>9
<1> QED
  BY <1>5, <1>6, <1>7, <1>8, <1>9 DEF Next, Advance, Opened, Begin,
     ExecuteStatement, RegisterAndCommit, Crash, Close, migrationVars

-----------------------------------------------------------------------------
(* The inductive invariant of the theorems below.                          *)
THEOREM MigrationInvariant == MigrationSpec => []MigrationInv
<1>1. Init => MigrationInv
  BY MigrationTypeInit, MigrationInitInv DEF MigrationInv
<1>2. MigrationInv /\ [Next]_migrationVars => MigrationInv'
  BY MigrationTypeStep, MigrationGrows, KnownAppliedStep, NeverStrandedStep
     DEF MigrationInv
<1> QED
  BY <1>1, <1>2, PTL DEF MigrationSpec

(* The state has its type; only the process inside BEGIN .. COMMIT holds   *)
(* the write lock.                                                         *)
THEOREM MigrationTypeCorrect == MigrationSpec => []MigrationTypeOK
<1>1. MigrationInv => MigrationTypeOK
  BY DEF MigrationInv
<1> QED
  BY <1>1, MigrationInvariant, PTL

(* Every migration is in the file whole and once or not at all, and in     *)
(* order (_apply_migration).                                               *)
THEOREM AppliedWholeAndOnce == MigrationSpec => []WholeAndOnce
<1>1. MigrationInv => WholeAndOnce
  BY DEF MigrationInv
<1> QED
  BY <1>1, MigrationInvariant, PTL

(* Who has the file open has all migrations of its release (_migrate).     *)
THEOREM OpenSchemaComplete == MigrationSpec => []OpenedIsUpToDate
<1>1. MigrationInv => OpenedIsUpToDate
  BY DEF MigrationInv, MigrationTypeOK, KnownApplied, OpenedIsUpToDate, Versions
<1> QED
  BY <1>1, MigrationInvariant, PTL

(* No race, failure or death makes _migrate refuse its own file.           *)
THEOREM OwnFileAccepted == MigrationSpec => []NeverStranded
<1>1. MigrationInv => NeverStranded
  BY DEF MigrationInv
<1> QED
  BY <1>1, MigrationInvariant, PTL
=============================================================================
