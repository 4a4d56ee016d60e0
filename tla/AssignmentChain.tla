-------------------------- MODULE AssignmentChain --------------------------
(***************************************************************************)
(* Who executes a quorum slot, as far as the schema alone guarantees it:   *)
(* the tables lane_assignment and lane_waiver of one review campaign with  *)
(* the CHECKs, UNIQUEs and triggers of 0001_initial.sql, under any client  *)
(* whatsoever.  A row is never changed and never deleted; the id of an     *)
(* assignment is its position in the table.                                *)
(***************************************************************************)
EXTENDS Naturals, Sequences

CONSTANTS
  Lanes,      (* the rows of review_lane                                    *)
  Profiles,   (* the profiles resolved in the run                           *)
  Rounds,     (* the round numbers                                          *)
  Answers,    (* the rows of human_answer                                   *)
  NoAnswer,   (* human_answer_id IS NULL                                    *)
  MaxGen      (* bound: the highest generation a client tries to insert     *)

ASSUME ChainAssumption ==
  /\ NoAnswer \notin Answers
  /\ MaxGen \in Nat \ {0}

VARIABLES
  assignments,  (* lane_assignment: lane, generation, profile, replaces, answer *)
  waivers       (* lane_waiver: round, lane, answer                         *)

chainVars == <<assignments, waivers>>

None == 0    (* replaces_id IS NULL *)

Assignment == [lane: Lanes, generation: Nat \ {0}, profile: Profiles,
               replaces: Nat, answer: Answers \cup {NoAnswer}]
Waiver == [round: Rounds, lane: Lanes, answer: Answers]

Ids == DOMAIN assignments

(* effective_roster: the assignments nobody has replaced.                  *)
Effective(i) == \A s \in Ids : assignments[s].replaces # i

ChainInit == assignments = <<>> /\ waivers = {}

(* The trigger trg_lane_assignment_chain: a replacement continues the      *)
(* chain of the same slot from exactly the previous link.                  *)
ContinuesChain(row) ==
  /\ assignments[row.replaces].lane = row.lane
  /\ assignments[row.replaces].generation + 1 = row.generation

(* UNIQUE (lane_id, generation).                                           *)
FreshGeneration(row) ==
  \A i \in Ids : <<assignments[i].lane, assignments[i].generation>>
                    # <<row.lane, row.generation>>

(* One answer, one action, across both tables: the UNIQUEs on              *)
(* human_answer_id and the triggers trg_..._answer_xor.                    *)
AnswerUnspent(a) ==
  /\ \A i \in Ids : assignments[i].answer # a
  /\ \A w \in waivers : w.answer # a

(* INSERT INTO lane_assignment, when every constraint lets it pass.        *)
InsertAssignment(row) ==
  /\ (row.generation = 1) <=> (row.replaces = None)
  /\ (row.generation = 1) <=> (row.answer = NoAnswer)
  /\ FreshGeneration(row)
  /\ row.replaces # None =>
       /\ row.replaces \in Ids
       /\ Effective(row.replaces)
       /\ ContinuesChain(row)
  /\ row.answer # NoAnswer => AnswerUnspent(row.answer)
  /\ assignments' = Append(assignments, row)
  /\ UNCHANGED waivers

(* INSERT INTO lane_waiver.                                                *)
InsertWaiver(row) ==
  /\ \A w \in waivers : <<w.round, w.lane>> # <<row.round, row.lane>>
  /\ AnswerUnspent(row.answer)
  /\ waivers' = waivers \cup {row}
  /\ UNCHANGED assignments

ChainNext ==
  \/ \E l \in Lanes, g \in 0..MaxGen, p \in Profiles, r \in Ids \cup {None},
        a \in Answers \cup {NoAnswer} :
       InsertAssignment([lane |-> l, generation |-> g, profile |-> p,
                         replaces |-> r, answer |-> a])
  \/ \E rd \in Rounds, l \in Lanes, a \in Answers :
       InsertWaiver([round |-> rd, lane |-> l, answer |-> a])

ChainSpec == ChainInit /\ [][ChainNext]_chainVars

-----------------------------------------------------------------------------
(* The rows have their type.  That a generation is never 0 is no CHECK of  *)
(* the table: it follows from the chain.                                   *)
ChainTypeOK ==
  /\ assignments \in Seq(Assignment)
  /\ waivers \subseteq Waiver

(* A slot never has two executors at once: however a client chooses lanes, *)
(* generations and links, the constraints on lane_assignment leave at most *)
(* one assignment of a lane unreplaced.                                    *)
OneEffective ==
  \A i, k \in Ids :
    assignments[i].lane = assignments[k].lane /\ Effective(i) /\ Effective(k)
      => i = k

(* A human answer is spent on at most one action: one replacement or one   *)
(* waiver, never both (trg_lane_assignment_answer_xor,                     *)
(* trg_lane_waiver_answer_xor).                                            *)
AnswerSpentOnce ==
  \A a \in Answers :
    /\ \A i, k \in Ids : assignments[i].answer = a /\ assignments[k].answer = a => i = k
    /\ \A v, w \in waivers : v.answer = a /\ w.answer = a => v = w
    /\ ~(\E i \in Ids, w \in waivers : assignments[i].answer = a /\ w.answer = a)

(* The assignments of a lane form one unbroken chain: every generation     *)
(* below an existing one exists, and each row replaces its predecessor.    *)
(* This is what makes OneEffective inductive.                              *)
Chained ==
  /\ \A i, k \in Ids :
       assignments[i].lane = assignments[k].lane
         /\ assignments[i].generation = assignments[k].generation => i = k
  /\ \A i \in Ids : assignments[i].generation # 1 =>
       /\ assignments[i].replaces \in Ids
       /\ assignments[assignments[i].replaces].lane = assignments[i].lane
       /\ assignments[assignments[i].replaces].generation + 1 = assignments[i].generation
  /\ \A i \in Ids : \A g \in 1..assignments[i].generation :
       \E k \in Ids : assignments[k].lane = assignments[i].lane
                      /\ assignments[k].generation = g
=============================================================================
