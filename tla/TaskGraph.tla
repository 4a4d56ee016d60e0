------------------------------- MODULE TaskGraph -------------------------------
(***************************************************************************)
(* A task breakdown proposed by an agent is searched for a dependency      *)
(* cycle, step by step as _find_cycle does it; the issues found are told   *)
(* to the agent in a bounded message (agents/validation.py 720-792,        *)
(* 971-1003).                                                              *)
(*                                                                         *)
(* The stack of the search and its path hold the same nodes, so one        *)
(* sequence stands for both, and the position in a sorted list of children *)
(* is the set of children not tried yet.                                   *)
(*                                                                         *)
(* An operator whose name ends in Mut is a deliberately wrong form of the  *)
(* operator after it, used by no specification.                            *)
(***************************************************************************)
EXTENDS Naturals, Sequences, FiniteSets

CONSTANTS
  Names,         (* task IDs, ordered                                      *)
  MaxEdges,      (* bound: dependencies of a breakdown                     *)
  MaxIssues,     (* MAX_RETRY_ISSUES                                       *)
  MaxBytes,      (* MAX_RETRY_FEEDBACK_BYTES without header and last line  *)
  MaxCycleNodes  (* MAX_CYCLE_DIAGNOSTIC_NODES                             *)

(* The shortened cycle fits into the message with room for the line that   *)
(* counts what is omitted; a node and that line have size 1.               *)
ASSUME GraphAssumption ==
  /\ Names \subseteq Nat
  /\ MaxEdges \in Nat
  /\ MaxIssues \in Nat \ {0} /\ MaxBytes \in Nat /\ MaxCycleNodes \in Nat
  /\ MaxCycleNodes + 2 <= MaxBytes

VARIABLES
  tasks,   (* the IDs of payload.tasks                                     *)
  edges,   (* payload.dependencies as pairs of parent and child            *)
  repeats, (* what the payload lists twice: a task, an edge or nothing     *)
  color,   (* state: 0 unseen, 1 on the path, 2 finished                   *)
  untried, (* the children a node has still to try                         *)
  path,    (* the path from the start node                                 *)
  cycle,   (* the cycle returned, or <<>>                                  *)
  searching

graphVars == <<tasks, edges, repeats, color, untried, path, cycle, searching>>

(* adjacency leaves out edges that dangle and edges to oneself.            *)
Proper == {e \in edges : e[1] \in tasks /\ e[2] \in tasks /\ e[1] # e[2]}
Children(n) == {m \in tasks : <<n, m>> \in Proper}

GraphInit ==
  /\ tasks \in SUBSET Names
  /\ edges \in SUBSET (Names \X Names)
  /\ IsFiniteSet(edges) /\ Cardinality(edges) <= MaxEdges
  /\ repeats \in {"nothing"} \cup (IF tasks = {} THEN {} ELSE {"task"})
                             \cup (IF edges = {} THEN {} ELSE {"edge"})
  /\ color = [n \in tasks |-> 0]
  /\ untried = [n \in tasks |-> Children(n)]
  /\ path = <<>> /\ cycle = <<>>
  /\ searching = TRUE

Top == path[Len(path)]

StartNode(n) ==
  /\ searching /\ path = <<>>
  /\ color[n] = 0 /\ \A m \in tasks : color[m] = 0 => n <= m
  /\ color' = [color EXCEPT ![n] = 1]
  /\ path' = <<n>>
  /\ UNCHANGED <<tasks, edges, repeats, untried, cycle, searching>>

NextChild(c) == path # <<>> /\ c \in untried[Top] /\ \A d \in untried[Top] : c <= d

MarkMut(c) == 2
Mark(c) == 1

Descend(c) ==
  /\ searching /\ NextChild(c) /\ color[c] = 0
  /\ color' = [color EXCEPT ![c] = Mark(c)]
  /\ untried' = [untried EXCEPT ![Top] = @ \ {c}]
  /\ path' = Append(path, c)
  /\ UNCHANGED <<tasks, edges, repeats, cycle, searching>>

BackToMut(i) == Append(path, path[i])
BackTo(i) == Append(SubSeq(path, i, Len(path)), path[i])

ReportCycle(c) ==
  /\ searching /\ NextChild(c) /\ color[c] = 1
  /\ \E i \in 1..Len(path) : path[i] = c /\ cycle' = BackTo(i)
  /\ searching' = FALSE
  /\ UNCHANGED <<tasks, edges, repeats, color, untried, path>>

SkipChild(c) ==
  /\ searching /\ NextChild(c) /\ color[c] = 2
  /\ untried' = [untried EXCEPT ![Top] = @ \ {c}]
  /\ UNCHANGED <<tasks, edges, repeats, color, path, cycle, searching>>

Leaves(n) == 2

FinishNode ==
  /\ searching /\ path # <<>> /\ untried[Top] = {}
  /\ color' = [color EXCEPT ![Top] = Leaves(Top)]
  /\ path' = SubSeq(path, 1, Len(path) - 1)
  /\ UNCHANGED <<tasks, edges, repeats, untried, cycle, searching>>

ReturnNone ==
  /\ searching /\ path = <<>> /\ \A n \in tasks : color[n] # 0
  /\ searching' = FALSE
  /\ UNCHANGED <<tasks, edges, repeats, color, untried, path, cycle>>

GraphNext ==
  \/ \E n \in tasks : StartNode(n)
  \/ \E c \in tasks : Descend(c) \/ ReportCycle(c) \/ SkipChild(c)
  \/ FinishNode
  \/ ReturnNone

GraphSpec == GraphInit /\ [][GraphNext]_graphVars

-----------------------------------------------------------------------------
(* The issues of _validate_graph, sorted by path and code: first those at  *)
(* ("dependencies",), then one per edge, then ("tasks",).                  *)
CycleSizeMut(c) == Len(c)
CycleSize(c) == IF Len(c) <= MaxCycleNodes THEN Len(c) ELSE 2 * (MaxCycleNodes \div 2) + 1

Selves == {e \in edges : e[1] = e[2]}
Dangling == {e \in edges : ~(e[1] \in tasks /\ e[2] \in tasks)}
EdgeIssues == Cardinality(Selves) + Cardinality(Dangling)

IssueSizes ==
  (IF cycle = <<>> THEN <<>> ELSE <<CycleSize(cycle)>>)
    \o (IF repeats = "edge" THEN <<1>> ELSE <<>>)
    \o [i \in 1..EdgeIssues |-> 1]
    \o (IF repeats = "task" THEN <<1>> ELSE <<>>)

(* render_retry_feedback: issues are added while all that was selected,    *)
(* with the line that counts the rest, fits.                               *)
SizeOf(sizes, k) ==
  LET sum[i \in 0..k] == IF i = 0 THEN 0 ELSE sum[i - 1] + sizes[i]
  IN  sum[k] + (IF k < Len(sizes) THEN 1 ELSE 0)

FitsMessage(sizes, k) == SizeOf(sizes, k) <= MaxBytes

Selected(sizes) ==
  LET limit == IF Len(sizes) < MaxIssues THEN Len(sizes) ELSE MaxIssues
      good == {k \in 0..limit : \A j \in 1..k : FitsMessage(sizes, j)}
  IN  CHOOSE k \in good : \A j \in good : j <= k

-----------------------------------------------------------------------------
(* The nodes of a set that has a way on inside the set from each node.     *)
Endless(S) == S # {} /\ \A n \in S : Children(n) \cap S # {}

(* A cycle that is reported to the agent leads along real dependencies     *)
(* back to its first node and visits no other node twice (_find_cycle).    *)
CycleIsReal ==
  cycle # <<>> =>
    /\ Len(cycle) > 1 /\ cycle[1] = cycle[Len(cycle)]
    /\ \A i \in 1..(Len(cycle) - 1) : <<cycle[i], cycle[i + 1]>> \in Proper
    /\ \A i, j \in 1..(Len(cycle) - 1) : cycle[i] = cycle[j] => i = j

(* When the search returns without a cycle there is none, whatever nodes   *)
(* are shared between the roots (_find_cycle).                             *)
NoCycleMissed == ~searching /\ cycle = <<>> => \A S \in SUBSET tasks : ~Endless(S)

(* The agent is always told of the cycle, however many other issues there  *)
(* are, and the message stays within its limit (render_retry_feedback).    *)
CycleIsTold ==
  ~searching =>
    /\ cycle # <<>> => Selected(IssueSizes) >= 1
    /\ SizeOf(IssueSizes, Selected(IssueSizes)) <= MaxBytes

=============================================================================
