-------------------------- MODULE AgentContractProofs --------------------------
(***************************************************************************)
(* Theorems about the two parts of the agent contract that have modules of *)
(* their own, for every value of their constants.                          *)
(*                                                                         *)
(* TaskGraph, any set of tasks and any dependencies: a reported cycle is   *)
(* one, none is missed, and whatever else is wrong with the proposal and   *)
(* however little the message may hold, it is told.                        *)
(*                                                                         *)
(* RoundAnswers, any findings, lanes, severities and owners, any number of *)
(* fix checks and whatever another campaign does: accepted answers can be  *)
(* written, and the gate waits for owners only.                            *)
(***************************************************************************)
EXTENDS TaskGraph, RoundAnswers, FiniteSetTheorems, SequenceTheorems,
        WellFoundedInduction, TLAPS

Finished == {n \in tasks : color[n] = 2}

GraphTypeOK ==
  /\ tasks \subseteq Names
  /\ color \in [tasks -> 0..2]
  /\ untried \in [tasks -> SUBSET tasks]
  /\ path \in Seq(tasks)
  /\ searching \in BOOLEAN

(* The path holds exactly the nodes of color 1, each once, along edges.    *)
PathInv ==
  /\ \A i \in 1..Len(path) : color[path[i]] = 1
  /\ \A n \in tasks : color[n] = 1 => \E i \in 1..Len(path) : path[i] = n
  /\ \A i, j \in 1..Len(path) : path[i] = path[j] => i = j
  /\ \A i \in 1..(Len(path) - 1) : path[i + 1] \in Children(path[i])

(* A child that was tried is finished, or it is the next node of the path. *)
TriedInv ==
  /\ \A n \in tasks : untried[n] \subseteq Children(n)
  /\ \A n \in tasks : color[n] = 0 => untried[n] = Children(n)
  /\ \A n \in Finished : Children(n) \subseteq Finished
  /\ \A i \in 1..Len(path) : \A c \in Children(path[i]) \ untried[path[i]] :
       color[c] = 2 \/ (i < Len(path) /\ path[i + 1] = c)

FinishedInv == \A S \in SUBSET Finished : ~Endless(S)

ResultInv ==
  /\ CycleIsReal
  /\ searching => cycle = <<>>
  /\ ~searching /\ cycle = <<>> => Finished = tasks

GraphInv == GraphTypeOK /\ PathInv /\ TriedInv /\ FinishedInv /\ ResultInv

-----------------------------------------------------------------------------
(* A proper edge leads from one task to another one.                       *)
LEMMA ChildrenAreTasks ==
  \A n : Children(n) \subseteq tasks /\ n \notin Children(n)
  /\ \A m \in Children(n) : <<n, m>> \in Proper
BY DEF Children, Proper

LEMMA GraphInitInv == GraphInit => GraphInv
<1> SUFFICES ASSUME GraphInit PROVE GraphInv
  OBVIOUS
<1> USE DEF GraphInit
<1>1. GraphTypeOK
  BY ChildrenAreTasks DEF GraphTypeOK
<1>2. PathInv /\ TriedInv
  BY DEF PathInv, TriedInv, Finished
<1>3. FinishedInv
  BY DEF FinishedInv, Finished, Endless
<1>4. ResultInv
  BY DEF ResultInv, CycleIsReal
<1> QED
  BY <1>1, <1>2, <1>3, <1>4 DEF GraphInv

(* Nodes that are not finished do not make finished ones endless.          *)
LEMMA FinishOneMore ==
  ASSUME FinishedInv, NEW t \in tasks,
         \A n \in Finished : Children(n) \subseteq Finished,
         t \notin Finished, Children(t) \subseteq Finished,
         NEW S \in SUBSET (Finished \cup {t})
  PROVE  ~Endless(S)
<1> SUFFICES ASSUME Endless(S) PROVE FALSE
  OBVIOUS
<1> DEFINE R == S \ {t}
<1>1. R \subseteq Finished
  OBVIOUS
<1>2. ASSUME NEW n \in R PROVE Children(n) \cap R # {}
  <2>1. Children(n) \subseteq Finished
    BY <1>1
  <2>2. t \notin Children(n)
    BY <2>1
  <2> QED
    BY <2>2 DEF Endless
<1>3. R # {}
  <2>1. CASE t \in S
    <3>1. Children(t) \cap S # {}
      BY <2>1 DEF Endless
    <3> QED
      BY <3>1
  <2>2. CASE t \notin S
    BY <2>2 DEF Endless
  <2> QED
    BY <2>1, <2>2
<1>4. Endless(R)
  BY <1>2, <1>3 DEF Endless
<1> QED
  BY <1>1, <1>4 DEF FinishedInv

(* The node on top of the path is a task, and the next child is its child. *)
LEMMA TopIsTask ==
  ASSUME GraphInv, path # <<>>
  PROVE  /\ Len(path) \in Nat \ {0} /\ Top \in tasks /\ color[Top] = 1
         /\ \A i \in 1..Len(path) : path[i] \in tasks
<1>1. Len(path) \in Nat \ {0}
  BY DEF GraphInv, GraphTypeOK
<1> QED
  BY <1>1 DEF GraphInv, GraphTypeOK, PathInv, Top

LEMMA StartStep ==
  ASSUME GraphInv, NEW n \in tasks, StartNode(n)
  PROVE  GraphInv'
<1> USE DEF StartNode
<1>0. Children(n)' = Children(n) /\ (\A m : Children(m)' = Children(m)) /\ tasks' = tasks
  BY DEF Children, Proper
<1>1. Finished' = Finished
  BY DEF Finished, GraphInv, GraphTypeOK
<1>2. path' \in Seq(tasks) /\ Len(path') = 1 /\ path'[1] = n
  OBVIOUS
<1>3. color' = [color EXCEPT ![n] = 1] /\ color' \in [tasks -> 0..2]
  BY DEF GraphInv, GraphTypeOK
<1>4. GraphTypeOK'
  BY <1>2, <1>3 DEF GraphInv, GraphTypeOK
<1>5. PathInv'
  <2>1. \A m \in tasks : color[m] # 1
    BY DEF GraphInv, PathInv
  <2> QED
    BY <1>2, <1>3, <2>1 DEF PathInv
<1>6. TriedInv'
  BY <1>0, <1>1, <1>2, <1>3 DEF GraphInv, TriedInv
<1>7. FinishedInv'
  BY <1>0, <1>1 DEF GraphInv, FinishedInv, Endless
<1>8. ResultInv'
  BY <1>0, <1>1 DEF GraphInv, ResultInv, CycleIsReal, Proper
<1> QED
  BY <1>4, <1>5, <1>6, <1>7, <1>8 DEF GraphInv

LEMMA DescendStep ==
  ASSUME GraphInv, NEW c \in tasks, Descend(c)
  PROVE  GraphInv'
<1> USE DEF Descend, Mark
<1>0. (\A m : Children(m)' = Children(m)) /\ tasks' = tasks /\ Proper' = Proper
  BY DEF Children, Proper
<1>1. Finished' = Finished
  BY DEF Finished, GraphInv, GraphTypeOK
<1>a. path # <<>> /\ c \in untried[Top] /\ color[c] = 0
  BY DEF NextChild
<1>b. /\ Len(path) \in Nat \ {0} /\ Top \in tasks /\ color[Top] = 1
      /\ \A i \in 1..Len(path) : path[i] \in tasks
  BY <1>a, TopIsTask
<1>c. c \in Children(Top)
  BY <1>a, <1>b DEF GraphInv, TriedInv
<1>2. /\ path' \in Seq(tasks) /\ Len(path') = Len(path) + 1
      /\ \A i \in 1..Len(path) : path'[i] = path[i]
      /\ path'[Len(path) + 1] = c
  BY AppendProperties DEF GraphInv, GraphTypeOK
<1>3. /\ color' \in [tasks -> 0..2] /\ color'[c] = 1
      /\ \A m \in tasks \ {c} : color'[m] = color[m]
  BY DEF GraphInv, GraphTypeOK
<1>d. /\ untried' \in [tasks -> SUBSET tasks] /\ untried'[Top] = untried[Top] \ {c}
      /\ \A m \in tasks \ {Top} : untried'[m] = untried[m]
  BY <1>b DEF GraphInv, GraphTypeOK
<1>e. \A i \in 1..Len(path) : path[i] # c
  BY <1>a DEF GraphInv, PathInv
<1>4. GraphTypeOK'
  BY <1>2, <1>3, <1>d DEF GraphInv, GraphTypeOK
<1>5. PathInv'
  <2>1. \A i \in 1..Len(path)' : color'[path'[i]] = 1
    BY <1>2, <1>3, <1>b, <1>e DEF GraphInv, PathInv
  <2>2. \A n \in tasks : color'[n] = 1 => \E i \in 1..Len(path') : path'[i] = n
    <3> SUFFICES ASSUME NEW n \in tasks, color'[n] = 1
                 PROVE  \E i \in 1..Len(path') : path'[i] = n
      OBVIOUS
    <3>1. CASE n = c
      BY <3>1, <1>2, <1>b
    <3>2. CASE n # c
      <4>1. PICK i \in 1..Len(path) : path[i] = n
        BY <3>2, <1>3 DEF GraphInv, PathInv
      <4> QED
        BY <4>1, <1>2, <1>b
    <3> QED
      BY <3>1, <3>2
  <2>3. \A i, j \in 1..Len(path') : path'[i] = path'[j] => i = j
    BY <1>2, <1>b, <1>e DEF GraphInv, PathInv
  <2>4. \A i \in 1..(Len(path') - 1) : path'[i + 1] \in Children(path'[i])
    <3> SUFFICES ASSUME NEW i \in 1..(Len(path') - 1)
                 PROVE  path'[i + 1] \in Children(path'[i])
      OBVIOUS
    <3>1. CASE i = Len(path)
      BY <3>1, <1>2, <1>b, <1>c DEF Top
    <3>2. CASE i # Len(path)
      BY <3>2, <1>2, <1>b DEF GraphInv, PathInv
    <3> QED
      BY <3>1, <3>2
  <2> QED
    BY <1>0, <2>1, <2>2, <2>3, <2>4 DEF PathInv
<1>6. TriedInv'
  <2>1. \A n \in tasks : untried'[n] \subseteq Children(n)
    BY <1>b, <1>d DEF GraphInv, TriedInv
  <2>2. \A n \in tasks : color'[n] = 0 => untried'[n] = Children(n)
    BY <1>b, <1>d, <1>3 DEF GraphInv, TriedInv
  <2>3. \A n \in Finished : Children(n) \subseteq Finished
    BY DEF GraphInv, TriedInv
  <2>4. ASSUME NEW i \in 1..Len(path'), NEW d \in Children(path'[i]) \ untried'[path'[i]]
        PROVE  color'[d] = 2 \/ (i < Len(path') /\ path'[i + 1] = d)
    <3>0. d \in tasks
      BY ChildrenAreTasks
    <3>1. CASE i = Len(path) + 1
      BY <3>1, <1>2, <1>a, <1>b, <1>c, <1>d, ChildrenAreTasks DEF GraphInv, TriedInv
    <3>2. CASE i \in 1..Len(path) /\ d = c /\ path[i] = Top
      <4>1. i = Len(path)
        BY <3>2, <1>b DEF GraphInv, PathInv, Top
      <4> QED
        BY <4>1, <3>2, <1>2, <1>b
    <3>3. CASE i \in 1..Len(path) /\ ~(d = c /\ path[i] = Top)
      <4>1. d \in Children(path[i]) \ untried[path[i]]
        BY <3>3, <1>2, <1>b, <1>d
      <4>2. color[d] = 2 \/ (i < Len(path) /\ path[i + 1] = d)
        BY <4>1, <3>3 DEF GraphInv, TriedInv
      <4>3. CASE color[d] = 2
        BY <4>3, <3>0, <1>a, <1>3
      <4>4. CASE i < Len(path) /\ path[i + 1] = d
        BY <4>4, <3>3, <1>2, <1>b
      <4> QED
        BY <4>2, <4>3, <4>4
    <3> QED
      BY <3>1, <3>2, <3>3, <1>2, <1>b
  <2> QED
    BY <1>0, <1>1, <2>1, <2>2, <2>3, <2>4 DEF TriedInv
<1>7. FinishedInv'
  BY <1>0, <1>1 DEF GraphInv, FinishedInv, Endless
<1>8. ResultInv'
  BY <1>0, <1>1 DEF GraphInv, ResultInv, CycleIsReal
<1> QED
  BY <1>4, <1>5, <1>6, <1>7, <1>8 DEF GraphInv

LEMMA ReportStep ==
  ASSUME GraphInv, NEW c \in tasks, ReportCycle(c)
  PROVE  GraphInv'
<1> USE DEF ReportCycle
<1>0. (\A m : Children(m)' = Children(m)) /\ tasks' = tasks /\ Proper' = Proper /\ Finished' = Finished
  BY DEF Children, Proper, Finished
<1>a. path # <<>> /\ c \in untried[Top]
  BY DEF NextChild
<1>b. /\ Len(path) \in Nat \ {0} /\ Top \in tasks
      /\ \A i \in 1..Len(path) : path[i] \in tasks
  BY <1>a, TopIsTask
<1>c. c \in Children(Top)
  BY <1>a, <1>b DEF GraphInv, TriedInv
<1>1. PICK i \in 1..Len(path) : path[i] = c /\ cycle' = BackTo(i)
  OBVIOUS
<1>2. i < Len(path)
  BY <1>1, <1>b, <1>c, ChildrenAreTasks DEF Top
<1> DEFINE part == SubSeq(path, i, Len(path))
           n == Len(path) - i + 1
<1>3. n \in Nat /\ n > 1 /\ part \in Seq(tasks) /\ Len(part) = n
      /\ \A k \in 1..n : part[k] = path[i + k - 1]
  BY <1>b, <1>2, SubSeqProperties
<1>n. n = Len(path) - i + 1 /\ i \in Nat \ {0} /\ Len(path) \in Nat
  BY <1>b
<1>4. cycle' = Append(part, c)
  BY <1>1 DEF BackTo
<1> HIDE DEF part, n, ReportCycle
<1>5. Len(cycle') = n + 1 /\ cycle'[n + 1] = c /\ cycle' # <<>>
      /\ \A k \in 1..n : cycle'[k] = path[i + k - 1]
  <2>1. /\ Len(Append(part, c)) = n + 1 /\ Append(part, c)[n + 1] = c
        /\ \A k \in 1..n : Append(part, c)[k] = part[k]
    BY <1>3, AppendProperties
  <2>2. Append(part, c) # <<>>
    BY <1>3, AppendProperties
  <2> QED
    BY <1>3, <1>4, <2>1, <2>2
<1>6. CycleIsReal'
  <2>1. Len(cycle') > 1 /\ cycle'[1] = cycle'[Len(cycle')]
    BY <1>1, <1>3, <1>5, <1>b
  <2>2. ASSUME NEW k \in 1..(Len(cycle') - 1) PROVE <<cycle'[k], cycle'[k + 1]>> \in Proper
    <3>0. k \in 1..n
      BY <1>3, <1>5
    <3>a. i + k - 1 \in 1..Len(path)
      BY <3>0, <1>3, <1>n
    <3>1. k \in 1..n /\ i + k - 1 \in 1..Len(path) /\ cycle'[k] = path[i + k - 1]
      BY <3>0, <3>a, <1>5
    <3>2. CASE k = n
      <4>1. i + k - 1 = Len(path)
        BY <3>2, <3>0, <1>n
      <4>2. cycle'[k] = Top /\ cycle'[k + 1] = c
        BY <4>1, <3>1, <3>2, <1>5 DEF Top
      <4> QED
        BY <4>2, <1>c, ChildrenAreTasks
    <3>3. CASE k # n
      <4>a. k \in Nat /\ k >= 1 /\ k < n
        BY <3>0, <3>3, <1>3
      <4>0. k + 1 \in 1..n /\ i + (k + 1) - 1 = i + k /\ i + k - 1 \in 1..(Len(path) - 1)
        BY <4>a, <1>n, <1>3
      <4>1. cycle'[k + 1] = path[i + k] /\ i + k - 1 \in 1..(Len(path) - 1)
        BY <4>0, <1>5
      <4>2. path[(i + k - 1) + 1] \in Children(path[i + k - 1])
        BY <4>1 DEF GraphInv, PathInv
      <4>3. (i + k - 1) + 1 = i + k
        BY <3>1, <1>b
      <4>4. <<path[i + k - 1], path[i + k]>> \in Proper
        BY <4>2, <4>3, ChildrenAreTasks
      <4> QED
        BY <4>1, <4>4, <3>1
    <3> QED
      BY <3>2, <3>3
  <2>3. ASSUME NEW j \in 1..(Len(cycle') - 1), NEW k \in 1..(Len(cycle') - 1), cycle'[j] = cycle'[k]
        PROVE  j = k
    <3>1. j \in 1..n /\ k \in 1..n
      BY <1>3, <1>5
    <3>2. i + j - 1 \in 1..Len(path) /\ i + k - 1 \in 1..Len(path)
      BY <3>1, <1>3, <1>n
    <3>3. path[i + j - 1] = path[i + k - 1]
      BY <2>3, <3>1, <1>5
    <3>4. i + j - 1 = i + k - 1
      BY <3>2, <3>3 DEF GraphInv, PathInv
    <3> QED
      BY <3>1, <3>4, <1>n, <1>3
  <2> QED
    BY <1>0, <2>1, <2>2, <2>3 DEF CycleIsReal
<1>7. ResultInv'
  BY <1>5, <1>6 DEF ResultInv, ReportCycle
<1> USE DEF ReportCycle
<1>8. GraphTypeOK' /\ PathInv'
  BY <1>0 DEF GraphInv, GraphTypeOK, PathInv
<1>9. TriedInv'
  BY <1>0 DEF GraphInv, TriedInv
<1>10. FinishedInv'
  BY <1>0 DEF GraphInv, FinishedInv, Endless
<1> QED
  BY <1>7, <1>8, <1>9, <1>10 DEF GraphInv

LEMMA SkipStep ==
  ASSUME GraphInv, NEW c \in tasks, SkipChild(c)
  PROVE  GraphInv'
<1> USE DEF SkipChild
<1>0. (\A m : Children(m)' = Children(m)) /\ tasks' = tasks /\ Proper' = Proper /\ Finished' = Finished
  BY DEF Children, Proper, Finished
<1>a. path # <<>> /\ c \in untried[Top] /\ color[c] = 2
  BY DEF NextChild
<1>b. Top \in tasks /\ color[Top] = 1 /\ \A i \in 1..Len(path) : path[i] \in tasks
  BY <1>a, TopIsTask
<1>d. /\ untried' \in [tasks -> SUBSET tasks] /\ untried'[Top] = untried[Top] \ {c}
      /\ \A m \in tasks \ {Top} : untried'[m] = untried[m]
  BY <1>b DEF GraphInv, GraphTypeOK
<1>1. GraphTypeOK' /\ PathInv' /\ FinishedInv' /\ ResultInv'
  BY <1>0, <1>d DEF GraphInv, GraphTypeOK, PathInv, FinishedInv, Endless, ResultInv, CycleIsReal
<1>2. \A n \in tasks : untried'[n] \subseteq Children(n)
  BY <1>b, <1>d DEF GraphInv, TriedInv
<1>3. \A n \in tasks : color[n] = 0 => untried'[n] = Children(n)
  BY <1>b, <1>d DEF GraphInv, TriedInv
<1>4. \A i \in 1..Len(path) : \A d \in Children(path[i]) \ untried'[path[i]] :
        color[d] = 2 \/ (i < Len(path) /\ path[i + 1] = d)
  BY <1>a, <1>b, <1>d DEF GraphInv, TriedInv
<1>5. TriedInv'
  BY <1>0, <1>2, <1>3, <1>4 DEF GraphInv, TriedInv
<1> QED
  BY <1>1, <1>5 DEF GraphInv

LEMMA FinishStep ==
  ASSUME GraphInv, FinishNode
  PROVE  GraphInv'
<1> USE DEF FinishNode, Leaves
<1>0. (\A m : Children(m)' = Children(m)) /\ tasks' = tasks /\ Proper' = Proper
  BY DEF Children, Proper
<1> DEFINE n == Len(path)
<1>b. /\ n \in Nat \ {0} /\ Top \in tasks /\ color[Top] = 1 /\ path[n] = Top
      /\ \A i \in 1..n : path[i] \in tasks
  BY TopIsTask DEF Top
<1>1. /\ path' \in Seq(tasks) /\ Len(path') = n - 1
      /\ \A i \in 1..(n - 1) : path'[i] = path[i]
  <2>1. path \in Seq(tasks) /\ path' = SubSeq(path, 1, n - 1) /\ n - 1 \in Nat
    BY <1>b DEF GraphInv, GraphTypeOK
  <2> HIDE DEF FinishNode
  <2>2. CASE n = 1
    <3>1. SubSeq(path, 1, 0) = <<>>
      BY <2>1, <2>2, SubSeqProperties
    <3> QED
      BY <2>1, <2>2, <3>1
  <2>3. CASE n # 1
    <3>0. n \in Nat \ {0}
      BY <1>b
    <3> HIDE DEF n
    <3>1. 1 <= n - 1 /\ n - 1 \in Int /\ (n - 1) - 1 + 1 = n - 1
      BY <2>3, <3>0
    <3>2. \A i \in 1..(n - 1) : path[i] \in tasks
      BY <1>b
    <3> DEFINE last == n - 1
    <3>a. last \in Int /\ 1 <= last /\ last - 1 + 1 = last /\ 1 \in Int
      BY <3>1
    <3>b. (\A i \in 1..last : path[i] \in tasks) /\ path' = SubSeq(path, 1, last)
      BY <2>1, <3>2
    <3> HIDE DEF last
    <3>3. /\ SubSeq(path, 1, last) \in Seq(tasks)
          /\ Len(SubSeq(path, 1, last)) = last - 1 + 1
          /\ \A i \in 1..(last - 1 + 1) : SubSeq(path, 1, last)[i] = path[1 + i - 1]
      BY ONLY <3>a, <3>b, SubSeqProperties
    <3>4. path' \in Seq(tasks) /\ Len(path') = last /\ \A i \in 1..last : path'[i] = path[i]
      BY <3>a, <3>b, <3>3
    <3> QED
      BY <3>4 DEF last
  <2> QED
    BY <2>2, <2>3
<1>2. /\ color' \in [tasks -> 0..2] /\ color'[Top] = 2
      /\ \A m \in tasks \ {Top} : color'[m] = color[m]
  BY <1>b DEF GraphInv, GraphTypeOK
<1>3. Finished' = Finished \cup {Top} /\ Top \notin Finished
  BY <1>b, <1>2 DEF Finished
<1>4. Children(Top) \subseteq Finished
  <2>1. \A c \in Children(Top) : color[c] = 2
    BY <1>b DEF GraphInv, TriedInv
  <2> QED
    BY <2>1, ChildrenAreTasks DEF Finished
<1>5. GraphTypeOK'
  BY <1>1, <1>2 DEF GraphInv, GraphTypeOK
<1>6. PathInv'
  <2>1. \A i \in 1..(n - 1) : path[i] # Top
    BY <1>b DEF GraphInv, PathInv
  <2>2. \A i \in 1..Len(path') : color'[path'[i]] = 1
    BY <2>1, <1>1, <1>2, <1>b DEF GraphInv, PathInv
  <2>3. \A m \in tasks : color'[m] = 1 => \E i \in 1..Len(path') : path'[i] = m
    <3> SUFFICES ASSUME NEW m \in tasks, color'[m] = 1
                 PROVE  \E i \in 1..Len(path') : path'[i] = m
      OBVIOUS
    <3>1. m # Top /\ color[m] = 1
      BY <1>2
    <3>2. PICK i \in 1..n : path[i] = m
      BY <3>1 DEF GraphInv, PathInv
    <3> QED
      BY <3>1, <3>2, <1>1, <1>b
  <2>4. \A i, j \in 1..Len(path') : path'[i] = path'[j] => i = j
    BY <1>1, <1>b DEF GraphInv, PathInv
  <2>5. \A i \in 1..(Len(path') - 1) : path'[i + 1] \in Children(path'[i])
    BY <1>1, <1>b DEF GraphInv, PathInv
  <2> QED
    BY <1>0, <2>2, <2>3, <2>4, <2>5 DEF PathInv
<1>7. TriedInv'
  <2>1. \A m \in tasks : color'[m] = 0 => untried[m] = Children(m)
    BY <1>2 DEF GraphInv, TriedInv
  <2>2. \A m \in Finished' : Children(m) \subseteq Finished'
    BY <1>3, <1>4 DEF GraphInv, TriedInv
  <2>3. ASSUME NEW i \in 1..Len(path'), NEW c \in Children(path'[i]) \ untried[path'[i]]
        PROVE  color'[c] = 2 \/ (i < Len(path') /\ path'[i + 1] = c)
    <3>0. c \in tasks /\ i \in 1..(n - 1) /\ path'[i] = path[i]
      BY <1>1, <1>b, ChildrenAreTasks
    <3>1. color[c] = 2 \/ (i < n /\ path[i + 1] = c)
      BY <3>0 DEF GraphInv, TriedInv
    <3>2. CASE color[c] = 2
      BY <3>0, <3>2, <1>2
    <3>3. CASE i < n /\ path[i + 1] = c
      BY <3>0, <3>3, <1>1, <1>2, <1>b
    <3> QED
      BY <3>1, <3>2, <3>3
  <2> QED
    BY <1>0, <2>1, <2>2, <2>3 DEF GraphInv, TriedInv
<1>8. FinishedInv'
  <2>1. ASSUME NEW S \in SUBSET (Finished \cup {Top}) PROVE ~Endless(S)
    BY <1>b, <1>3, <1>4, FinishOneMore DEF GraphInv, TriedInv
  <2> QED
    BY <1>0, <1>3, <2>1 DEF FinishedInv, Endless
<1>9. ResultInv'
  BY <1>0 DEF GraphInv, ResultInv, CycleIsReal
<1> QED
  BY <1>5, <1>6, <1>7, <1>8, <1>9 DEF GraphInv

LEMMA ReturnStep ==
  ASSUME GraphInv, ReturnNone
  PROVE  GraphInv'
<1> USE DEF ReturnNone
<1>0. (\A m : Children(m)' = Children(m)) /\ tasks' = tasks /\ Proper' = Proper /\ Finished' = Finished
  BY DEF Children, Proper, Finished
<1>1. Finished = tasks
  <2>1. \A n \in tasks : color[n] \in {1, 2}
    BY DEF GraphInv, GraphTypeOK
  <2>2. \A n \in tasks : color[n] # 1
    BY DEF GraphInv, PathInv
  <2> QED
    BY <2>1, <2>2 DEF Finished
<1>2. ResultInv'
  BY <1>0, <1>1 DEF GraphInv, ResultInv, CycleIsReal
<1>3. GraphTypeOK' /\ PathInv'
  <2>1. GraphTypeOK'
    BY DEF GraphInv, GraphTypeOK
  <2>2. PathInv'
    BY <1>0 DEF GraphInv, PathInv
  <2> QED
    BY <2>1, <2>2
<1>4. TriedInv'
  BY <1>0 DEF GraphInv, TriedInv
<1>5. FinishedInv'
  BY <1>0 DEF GraphInv, FinishedInv, Endless
<1> QED
  BY <1>2, <1>3, <1>4, <1>5 DEF GraphInv

LEMMA GraphNextInv == GraphInv /\ [GraphNext]_graphVars => GraphInv'
<1> SUFFICES ASSUME GraphInv, [GraphNext]_graphVars PROVE GraphInv'
  OBVIOUS
<1>1. CASE \E n \in tasks : StartNode(n)
  BY <1>1, StartStep
<1>2. CASE \E c \in tasks : Descend(c)
  BY <1>2, DescendStep
<1>3. CASE \E c \in tasks : ReportCycle(c)
  BY <1>3, ReportStep
<1>4. CASE \E c \in tasks : SkipChild(c)
  BY <1>4, SkipStep
<1>5. CASE FinishNode
  BY <1>5, FinishStep
<1>6. CASE ReturnNone
  BY <1>6, ReturnStep
<1>7. CASE UNCHANGED graphVars
  <2> USE <1>7 DEF graphVars
  <2>0. (\A m : Children(m)' = Children(m)) /\ tasks' = tasks /\ Proper' = Proper /\ Finished' = Finished
    BY DEF Children, Proper, Finished
  <2>1. GraphTypeOK' /\ PathInv'
    BY <2>0 DEF GraphInv, GraphTypeOK, PathInv
  <2>2. TriedInv'
    BY <2>0 DEF GraphInv, TriedInv
  <2>3. FinishedInv'
    BY <2>0 DEF GraphInv, FinishedInv, Endless
  <2>4. ResultInv'
    BY <2>0 DEF GraphInv, ResultInv, CycleIsReal
  <2> QED
    BY <2>1, <2>2, <2>3, <2>4 DEF GraphInv
<1> QED
  BY <1>1, <1>2, <1>3, <1>4, <1>5, <1>6, <1>7 DEF GraphNext

THEOREM GraphInvariant == GraphSpec => []GraphInv
  BY GraphInitInv, GraphNextInv, PTL DEF GraphSpec

(* Every cycle told to an agent is a cycle of the proposed dependencies.   *)
THEOREM ReportedCycleIsReal == GraphSpec => []CycleIsReal
<1>1. GraphInv => CycleIsReal
  BY DEF GraphInv, ResultInv
<1> QED
  BY <1>1, GraphInvariant, PTL

(* No cycle of any graph is missed by the search.                          *)
THEOREM SearchIsComplete == GraphSpec => []NoCycleMissed
<1>1. GraphInv => NoCycleMissed
  BY DEF GraphInv, ResultInv, FinishedInv, NoCycleMissed
<1> QED
  BY <1>1, GraphInvariant, PTL

-----------------------------------------------------------------------------
(* The message.                                                            *)

(* A set of numbers up to n that is not empty has a greatest one.          *)
LEMMA GreatestExists ==
  ASSUME NEW n \in Nat, NEW S \in SUBSET (0..n), S # {}
  PROVE  \E k \in S : \A j \in S : j <= k
<1> DEFINE Less == OpToRel(<, Nat)
           fromEnd == {k \in 0..n : n - k \in S}
<1>1. IsWellFoundedOn(Less, Nat)
  BY NatLessThanWellFounded, Zenon
<1>2. \A d, e \in Nat : <<d, e>> \in Less <=> d < e
  BY DEF OpToRel
<1>. HIDE DEF Less
<1>3. fromEnd # {} /\ fromEnd \subseteq Nat
  <2>1. PICK k \in S : TRUE
    OBVIOUS
  <2>2. k \in 0..n
    OBVIOUS
  <2>3. n - k \in 0..n /\ n - (n - k) = k
    BY <2>2
  <2>4. n - k \in fromEnd
    BY <2>3
  <2>5. fromEnd \subseteq Nat
    OBVIOUS
  <2>. QED BY <2>4, <2>5
<1>4. PICK k \in fromEnd : \A j \in fromEnd : ~(<<j, k>> \in Less)
  <2>. HIDE DEF fromEnd
  <2>. QED BY <1>1, <1>3, WFMin
<1>5. \A j \in fromEnd : ~(j < k)
  BY <1>2, <1>3, <1>4
<1>6. \A j \in S : n - j \in fromEnd
  OBVIOUS
<1>7. n - k \in S /\ \A j \in S : j <= n - k
  BY <1>5, <1>6
<1>. QED BY <1>7

(* The size of a message of no issue and of one.                           *)
LEMMA EmptyMessage ==
  ASSUME NEW sizes
  PROVE  SizeOf(sizes, 0) = 0 + (IF 0 < Len(sizes) THEN 1 ELSE 0)
<1> DEFINE sum == CHOOSE sum : sum = [i \in 0..0 |-> IF i = 0 THEN 0 ELSE sum[i - 1] + sizes[i]]
           none == [i \in 0..0 |-> 0]
<1>1. SizeOf(sizes, 0) = sum[0] + (IF 0 < Len(sizes) THEN 1 ELSE 0)
  BY DEF SizeOf
<1>2. none = [i \in 0..0 |-> IF i = 0 THEN 0 ELSE none[i - 1] + sizes[i]]
  OBVIOUS
<1>3. sum = [i \in 0..0 |-> IF i = 0 THEN 0 ELSE sum[i - 1] + sizes[i]]
  BY <1>2
<1>4. sum[0] = 0
  <2>. HIDE DEF sum
  <2>. QED BY <1>3
<1>. QED BY <1>1, <1>4

LEMMA MessageOfOne ==
  ASSUME NEW sizes
  PROVE  SizeOf(sizes, 1) = (0 + sizes[1]) + (IF 1 < Len(sizes) THEN 1 ELSE 0)
<1> DEFINE sum == CHOOSE sum : sum = [i \in 0..1 |-> IF i = 0 THEN 0 ELSE sum[i - 1] + sizes[i]]
           one == [i \in 0..1 |-> IF i = 0 THEN 0 ELSE 0 + sizes[1]]
<1>1. SizeOf(sizes, 1) = sum[1] + (IF 1 < Len(sizes) THEN 1 ELSE 0)
  BY DEF SizeOf
<1>2. one = [i \in 0..1 |-> IF i = 0 THEN 0 ELSE one[i - 1] + sizes[i]]
  <2>1. \A i \in 0..1 : i # 0 => i = 1
    OBVIOUS
  <2>2. one[0] = 0
    OBVIOUS
  <2>. QED BY <2>1, <2>2
<1>3. sum = [i \in 0..1 |-> IF i = 0 THEN 0 ELSE sum[i - 1] + sizes[i]]
  BY <1>2
<1>4. sum[0] = 0 /\ sum[1] = sum[0] + sizes[1]
  <2>. HIDE DEF sum
  <2>. QED BY <1>3
<1>. QED BY <1>1, <1>4

(* Whatever fits is selected as far as the limits go, so what is selected  *)
(* fits, and a first issue that fits is selected.                          *)
LEMMA SelectedFits ==
  ASSUME NEW sizes, Len(sizes) \in Nat
  PROVE  /\ SizeOf(sizes, Selected(sizes)) <= MaxBytes
         /\ Len(sizes) > 0 /\ FitsMessage(sizes, 1) => Selected(sizes) >= 1
<1> DEFINE limit == IF Len(sizes) < MaxIssues THEN Len(sizes) ELSE MaxIssues
           good == {k \in 0..limit : \A j \in 1..k : FitsMessage(sizes, j)}
<1>1. limit \in Nat /\ (Len(sizes) > 0 => limit >= 1)
  BY GraphAssumption DEF GraphAssumption
<1>2. 0 \in good
  BY <1>1
<1>3. good \in SUBSET (0..limit)
  OBVIOUS
<1>4. \E k \in good : \A j \in good : j <= k
  <2>. HIDE DEF good, limit
  <2>. QED BY <1>1, <1>2, <1>3, GreatestExists
<1>5. Selected(sizes) \in good /\ \A j \in good : j <= Selected(sizes)
  <2>1. Selected(sizes) = CHOOSE k \in good : \A j \in good : j <= k
    BY DEF Selected
  <2>. HIDE DEF good
  <2>. QED BY <1>4, <2>1
<1>6. SizeOf(sizes, Selected(sizes)) <= MaxBytes
  <2>1. CASE Selected(sizes) = 0
    <3>1. SizeOf(sizes, 0) <= 1
      BY EmptyMessage
    <3>2. 1 <= MaxBytes /\ MaxBytes \in Nat
      BY GraphAssumption DEF GraphAssumption
    <3>3. SizeOf(sizes, 0) \in Nat
      BY EmptyMessage
    <3>. QED BY <2>1, <3>1, <3>2, <3>3
  <2>2. CASE Selected(sizes) # 0
    <3>1. Selected(sizes) \in 1..Selected(sizes)
      BY <1>1, <1>5, <2>2
    <3>2. FitsMessage(sizes, Selected(sizes))
      BY <1>5, <3>1
    <3>. QED BY <3>2 DEF FitsMessage
  <2>. QED BY <2>1, <2>2
<1>7. ASSUME Len(sizes) > 0, FitsMessage(sizes, 1)
      PROVE  Selected(sizes) >= 1
  <2>1. 1 \in 0..limit /\ \A j \in 1..1 : j = 1
    BY <1>1, <1>7
  <2>2. 1 \in good
    BY <1>7, <2>1
  <2>. QED BY <1>1, <1>5, <2>2
<1>. QED BY <1>6, <1>7

(* What does not change while the graph is searched.                       *)
ToldInv == cycle \in Seq(tasks) /\ IsFiniteSet(edges)

LEMMA ToldStep ==
  ASSUME GraphInv, ToldInv, [GraphNext]_graphVars
  PROVE  ToldInv'
<1>1. edges' = edges /\ tasks' = tasks
  BY DEF GraphNext, graphVars, StartNode, Descend, ReportCycle, SkipChild, FinishNode,
         ReturnNone
<1>2. CASE cycle' = cycle
  BY <1>1, <1>2 DEF ToldInv
<1>3. ASSUME NEW c \in tasks, ReportCycle(c)
      PROVE  cycle' \in Seq(tasks)
  <2>1. path \in Seq(tasks)
    BY DEF GraphInv, GraphTypeOK
  <2>2. PICK i \in 1..Len(path) : cycle' = BackTo(i)
    BY <1>3 DEF ReportCycle
  <2>3. SubSeq(path, i, Len(path)) \in Seq(tasks) /\ path[i] \in tasks
    BY <2>1
  <2>. QED BY <2>2, <2>3 DEF BackTo
<1>4. cycle' = cycle \/ \E c \in tasks : ReportCycle(c)
  BY DEF GraphNext, graphVars, StartNode, Descend, SkipChild, FinishNode, ReturnNone
<1>. QED BY <1>1, <1>2, <1>3, <1>4 DEF ToldInv

(* The cycle is the first issue, and it is shortened to fit.               *)
LEMMA CycleIsFirst ==
  ASSUME ToldInv, GraphInv
  PROVE  /\ Len(IssueSizes) \in Nat
         /\ cycle # <<>> => /\ Len(IssueSizes) > 0
                            /\ IssueSizes[1] \in Nat
                            /\ IssueSizes[1] <= MaxCycleNodes + 1
<1>1. EdgeIssues \in Nat
  <2>1. Selves \in SUBSET edges /\ Dangling \in SUBSET edges
    BY DEF Selves, Dangling
  <2>2. IsFiniteSet(Selves) /\ IsFiniteSet(Dangling)
    BY <2>1, FS_Subset DEF ToldInv
  <2>3. Cardinality(Selves) \in Nat /\ Cardinality(Dangling) \in Nat
    BY <2>2, FS_CardinalityType
  <2>. QED BY <2>3 DEF EdgeIssues
<1>2. /\ CycleSize(cycle) \in Nat
      /\ CycleSize(cycle) <= MaxCycleNodes + 1
  <2>1. Len(cycle) \in Nat /\ MaxCycleNodes \in Nat
    BY GraphAssumption DEF GraphAssumption, ToldInv
  <2>2. MaxCycleNodes \div 2 \in Nat /\ 2 * (MaxCycleNodes \div 2) <= MaxCycleNodes
    BY <2>1
  <2>. QED BY <2>1, <2>2 DEF CycleSize
<1> DEFINE first == IF cycle = <<>> THEN <<>> ELSE <<CycleSize(cycle)>>
           second == IF repeats = "edge" THEN <<1>> ELSE <<>>
           third == [i \in 1..EdgeIssues |-> 1]
           fourth == IF repeats = "task" THEN <<1>> ELSE <<>>
<1>3. /\ first \in Seq(Nat) /\ second \in Seq(Nat) /\ fourth \in Seq(Nat)
      /\ third \in Seq(Nat)
      /\ cycle # <<>> => Len(first) = 1 /\ first[1] = CycleSize(cycle)
  BY <1>1, <1>2
<1>4. IssueSizes = first \o second \o third \o fourth
  BY DEF IssueSizes
<1>. HIDE DEF first, second, third, fourth
<1>5. /\ first \o second \in Seq(Nat)
      /\ cycle # <<>> => Len(first \o second) > 0 /\ (first \o second)[1] = CycleSize(cycle)
  BY <1>3, ConcatProperties
<1>6. /\ first \o second \o third \in Seq(Nat)
      /\ cycle # <<>> => /\ Len(first \o second \o third) > 0
                         /\ (first \o second \o third)[1] = CycleSize(cycle)
  BY <1>3, <1>5, ConcatProperties
<1>7. /\ IssueSizes \in Seq(Nat)
      /\ cycle # <<>> => Len(IssueSizes) > 0 /\ IssueSizes[1] = CycleSize(cycle)
  BY <1>3, <1>4, <1>6, ConcatProperties
<1>. QED BY <1>2, <1>7

(* An agent is always told of the cycle, however many other issues there   *)
(* are, and the message stays within its limit.                            *)
THEOREM CyclesAreTold == GraphSpec => []CycleIsTold
<1>1. GraphInit => ToldInv
  BY DEF GraphInit, ToldInv
<1>2. ASSUME GraphInv, ToldInv
      PROVE  CycleIsTold
  <2>1. Len(IssueSizes) \in Nat
    BY <1>2, CycleIsFirst
  <2>2. SizeOf(IssueSizes, Selected(IssueSizes)) <= MaxBytes
    BY <2>1, SelectedFits
  <2>3. ASSUME cycle # <<>>
        PROVE  Selected(IssueSizes) >= 1
    <3>1. /\ Len(IssueSizes) > 0 /\ IssueSizes[1] \in Nat
          /\ IssueSizes[1] <= MaxCycleNodes + 1
      BY <1>2, <2>3, CycleIsFirst
    <3>2. SizeOf(IssueSizes, 1) <= IssueSizes[1] + 1
      BY <3>1, MessageOfOne
    <3>3. MaxCycleNodes + 2 <= MaxBytes /\ MaxBytes \in Nat /\ MaxCycleNodes \in Nat
      BY GraphAssumption DEF GraphAssumption
    <3>4. SizeOf(IssueSizes, 1) \in Nat
      BY <3>1, MessageOfOne
    <3>5. FitsMessage(IssueSizes, 1)
      BY <3>1, <3>2, <3>3, <3>4 DEF FitsMessage
    <3>. QED BY <2>1, <3>1, <3>5, SelectedFits
  <2>. QED BY <2>2, <2>3 DEF CycleIsTold
<1>. QED BY <1>1, <1>2, ToldStep, GraphInvariant, PTL DEF GraphSpec

-----------------------------------------------------------------------------
(* From here on the answers of a fix check.                                *)

AuthorItem == [finding : Findings \cup {Outside}, disposition : Dispositions,
               reason : {"none", "blank", "given"}]
LaneItem == [finding : Findings, decision : Decisions,
             followup : Severities \cup {"none", "unchanged", "elsewhere"}]
Observation == [finding : Findings, period : Nat, severity : Severities, parent : Nat]
Row == [disposition : Dispositions, decision : Decisions \cup {Undecided},
        by : Lanes \cup {"nobody"}]

AnswersTypeOK ==
  /\ open \subseteq Findings
  /\ period \in [Findings -> Nat] /\ running \in [Findings -> BOOLEAN]
  /\ owner \in [Findings -> Lanes]
  /\ observations \in Seq(Observation)
  /\ round \in Nat /\ phase \in {"author", "review"}
  /\ asked \subseteq Findings
  /\ DOMAIN rows \subseteq Findings /\ \A f \in DOMAIN rows : rows[f] \in Row
  /\ draft \subseteq AuthorItem
  /\ verdicts \in [Lanes -> SUBSET LaneItem]
  /\ answered \subseteq Lanes /\ moves \in Nat

(* An answer waits for its write only while it may still be given, and was *)
(* accepted against what the round still asks.                             *)
DraftAccepted == draft # NoAnswer => phase = "author" /\ ~DispositionIssues(draft)
VerdictAccepted(l) ==
  verdicts[l] # NoAnswer =>
    /\ phase = "review" /\ l \notin answered
    /\ IsFiniteSet(verdicts[l]) /\ ~DecisionIssues(l, verdicts[l])

(* A row is decided by its owner, and is so once the owner has answered.   *)
RowsDecided ==
  phase = "review" =>
    \A f \in DOMAIN rows :
      /\ owner[f] \notin answered => rows[f].decision = Undecided
      /\ owner[f] \in answered => rows[f].decision # Undecided /\ rows[f].by = owner[f]

(* There is always a last observation to show to the owner of a finding.   *)
EachIsObserved ==
  \A f \in Findings : \E n \in DOMAIN observations : observations[n].finding = f

AnswersInv ==
  /\ AnswersTypeOK
  /\ DraftAccepted
  /\ \A l \in Lanes : VerdictAccepted(l)
  /\ RowsDecided
  /\ EachIsObserved
  /\ InheritedWithinPeriod

-----------------------------------------------------------------------------
(* Sequences of observations.                                              *)

(* A finite set is listed completely, and with nothing else.               *)
LEMMA SetToSeqLists ==
  ASSUME NEW S, IsFiniteSet(S)
  PROVE  /\ SetToSeq(S) \in Seq(S)
         /\ \A x \in S : \E n \in DOMAIN SetToSeq(S) : SetToSeq(S)[n] = x
<1> DEFINE card == Cardinality(S)
<1>1. card \in Nat /\ ExistsBijection(1..card, S)
  BY FS_CardinalityType
<1>2. \E f \in [1..card -> S] : IsInjective(f)
  BY <1>1 DEF ExistsBijection, Bijection, Injection
<1>3. SetToSeq(S) \in [1..card -> S] /\ IsInjective(SetToSeq(S))
  BY <1>2 DEF SetToSeq
<1>. HIDE DEF card
<1>4. SetToSeq(S) \in Injection(1..card, S)
  BY <1>3 DEF Injection
<1>5. Cardinality(1..card) = card
  BY <1>1, FS_Interval
<1>6. SetToSeq(S) \in Surjection(1..card, S)
  BY <1>4, <1>5, FS_Injection DEF card
<1>7. SetToSeq(S) \in Seq(S)
  BY <1>1, <1>3, SeqDef
<1>. QED BY <1>3, <1>6, <1>7 DEF Surjection

(* What a comprehension over a finite set yields is finite.                *)
LEMMA ImageIsFinite ==
  ASSUME NEW S, IsFiniteSet(S), NEW g, NEW T, T = {g[x] : x \in S}
  PROVE  IsFiniteSet(T)
<1> DEFINE h == [x \in S |-> g[x]]
<1>1. h \in Surjection(S, T)
  BY DEF Surjection
<1>. QED BY <1>1, FS_Surjection

(* The observation shown to the owner of a finding is one of it.           *)
LEMMA ShownIsOfFinding ==
  ASSUME AnswersTypeOK, EachIsObserved, NEW f \in Findings
  PROVE  /\ Shown(f) \in DOMAIN observations
         /\ observations[Shown(f)].finding = f
<1> DEFINE of == {n \in DOMAIN observations : observations[n].finding = f}
<1>1. Len(observations) \in Nat /\ DOMAIN observations = 1..Len(observations)
  BY DEF AnswersTypeOK
<1>2. of \subseteq 0..Len(observations)
  BY <1>1
<1>3. of # {}
  BY DEF EachIsObserved
<1>4. \E n \in of : \A m \in of : m <= n
  <2>. HIDE DEF of
  <2>. QED BY <1>1, <1>2, <1>3, GreatestExists
<1>5. \E n \in DOMAIN observations :
        /\ observations[n].finding = f
        /\ \A m \in DOMAIN observations : observations[m].finding = f => m <= n
  BY <1>4
<1>. QED BY <1>5 DEF Shown

-----------------------------------------------------------------------------
(* The initial states.                                                     *)

LEMMA InitInv == AnswersInit => AnswersInv
<1>. SUFFICES ASSUME AnswersInit PROVE AnswersInv
  OBVIOUS
<1>1. PICK s \in [Findings -> Severities] :
        observations = SetToSeq({[finding |-> f, period |-> 1, severity |-> s[f], parent |-> 0]
                                : f \in Findings})
  BY DEF AnswersInit
<1> DEFINE first == {[finding |-> f, period |-> 1, severity |-> s[f], parent |-> 0] : f \in Findings}
           make == [f \in Findings |-> [finding |-> f, period |-> 1, severity |-> s[f], parent |-> 0]]
<1>2. IsFiniteSet(first)
  <2>1. first = {make[f] : f \in Findings}
    OBVIOUS
  <2>2. IsFiniteSet(Findings)
    BY AnswersAssumption DEF AnswersAssumption
  <2>. HIDE DEF first, make
  <2>. QED BY <2>1, <2>2, ImageIsFinite
<1>3. first \subseteq Observation /\ \A o \in first : o.parent = 0
  BY DEF Observation
<1>4. \A f \in Findings : \E o \in first : o.finding = f
  <2>. TAKE f \in Findings
  <2>1. [finding |-> f, period |-> 1, severity |-> s[f], parent |-> 0] \in first
    OBVIOUS
  <2>. QED BY <2>1
<1>5. observations = SetToSeq(first)
  BY <1>1
<1>. HIDE DEF first, make
<1>6. /\ observations \in Seq(first)
      /\ \A o \in first : \E n \in DOMAIN observations : observations[n] = o
  BY <1>2, <1>5, SetToSeqLists
<1>7. observations \in Seq(Observation)
  BY <1>3, <1>6
<1>8. EachIsObserved
  <2>. SUFFICES ASSUME NEW f \in Findings
                PROVE  \E n \in DOMAIN observations : observations[n].finding = f
    BY DEF EachIsObserved
  <2>1. PICK o \in first : o.finding = f
    BY <1>4
  <2>. QED BY <1>6, <2>1
<1>9. InheritedWithinPeriod
  <2>1. \A n \in DOMAIN observations : observations[n] \in first
    BY <1>6
  <2>. QED BY <1>3, <2>1 DEF InheritedWithinPeriod
<1>10. AnswersTypeOK
  <2>1. owner \in [Findings -> Lanes]
    BY AnswersAssumption DEF AnswersInit, AnswersAssumption
  <2>2. DOMAIN rows = {}
    BY DEF AnswersInit
  <2>. QED BY <1>7, <2>1, <2>2 DEF AnswersInit, AnswersTypeOK, NoAnswer
<1>11. DraftAccepted /\ \A l \in Lanes : VerdictAccepted(l)
  BY DEF AnswersInit, DraftAccepted, VerdictAccepted
<1>12. RowsDecided
  BY DEF AnswersInit, RowsDecided
<1>. QED BY <1>8, <1>9, <1>10, <1>11, <1>12 DEF AnswersInv

-----------------------------------------------------------------------------
(* The steps.                                                              *)

(* An answer of the author names each finding asked for, and no other.     *)
LEMMA AuthorAnswerStep == AnswersInv /\ AuthorAnswer => AnswersInv'
<1>. SUFFICES ASSUME AnswersInv, AuthorAnswer PROVE AnswersInv'
  OBVIOUS
<1>. USE DEF AnswersInv
<1>1. PICK items \in AuthorAnswers : ~DispositionIssues(items) /\ draft' = items
  BY DEF AuthorAnswer
<1>2. items \subseteq AuthorItem
  <2>1. PICK says \in [Findings \cup {Outside} -> AuthorSays \cup {<<>>}] :
          items = {[finding |-> f, disposition |-> says[f][1], reason |-> says[f][2]]
                     : f \in {g \in DOMAIN says : says[g] # <<>>}}
    BY <1>1 DEF AuthorAnswers
  <2>2. \A f \in DOMAIN says : says[f] # <<>> =>
          says[f] \in Dispositions \X {"none", "blank", "given"}
    BY AnswersAssumption DEF AnswersAssumption
  <2>. QED BY <2>1, <2>2 DEF AuthorItem
<1>3. AnswersTypeOK'
  BY <1>1, <1>2 DEF AnswersTypeOK, AuthorAnswer, ledgerPart, roundPart
<1>4. DraftAccepted'
  BY <1>1 DEF DraftAccepted, DispositionIssues, AuthorAnswer, roundPart
<1>5. ASSUME NEW l \in Lanes PROVE VerdictAccepted(l)'
  BY DEF VerdictAccepted, DecisionIssues, NotMine, BadPairs, Undone, Mine, AuthorAnswer, roundPart
<1>6. RowsDecided'
  BY DEF RowsDecided, AuthorAnswer, roundPart
<1>7. EachIsObserved' /\ InheritedWithinPeriod'
  BY DEF EachIsObserved, InheritedWithinPeriod, AuthorAnswer
<1>. QED BY <1>3, <1>4, <1>5, <1>6, <1>7

LEMMA RecordAuthorRevisionStep == AnswersInv /\ RecordAuthorRevision => AnswersInv'
<1>. SUFFICES ASSUME AnswersInv, RecordAuthorRevision PROVE AnswersInv'
  OBVIOUS
<1>. USE DEF AnswersInv
<1>1. \A f \in About(draft) : \E j \in draft : j.finding = f
  BY DEF About
<1>2. About(draft) \subseteq Findings /\ DOMAIN rows' = About(draft)
  BY DEF RecordAuthorRevision, RowsInsertable
<1>3. ASSUME NEW f \in DOMAIN rows'
      PROVE  rows'[f] \in Row /\ rows'[f].decision = Undecided
  <2>1. PICK i \in draft : /\ i.finding = f
                           /\ rows'[f] = [disposition |-> i.disposition, decision |-> Undecided,
                                          by |-> "nobody"]
    BY <1>1, <1>2, <1>3 DEF RecordAuthorRevision
  <2>2. i.disposition \in Dispositions
    BY DEF AnswersTypeOK, AuthorItem
  <2>. QED BY <2>1, <2>2 DEF Row
<1>4. \A l \in Lanes : verdicts[l] = NoAnswer
  BY DEF VerdictAccepted, RecordAuthorRevision
<1>5. AnswersTypeOK'
  BY <1>2, <1>3 DEF AnswersTypeOK, RecordAuthorRevision, ledgerPart, NoAnswer
<1>6. DraftAccepted'
  BY DEF DraftAccepted, RecordAuthorRevision
<1>7. ASSUME NEW l \in Lanes PROVE VerdictAccepted(l)'
  BY <1>4 DEF VerdictAccepted, RecordAuthorRevision
<1>8. RowsDecided'
  BY <1>3 DEF RowsDecided, RecordAuthorRevision
<1>9. EachIsObserved' /\ InheritedWithinPeriod'
  BY DEF EachIsObserved, InheritedWithinPeriod, RecordAuthorRevision
<1>. QED BY <1>5, <1>6, <1>7, <1>8, <1>9

(* An answer of a lane is finite, and of its type.                         *)
LEMMA LaneAnswersType ==
  ASSUME NEW mine \in SUBSET Findings, NEW items \in LaneAnswers[mine]
  PROVE  items \subseteq LaneItem /\ IsFiniteSet(items)
<1>1. PICK d \in UNION {[S -> Decisions] : S \in SUBSET mine}, x \in OneMore :
        items = Plain(d) \/ items = Plain(d) \cup {x}
  BY DEF LaneAnswers
<1>. PICK S \in SUBSET mine : d \in [S -> Decisions]
  OBVIOUS
<1>2. Plain(d) \subseteq LaneItem
  BY DEF Plain, LaneItem
<1>3. x \in LaneItem
  BY DEF OneMore, LaneItem
<1>4. IsFiniteSet(Plain(d))
  <2> DEFINE make == [f \in S |-> [finding |-> f, decision |-> d[f], followup |-> "none"]]
  <2>1. Plain(d) = {make[f] : f \in S}
    BY DEF Plain
  <2>2. IsFiniteSet(S)
    BY AnswersAssumption, FS_Subset DEF AnswersAssumption
  <2>. HIDE DEF make
  <2>. QED BY <2>1, <2>2, ImageIsFinite
<1>5. IsFiniteSet(Plain(d) \cup {x})
  BY <1>4, FS_AddElement
<1>. QED BY <1>1, <1>2, <1>3, <1>4, <1>5

LEMMA LaneAnswerStep ==
  ASSUME AnswersInv, NEW l \in Lanes, LaneAnswer(l)
  PROVE  AnswersInv'
<1>. USE DEF AnswersInv
<1>1. PICK items \in LaneAnswers[Mine(l)] :
        ~DecisionIssues(l, items) /\ verdicts' = [verdicts EXCEPT ![l] = items]
  BY DEF LaneAnswer
<1>2. Mine(l) \subseteq Findings
  BY DEF Mine, AnswersTypeOK
<1>3. items \subseteq LaneItem /\ IsFiniteSet(items)
  BY <1>1, <1>2, LaneAnswersType
<1>4. AnswersTypeOK'
  BY <1>1, <1>3 DEF AnswersTypeOK, LaneAnswer, ledgerPart, roundPart
<1>5. DraftAccepted'
  BY DEF DraftAccepted, DispositionIssues, LaneAnswer, roundPart
<1>6. ASSUME NEW k \in Lanes PROVE VerdictAccepted(k)'
  <2>1. Mine(k)' = Mine(k) /\ rows' = rows
    BY DEF Mine, LaneAnswer, roundPart
  <2>2. verdicts'[k] = IF k = l THEN items ELSE verdicts[k]
    BY <1>1 DEF AnswersTypeOK
  <2>3. phase' = phase /\ answered' = answered
    BY DEF LaneAnswer, roundPart
  <2>4. CASE k = l
    BY <1>1, <1>3, <2>1, <2>2, <2>3, <2>4
       DEF VerdictAccepted, LaneAnswer, DecisionIssues, NotMine, BadPairs, Undone
  <2>5. CASE k # l
    BY <2>1, <2>2, <2>3, <2>5 DEF VerdictAccepted, DecisionIssues, NotMine, BadPairs, Undone
  <2>. QED BY <2>4, <2>5
<1>7. RowsDecided'
  BY DEF RowsDecided, LaneAnswer, roundPart
<1>8. EachIsObserved' /\ InheritedWithinPeriod'
  BY DEF EachIsObserved, InheritedWithinPeriod, LaneAnswer
<1>. QED BY <1>4, <1>5, <1>6, <1>7, <1>8

(* An accepted answer of a lane is about its own findings and about all of *)
(* them, and its follow-ups repeat what was shown or state a severity.     *)
LEMMA AcceptedVerdict ==
  ASSUME AnswersInv, NEW l \in Lanes, verdicts[l] # NoAnswer
  PROVE  /\ phase = "review" /\ l \notin answered
         /\ verdicts[l] \subseteq LaneItem /\ IsFiniteSet(verdicts[l])
         /\ About(verdicts[l]) = Mine(l)
         /\ \A i \in Followups(verdicts[l]) :
              i.finding \in Findings /\ i.followup \in Severities \cup {"unchanged"}
<1>. USE DEF AnswersInv
<1>1. phase = "review" /\ l \notin answered /\ IsFiniteSet(verdicts[l])
      /\ ~DecisionIssues(l, verdicts[l])
  BY DEF VerdictAccepted
<1>2. verdicts[l] \subseteq LaneItem
  BY DEF AnswersTypeOK
<1>3. About(verdicts[l]) = Mine(l)
  BY <1>1 DEF DecisionIssues, NotMine, Undone
<1>4. \A i \in Followups(verdicts[l]) :
        i.finding \in Findings /\ i.followup \in Severities \cup {"unchanged"}
  BY <1>1, <1>2 DEF DecisionIssues, Followups, LaneItem
<1>. QED BY <1>1, <1>2, <1>3, <1>4

(* A follow-up that the writer resolves states a severity, or takes it     *)
(* from an earlier observation of the finding in the same period.          *)
LEMMA ObservedInPeriod ==
  ASSUME AnswersInv, NEW l \in Lanes, verdicts[l] # NoAnswer,
         NEW i \in Followups(verdicts[l]), Resolvable(i)
  PROVE  /\ Observed(i) \in Observation
         /\ Observed(i).parent # 0 =>
              /\ Observed(i).parent \in DOMAIN observations
              /\ LET p == observations[Observed(i).parent]
                 IN  /\ p.finding = Observed(i).finding
                     /\ p.period = Observed(i).period
                     /\ p.severity = Observed(i).severity
<1>. USE DEF AnswersInv
<1>1. i.finding \in Findings /\ i.followup \in Severities \cup {"unchanged"}
  BY AcceptedVerdict
<1>2. period[i.finding] \in Nat
  BY <1>1 DEF AnswersTypeOK
<1>3. CASE i.followup \in Severities
  BY <1>1, <1>2, <1>3 DEF Observed, EffectiveSeverity, Observation
<1>4. CASE i.followup \notin Severities
  <2>1. Parent(i) = Shown(i.finding)
    BY <1>1, <1>4 DEF Parent
  <2>2. Parent(i) \in DOMAIN observations
    BY <1>1, <2>1, ShownIsOfFinding
  <2>3. observations[Parent(i)] \in Observation /\ Parent(i) \in Nat
    BY <2>2 DEF AnswersTypeOK
  <2>4. SamePeriod(i.finding, observations[Parent(i)])
    BY <1>4 DEF Resolvable
  <2>5. /\ Observed(i).finding = i.finding /\ Observed(i).period = period[i.finding]
        /\ Observed(i).severity = observations[Parent(i)].severity
        /\ Observed(i).parent = Parent(i)
    BY <1>4 DEF Observed, EffectiveSeverity
  <2>6. Observed(i) \in Observation
    BY <1>1, <1>2, <1>4, <2>3 DEF Observed, EffectiveSeverity, Observation
  <2>. QED BY <2>2, <2>4, <2>5, <2>6 DEF SamePeriod
<1>. QED BY <1>3, <1>4

(* What is written of the follow-ups of one answer.                        *)
LEMMA FollowupsAreListed ==
  ASSUME AnswersInv, NEW l \in Lanes, verdicts[l] # NoAnswer,
         \A i \in Followups(verdicts[l]) : Resolvable(i),
         NEW more, more = SetToSeq({Observed(i) : i \in Followups(verdicts[l])})
  PROVE  /\ more \in Seq(Observation)
         /\ \A n \in DOMAIN more : more[n].parent # 0 =>
              /\ more[n].parent \in DOMAIN observations
              /\ LET p == observations[more[n].parent]
                 IN  /\ p.finding = more[n].finding
                     /\ p.period = more[n].period
                     /\ p.severity = more[n].severity
<1> DEFINE new == {Observed(i) : i \in Followups(verdicts[l])}
<1>1. IsFiniteSet(new)
  <2> DEFINE make == [i \in Followups(verdicts[l]) |-> Observed(i)]
  <2>1. IsFiniteSet(Followups(verdicts[l]))
    BY AcceptedVerdict, FS_Subset DEF Followups
  <2>2. new = {make[i] : i \in Followups(verdicts[l])}
    OBVIOUS
  <2>. HIDE DEF new, make
  <2>. QED BY <2>1, <2>2, ImageIsFinite
<1>2. \A o \in new :
        /\ o \in Observation
        /\ o.parent # 0 =>
             /\ o.parent \in DOMAIN observations
             /\ LET p == observations[o.parent]
                IN  p.finding = o.finding /\ p.period = o.period /\ p.severity = o.severity
  BY ObservedInPeriod
<1>. HIDE DEF new
<1>3. more \in Seq(new)
  BY <1>1, SetToSeqLists DEF new
<1>4. more \in Seq(Observation)
  BY <1>2, <1>3
<1>5. \A n \in DOMAIN more : more[n] \in new
  BY <1>3
<1>. QED BY <1>2, <1>4, <1>5

LEMMA RecordReviewDecisionsStep ==
  ASSUME AnswersInv, NEW l \in Lanes, RecordReviewDecisions(l)
  PROVE  AnswersInv'
<1>. USE DEF AnswersInv
<1> DEFINE items == verdicts[l]
           more == SetToSeq({Observed(i) : i \in Followups(items)})
<1>1. items # NoAnswer /\ Writable(items)
  BY DEF RecordReviewDecisions
<1>2. /\ phase = "review" /\ l \notin answered /\ items \subseteq LaneItem
      /\ About(items) = Mine(l)
  BY <1>1, AcceptedVerdict
<1>3. /\ more \in Seq(Observation)
      /\ \A n \in DOMAIN more : more[n].parent # 0 =>
           /\ more[n].parent \in DOMAIN observations
           /\ LET p == observations[more[n].parent]
              IN  /\ p.finding = more[n].finding
                  /\ p.period = more[n].period
                  /\ p.severity = more[n].severity
  BY <1>1, FollowupsAreListed DEF Writable
<1>4. observations' = observations \o more
  BY DEF RecordReviewDecisions
<1>. HIDE DEF more
<1>5. /\ observations' \in Seq(Observation)
      /\ DOMAIN observations \subseteq DOMAIN observations'
      /\ \A n \in DOMAIN observations : observations'[n] = observations[n]
      /\ \A n \in DOMAIN observations' : n \notin DOMAIN observations =>
           /\ n - Len(observations) \in DOMAIN more
           /\ observations'[n] = more[n - Len(observations)]
           /\ \A m \in DOMAIN observations : m < n
  BY <1>3, <1>4 DEF AnswersTypeOK
<1>6. DOMAIN rows' = DOMAIN rows
  BY DEF RecordReviewDecisions
<1>7. ASSUME NEW f \in DOMAIN rows, owner[f] = l
      PROVE  /\ rows'[f].by = l /\ rows'[f].decision \in Decisions
             /\ rows'[f].disposition = rows[f].disposition /\ rows'[f] \in Row
  <2>1. f \in About(items)
    BY <1>2, <1>7 DEF Mine
  <2>2. \E i \in items : i.finding = f
    BY <2>1 DEF About
  <2>3. PICK i \in items : rows'[f] = [rows[f] EXCEPT !.decision = i.decision, !.by = l]
    BY <2>1, <2>2 DEF RecordReviewDecisions
  <2>4. i.decision \in Decisions
    BY <1>2 DEF LaneItem
  <2>5. rows[f] \in Row
    BY DEF AnswersTypeOK
  <2>. QED BY <2>3, <2>4, <2>5 DEF Row
<1>8. ASSUME NEW f \in DOMAIN rows, owner[f] # l
      PROVE  rows'[f] = rows[f]
  <2>1. f \notin About(items)
    BY <1>2, <1>8 DEF Mine
  <2>. QED BY <2>1 DEF RecordReviewDecisions
<1>9. AnswersTypeOK'
  <2>1. open' \subseteq Findings /\ running' \in [Findings -> BOOLEAN]
    BY DEF RecordReviewDecisions, AnswersTypeOK
  <2>2. \A f \in DOMAIN rows' : rows'[f] \in Row
    BY <1>6, <1>7, <1>8 DEF AnswersTypeOK
  <2>3. verdicts' \in [Lanes -> SUBSET LaneItem] /\ answered' \subseteq Lanes
    BY DEF RecordReviewDecisions, AnswersTypeOK, NoAnswer
  <2>. QED BY <1>5, <1>6, <2>1, <2>2, <2>3 DEF RecordReviewDecisions, AnswersTypeOK, roundPart
<1>10. DraftAccepted'
  BY DEF DraftAccepted, DispositionIssues, RecordReviewDecisions, roundPart
<1>11. ASSUME NEW k \in Lanes PROVE VerdictAccepted(k)'
  <2>1. phase' = phase /\ answered' = answered \cup {l}
        /\ verdicts' = [verdicts EXCEPT ![l] = NoAnswer]
    BY DEF RecordReviewDecisions, roundPart
  <2>2. CASE k = l
    BY <2>1, <2>2 DEF VerdictAccepted, AnswersTypeOK
  <2>3. CASE k # l
    <3>1. Mine(k)' = Mine(k)
      BY <1>6 DEF Mine, RecordReviewDecisions, roundPart
    <3>2. \A f \in Mine(k) : rows'[f].disposition = rows[f].disposition
      BY <1>7, <1>8 DEF Mine
    <3>3. verdicts'[k] = verdicts[k]
      BY <2>1, <2>3 DEF AnswersTypeOK
    <3>. QED BY <2>1, <2>3, <3>1, <3>2, <3>3
             DEF VerdictAccepted, DecisionIssues, NotMine, BadPairs, Undone
  <2>. QED BY <2>2, <2>3
<1>12. RowsDecided'
  <2>1. Undecided \notin Decisions
    BY DEF Undecided, Decisions
  <2>2. owner' = owner /\ answered' = answered \cup {l} /\ phase' = phase
    BY DEF RecordReviewDecisions, roundPart
  <2>. QED BY <1>2, <1>6, <1>7, <1>8, <2>1, <2>2 DEF RowsDecided
<1>13. EachIsObserved'
  BY <1>5 DEF EachIsObserved
<1>14. InheritedWithinPeriod'
  <2>. SUFFICES ASSUME NEW n \in DOMAIN observations', observations'[n].parent # 0
                PROVE  /\ observations'[n].parent < n
                       /\ LET p == observations'[observations'[n].parent]
                          IN  /\ p.finding = observations'[n].finding
                              /\ p.period = observations'[n].period
                              /\ p.severity = observations'[n].severity
    BY DEF InheritedWithinPeriod
  <2>1. CASE n \in DOMAIN observations
    <3>1. observations[n].parent \in Nat /\ n \in 1..Len(observations)
      <4>1. observations[n] \in Observation /\ n \in 1..Len(observations)
        BY <2>1 DEF AnswersTypeOK
      <4>. QED BY <4>1 DEF Observation
    <3>2. observations[n].parent < n /\ observations[n].parent \in DOMAIN observations
      BY <1>5, <2>1, <3>1 DEF InheritedWithinPeriod, AnswersTypeOK
    <3>. QED BY <1>5, <2>1, <3>2 DEF InheritedWithinPeriod
  <2>2. CASE n \notin DOMAIN observations
    BY <1>3, <1>5, <2>2
  <2>. QED BY <2>1, <2>2
<1>. QED BY <1>9, <1>10, <1>11, <1>12, <1>13, <1>14

LEMMA RefuseReviewDecisionsStep ==
  ASSUME AnswersInv, NEW l \in Lanes, RefuseReviewDecisions(l)
  PROVE  AnswersInv'
<1>. USE DEF AnswersInv
<1>1. AnswersTypeOK'
  BY DEF AnswersTypeOK, RefuseReviewDecisions, ledgerPart, roundPart, NoAnswer
<1>2. DraftAccepted'
  BY DEF DraftAccepted, DispositionIssues, RefuseReviewDecisions, roundPart
<1>3. ASSUME NEW k \in Lanes PROVE VerdictAccepted(k)'
  <2>1. verdicts'[k] = IF k = l THEN NoAnswer ELSE verdicts[k]
    BY DEF RefuseReviewDecisions, AnswersTypeOK
  <2>. QED BY <2>1 DEF VerdictAccepted, DecisionIssues, NotMine, BadPairs, Undone, Mine,
                       RefuseReviewDecisions, roundPart
<1>4. RowsDecided'
  BY DEF RowsDecided, RefuseReviewDecisions, roundPart
<1>5. EachIsObserved' /\ InheritedWithinPeriod'
  BY DEF EachIsObserved, InheritedWithinPeriod, RefuseReviewDecisions
<1>. QED BY <1>1, <1>2, <1>3, <1>4, <1>5

LEMMA NextRoundStep == AnswersInv /\ NextRound => AnswersInv'
<1>. SUFFICES ASSUME AnswersInv, NextRound PROVE AnswersInv'
  OBVIOUS
<1>. USE DEF AnswersInv
<1>1. DOMAIN rows' = {}
  BY DEF NextRound
<1>2. draft = NoAnswer /\ \A l \in Lanes : verdicts[l] = NoAnswer
  BY DEF NextRound, DraftAccepted, VerdictAccepted
<1>3. AnswersTypeOK'
  BY <1>1 DEF AnswersTypeOK, NextRound, ledgerPart
<1>4. DraftAccepted' /\ \A l \in Lanes : VerdictAccepted(l)'
  BY <1>2 DEF DraftAccepted, VerdictAccepted, NextRound
<1>5. RowsDecided'
  BY DEF RowsDecided, NextRound
<1>6. EachIsObserved' /\ InheritedWithinPeriod'
  BY DEF EachIsObserved, InheritedWithinPeriod, NextRound
<1>. QED BY <1>3, <1>4, <1>5, <1>6

LEMMA OtherCampaignStep ==
  ASSUME AnswersInv, NEW f \in Findings,
         \/ \E r \in {"accepted_reason", "verified_fixed"} : OtherCampaignCloses(f, r)
         \/ OtherCampaignReopens(f)
  PROVE  AnswersInv'
<1>. USE DEF AnswersInv
<1>1. /\ open' \subseteq Findings /\ running' \in [Findings -> BOOLEAN]
      /\ period' \in [Findings -> Nat] /\ moves' \in Nat
  <2>1. CASE OtherCampaignReopens(f)
    BY <2>1 DEF AnswersTypeOK, OtherCampaignReopens
  <2>2. ASSUME NEW r \in {"accepted_reason", "verified_fixed"}, OtherCampaignCloses(f, r)
        PROVE  /\ open' \subseteq Findings /\ running' \in [Findings -> BOOLEAN]
               /\ period' \in [Findings -> Nat] /\ moves' \in Nat
    BY <2>2 DEF AnswersTypeOK, OtherCampaignCloses
  <2>. QED BY <2>1, <2>2
<1>2. UNCHANGED <<roundPart, observations, rows, draft, verdicts, answered>>
  BY DEF OtherCampaignCloses, OtherCampaignReopens
<1>3. AnswersTypeOK'
  BY <1>1, <1>2 DEF AnswersTypeOK, roundPart
<1>4. DraftAccepted'
  BY <1>2 DEF DraftAccepted, DispositionIssues, roundPart
<1>5. ASSUME NEW l \in Lanes PROVE VerdictAccepted(l)'
  BY <1>2 DEF VerdictAccepted, DecisionIssues, NotMine, BadPairs, Undone, Mine, roundPart
<1>6. RowsDecided'
  BY <1>2 DEF RowsDecided, roundPart
<1>7. EachIsObserved' /\ InheritedWithinPeriod'
  BY <1>2 DEF EachIsObserved, InheritedWithinPeriod
<1>. QED BY <1>3, <1>4, <1>5, <1>6, <1>7

LEMMA AnswersInvIsInductive == AnswersInv /\ [AnswersNext]_answersVars => AnswersInv'
<1>. SUFFICES ASSUME AnswersInv, [AnswersNext]_answersVars PROVE AnswersInv'
  OBVIOUS
<1>1. CASE UNCHANGED answersVars
  BY <1>1 DEF answersVars, ledgerPart, roundPart, AnswersInv, AnswersTypeOK, DraftAccepted,
              DispositionIssues, VerdictAccepted, DecisionIssues, NotMine, BadPairs, Undone,
              Mine, RowsDecided, EachIsObserved, InheritedWithinPeriod
<1>2. CASE AnswersNext
  BY <1>2, AuthorAnswerStep, RecordAuthorRevisionStep, LaneAnswerStep,
     RecordReviewDecisionsStep, RefuseReviewDecisionsStep, NextRoundStep, OtherCampaignStep
     DEF AnswersNext
<1>. QED BY <1>1, <1>2

(* The invariant that the properties below follow from.                    *)
THEOREM AnswersInvariant == AnswersSpec => []AnswersInv
  BY InitInv, AnswersInvIsInductive, PTL DEF AnswersSpec

(* Findings, rows, observations and answers always have their type.        *)
THEOREM AnswersTypeCorrect == AnswersSpec => []AnswersTypeOK
<1>1. AnswersInv => AnswersTypeOK
  BY DEF AnswersInv
<1>. QED BY <1>1, AnswersInvariant, PTL

(* Follow-ups take their severity from the same severity period of the     *)
(* same finding, whatever happened between the answer and its write        *)
(* (resolve_effective_severity, unchanged_from).                           *)
THEOREM SeveritiesStayInPeriod == AnswersSpec => []InheritedWithinPeriod
<1>1. AnswersInv => InheritedWithinPeriod
  BY DEF AnswersInv
<1>. QED BY <1>1, AnswersInvariant, PTL

(* find_incomplete_issued reports exactly the rows whose owner has not had *)
(* its answer written, and these are undecided.                            *)
THEOREM GateWaitsForOwners == AnswersSpec => []OnlyOwnersAreWaitedFor
<1>1. AnswersInv => OnlyOwnersAreWaitedFor
  <2>. SUFFICES ASSUME AnswersInv, phase = "review"
                PROVE  /\ IncompleteIssued = {f \in DOMAIN rows : owner[f] \notin answered}
                       /\ \A f \in IncompleteIssued : rows[f].decision = Undecided
    BY DEF OnlyOwnersAreWaitedFor
  <2>1. \A f \in DOMAIN rows :
          /\ owner[f] \notin answered => rows[f].decision = Undecided
          /\ owner[f] \in answered => rows[f].decision # Undecided /\ rows[f].by = owner[f]
    BY DEF AnswersInv, RowsDecided
  <2>. QED BY <2>1 DEF IncompleteIssued
<1>. QED BY <1>1, AnswersInvariant, PTL

(* What validate_agent_result lets pass, the CHECKs and triggers of        *)
(* finding_round and review_observation let pass too: an accepted answer   *)
(* fails at its write only when another campaign has moved the finding     *)
(* to another severity period in the meantime.                             *)
THEOREM AcceptedAnswersAreWritable == AnswersSpec => []AcceptedIsWritable
<1>1. AnswersInv => AcceptedIsWritable
  <2>. SUFFICES ASSUME AnswersInv PROVE AcceptedIsWritable
    OBVIOUS
  <2>1. RowsInsertable(draft)
    <3>1. CASE draft = NoAnswer
      BY <3>1 DEF RowsInsertable, About, Repeated, NoAnswer
    <3>2. CASE draft # NoAnswer
      <4>1. About(draft) \subseteq Findings /\ ~Repeated(draft)
        BY <3>2 DEF AnswersInv, DraftAccepted, DispositionIssues, AnswersTypeOK
      <4>2. \A i \in draft : i.disposition # "fixed" => i.reason # "none"
        BY <3>2 DEF AnswersInv, DraftAccepted, DispositionIssues, ReasonMissing
      <4>. QED BY <4>1, <4>2 DEF RowsInsertable
    <3>. QED BY <3>1, <3>2
  <2>2. ASSUME NEW l \in Lanes, ~LeftBehind(verdicts[l])
        PROVE  Writable(verdicts[l])
    <3>1. CASE verdicts[l] = NoAnswer
      BY <3>1 DEF Writable, RowsDecidable, Followups, Repeated, NoAnswer
    <3>2. CASE verdicts[l] # NoAnswer
      <4>1. /\ phase = "review" /\ l \notin answered /\ About(verdicts[l]) = Mine(l)
            /\ \A i \in Followups(verdicts[l]) :
                 i.finding \in Findings /\ i.followup \in Severities \cup {"unchanged"}
        BY <3>2, AcceptedVerdict
      <4>2. ~Repeated(verdicts[l]) /\ BadPairs(l, verdicts[l]) = {}
        BY <3>2 DEF AnswersInv, VerdictAccepted, DecisionIssues
      <4>3. \A i \in verdicts[l] : i.finding \in Mine(l)
        BY <4>1 DEF About
      <4>4. RowsDecidable(verdicts[l])
        BY <4>1, <4>2, <4>3 DEF RowsDecidable, BadPairs, Mine, AnswersInv, RowsDecided
      <4>5. ASSUME NEW i \in Followups(verdicts[l]), i.followup \notin Severities
            PROVE  SamePeriod(i.finding, observations[Parent(i)])
        <5>1. Parent(i) = Shown(i.finding)
          BY <4>1, <4>5 DEF Parent
        <5>2. observations[Shown(i.finding)].finding = i.finding
          BY <4>1, ShownIsOfFinding DEF AnswersInv
        <5>3. running[i.finding] /\ observations[Shown(i.finding)].period = period[i.finding]
          BY <2>2, <4>5 DEF LeftBehind
        <5>. QED BY <5>1, <5>2, <5>3 DEF SamePeriod
      <4>. QED BY <4>4, <4>5 DEF Writable, Resolvable
    <3>. QED BY <3>1, <3>2
  <2>. QED BY <2>1, <2>2 DEF AcceptedIsWritable
<1>. QED BY <1>1, AnswersInvariant, PTL
================================================================================
