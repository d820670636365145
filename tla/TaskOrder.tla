------------------------------ MODULE TaskOrder ------------------------------
(***************************************************************************)
(* What the order of an investigation promises: tasks are ordered one by   *)
(* one, each once, and none before everything it depends on.  The          *)
(* algorithm of InvestigationDag implements it.                            *)
(***************************************************************************)
EXTENDS Naturals, Sequences, TLAPS

CONSTANT Tasks

VARIABLES deps, order

orderVars == <<deps, order>>

Ordered(s) == {s[i] : i \in DOMAIN s}

OrderInit == deps \in [Tasks -> SUBSET Tasks] /\ order = <<>>

OrderTask(n) ==
  /\ n \notin Ordered(order) /\ deps[n] \subseteq Ordered(order)
  /\ order' = Append(order, n)
  /\ UNCHANGED deps

OrderSpec == OrderInit /\ [][\E n \in Tasks : OrderTask(n)]_orderVars

\* No task is ordered before everything it depends on (InvestigationDAG
\* .get_execution_order, which execute follows).
DependenciesFirst ==
  \A i \in DOMAIN order : \A d \in deps[order[i]] :
    \E j \in 1..(i - 1) : order[j] = d

\* No task is ordered twice.
NoTaskTwice ==
  \A i, j \in DOMAIN order : order[i] = order[j] => i = j

OrderTypeOK == deps \in [Tasks -> SUBSET Tasks] /\ order \in Seq(Tasks)

OrderInv == OrderTypeOK /\ DependenciesFirst /\ NoTaskTwice

\* Appending a task that is new and whose dependencies are ordered keeps the
\* order right.
LEMMA AppendKeepsOrder ==
  ASSUME OrderInv, NEW n \in Tasks, OrderTask(n)
  PROVE  OrderInv'
<1> USE DEF OrderInv, OrderTypeOK
<1>1. /\ OrderTypeOK'
      /\ Len(order') = Len(order) + 1
      /\ \A i \in 1..Len(order) : order'[i] = order[i]
      /\ order'[Len(order) + 1] = n
  BY DEF OrderTask
<1>2. DOMAIN order = 1..Len(order) /\ DOMAIN order' = 1..(Len(order) + 1)
  BY <1>1
<1>3. DependenciesFirst'
  <2> SUFFICES ASSUME NEW i \in 1..(Len(order) + 1), NEW d \in deps[order'[i]]
               PROVE  \E j \in 1..(i - 1) : order'[j] = d
    BY <1>2 DEF DependenciesFirst, OrderTask
  <2>1. CASE i = Len(order) + 1
    <3>1. d \in Ordered(order)
      BY <1>1, <2>1 DEF OrderTask
    <3>2. PICK j \in 1..Len(order) : order[j] = d
      BY <3>1, <1>2 DEF Ordered
    <3> QED BY <3>2, <2>1, <1>1
  <2>2. CASE i \in 1..Len(order)
    <3>1. PICK j \in 1..(i - 1) : order[j] = d
      BY <2>2, <1>1, <1>2 DEF DependenciesFirst
    <3>2. j \in 1..Len(order)
      BY <2>2, <1>1
    <3> QED BY <3>1, <3>2, <1>1
  <2> QED BY <2>1, <2>2
<1>4. NoTaskTwice'
  <2>1. \A i \in 1..Len(order) : order[i] # n
    BY <1>2 DEF OrderTask, Ordered
  <2>2. \A i, j \in 1..Len(order) : order[i] = order[j] => i = j
    BY <1>2 DEF NoTaskTwice
  <2> QED BY <2>1, <2>2, <1>1, <1>2 DEF NoTaskTwice
<1> QED BY <1>1, <1>3, <1>4

\* In every reachable state each task is ordered once and after everything it
\* depends on.
THEOREM OrderIsSafe == OrderSpec => [](DependenciesFirst /\ NoTaskTwice)
<1>1. OrderInit => OrderInv
  BY DEF OrderInit, OrderInv, OrderTypeOK, DependenciesFirst, NoTaskTwice
<1>2. OrderInv /\ [\E n \in Tasks : OrderTask(n)]_orderVars => OrderInv'
  <2> SUFFICES ASSUME OrderInv, [\E n \in Tasks : OrderTask(n)]_orderVars
               PROVE  OrderInv'
    OBVIOUS
  <2>1. CASE \E n \in Tasks : OrderTask(n)
    BY <2>1, AppendKeepsOrder
  <2>2. CASE UNCHANGED orderVars
    BY <2>2 DEF orderVars, OrderInv, OrderTypeOK, DependenciesFirst, NoTaskTwice
  <2> QED BY <2>1, <2>2
<1>3. OrderInv => DependenciesFirst /\ NoTaskTwice
  BY DEF OrderInv
<1> QED BY <1>1, <1>2, <1>3, PTL DEF OrderSpec
=============================================================================
