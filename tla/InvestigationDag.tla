--------------------------- MODULE InvestigationDag ---------------------------
(***************************************************************************)
(* The order in which an investigation runs its tasks                      *)
(* (security_operations/investigation/dag.py): Kahn's algorithm over the   *)
(* registered tasks and what each depends on, one action per task taken    *)
(* from the queue, and the fall-back to the order of registration when     *)
(* the dependencies have a cycle.                                          *)
(*                                                                         *)
(* A dependency that is not registered is skipped by the code; Tasks are   *)
(* the registered ones.  Tasks are registered in the order of Registered.  *)
(* Tasks that become ready together are queued in that order.              *)
(***************************************************************************)
EXTENDS Naturals, Sequences, FiniteSets

CONSTANT Registered   \* sequence of the tasks

Once(s) == \A i, j \in DOMAIN s : s[i] = s[j] => i = j
Elements(s) == {s[i] : i \in DOMAIN s}

Tasks == Elements(Registered)

ASSUME DagAssumption == Registered \in Seq(Tasks) /\ Once(Registered)

VARIABLES
  deps,      \* dependencies of each task
  inDegree,  \* dependencies not yet ordered, by the algorithm's count
  queue,     \* tasks whose count is zero, not yet ordered
  order,     \* tasks ordered so far
  answer     \* what get_execution_order returns, <<>> before it does

dagVars == <<deps, inDegree, queue, order, answer>>

\* Mutant: a task is ready while one of its dependencies is still missing.
ReadyAtOne(counts, n) == counts[n] <= 1

Ready(counts, n) == counts[n] = 0

Before(m, n) ==
  \E i, j \in DOMAIN Registered : i < j /\ Registered[i] = m /\ Registered[j] = n

\* The sequence that lists the tasks of S in the order of registration, alone
\* in a set.
InRegisteredOrder(S) ==
  {s \in [1..Cardinality(S) -> S] :
     Elements(s) = S /\ \A i, j \in DOMAIN s : i < j => Before(s[i], s[j])}

DagInit ==
  /\ deps \in [Tasks -> SUBSET Tasks]
  /\ inDegree = [n \in Tasks |-> Cardinality(deps[n])]
  /\ queue \in InRegisteredOrder({n \in Tasks : Ready(inDegree, n)})
  /\ order = <<>>
  /\ answer = <<>>

Dependents(n) == {m \in Tasks : n \in deps[m]}

\* Take the head of the queue, count it off at its dependents and queue those
\* that have become ready.
TakeTask ==
  /\ answer = <<>> /\ queue # <<>>
  /\ LET node == Head(queue)
         counts == [n \in Tasks |->
                      IF n \in Dependents(node) THEN inDegree[n] - 1 ELSE inDegree[n]]
     IN
     /\ inDegree' = counts
     /\ \E next \in InRegisteredOrder({n \in Dependents(node) : Ready(counts, n)}) :
          queue' = Tail(queue) \o next
     /\ order' = Append(order, node)
  /\ UNCHANGED <<deps, answer>>

Answer == IF Len(order) # Len(Registered) THEN Registered ELSE order

Return ==
  /\ answer = <<>> /\ queue = <<>>
  /\ answer' = Answer
  /\ UNCHANGED <<deps, inDegree, queue, order>>

DagNext == TakeTask \/ Return

DagSpec == DagInit /\ [][DagNext]_dagVars

-----------------------------------------------------------------------------
(* Properties *)

\* The algorithm orders each task once, after everything it depends on.
Promise == INSTANCE TaskOrder
ImplementsTaskOrder == Promise!OrderSpec

=============================================================================
