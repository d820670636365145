------------------------------ MODULE CaseProps ------------------------------
(***************************************************************************)
(* What case response promises.                                            *)
(***************************************************************************)
EXTENDS CaseResponse

Ran(a) == action[a] # None /\ action[a].before # None

\* Whatever was executed had the approvals its risk asks for, and from as many
\* different people: no order of votes, late rejections, second votes and
\* executions gets a critical action past one person (approvals/workflow.py,
\* four eyes).
FourEyes ==
  \A a \in Actions : Ran(a) =>
    Cardinality({votes[a][i].by : i \in Approvals(votes[a])})
      >= RequiredApprovals(action[a].risk)

\* The adapters are called at most once for one case, action type and target,
\* however often an action is staged again, executed again, rolled back or
\* its case reopened (actions/idempotency.py).
ExactlyOnce == \A k \in Key : calls[k] <= 1

\* One request at a time, as on the command line and in the validation runner.
Serial == \E th \in Threads : pool = {th}

\* Served one at a time, requests execute a key at most once.
ExactlyOnceIfSerial == Serial => ExactlyOnce

=============================================================================
