------------------------- MODULE MCCloudPcProvider -------------------------
(***************************************************************************)
(* CloudPcProvider with interchangeable accounts and task slots.  Which     *)
(* slot a task has is not in the code: the view keeps what the tasks are,   *)
(* those of the queue in its order.                                         *)
(***************************************************************************)
EXTENDS CloudPcProvider, TLC

\* Bound: one account at a time is excepted from a property; most except the accounts
\* of both variables, and nothing tells accounts apart.
OneExcepted == Cardinality(outlived) + Cardinality(unlisted) <= 1

\* Bound: the refreshes of one account fail or have no list; the results of another
\* account tell nothing about them.
OneFares ==
    Cardinality({a \in Accounts : last[a] = "no_list" \/ latest[a] \notin {"none", "enumerated"}}) <= 1

AccountSymmetry == Permutations(Accounts)

\* _poll_task and _poll_account_id are only read while that task is not done, and
\* the account is then the task's own (second part of OnePollLoop).
TaskView(t) == <<job[t], group[t], pc[t], cancel[t], reply[t], t \in CurrentPoll>>

Waiting == {t \in Tasks : Suspended(t)}

ProviderView ==
    <<accountVars, resultVars, historyVars,
      [i \in DOMAIN ready |-> TaskView(ready[i])],
      [v \in {TaskView(t) : t \in Waiting} |->
          Cardinality({t \in Waiting : TaskView(t) = v})]>>
=============================================================================
