--------------------------- MODULE MCCloudPcActions -------------------------
(***************************************************************************)
(* CloudPcActions with interchangeable accounts and task slots: which slot a *)
(* task has is not in the code, so the view keeps what the tasks are, those  *)
(* of the queue in its order.                                                *)
(***************************************************************************)
EXTENDS CloudPcActions, TLC

AccountSymmetry == Permutations(Accounts)

TaskView(t) == <<job[t], group[t], pc[t], cancel[t], reply[t], req[t]>>

Waiting == {t \in Tasks : Suspended(t)}

ActionsView ==
    <<uiVars, contractDisabled,
      [i \in DOMAIN ready |-> TaskView(ready[i])],
      [v \in {TaskView(t) : t \in Waiting} |->
          Cardinality({t \in Waiting : TaskView(t) = v})]>>
=============================================================================
