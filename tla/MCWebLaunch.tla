----------------------------- MODULE MCWebLaunch -----------------------------
(* WebLaunch with interchangeable accounts and task slots, as in            *)
(* MCCloudPcProvider.                                                       *)
EXTENDS WebLaunch, TLC

CONSTANT ws

\* All RemoteApps are of one workspace.
MCWorkspaceOf == [k \in RemoteApps |-> ws]

LaunchSymmetry == Permutations(Accounts) \cup Permutations(RemoteApps)

TaskView(t) == <<job[t], group[t], pc[t], cancel[t], reply[t]>>

Waiting == {t \in Tasks : Suspended(t)}

LaunchView ==
    <<accountVars, windowVars, abandoned, historyVars,
      [i \in DOMAIN ready |-> TaskView(ready[i])],
      [v \in {TaskView(t) : t \in Waiting} |->
          Cardinality({t \in Waiting : TaskView(t) = v})]>>
=============================================================================
