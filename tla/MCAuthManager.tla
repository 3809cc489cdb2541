---------------------------- MODULE MCAuthManager ----------------------------
(* Job mixes and symmetry for the runs of AuthManager.                      *)
EXTENDS AuthManager, TLC

\* A started manager and everything its window can ask of it.
StartedOps == {"acquire", "poll", "reauth", "add", "switch", "sign_out"}

\* A manager whose start() runs along with the first clicks.
ColdOps == {"start", "add", "acquire", "poll", "pause"}

\* Bound: three jobs of any kind, or four about one account that is signed out
\* and in again.
JobMix ==
    \/ \E t \in Tasks : job[t].op = "none"
    \/ /\ \E a \in Accounts : entries \cup present \cup {job[t].account : t \in Tasks} \subseteq {a, NoAccount}
       /\ \A op \in {"sign_out", "add"} : Cardinality({t \in Tasks : job[t].op = op}) <= 1
       /\ \A t \in Tasks : job[t].op \in {"acquire", "sign_out", "add"}

KeepsJobMix == JobMix'

\* Nothing tells two accounts apart, and no choice is made among them by CHOOSE.
AccountSymmetry == Permutations(Accounts)
=============================================================================
