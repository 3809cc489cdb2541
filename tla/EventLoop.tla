------------------------------ MODULE EventLoop ------------------------------
(***************************************************************************)
(* The asyncio loop that asyncio_bridge.py pumps from the GTK main loop,    *)
(* and the task groups of task_registry.py on it.  Ready tasks run in the   *)
(* order they became ready, each up to its next await.  cancel() makes a    *)
(* suspended task ready with a CancelledError; a task already in the queue  *)
(* keeps its place and gets it there.                                       *)
(*                                                                          *)
(* Task slots are reused: a task that has ended is an idle slot.            *)
(***************************************************************************)
EXTENDS Sequences, Integers, FiniteSets

CONSTANTS
    Accounts,
    NoAccount,     \* the application's task group
    Tasks,         \* task slots
    NoTask

ASSUME LoopAssumption ==
    NoAccount \notin Accounts /\ NoTask \notin Tasks /\ IsFiniteSet(Tasks)

VARIABLES
    ready,         \* the loop's queue of tasks to resume
    job,           \* what a task was created for
    group,         \* the account whose group tracks it; NoAccount after destroy_group
    pc,            \* where it is suspended
    cancel,        \* "yes": a CancelledError is coming; "lost": one that turns into an
                   \* InvalidStateError on its way (see Losing)
    reply          \* what the executor call it awaits returned

loopVars == <<ready, job, group, pc, cancel, reply>>

NoJob == [kind |-> "none", account |-> NoAccount, arg |-> NoAccount]

Live(t) == pc[t] # "idle"

Idle == {t \in Tasks : ~Live(t)}

Queued(t) == \E i \in DOMAIN ready : ready[i] = t

Suspended(t) == Live(t) /\ ~Queued(t)

\* t runs: it is at the head of the queue, and was not cancelled.
Running(t) == ready # <<>> /\ Head(ready) = t /\ cancel[t] = "no"

\* What cancel_group(a) cancels.
Tracked(a) == {t \in Tasks : Live(t) /\ group[t] = a}

InitLoop ==
    /\ ready = <<>>
    /\ job = [t \in Tasks |-> NoJob]
    /\ group = [t \in Tasks |-> NoAccount]
    /\ pc = [t \in Tasks |-> "idle"]
    /\ cancel = [t \in Tasks |-> "no"]
    /\ reply = [t \in Tasks |-> "none"]

\* The tasks of S in some order; they do not wait for one another.
AsSeq(S) ==
    CHOOSE f \in [1..Cardinality(S) -> S] : \A i, j \in 1..Cardinality(S) : i # j => f[i] # f[j]

\* The slots n new tasks take, in the order they are created.
Slots(n) == CHOOSE f \in [1..n -> Idle] : \A i, j \in 1..n : i # j => f[i] # f[j]

\* The one step of the loop: t runs up to its next await, point ("idle" when it
\* ends), cancelling the tasks of dead, of which those of lost get to see
\* something else, dropping those of untracked from their group, and creating a
\* task for each of jobs.
TurnDropping(t, point, dead, lost, untracked, jobs) ==
    LET new  == Slots(Len(jobs))
        made == {new[i] : i \in DOMAIN new}
        nth(u) == CHOOSE i \in DOMAIN new : new[i] = u
    IN
    /\ Len(jobs) <= Cardinality(Idle)
    /\ ready' = Tail(ready) \o AsSeq({u \in dead : Suspended(u)})
                            \o [i \in DOMAIN jobs |-> new[i]]
    /\ job' = [u \in Tasks |-> IF u \in made THEN jobs[nth(u)]
                               ELSE IF u = t /\ point = "idle" THEN NoJob ELSE job[u]]
    /\ group' = [u \in Tasks |-> IF u \in made THEN jobs[nth(u)].account
                                 ELSE IF u \in untracked \/ (u = t /\ point = "idle") THEN NoAccount
                                 ELSE group[u]]
    /\ pc' = [u \in Tasks |-> IF u \in made THEN "new" ELSE IF u = t THEN point ELSE pc[u]]
    /\ cancel' = [u \in Tasks |-> IF u = t THEN "no"
                                  ELSE IF u \in lost THEN "lost"
                                  ELSE IF u \in dead THEN "yes" ELSE cancel[u]]
    /\ reply' = [reply EXCEPT ![t] = "none"]

Turn(t, point, dead, lost, jobs) == TurnDropping(t, point, dead, lost, {}, jobs)

Run(t, point) == Turn(t, point, {}, {}, <<>>)

\* A callback of the main loop, outside of any task, creates one.
CreateTask(j) ==
    LET t == Slots(1)[1] IN
    /\ Idle # {}
    /\ ready' = Append(ready, t)
    /\ job' = [job EXCEPT ![t] = j]
    /\ group' = [group EXCEPT ![t] = j.account]
    /\ pc' = [pc EXCEPT ![t] = "new"]
    /\ UNCHANGED <<cancel, reply>>

\* What a suspended task awaits has happened: a thread returned r, a timer fired.
Wake(t, r) ==
    /\ Suspended(t)
    /\ ready' = Append(ready, t)
    /\ reply' = [reply EXCEPT ![t] = r]
    /\ UNCHANGED <<job, group, pc, cancel>>

\* The CancelledError reaches t, which has no cleanup that awaits.
Cancelled(t) ==
    /\ ready # <<>> /\ Head(ready) = t /\ cancel[t] = "yes"
    /\ Run(t, "idle")
=============================================================================
