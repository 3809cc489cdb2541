------------------------------- MODULE Bridge -------------------------------
(***************************************************************************)
(* The event loop's way down (asyncio_bridge.py, app.py do_shutdown): tasks *)
(* are cancelled, the loop is pumped until they have settled, the executor  *)
(* is joined, and one deadline is shared by both.  Executor threads are     *)
(* daemons: an abandoned one runs until the interpreter ends.               *)
(***************************************************************************)
CONSTANTS
    Calls         \* run_blocking calls of the component above, with the tasks awaiting them

VARIABLES
    phase,        \* how far the process is
    late,         \* the shutdown deadline has passed
    call          \* where each call is, and whether its task still waits

bridgeVars == <<phase, late, call>>

Phases == {"off", "up", "settle", "join", "exit"}

\* "loop": the task awaits something before it submits its call.
Places == {"none", "loop", "queued", "running"}

NoCall == [at |-> "none", awaited |-> FALSE]

BridgeTypeOK ==
    /\ phase \in Phases
    /\ late \in BOOLEAN
    /\ call \in [Calls -> [at : Places, awaited : BOOLEAN]]

Running(c) == call[c].at = "running"

\* asyncio.all_tasks(loop) that are not done.
Unsettled == {c \in Calls : call[c].awaited}

BridgeInit ==
    /\ phase = "off"
    /\ late = FALSE
    /\ call = [c \in Calls |-> NoCall]

-----------------------------------------------------------------------------
(* run_blocking in a task of a group.                                       *)

TaskCreated(c) ==
    /\ call[c] = NoCall
    /\ call' = [call EXCEPT ![c] = [at |-> "loop", awaited |-> TRUE]]
    /\ UNCHANGED <<phase, late>>

Submitted(c) ==
    /\ call[c] = [at |-> "loop", awaited |-> TRUE]
    /\ call' = [call EXCEPT ![c].at = "queued"]
    /\ UNCHANGED <<phase, late>>

\* A worker takes it from the queue.
Taken(c) ==
    /\ call[c].at = "queued"
    /\ call' = [call EXCEPT ![c].at = "running"]
    /\ UNCHANGED <<phase, late>>

\* The call returns or raises and its task, if it still waits, runs to its end.
Ended(c) ==
    /\ call[c] # NoCall
    /\ call' = [call EXCEPT ![c] = NoCall]
    /\ UNCHANGED <<phase, late>>

-----------------------------------------------------------------------------
(* do_shutdown and shutdown, on the loop's thread.                          *)

\* destroy_group of every group; other tasks may clean up, ignore it or be in
\* no group, and other calls may be in a thread.
Quit ==
    /\ phase = "up"
    /\ phase' = "settle"
    /\ UNCHANGED <<late, call>>

\* A CancelledError is delivered.  A call still queued is cancelled with its
\* future, one that runs is not.
TaskSettles(c) ==
    /\ phase = "settle"
    /\ c \in Unsettled
    /\ call' = [call EXCEPT ![c] = IF Running(c) THEN [call[c] EXCEPT !.awaited = FALSE] ELSE NoCall]
    /\ UNCHANGED <<phase, late>>

DeadlinePasses ==
    /\ phase \in {"settle", "join"} /\ ~late
    /\ late' = TRUE
    /\ UNCHANGED <<phase, call>>

\* Mutant: tasks are awaited without the deadline.
SettledUnbounded ==
    /\ phase = "settle"
    /\ Unsettled = {}
    /\ phase' = "join"
    /\ call' = [c \in Calls |-> IF call[c].at = "queued" THEN [call[c] EXCEPT !.at = "none"] ELSE call[c]]
    /\ UNCHANGED late

\* _settle_pending_tasks returns; the executor drops what it has not started.
Settled ==
    /\ phase = "settle"
    /\ late \/ Unsettled = {}
    /\ phase' = "join"
    /\ call' = [c \in Calls |-> IF call[c].at = "queued" THEN [call[c] EXCEPT !.at = "none"] ELSE call[c]]
    /\ UNCHANGED late

\* Mutant: the join is not awaited.
JoinedAtOnce ==
    /\ phase = "join"
    /\ phase' = "exit"
    /\ UNCHANGED <<late, call>>

\* The helper thread has joined the workers, or is given up; uninstall.
Joined ==
    /\ phase = "join"
    /\ late \/ \A c \in Calls : ~Running(c)
    /\ phase' = "exit"
    /\ UNCHANGED <<late, call>>

-----------------------------------------------------------------------------
(* Process start and end.                                                   *)

Installed ==
    /\ phase = "off"
    /\ phase' = "up"
    /\ UNCHANGED late

Gone ==
    /\ phase' = "off"
    /\ late' = FALSE
    /\ call' = [c \in Calls |-> NoCall]
=============================================================================
