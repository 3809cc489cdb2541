----------------------------- MODULE AuthManager -----------------------------
(***************************************************************************)
(* AuthManager (auth_manager.py) on one asyncio event loop, with the MSAL   *)
(* calls it hands to executor threads, the serializer of its token cache    *)
(* (auth_cache.py) and the task groups its callers run in                   *)
(* (task_registry.py).                                                      *)
(*                                                                          *)
(* A task runs from one await to the next in a single step; between two     *)
(* awaits nothing else runs on the loop.  Which ready task is resumed next  *)
(* is left open (the loop's queue is FIFO, one of those orders).  A thread  *)
(* is not stopped when the task awaiting it is cancelled.                   *)
(***************************************************************************)
EXTENDS AuthStates, Sequences, FiniteSets

CONSTANTS
    Accounts,      \* home_account_ids
    Scopes,        \* the scope lists a token is requested for
    ReadScope,     \* the one enumeration asks for
    Tasks,         \* the asyncio tasks of one behaviour; each runs one job
    Ops,           \* the jobs the environment schedules
    Errors,        \* the MsalErrorCategory values MSAL's results fall in
    RetryCap,      \* bound on a record's claims-challenge counter
    NoAccount, NoTask

AllOps == {"start", "acquire", "poll", "reauth", "add", "switch", "sign_out", "pause"}

ASSUME AuthManagerAssumption ==
    /\ Ops \subseteq AllOps
    /\ Errors \subseteq MsalErrorCategory \ {"NETWORK_ERROR"}
    /\ NoAccount \notin Accounts
    /\ NoTask \notin Tasks
    /\ ReadScope \in Scopes
    /\ RetryCap \in Nat

VARIABLES
    app,        \* self._app is set
    present,    \* the keys of self.accounts
    rec,        \* their AccountAuthState records
    epoch,      \* which AccountAuthState object: one more for each one constructed
    active,     \* self.active_account_id
    told,       \* the state the auth-state listeners were last told of
    inflight,   \* self._silent_inflight: the task whose shared future is registered
    locks,      \* self._silent_locks: the task that created the registered lock
    lockQ,      \* of each lock: the holder first, then the tasks waiting for it
    fut,        \* the shared future a task created, if any
    serQ,       \* the cache serializer: the holder first, then the waiting tasks
    entries,    \* the MSAL cache: accounts it lists
    tokens,     \* the MSAL cache: accounts it holds a refresh token of
    listed,     \* what start()'s get_accounts() read
    thread,     \* the executor call of a task: what it runs, what it returned
    job,        \* what a task was created to do
    pc,         \* where a task is suspended
    frame,      \* a task's locals that outlive an await
    cancel,     \* a task has a CancelledError coming at its next step
    out,        \* how a task, or the last pass of a poll loop, ended
    asked       \* history: cancel() was called on the task

managerVars == <<app, present, rec, epoch, active, told>>
flightVars  == <<inflight, locks, lockQ, fut>>
cacheVars   == <<entries, tokens, listed>>
taskVars    == <<job, pc, frame, cancel, out, asked>>
vars == <<managerVars, flightVars, serQ, cacheVars, thread, taskVars>>

Keys == Accounts \X Scopes

Calls == {"none", "build", "list", "find", "acquire", "remove", "redeem"}

\* What awaiting a shared future, or a task, can end with.  "invalid_state" is
\* the InvalidStateError of asyncio, "type_error" Python's.
Outcomes == {"token", "ok", "auth_error", "unknown", "not_started", "signin_cancelled",
             "error", "cancelled", "invalid_state", "type_error"}

Points == {"idle", "new", "sleep", "future", "lock", "find", "serializer", "msal",
           "browser", "build", "list", "done"}

\* The states of a loop lock or of the serializer are queues: leaving one, from
\* wherever one stands in it, is release, cancelled wait and hand-over at once.
\* Nobody stands in one twice.
Without(q, t) ==
    IF \E i \in 1..Len(q) : q[i] = t
    THEN LET i == CHOOSE i \in 1..Len(q) : q[i] = t
         IN  SubSeq(q, 1, i - 1) \o SubSeq(q, i + 1, Len(q))
    ELSE q

Holds(q, t) == q # <<>> /\ Head(q) = t

Key(t) == <<job[t].account, job[t].scope>>

Live(t) == pc[t] \notin {"idle", "done"}

-----------------------------------------------------------------------------
(* Initial states.                                                          *)

NoJob == [op |-> "none", account |-> NoAccount, scope |-> NoAccount]

NoFrame == [epoch |-> 0, leader |-> NoTask, lock |-> NoTask, saved |-> "SIGNED_OUT"]

NoThread == [call |-> "none", running |-> FALSE, hadToken |-> FALSE,
             result |-> "none", who |-> NoAccount]

\* No task yet, nothing in flight; the keyring holds the accounts in cached.
InitRest(cached) ==
    /\ epoch = [a \in Accounts |-> 0]
    /\ inflight = [k \in Keys |-> NoTask]
    /\ locks = [k \in Keys |-> NoTask]
    /\ lockQ = [t \in Tasks |-> <<>>]
    /\ fut = [t \in Tasks |-> "none"]
    /\ serQ = <<>>
    /\ entries = cached
    /\ tokens = cached
    /\ listed = {}
    /\ thread = [t \in Tasks |-> NoThread]
    /\ job = [t \in Tasks |-> NoJob]
    /\ pc = [t \in Tasks |-> "idle"]
    /\ frame = [t \in Tasks |-> NoFrame]
    /\ cancel = [t \in Tasks |-> FALSE]
    /\ asked = [t \in Tasks |-> FALSE]
    /\ out = [t \in Tasks |-> "none"]

\* The object as __init__ leaves it.
InitCold ==
    /\ app = FALSE
    /\ present = {}
    /\ rec = [a \in Accounts |-> New]
    /\ active = NoAccount
    /\ told = [a \in Accounts |-> "SIGNED_OUT"]
    /\ \E cached \in SUBSET Accounts : InitRest(cached)

\* The object as a start() that found the accounts in cached leaves it.
InitStarted ==
    /\ app = TRUE
    /\ \E cached \in SUBSET Accounts :
          /\ present = cached
          /\ rec = [a \in Accounts |-> IF a \in cached THEN MarkActive(New) ELSE New]
          /\ told = [a \in Accounts |-> rec[a].state]
          /\ active \in IF cached = {} THEN {NoAccount} ELSE cached
          /\ InitRest(cached)

Init == IF "start" \in Ops THEN InitCold ELSE InitStarted

-----------------------------------------------------------------------------
(* Task groups: task_registry.py.  Work for an account runs in its group;    *)
(* start, add, switch and sign_out run in the application's.                *)

\* Mutant: an enumeration is scheduled in the application's group.
GroupForgetsAcquire(t) == IF job[t].op \in {"poll", "reauth"} THEN job[t].account ELSE NoAccount

Group(t) == IF job[t].op \in {"acquire", "poll", "reauth"} THEN job[t].account ELSE NoAccount

\* task.cancel() on every task of S: each gets a CancelledError at its next
\* step.  The future a task awaits is cancelled there and then, and a task that
\* joined another's acquisition awaits the shared future itself.
CancelTasks(S) ==
    /\ cancel' = [t \in Tasks |-> cancel[t] \/ t \in S]
    /\ asked' = [t \in Tasks |-> asked[t] \/ t \in S]
    /\ fut' = [l \in Tasks |->
                 IF fut[l] = "pending"
                    /\ \E t \in S : pc[t] = "future" /\ ~cancel[t] /\ frame[t].leader = l
                 THEN "cancelled" ELSE fut[l]]

CancelGroup(a) == CancelTasks({t \in Tasks : Live(t) /\ a \in Accounts /\ Group(t) = a})

-----------------------------------------------------------------------------
(* Shared steps.                                                            *)

\* A job ends, and its locals with it.  The poll loop swallows every Exception but AccountUnknownError
\* and goes back to sleep; a CancelledError ends it.
End(t, o) ==
    /\ pc' = [pc EXCEPT ![t] = IF job[t].op = "poll" /\ o \notin {"cancelled", "unknown"}
                               THEN "sleep" ELSE "done"]
    /\ frame' = [frame EXCEPT ![t] = NoFrame]
    /\ out' = [out EXCEPT ![t] = o]

\* Every assignment of a state goes through _transition, which tells listeners.
SetRecord(a, r) ==
    /\ rec' = [rec EXCEPT ![a] = r]
    /\ told' = [told EXCEPT ![a] = r.state]

\* A task holds the object it looked up.  Once sign_out or add_account took that
\* object out of self.accounts, nobody else reads what the task writes to it.
SetHeldRecord(t, a, r) ==
    IF a \in present /\ epoch[a] = frame[t].epoch
    THEN SetRecord(a, r) ELSE UNCHANGED <<rec, told>>

RunInThread(t, c) ==
    thread' = [thread EXCEPT ![t] = [NoThread EXCEPT
                  !.call = c, !.running = TRUE, !.hadToken = job[t].account \in tokens]]

Returned(t, c) == thread[t].call = c /\ ~thread[t].running

Consume(t) == thread' = [thread EXCEPT ![t] = NoThread]

MsalCall(t) == CASE job[t].op \in {"acquire", "poll"} -> "acquire"
                 [] job[t].op = "sign_out"            -> "remove"
                 [] OTHER                             -> "redeem"

\* Mutant: the MSAL call does not wait for its turn.
EnterSerializerAtOnce(t) ==
    /\ serQ' = Append(serQ, t)
    /\ RunInThread(t, MsalCall(t)) /\ pc' = [pc EXCEPT ![t] = "msal"]

\* async with self._cache_write_serializer: await run_blocking(...)
EnterSerializer(t) ==
    /\ serQ' = Append(serQ, t)
    /\ IF serQ = <<>>
       THEN RunInThread(t, MsalCall(t)) /\ pc' = [pc EXCEPT ![t] = "msal"]
       ELSE Consume(t) /\ pc' = [pc EXCEPT ![t] = "serializer"]

SerializerGranted(t) ==
    /\ pc[t] = "serializer" /\ Holds(serQ, t) /\ ~cancel[t]
    /\ RunInThread(t, MsalCall(t))
    /\ pc' = [pc EXCEPT ![t] = "msal"]
    /\ UNCHANGED <<managerVars, flightVars, serQ, cacheVars, job, frame, cancel, out, asked>>

-----------------------------------------------------------------------------
(* acquire_token_silently: one shared future per account and scopes.        *)

\* A call begins: an acquire job's first step, or the poll loop's next tick.  A
\* minute passes between ticks: whoever shared the last one has its result.
Beginning(t) ==
    /\ ~cancel[t]
    /\ \/ job[t].op = "acquire" /\ pc[t] = "new"
       \/ /\ job[t].op = "poll" /\ pc[t] = "sleep" /\ ~thread[t].running
          /\ \A u \in Tasks : pc[u] = "future" => frame[u].leader # t

\* Another call for the key is in flight: await its future, and nothing else.
Join(t) ==
    /\ pc' = [pc EXCEPT ![t] = "future"]
    /\ frame' = [frame EXCEPT ![t].leader = inflight[Key(t)]]
    /\ UNCHANGED <<managerVars, flightVars, serQ, cacheVars, thread, job, cancel, out, asked>>

\* The call is refused before its first await: the future is registered, failed
\* and dropped within the step.
LeadRefused(t, l) ==
    /\ \/ /\ job[t].account \notin present
          /\ fut' = [fut EXCEPT ![t] = "unknown"] /\ End(t, "unknown")
       \/ /\ job[t].account \in present /\ Blocked(rec[job[t].account])
          /\ fut' = [fut EXCEPT ![t] = "auth_error"] /\ End(t, "auth_error")
    /\ lockQ' = [lockQ EXCEPT ![l] = Without(@, t)]
    /\ UNCHANGED <<managerVars, inflight, serQ, cacheVars, thread, job, cancel, asked>>

\* Register the future, mark the account as refreshing, look its MSAL account up.
LeadStarts(t, l) ==
    LET a == job[t].account IN
    /\ a \in present /\ ~Blocked(rec[a])
    /\ inflight' = [inflight EXCEPT ![Key(t)] = t]
    /\ fut' = [fut EXCEPT ![t] = "pending"]
    /\ lockQ' = [lockQ EXCEPT ![l] = IF Holds(@, t) THEN @ ELSE Append(@, t)]
    /\ frame' = [frame EXCEPT ![t].epoch = epoch[a], ![t].lock = l]
    /\ IF rec[a].state \in {"ACTIVE", "OFFLINE"}
       THEN SetRecord(a, BeginSilentRefresh(rec[a])) ELSE UNCHANGED <<rec, told>>
    /\ RunInThread(t, "find")
    /\ pc' = [pc EXCEPT ![t] = "find"]
    /\ UNCHANGED <<app, present, epoch, active, serQ, cacheVars, job, cancel, out, asked>>

AcquireJoins(t) ==
    /\ Beginning(t) /\ app /\ inflight[Key(t)] # NoTask
    /\ Join(t)

\* The lock registered for the key, or a new one.
LockOf(t) == IF locks[Key(t)] = NoTask THEN t ELSE locks[Key(t)]

\* async with lock: a caller with no future to join, or one whose turn has come.
AtLock(t, l) ==
    \/ Beginning(t) /\ app /\ inflight[Key(t)] = NoTask /\ l = LockOf(t)
    \/ pc[t] = "lock" /\ ~cancel[t] /\ l = frame[t].lock /\ Holds(lockQ[l], t)

WaitForLock(t, l) ==
    /\ lockQ' = [lockQ EXCEPT ![l] = Append(@, t)]
    /\ frame' = [frame EXCEPT ![t].lock = l]
    /\ pc' = [pc EXCEPT ![t] = "lock"]
    /\ UNCHANGED <<managerVars, inflight, fut, serQ, cacheVars, thread, job, cancel, out, asked>>

\* With the lock, a second look at the registered future.
AcquireAlone(t) ==
    \E l \in Tasks :
       /\ AtLock(t, l)
       /\ IF inflight[Key(t)] # NoTask THEN Join(t)
          ELSE /\ locks' = IF pc[t] = "lock" THEN locks ELSE [locks EXCEPT ![Key(t)] = l]
               /\ IF lockQ[l] # <<>> /\ ~Holds(lockQ[l], t) THEN WaitForLock(t, l)
                  ELSE LeadStarts(t, l) \/ LeadRefused(t, l)

FutureResolved(t) ==
    /\ pc[t] = "future" /\ ~cancel[t] /\ fut[frame[t].leader] # "pending"
    /\ End(t, fut[frame[t].leader])
    /\ lockQ' = [l \in Tasks |-> Without(lockQ[l], t)]
    /\ UNCHANGED <<managerVars, inflight, locks, fut, serQ, cacheVars, thread, job, cancel, asked>>

\* Mutant: only an Exception reaches the future; a CancelledError is not one.
EndLeadExceptionOnly(t, o) ==
    /\ fut' = [fut EXCEPT ![t] = IF @ = "cancelled" \/ o = "cancelled" THEN @ ELSE o]
    /\ inflight' = [inflight EXCEPT ![Key(t)] = NoTask]
    /\ lockQ' = [lockQ EXCEPT ![frame[t].lock] = Without(@, t)]
    /\ End(t, IF fut[t] = "cancelled" THEN "invalid_state" ELSE o)
    /\ UNCHANGED locks

\* Mutant: the registration is dropped after a success alone.
EndLeadKeepsRegistration(t, o) ==
    /\ fut' = [fut EXCEPT ![t] = IF @ = "cancelled" THEN @ ELSE o]
    /\ inflight' = [inflight EXCEPT ![Key(t)] = IF o = "token" THEN NoTask ELSE @]
    /\ lockQ' = [lockQ EXCEPT ![frame[t].lock] = Without(@, t)]
    /\ End(t, IF fut[t] = "cancelled" THEN "invalid_state" ELSE o)
    /\ UNCHANGED locks

\* The leader resolves its future and drops the registration.  On a future that
\* a cancelled joiner cancelled, set_result and set_exception raise instead.
EndLead(t, o) ==
    /\ fut' = [fut EXCEPT ![t] = IF @ = "cancelled" THEN @ ELSE o]
    /\ inflight' = [inflight EXCEPT ![Key(t)] = NoTask]
    /\ lockQ' = [lockQ EXCEPT ![frame[t].lock] = Without(@, t)]
    /\ End(t, IF fut[t] = "cancelled" THEN "invalid_state" ELSE o)
    /\ UNCHANGED locks

\* _find_msal_account found it: the call that needs it waits for the serializer.
AccountFound(t) ==
    /\ pc[t] = "find" /\ ~cancel[t] /\ Returned(t, "find") /\ thread[t].result = "found"
    /\ EnterSerializer(t)
    /\ UNCHANGED <<managerVars, flightVars, cacheVars, job, frame, cancel, out, asked>>

AcquireNotFound(t) ==
    /\ pc[t] = "find" /\ ~cancel[t] /\ Returned(t, "find") /\ thread[t].result = "missing"
    /\ job[t].op # "sign_out"
    /\ SetHeldRecord(t, job[t].account,
                     ApplyError(rec[job[t].account], "UNKNOWN", NoClaims, FALSE))
    /\ Consume(t)
    /\ EndLead(t, "auth_error")
    /\ UNCHANGED <<app, present, epoch, active, serQ, cacheVars, job, cancel, asked>>

\* What the silent call returned, and what it makes of the record.
SilentRecord(r, result, c) ==
    CASE result = "token"   -> MarkActive(r)
      [] result = "network" -> MarkOffline(r)
      [] result = "none"    -> r                      \* "error" not in None raises
      [] OTHER              -> ApplyError(r, result, c, FALSE)

AcquireReturns(t) ==
    LET a == job[t].account  result == thread[t].result IN
    /\ pc[t] = "msal" /\ ~cancel[t] /\ Returned(t, "acquire")
    /\ Consume(t)
    /\ serQ' = Without(serQ, t)
    /\ \E c \in Claims : SetHeldRecord(t, a, SilentRecord(rec[a], result, c))
    /\ EndLead(t, CASE result = "token" -> "token"
                    [] result = "none"  -> "type_error"
                    [] OTHER            -> "auth_error")
    /\ UNCHANGED <<app, present, epoch, active, cacheVars, job, cancel, asked>>

-----------------------------------------------------------------------------
(* sign_out.                                                                *)

\* Mutant: the account's task group is left running.
ForgetKeepsGroup(t) ==
    LET a == job[t].account  left == present \ {a} IN
    /\ present' = left
    /\ IF a \in present THEN SetRecord(a, SignOut(rec[a])) ELSE UNCHANGED <<rec, told>>
    /\ inflight' = [k \in Keys |-> IF k[1] = a THEN NoTask ELSE inflight[k]]
    /\ locks' = [k \in Keys |-> IF k[1] = a THEN NoTask ELSE locks[k]]
    /\ IF active = a
       THEN active' \in IF left = {} THEN {NoAccount} ELSE left
       ELSE active' = active
    /\ Consume(t)
    /\ End(t, "ok")
    /\ UNCHANGED <<app, epoch, lockQ, fut, cacheVars, job, cancel, asked>>

\* After the last await: forget the account, then destroy its task group.
Forget(t) ==
    LET a == job[t].account  left == present \ {a} IN
    /\ present' = left
    /\ IF a \in present THEN SetRecord(a, SignOut(rec[a])) ELSE UNCHANGED <<rec, told>>
    /\ inflight' = [k \in Keys |-> IF k[1] = a THEN NoTask ELSE inflight[k]]
    /\ locks' = [k \in Keys |-> IF k[1] = a THEN NoTask ELSE locks[k]]
    /\ IF active = a
       THEN active' \in IF left = {} THEN {NoAccount} ELSE left
       ELSE active' = active
    /\ Consume(t)
    /\ CancelGroup(a)
    /\ End(t, "ok")
    /\ UNCHANGED <<app, epoch, lockQ, cacheVars, job>>

SignOutStarts(t) ==
    /\ job[t].op = "sign_out" /\ pc[t] = "new" /\ ~cancel[t]
    /\ RunInThread(t, "find")
    /\ pc' = [pc EXCEPT ![t] = "find"]
    /\ UNCHANGED <<managerVars, flightVars, serQ, cacheVars, job, frame, cancel, out, asked>>

SignOutNotFound(t) ==
    /\ pc[t] = "find" /\ ~cancel[t] /\ Returned(t, "find") /\ thread[t].result = "missing"
    /\ job[t].op = "sign_out"
    /\ Forget(t)
    /\ UNCHANGED serQ

SignOutRemoved(t) ==
    /\ pc[t] = "msal" /\ ~cancel[t] /\ Returned(t, "remove")
    /\ serQ' = Without(serQ, t)
    /\ IF thread[t].result = "ok"
       THEN Forget(t)
       ELSE /\ End(t, "error") /\ Consume(t)
            /\ UNCHANGED <<managerVars, flightVars, cacheVars, job, cancel, asked>>

-----------------------------------------------------------------------------
(* switch_active_account: cancel the old group, then change, then notify.    *)

Switch(t) ==
    LET a == job[t].account IN
    /\ job[t].op = "switch" /\ pc[t] = "new" /\ ~cancel[t]
    /\ IF a = active
       THEN UNCHANGED <<active, cancel, asked, fut>>
       ELSE active' = a /\ CancelGroup(active)
    /\ End(t, "ok")
    /\ UNCHANGED <<app, present, rec, epoch, told, inflight, locks, lockQ, serQ, cacheVars,
                   thread, job>>

-----------------------------------------------------------------------------
(* The interactive flow, and its two callers.  The listener and the browser  *)
(* round trip are one await here; LoopbackListener has their detail.         *)

\* add_account: only the started manager opens a listener.
AddStarts(t) ==
    /\ job[t].op = "add" /\ pc[t] = "new" /\ ~cancel[t]
    /\ IF app THEN pc' = [pc EXCEPT ![t] = "browser"] /\ UNCHANGED <<out, frame>>
              ELSE End(t, "not_started")
    /\ UNCHANGED <<managerVars, flightVars, serQ, cacheVars, thread, job, cancel, asked>>

ReauthStarts(t) ==
    LET a == job[t].account IN
    /\ job[t].op = "reauth" /\ pc[t] = "new" /\ ~cancel[t]
    /\ \/ /\ a \notin present /\ End(t, "unknown") /\ UNCHANGED <<rec, told>>
       \/ /\ a \in present /\ Blocked(rec[a])
          /\ End(t, "auth_error") /\ UNCHANGED <<rec, told>>
       \/ /\ a \in present /\ ~Blocked(rec[a])
          /\ frame' = [frame EXCEPT ![t].epoch = epoch[a], ![t].saved = rec[a].state]
          /\ SetRecord(a, BeginInteractive(rec[a]))
          /\ pc' = [pc EXCEPT ![t] = "browser"]
          /\ UNCHANGED out
    /\ UNCHANGED <<app, present, epoch, active, flightVars, serQ, cacheVars, thread,
                   job, cancel, asked>>

\* The redirect brings a code: exchange it, under the serializer.
Redirected(t) ==
    /\ pc[t] = "browser" /\ ~cancel[t]
    /\ EnterSerializer(t)
    /\ UNCHANGED <<managerVars, flightVars, cacheVars, job, frame, cancel, out, asked>>

\* reauth_from_banner puts the saved state back by hand, past _transition.
RestoreState(t) ==
    LET a == job[t].account IN
    /\ rec' = IF job[t].op = "reauth" /\ a \in present /\ epoch[a] = frame[t].epoch
              THEN [rec EXCEPT ![a].state = frame[t].saved] ELSE rec
    /\ UNCHANGED told

\* The wait timed out, or the redirect carried an error: SignInCancelled.
SignInAbandoned(t) ==
    /\ pc[t] = "browser" /\ ~cancel[t]
    /\ RestoreState(t)
    /\ End(t, "signin_cancelled")
    /\ UNCHANGED <<app, present, epoch, active, flightVars, serQ, cacheVars, thread,
                   job, cancel, asked>>

\* The code exchange failed; the thread's exception leaves the record alone.
RedeemFailed(t) ==
    LET a == job[t].account  result == thread[t].result IN
    /\ pc[t] = "msal" /\ ~cancel[t] /\ Returned(t, "redeem") /\ result # "token"
    /\ Consume(t)
    /\ serQ' = Without(serQ, t)
    /\ IF job[t].op = "reauth" /\ result # "network"
       THEN \E c \in Claims, url \in BOOLEAN :
               SetHeldRecord(t, a, ApplyError(rec[a], result, c, url))
       ELSE UNCHANGED <<rec, told>>
    /\ End(t, IF result = "network" THEN "error" ELSE "auth_error")
    /\ UNCHANGED <<app, present, epoch, active, flightVars, cacheVars, job,
                   cancel, asked>>

\* Only the account in hand is marked, whoever signed in at the browser.
Reauthenticated(t) ==
    LET a == job[t].account IN
    /\ job[t].op = "reauth" /\ pc[t] = "msal" /\ ~cancel[t]
    /\ Returned(t, "redeem") /\ thread[t].result = "token"
    /\ Consume(t)
    /\ serQ' = Without(serQ, t)
    /\ SetHeldRecord(t, a, MarkActive(rec[a]))
    /\ End(t, "ok")
    /\ UNCHANGED <<app, present, epoch, active, flightVars, cacheVars, job,
                   cancel, asked>>

\* A fresh record takes the place of whatever the account had.
Added(t) ==
    LET a == thread[t].who IN
    /\ job[t].op = "add" /\ pc[t] = "msal" /\ ~cancel[t]
    /\ Returned(t, "redeem") /\ thread[t].result = "token"
    /\ Consume(t)
    /\ serQ' = Without(serQ, t)
    /\ present' = present \cup {a}
    /\ epoch' = [epoch EXCEPT ![a] = @ + 1]
    /\ SetRecord(a, MarkActive(New))
    /\ IF present' = {a} THEN active' = a ELSE UNCHANGED active
    /\ End(t, "ok")
    /\ UNCHANGED <<app, flightVars, cacheVars, job, cancel, asked>>

-----------------------------------------------------------------------------
(* start.                                                                   *)

StartBuilds(t) ==
    /\ job[t].op = "start" /\ pc[t] = "new" /\ ~cancel[t]
    /\ RunInThread(t, "build")
    /\ pc' = [pc EXCEPT ![t] = "build"]
    /\ UNCHANGED <<managerVars, flightVars, serQ, cacheVars, job, frame, cancel, out, asked>>

\* The client application is set before the accounts are listed.
StartLists(t) ==
    /\ pc[t] = "build" /\ ~cancel[t] /\ Returned(t, "build")
    /\ IF thread[t].result = "ok"
       THEN /\ app' = TRUE
            /\ RunInThread(t, "list")
            /\ pc' = [pc EXCEPT ![t] = "list"]
            /\ UNCHANGED <<out, frame>>
       ELSE End(t, "error") /\ UNCHANGED app /\ Consume(t)
    /\ UNCHANGED <<present, rec, epoch, active, told, flightVars, serQ, cacheVars, job,
                   cancel, asked>>

\* Mutant: nobody looks at active_account_id when the keyring was empty.
StartRebuildsKeepsActive(t) ==
    /\ pc[t] = "list" /\ ~cancel[t] /\ Returned(t, "list")
    /\ Consume(t)
    /\ present' = listed
    /\ rec' = [a \in Accounts |-> IF a \in listed THEN MarkActive(New) ELSE New]
    /\ told' = [a \in Accounts |-> IF a \in listed THEN "ACTIVE" ELSE told[a]]
    /\ epoch' = [a \in Accounts |-> IF a \in listed THEN epoch[a] + 1 ELSE epoch[a]]
    /\ active' \in IF listed = {} THEN {active} ELSE listed
    /\ End(t, "ok")
    /\ UNCHANGED <<app, flightVars, cacheVars, serQ, job, cancel, asked>>

\* self.accounts is rebuilt from nothing; the first one listed becomes active.
StartRebuilds(t) ==
    /\ pc[t] = "list" /\ ~cancel[t] /\ Returned(t, "list")
    /\ Consume(t)
    /\ present' = listed
    /\ rec' = [a \in Accounts |-> IF a \in listed THEN MarkActive(New) ELSE New]
    /\ told' = [a \in Accounts |-> IF a \in listed THEN "ACTIVE" ELSE told[a]]
    /\ epoch' = [a \in Accounts |-> IF a \in listed THEN epoch[a] + 1 ELSE epoch[a]]
    /\ active' \in IF listed = {} THEN {NoAccount} ELSE listed
    /\ End(t, "ok")
    /\ UNCHANGED <<app, flightVars, serQ, cacheVars, job, cancel, asked>>

-----------------------------------------------------------------------------
(* A CancelledError reaches the task.                                       *)

Cancelled(t) ==
    /\ cancel[t] /\ Live(t)
    /\ cancel' = [cancel EXCEPT ![t] = FALSE]
    /\ serQ' = Without(serQ, t)
    /\ IF job[t].op \in {"acquire", "poll"} /\ pc[t] \in {"find", "serializer", "msal"}
       THEN EndLead(t, "cancelled")
       ELSE /\ End(t, "cancelled")
            /\ lockQ' = [l \in Tasks |-> Without(lockQ[l], t)]
            /\ UNCHANGED <<inflight, locks, fut>>
    /\ UNCHANGED <<managerVars, cacheVars, thread, job, asked>>

\* pause_polling: cancel the poll task, and only it.
PausePolling ==
    /\ "pause" \in Ops
    /\ \E t \in Tasks : /\ job[t].op = "poll" /\ Live(t) /\ ~cancel[t]
                       /\ CancelTasks({t})
    /\ UNCHANGED <<managerVars, inflight, locks, lockQ, serQ, cacheVars, thread, job, pc, frame, out>>

-----------------------------------------------------------------------------
(* The executor threads.  They run on when their task is cancelled.          *)

\* What a thread returns to nobody is dropped.
Awaited(t) == pc[t] \in {"find", "msal", "build", "list"} /\ ~cancel[t]

Finish(t, r) ==
    thread' = [thread EXCEPT ![t] = IF Awaited(t) THEN [@ EXCEPT !.running = FALSE, !.result = r]
                                    ELSE NoThread]

\* A retried challenge counts on: the runs stop it at RetryCap.
CanReturn(t, r) == r = "CLAIMS_CHALLENGE" => rec[job[t].account].retry < RetryCap

\* Reads, and the keyring probe of build_persisted_cache.
ThreadReads(t) ==
    /\ thread[t].running
    /\ \/ /\ thread[t].call = "build" /\ \E r \in {"ok", "raised"} : Finish(t, r)
          /\ UNCHANGED listed
       \/ thread[t].call = "list" /\ Finish(t, "ok") /\ listed' = entries
       \/ /\ thread[t].call = "find"
          /\ Finish(t, IF job[t].account \in entries THEN "found" ELSE "missing")
          /\ UNCHANGED listed
    /\ UNCHANGED <<managerVars, flightVars, serQ, entries, tokens, taskVars>>

\* A silent call that found a refresh token when it began stores a new one when
\* it succeeds; it does not bring a removed account's entry back.
ThreadAcquires(t) ==
    /\ thread[t].running /\ thread[t].call = "acquire"
    /\ \/ /\ ~thread[t].hadToken /\ Finish(t, "none") /\ UNCHANGED tokens
       \/ /\ thread[t].hadToken /\ Finish(t, "token")
          /\ tokens' = tokens \cup {job[t].account}
       \/ /\ thread[t].hadToken /\ \E r \in Errors \cup {"network"} : Finish(t, r)
          /\ CanReturn(t, thread'[t].result)
          /\ UNCHANGED tokens
    /\ UNCHANGED <<managerVars, flightVars, serQ, entries, listed, taskVars>>

ThreadRemoves(t) ==
    /\ thread[t].running /\ thread[t].call = "remove"
    /\ \/ /\ Finish(t, "ok")
          /\ entries' = entries \ {job[t].account}
          /\ tokens' = tokens \ {job[t].account}
       \/ Finish(t, "raised") /\ UNCHANGED <<entries, tokens>>
    /\ UNCHANGED <<managerVars, flightVars, serQ, listed, taskVars>>

\* The user may sign in as any account at the browser; login_hint only suggests.
ThreadRedeems(t) ==
    /\ thread[t].running /\ thread[t].call = "redeem"
    /\ \/ \E a \in Accounts :
             /\ thread' = [thread EXCEPT ![t] = IF Awaited(t)
                   THEN [@ EXCEPT !.running = FALSE, !.result = "token", !.who = a] ELSE NoThread]
             /\ entries' = entries \cup {a}
             /\ tokens' = tokens \cup {a}
       \/ \E r \in Errors \cup {"network"} : Finish(t, r) /\ UNCHANGED <<entries, tokens>>
    /\ UNCHANGED <<managerVars, flightVars, serQ, listed, taskVars>>

-----------------------------------------------------------------------------
(* The environment: the window's buttons, the poll timer, the listeners.     *)

\* What the window offers when it schedules a job.
Offered(op, a) ==
    \/ op = "start" /\ a = NoAccount /\ \A t \in Tasks : job[t].op # "start"
    \/ op = "add" /\ a = NoAccount
    \/ op = "acquire" /\ a = active /\ a \in Accounts
    \/ op = "poll" /\ a = active /\ a \in Accounts
       /\ \A t \in Tasks : job[t].op = "poll" => ~Live(t)
    \/ op = "reauth" /\ a = active /\ a \in present /\ rec[a].state = "REAUTH_REQUIRED"
    \/ op \in {"switch", "sign_out"} /\ a \in present

\* create_task.  A CancelledError already on its way is in the loop's queue
\* ahead of a new task's first step, so none is outstanding.
Schedule(op, a, s) ==
    LET t == CHOOSE u \in Tasks : pc[u] = "idle" IN
    /\ \E u \in Tasks : pc[u] = "idle"
    /\ \A u \in Tasks : ~cancel[u]
    /\ Offered(op, a) /\ (op = "acquire" \/ s = ReadScope)
    /\ job' = [job EXCEPT ![t] = [op |-> op, account |-> a, scope |-> s]]
    /\ pc' = [pc EXCEPT ![t] = IF op = "poll" THEN "sleep" ELSE "new"]
    /\ UNCHANGED <<managerVars, flightVars, serQ, cacheVars, thread, frame, cancel, out, asked>>

Step(t) ==
    \/ SerializerGranted(t)
    \/ AcquireJoins(t) \/ AcquireAlone(t)
    \/ FutureResolved(t) \/ AccountFound(t) \/ AcquireNotFound(t) \/ AcquireReturns(t)
    \/ SignOutStarts(t) \/ SignOutNotFound(t) \/ SignOutRemoved(t)
    \/ Switch(t)
    \/ AddStarts(t) \/ ReauthStarts(t) \/ Redirected(t) \/ SignInAbandoned(t)
    \/ RedeemFailed(t) \/ Reauthenticated(t) \/ Added(t)
    \/ StartBuilds(t) \/ StartLists(t) \/ StartRebuilds(t)
    \/ Cancelled(t)

Thread(t) == ThreadReads(t) \/ ThreadAcquires(t) \/ ThreadRemoves(t) \/ ThreadRedeems(t)

\* Every job scheduled has ended.
Idle == (\A t \in Tasks : ~Live(t)) /\ UNCHANGED vars

Next ==
    \/ \E op \in Ops \ {"pause"}, a \in Accounts \cup {NoAccount}, s \in Scopes : Schedule(op, a, s)
    \/ \E t \in Tasks : Step(t) \/ Thread(t)
    \/ PausePolling
    \/ Idle

Spec == Init /\ [][Next]_vars

\* Every task is resumed when it can be, every executor call returns (MSAL's
\* HTTP calls time out) and the browser round trip ends: the listener times out.
Fairness == \A t \in Tasks : WF_vars(Step(t)) /\ WF_vars(Thread(t))

FairSpec == Spec /\ Fairness

-----------------------------------------------------------------------------
(* Properties.                                                              *)

JobType == [op : AllOps \cup {"none"}, account : Accounts \cup {NoAccount},
            scope : Scopes \cup {NoAccount}]

FrameType == [epoch : Nat, leader : Tasks \cup {NoTask}, lock : Tasks \cup {NoTask},
              saved : AuthState]

ThreadType == [call : Calls, running : BOOLEAN, hadToken : BOOLEAN,
               result : {"none", "ok", "raised", "found", "missing", "token", "network"}
                        \cup Errors,
               who : Accounts \cup {NoAccount}]

\* Every variable keeps its type.
TypeOK ==
    /\ app \in BOOLEAN
    /\ present \subseteq Accounts
    /\ rec \in [Accounts -> Record]
    /\ epoch \in [Accounts -> Nat]
    /\ active \in Accounts \cup {NoAccount}
    /\ told \in [Accounts -> AuthState]
    /\ inflight \in [Keys -> Tasks \cup {NoTask}]
    /\ locks \in [Keys -> Tasks \cup {NoTask}]
    /\ lockQ \in [Tasks -> Seq(Tasks)]
    /\ fut \in [Tasks -> Outcomes \cup {"none", "pending"}]
    /\ serQ \in Seq(Tasks)
    /\ entries \subseteq Accounts /\ tokens \subseteq Accounts /\ listed \subseteq Accounts
    /\ thread \in [Tasks -> ThreadType]
    /\ job \in [Tasks -> JobType]
    /\ pc \in [Tasks -> Points]
    /\ frame \in [Tasks -> FrameType]
    /\ cancel \in [Tasks -> BOOLEAN]
    /\ out \in [Tasks -> Outcomes \cup {"none"}]
    /\ asked \in [Tasks -> BOOLEAN]

Leading(t) == job[t].op \in {"acquire", "poll"} /\ pc[t] \in {"find", "serializer", "msal"}

(* Single flight (FR-4-AC-6): concurrent silent acquisitions for the same    *)
(* account and scopes make one MSAL call, through sign-outs that drop the    *)
(* registration of a call in flight and sign-ins that begin a new one.  They *)
(* meet at the shared future alone: the lock behind it is free whenever no   *)
(* future is registered, so it never makes a caller wait.                    *)
SingleFlight ==
    /\ \A t, u \in Tasks : Leading(t) /\ Leading(u) /\ Key(t) = Key(u) => t = u
    /\ \A t \in Tasks : pc[t] # "lock"

(* CacheWriteSerializer: of the MSAL calls a task still waits for, at most   *)
(* one at a time may write the token cache.                                 *)
OneCacheWriter ==
    \A t, u \in Tasks : pc[t] = "msal" /\ pc[u] = "msal" => t = u

(* The account list never shows an account the keyring has lost: an entry of *)
(* self.accounts has its cache entry, except between a sign_out's removal    *)
(* and that sign_out's next step.  Concurrent sign-ins and sign-outs of the  *)
(* same account keep the two together only because they take turns.          *)
ListedAccountsAreCached ==
    \A a \in present :
        a \in entries \/ \E t \in Tasks : /\ job[t].op = "sign_out" /\ job[t].account = a
                                       /\ pc[t] = "msal" /\ Returned(t, "remove")

(* acquire_token_silently returns a token or raises an AuthError: a caller   *)
(* nobody cancelled never sees anything else, whatever happened to the tasks *)
(* it shared the call with.                                                 *)
AcquireContract ==
    \A t \in Tasks :
        job[t].op = "acquire" /\ pc[t] = "done" /\ ~asked[t]
            => out[t] \in {"token", "auth_error", "unknown", "not_started"}

(* sign_out leaves no background work (FR-3-AC-3): once the account is gone, *)
(* every call for it that had begun has a CancelledError on its way.         *)
NoWorkForSignedOut ==
    \A t \in Tasks :
        Leading(t) \/ (job[t].op = "reauth" /\ pc[t] \in {"browser", "serializer", "msal"})
            => job[t].account \in present \/ cancel[t]

(* A registered future can still be resolved: its task is leading that very  *)
(* key, so nobody joins a call that will never end.                          *)
RegisteredIsLed ==
    \A k \in Keys : inflight[k] # NoTask => Leading(inflight[k]) /\ Key(inflight[k]) = k

(* While nobody switches or signs out, the active account is one the window  *)
(* lists: a start() that rebuilds self.accounts under a sign-in that ended   *)
(* first leaves no active_account_id pointing outside of it.                 *)
ActiveIsListed == active # NoAccount => active \in present

(* Every job ends (but the poll loop's): a caller is never left waiting on a *)
(* future, a lock or the serializer, through cancellations and sign-outs.    *)
JobsEnd == \A t \in Tasks : (Live(t) /\ job[t].op # "poll") ~> ~Live(t)

-----------------------------------------------------------------------------
(* What the source says and the code does not do; see the violation runs.    *)

(* Cancelling the outgoing account's task group ends its poll loop, "with no *)
(* separate cancellation logic needed" (start_polling): a task that was      *)
(* cancelled does not run on once the CancelledError has been delivered.     *)
CancelIsFinal == \A t \in Tasks : asked[t] /\ ~cancel[t] => ~Live(t)

(* DEVICE_CA_BLOCKED is terminal for the account this session (section 6.5): *)
(* the record of an account that stays signed in does not leave it.          *)
BlockedUntilSignOut ==
    [][\A a \in Accounts :
         a \in present /\ Blocked(rec[a]) /\ a \in present' /\ epoch'[a] = epoch[a]
            => Blocked(rec'[a])]_vars

(* CacheWriteSerializer serializes every mutation of one token cache         *)
(* (auth_cache.py): two MSAL calls that write it never run at the same time. *)
WritersTakeTurns ==
    \A t, u \in Tasks :
        /\ thread[t].running /\ thread[t].call \in {"acquire", "remove", "redeem"}
        /\ thread[u].running /\ thread[u].call \in {"acquire", "remove", "redeem"}
        => t = u
=============================================================================
