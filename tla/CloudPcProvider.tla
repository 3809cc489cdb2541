--------------------------- MODULE CloudPcProvider ---------------------------
(***************************************************************************)
(* CloudPcProvider (cloudpc_provider.py) as the application drives it: the  *)
(* poll loop and the refreshes of the active account, started and stopped   *)
(* by sign-ins, switches and sign-outs (app.py, ui_shell.py), with what the *)
(* provider and the window keep of their results.                           *)
(*                                                                          *)
(* One await stands for a page: the silent acquisition, which AuthManager   *)
(* has in detail, and the HTTP call with its retries.                       *)
(***************************************************************************)
EXTENDS EventLoop

CONSTANTS
    Clicks,        \* what the user does: the jobs the window creates
    SpareSlots     \* a click leaves this many slots idle, so that no step lacks one

ASSUME ProviderAssumption ==
    /\ Clicks \subseteq {"add", "switch", "sign_out", "refresh"}
    /\ SpareSlots \in Nat

VARIABLES
    present,       \* the keys of AuthManager.accounts
    active,        \* AuthManager.active_account_id
    told,          \* history: the listeners were told of the active account, a listed one
    pollTask,      \* self._poll_task
    pollAccount,   \* self._poll_account_id
    last,          \* self._last_results, by account
    latest,        \* the window's _latest_by_account
    outlived,      \* history: the accounts of loops that outlived a cancellation
    unlisted       \* history: accounts a switch made active though they were signed out,
                   \* until a switch from them or a sign-out cancels their tasks

accountVars  == <<present, active, told>>
pollVars     == <<pollTask, pollAccount>>
resultVars   == <<last, latest>>
historyVars  == <<outlived, unlisted>>
vars == <<loopVars, accountVars, pollVars, resultVars, historyVars>>

\* What _do_refresh returns: a list; none (Empty, NoLicence, ConsentRequired); or a
\* Failed, with the entries of the last Enumerated or without any.
Recorded == {"enumerated", "no_list"}
Results  == Recorded \cup {"failed", "failed_empty"}

\* A job in its account's group, and one (add, switch, sign_out) in the application's.
Job(kind, a)    == [kind |-> kind, account |-> a, arg |-> a]
AppJob(kind, a) == [kind |-> kind, account |-> NoAccount, arg |-> a]

Init ==
    /\ InitLoop
    /\ present = {} /\ active = NoAccount /\ told = FALSE
    /\ pollTask = NoTask /\ pollAccount = NoAccount
    /\ last = [a \in Accounts |-> "none"]
    /\ latest = [a \in Accounts |-> "none"]
    /\ outlived = {} /\ unlisted = {}

-----------------------------------------------------------------------------
(* Cancellation.                                                            *)

\* A poll loop waiting for the token another task of the group waits for too: the
\* other's cancellation cancels the future they share, and the loop's handler then
\* fails on it (AuthManager, EndLead).  Whether it leads is left open.
Losing(dead) ==
    {t \in dead : /\ job[t].kind = "poll" /\ pc[t] = "page"
                  /\ \E u \in dead \ {t} : pc[u] = "page" /\ group[u] = group[t]}

\* The loop that swallowed its cancellation goes back to sleep.
Swallowed(t) ==
    /\ ready # <<>> /\ Head(ready) = t /\ cancel[t] = "lost"
    /\ Run(t, "sleep")
    /\ outlived' = outlived \cup {job[t].account}
    /\ UNCHANGED <<accountVars, pollVars, resultVars, unlisted>>

CancelledHere(t) ==
    /\ Cancelled(t)
    /\ UNCHANGED <<accountVars, pollVars, resultVars, historyVars>>

-----------------------------------------------------------------------------
(* Accounts.  The active-account listener of app.py creates an enumeration;  *)
(* the window's own (a capability evaluation) leaves the provider alone.     *)

Listeners(a) == <<Job("enumerate", a)>>

\* Mutant: the outgoing account's tasks run on.
SwitchAccountOnly(t) ==
    LET a == job[t].arg IN
    /\ Running(t) /\ job[t].kind = "switch"
    /\ IF a = active
       THEN Run(t, "idle") /\ UNCHANGED <<accountVars, unlisted>>
       ELSE /\ unlisted' = (unlisted \ {active}) \cup ({a} \ present)
            /\ active' = a /\ told' = (a \in present) /\ UNCHANGED present
            /\ Turn(t, "idle", {}, {}, Listeners(a))
    /\ UNCHANGED <<pollVars, resultVars, outlived>>

SwitchAccount(t) ==
    LET a == job[t].arg IN
    /\ Running(t) /\ job[t].kind = "switch"
    /\ IF a = active
       THEN Run(t, "idle") /\ UNCHANGED <<accountVars, unlisted>>
       ELSE /\ unlisted' = (unlisted \ {active}) \cup ({a} \ present)
            /\ active' = a /\ told' = (a \in present) /\ UNCHANGED present
            /\ LET dead == IF active = NoAccount THEN {} ELSE Tracked(active) IN
               \E lost \in SUBSET Losing(dead) : Turn(t, "idle", dead, lost, Listeners(a))
    /\ UNCHANGED <<pollVars, resultVars, outlived>>

\* The browser round trip of add_account is over when its task runs.
AddAccount(t) ==
    LET a == job[t].arg IN
    /\ Running(t) /\ job[t].kind = "add"
    /\ present' = present \cup {a}
    /\ IF present' = {a}
       THEN active' = a /\ told' = TRUE /\ Turn(t, "idle", {}, {}, Listeners(a))
       ELSE UNCHANGED <<active, told>> /\ Run(t, "idle")
    /\ UNCHANGED <<pollVars, resultVars, historyVars>>

\* sign_out up to its last await, then the group is destroyed; the window awaits
\* forget_account before it drops its own result.
SignOutRemoves(t) ==
    /\ Running(t) /\ job[t].kind = "sign_out" /\ pc[t] = "new"
    /\ Run(t, "remove")
    /\ UNCHANGED <<accountVars, pollVars, resultVars, historyVars>>

SignOutForgets(t) ==
    LET a == job[t].arg  left == present \ {a}  dead == Tracked(a) IN
    /\ Running(t) /\ job[t].kind = "sign_out" /\ pc[t] = "remove"
    /\ present' = left
    /\ IF active = a
       THEN active' \in (IF left = {} THEN {NoAccount} ELSE left) /\ told' = FALSE
       ELSE UNCHANGED <<active, told>>
    /\ unlisted' = unlisted \ {a}
    /\ \E lost \in SUBSET Losing(dead) : TurnDropping(t, "forget", dead, lost, dead, <<>>)
    /\ UNCHANGED <<pollVars, resultVars, outlived>>

\* Mutant: only the active account's result is dropped.
SignOutDropsActive(t) ==
    /\ Running(t) /\ job[t].kind = "sign_out" /\ pc[t] = "forget"
    /\ latest' = [a \in Accounts |-> IF a = active /\ a = job[t].arg THEN "none" ELSE latest[a]]
    /\ Run(t, "idle")
    /\ UNCHANGED <<accountVars, pollVars, last, historyVars>>

SignOutDrops(t) ==
    /\ Running(t) /\ job[t].kind = "sign_out" /\ pc[t] = "forget"
    /\ latest' = [latest EXCEPT ![job[t].arg] = "none"]
    /\ Run(t, "idle")
    /\ UNCHANGED <<accountVars, pollVars, last, historyVars>>

-----------------------------------------------------------------------------
(* Polling.                                                                 *)

\* The task _poll_task holds, unless it is done; its slot may be another job's by now.
CurrentPoll == {t \in Tasks : t = pollTask /\ job[t].kind = "poll"}

\* Mutant: whether the task is done is not asked.
IsPollingActiveByAccount(a) == pollAccount = a

IsPollingActive(a) == pollAccount = a /\ CurrentPoll # {}

\* Mutant: start_polling replaces the loop without cancelling it.
EnumerateKeepsLoop(t) ==
    LET a == job[t].account
        point == IF a \in present THEN "page" ELSE "idle"
    IN
    /\ Running(t) /\ job[t].kind = "enumerate" /\ pc[t] = "new"
    /\ IF IsPollingActive(a)
       THEN Run(t, point) /\ UNCHANGED pollVars
       ELSE /\ Turn(t, point, {}, {}, <<Job("poll", a)>>)
            /\ pollTask' = Slots(1)[1]
            /\ pollAccount' = a
    /\ UNCHANGED <<accountVars, resultVars, historyVars>>

\* _enumerate_active_account: start_polling, then a refresh of its own.
Enumerate(t) ==
    LET a == job[t].account
        point == IF a \in present THEN "page" ELSE "idle"
    IN
    /\ Running(t) /\ job[t].kind = "enumerate" /\ pc[t] = "new"
    /\ IF IsPollingActive(a)
       THEN Run(t, point) /\ UNCHANGED pollVars
       ELSE /\ Turn(t, point, CurrentPoll, {}, <<Job("poll", a)>>)
            /\ pollTask' = Slots(1)[1]
            /\ pollAccount' = a
    /\ UNCHANGED <<accountVars, resultVars, historyVars>>

\* The loop sleeps first.
PollStarts(t) ==
    /\ Running(t) /\ job[t].kind = "poll" /\ pc[t] = "new"
    /\ Run(t, "sleep")
    /\ UNCHANGED <<accountVars, pollVars, resultVars, historyVars>>

\* The account was signed out: AccountUnknownError ends the loop.
PollTicks(t) ==
    /\ Running(t) /\ job[t].kind = "poll" /\ pc[t] = "sleep"
    /\ Run(t, IF job[t].account \in present THEN "page" ELSE "idle")
    /\ UNCHANGED <<accountVars, pollVars, resultVars, historyVars>>

ManualRefresh(t) ==
    /\ Running(t) /\ job[t].kind = "refresh" /\ pc[t] = "new"
    /\ Run(t, IF job[t].account \in present THEN "page" ELSE "idle")
    /\ UNCHANGED <<accountVars, pollVars, resultVars, historyVars>>

-----------------------------------------------------------------------------
(* A refresh: _do_refresh and the notification of its result.               *)

Refreshing(t) == pc[t] = "page"

\* After a refresh, or an exception out of it, only the poll loop goes on.
AfterRefresh(t) == IF job[t].kind = "poll" THEN "sleep" ELSE "idle"

NextPage(t) ==
    /\ Running(t) /\ Refreshing(t) /\ reply[t] = "more"
    /\ Run(t, IF job[t].account \in present THEN "page" ELSE "idle")
    /\ UNCHANGED <<accountVars, pollVars, resultVars, historyVars>>

\* Mutant: a Failed is recorded like any other result.
RecordEvery(t, r) ==
    LET a == job[t].account IN
    /\ last' = [last EXCEPT ![a] = IF r \in Recorded THEN r ELSE "no_list"]
    /\ latest' = [latest EXCEPT ![a] = r]

\* Every result reaches the window; a Failed is not recorded.
Record(t, r) ==
    LET a == job[t].account IN
    /\ last' = IF r \in Recorded THEN [last EXCEPT ![a] = r] ELSE last
    /\ latest' = [latest EXCEPT ![a] = r]

Refreshed(t) ==
    LET a == job[t].account IN
    /\ Running(t) /\ Refreshing(t) /\ reply[t] \in Recorded \cup {"error"}
    /\ Record(t, IF reply[t] = "error"
                 THEN IF last[a] = "enumerated" THEN "failed" ELSE "failed_empty"
                 ELSE reply[t])
    /\ Run(t, AfterRefresh(t))
    /\ UNCHANGED <<accountVars, pollVars, historyVars>>

\* An AuthError goes past the results; the callers log it.
AuthFailed(t) ==
    /\ Running(t) /\ Refreshing(t) /\ reply[t] = "auth_error"
    /\ Run(t, AfterRefresh(t))
    /\ UNCHANGED <<accountVars, pollVars, resultVars, historyVars>>

-----------------------------------------------------------------------------
(* What tasks wait for.                                                     *)

\* A page with a nextLink, the last page, or a failure.
PageArrives(t) ==
    /\ pc[t] = "page"
    /\ \E r \in Recorded \cup {"more", "error", "auth_error"} : Wake(t, r)
    /\ UNCHANGED <<accountVars, pollVars, resultVars, historyVars>>

Elapses(t) ==
    /\ pc[t] = "sleep" /\ Wake(t, "none")
    /\ UNCHANGED <<accountVars, pollVars, resultVars, historyVars>>

SignOutReturns(t) ==
    /\ pc[t] \in {"remove", "forget"} /\ Wake(t, "none")
    /\ UNCHANGED <<accountVars, pollVars, resultVars, historyVars>>

\* A button of the window.
Click(kind, a) ==
    /\ kind \in Clicks /\ Cardinality(Idle) > SpareSlots
    /\ \/ kind = "add" /\ CreateTask(AppJob(kind, a))
       \/ kind \in {"switch", "sign_out"} /\ a \in present /\ CreateTask(AppJob(kind, a))
       \/ kind = "refresh" /\ a = active /\ CreateTask(Job(kind, a))
    /\ UNCHANGED <<accountVars, pollVars, resultVars, historyVars>>

TaskStep(t) ==
    \/ CancelledHere(t) \/ Swallowed(t)
    \/ SwitchAccount(t) \/ AddAccount(t)
    \/ SignOutRemoves(t) \/ SignOutForgets(t) \/ SignOutDrops(t)
    \/ Enumerate(t) \/ PollStarts(t) \/ PollTicks(t) \/ ManualRefresh(t)
    \/ NextPage(t) \/ Refreshed(t) \/ AuthFailed(t)

Event(t) == PageArrives(t) \/ Elapses(t) \/ SignOutReturns(t)

Next ==
    \/ \E t \in Tasks : TaskStep(t) \/ Event(t)
    \/ \E kind \in Clicks, a \in Accounts : Click(kind, a)

Spec == Init /\ [][Next]_vars

-----------------------------------------------------------------------------
Polling(t) == job[t].kind = "poll" /\ cancel[t] # "yes"

\* A loop nobody has cancelled; those of outlived accounts are known to have been.
Unchallenged(t) == job[t].kind = "poll" /\ cancel[t] = "no" /\ job[t].account \notin outlived

(* start_polling keeps one loop: however sign-ins, switches and sign-outs    *)
(* follow each other, two loops that are not being cancelled never poll side *)
(* by side, but for one that outlived a cancellation; and the task the       *)
(* provider has noted polls for the account it has noted.                    *)
OnePollLoop ==
    /\ \A t, u \in Tasks : Unchallenged(t) /\ Unchallenged(u) => t = u
    /\ \A t \in CurrentPoll : job[t].account = pollAccount

(* FR-3-AC-2: a switch cancels the enumeration of the previous account.  A   *)
(* result of another account than the active one reaches the window only     *)
(* from a loop that outlived its cancellation, or for an account that was    *)
(* active without being listed when a sign-in made its own active (a sign-in *)
(* cancels nothing).                                                         *)
OnlyActiveIsWritten ==
    [][\A a \in Accounts \ (outlived \cup unlisted) :
           latest'[a] \notin {"none", latest[a]} => a = active]_vars

(* The list the window keeps greyed out after a failure is the one the       *)
(* provider would show: entries are kept only if the last recorded result of *)
(* that account has entries, and what the window last got and did not drop   *)
(* is what the provider recorded last.                                       *)
FailureKeepsList ==
    \A a \in Accounts : /\ latest[a] = "failed" => last[a] = "enumerated"
                        /\ latest[a] \in Recorded => last[a] = latest[a]

SigningOut(a) == \E t \in Tasks : job[t] = AppJob("sign_out", a)

(* FR-3-AC-3: signing out removes the account's resources from the window.   *)
(* Once the sign-out is over it holds none, whatever refreshes were in       *)
(* flight, unless a loop outlived its cancellation.                          *)
SignOutIsClean ==
    \A a \in Accounts \ (present \cup outlived) : SigningOut(a) \/ latest[a] = "none"

(* When the loop has nothing to run, the active account the listeners were   *)
(* told of has its poll loop: quick switches to and fro, a cancelled         *)
(* enumeration or a loop on its way out do not leave it without one.  (A     *)
(* switch to an account a sign_out has removed meanwhile tells of none.)     *)
ActiveIsPolled ==
    ready = <<>> /\ active # NoAccount /\ told =>
        \E t \in Tasks : Polling(t) /\ job[t].account = active
=============================================================================
