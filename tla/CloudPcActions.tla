--------------------------- MODULE CloudPcActions ---------------------------
(***************************************************************************)
(* Management actions: CloudPcActionService (cloudpc_actions.py), the        *)
(* requests it makes (GraphClient), and how the window suppresses and        *)
(* releases the actions of a Cloud PC (PendingTransitions, ui_shell.py).     *)
(*                                                                          *)
(* An account has one Cloud PC here.  "restart" stands for every action of   *)
(* invoke_action; a reprovision's dialog and its confirmation are one click. *)
(***************************************************************************)
EXTENDS EventLoop, GraphClient

CONSTANTS
    MaxRetries,    \* invoke_action's max_retries; a reprovision has 0
    RetryAfters,   \* the Retry-After values a server sends
    Clicks,        \* the buttons the user uses: actions, "switch", "refresh"
    SpareSlots     \* a click leaves this many slots idle, and one for each action under
                   \* way, so that no step lacks one

Actions == {"restart", "reprovision"}

ASSUME ActionsAssumption ==
    /\ MaxRetries \in Nat /\ SpareSlots \in Nat
    /\ RetryAfters \subseteq Int \cup {NoSeconds}
    /\ Clicks \subseteq Actions \cup {"switch", "refresh"}

VARIABLES
    active,            \* AuthManager.active_account_id
    pending,           \* PendingTransitions: the action that suppresses the others
    contractDisabled,  \* actions disabled for the session
    req,               \* the request an action is making
    switched           \* history: the user has switched accounts

uiVars == <<active, pending, switched>>
vars   == <<loopVars, uiVars, contractDisabled, req>>

Job(kind, a) == [kind |-> kind, account |-> a, arg |-> a]
SwitchJob(a) == [kind |-> "switch", account |-> NoAccount, arg |-> a]

\* Mutant: one budget for every action.
BudgetOfAny(action) == MaxRetries

Budget(action) == IF action = "reprovision" THEN 0 ELSE MaxRetries

\* What _post_action makes of an answer: a 404, another 4xx or a 2xx with a body is
\* a ContractError; ConsentRequired and Failed differ in wording alone.
Outcome(answer) ==
    IF answer \in {"json", "not_found", "client_error"} THEN "contract"
    ELSE IF answer = "no_content" THEN "accepted"
    ELSE IF answer \in Transient THEN "transient"
    ELSE "failed"

Acting(t) == job[t].kind \in Actions

Init ==
    /\ InitLoop
    /\ active \in Accounts
    /\ pending = [a \in Accounts |-> "none"]
    /\ contractDisabled = {}
    /\ req = [t \in Tasks |-> Request(0)]
    /\ switched = FALSE

-----------------------------------------------------------------------------
(* An action, from its POST's first token to its outcome.                   *)

\* Every outcome but Accepted lifts the suppression, and so does an AuthError.
Lift(t) == pending' = [pending EXCEPT ![job[t].account] = "none"]

Fails(t) ==
    /\ Lift(t) /\ UNCHANGED <<active, switched>>
    /\ Run(t, "idle")
    /\ req' = [req EXCEPT ![t] = Request(0)]

\* The gate is asked once, before the first token.
Invoke(t) ==
    /\ Running(t) /\ Acting(t) /\ pc[t] = "new"
    /\ IF job[t].kind \in contractDisabled
       THEN Fails(t)
       ELSE /\ Run(t, "token")
            /\ req' = [req EXCEPT ![t] = Request(Budget(job[t].kind))]
            /\ UNCHANGED uiVars
    /\ UNCHANGED contractDisabled

Post(t) ==
    /\ Running(t) /\ Acting(t) /\ pc[t] = "token" /\ reply[t] = "token"
    /\ Run(t, "post")
    /\ req' = [req EXCEPT ![t] = Sent(req[t])]
    /\ UNCHANGED <<uiVars, contractDisabled>>

NoToken(t) ==
    /\ Running(t) /\ Acting(t) /\ pc[t] = "token" /\ reply[t] = "auth_error"
    /\ Fails(t)
    /\ UNCHANGED contractDisabled

Retry(t) ==
    /\ Running(t) /\ Acting(t) /\ pc[t] = "post" /\ reply[t] = "transient"
    /\ \E header \in RetryAfters :
          IF GivesUp(Refused(req[t], header))
          THEN Fails(t)
          ELSE /\ Run(t, "backoff")
               /\ req' = [req EXCEPT ![t] = Refused(req[t], header)]
               /\ UNCHANGED uiVars
    /\ UNCHANGED contractDisabled

Slept(t) ==
    /\ Running(t) /\ Acting(t) /\ pc[t] = "backoff"
    /\ Run(t, "token")
    /\ UNCHANGED <<uiVars, contractDisabled, req>>

\* Mutant: the window leaves the suppression to the next refresh alone.
AcceptedUnwatched(t) ==
    /\ Running(t) /\ Acting(t) /\ pc[t] = "post" /\ reply[t] = "accepted"
    /\ Turn(t, "idle", {}, {}, <<Job("refresh", job[t].account)>>)
    /\ req' = [req EXCEPT ![t] = Request(0)]
    /\ UNCHANGED <<uiVars, contractDisabled>>

\* The service asks for a refresh of the account; the window starts a watchdog.
Accepted(t) ==
    /\ Running(t) /\ Acting(t) /\ pc[t] = "post" /\ reply[t] = "accepted"
    /\ Turn(t, "idle", {}, {}, <<Job("refresh", job[t].account), Job("watchdog", active)>>)
    /\ req' = [req EXCEPT ![t] = Request(0)]
    /\ UNCHANGED <<uiVars, contractDisabled>>

\* Mutant: the Cloud PC is disabled, not the action.
RefusesAll(t) ==
    /\ Running(t) /\ Acting(t) /\ pc[t] = "post" /\ reply[t] \in {"contract", "failed"}
    /\ contractDisabled' = contractDisabled \cup
                           (IF reply[t] = "contract" THEN {job[t].account} ELSE {})
    /\ Fails(t)

Refuses(t) ==
    /\ Running(t) /\ Acting(t) /\ pc[t] = "post" /\ reply[t] \in {"contract", "failed"}
    /\ contractDisabled' = contractDisabled \cup
                           (IF reply[t] = "contract" THEN {job[t].kind} ELSE {})
    /\ Fails(t)

-----------------------------------------------------------------------------
(* Refreshes, the watchdog and account switches.                            *)

StartWaiting(t) ==
    /\ Running(t) /\ pc[t] = "new" /\ job[t].kind \in {"refresh", "watchdog"}
    /\ Run(t, IF job[t].kind = "refresh" THEN "page" ELSE "sleep")
    /\ UNCHANGED <<uiVars, contractDisabled, req>>

\* Any account's Enumerated clears every suppression; a failure clears none.
Refreshed(t) ==
    /\ Running(t) /\ pc[t] = "page"
    /\ pending' = IF reply[t] = "enumerated" THEN [a \in Accounts |-> "none"] ELSE pending
    /\ Run(t, "idle")
    /\ UNCHANGED <<active, switched, contractDisabled, req>>

WatchdogFires(t) ==
    LET a == job[t].account IN
    /\ Running(t) /\ pc[t] = "sleep"
    /\ IF pending[a] = "none"
       THEN Run(t, "idle")
       ELSE Turn(t, "idle", {}, {}, <<Job("refresh", active)>>)
    /\ Lift(t)
    /\ UNCHANGED <<active, switched, contractDisabled, req>>

\* Mutant: the previous account's group is left running.
SwitchAccountOnly(t) ==
    /\ Running(t) /\ job[t].kind = "switch"
    /\ active' = job[t].arg /\ switched' = TRUE
    /\ Turn(t, "idle", {}, {}, <<Job("refresh", job[t].arg)>>)
    /\ UNCHANGED <<pending, contractDisabled, req>>

\* The listeners enumerate the new account.
SwitchAccount(t) ==
    LET a == job[t].arg IN
    /\ Running(t) /\ job[t].kind = "switch"
    /\ IF a = active
       THEN Run(t, "idle") /\ UNCHANGED <<active, switched>>
       ELSE /\ active' = a /\ switched' = TRUE
            /\ Turn(t, "idle", Tracked(active), {}, <<Job("refresh", a)>>)
    /\ UNCHANGED <<pending, contractDisabled, req>>

\* The window's coroutines clean nothing up when they are cancelled.
CancelledHere(t) ==
    /\ Cancelled(t)
    /\ req' = [req EXCEPT ![t] = Request(0)]
    /\ UNCHANGED <<uiVars, contractDisabled>>

-----------------------------------------------------------------------------
(* What tasks wait for, and what the user does.                             *)

Event(t) ==
    /\ \/ pc[t] = "token" /\ \E r \in {"token", "auth_error"} : Wake(t, r)
       \/ pc[t] = "post" /\ \E r \in Final \cup Transient : Wake(t, Outcome(r))
       \/ pc[t] = "page" /\ \E r \in {"enumerated", "failed"} : Wake(t, r)
       \/ pc[t] \in {"backoff", "sleep"} /\ Wake(t, "none")
    /\ UNCHANGED <<uiVars, contractDisabled, req>>

\* An accepted action takes two slots for its one.
CanClick(kind) ==
    /\ kind \in Clicks
    /\ Cardinality(Idle) > SpareSlots + Cardinality({t \in Tasks : Acting(t)})

\* The menu of the active account's Cloud PC.
ClickAction(action) ==
    /\ CanClick(action) /\ pending[active] = "none" /\ action \notin contractDisabled
    /\ pending' = [pending EXCEPT ![active] = action]
    /\ CreateTask(Job(action, active))
    /\ UNCHANGED <<active, switched, contractDisabled, req>>

ClickRefresh ==
    /\ CanClick("refresh") /\ CreateTask(Job("refresh", active))
    /\ UNCHANGED <<uiVars, contractDisabled, req>>

ClickSwitch(a) ==
    /\ CanClick("switch") /\ CreateTask(SwitchJob(a))
    /\ UNCHANGED <<uiVars, contractDisabled, req>>

TaskStep(t) ==
    \/ Invoke(t) \/ Post(t) \/ NoToken(t) \/ Retry(t) \/ Slept(t) \/ Accepted(t) \/ Refuses(t)
    \/ StartWaiting(t) \/ Refreshed(t) \/ WatchdogFires(t) \/ SwitchAccount(t)
    \/ CancelledHere(t)

Next ==
    \/ \E t \in Tasks : TaskStep(t) \/ Event(t)
    \/ \E action \in Actions : ClickAction(action)
    \/ ClickRefresh
    \/ \E a \in Accounts : ClickSwitch(a)

Spec == Init /\ [][Next]_vars

-----------------------------------------------------------------------------
(* The properties.                                                          *)

TypeOK ==
    /\ ready \in Seq(Tasks)
    /\ pc \in [Tasks -> {"idle", "new", "token", "post", "backoff", "page", "sleep"}]
    /\ active \in Accounts
    /\ pending \in [Accounts -> Actions \cup {"none"}]
    /\ contractDisabled \subseteq Actions

(* A request is sent at most once more than it may be retried, so that a     *)
(* reprovision is POSTed at most once per click whatever the server answers, *)
(* and no Retry-After parks it for longer than the cap.                      *)
RequestsBounded ==
    \A t \in Tasks : SecondsCapped(req[t]) /\ req[t].sent <= req[t].budget + 1

(* A request is only repeated within its budget, and not for a reprovision.  *)
ReprovisionIsSentOnce ==
    \A t \in Tasks : job[t].kind = "reprovision" => req[t].sent <= 1

(* FR-3-AC-2: a switch cancels pending actions of the previous account.  A   *)
(* POST leaves only for the account that is active.                          *)
PostsForActive ==
    [][\A t \in Tasks : req'[t].sent > req[t].sent => job[t].account = active]_vars

(* A suppression does not outlive what can lift it: while an action is       *)
(* suppressed, the one that suppressed it is under way or a watchdog is set, *)
(* through overlapping actions, failures and refreshes that clear it early.  *)
(* (A switch cancels both; the next enumeration lifts it then.)              *)
SuppressionIsWatched ==
    \A a \in Accounts :
        pending[a] # "none" /\ ~switched =>
            \E t \in Tasks : job[t].account = a /\ (Acting(t) \/ job[t].kind = "watchdog")

InFlight(t) == Acting(t) /\ Live(t) /\ cancel[t] = "no"

(* "An invoked action's transition suppresses conflicting actions on that    *)
(* resource until the next successful refresh resolves the new state": no    *)
(* second action is invoked on a Cloud PC whose first is still being sent.   *)
NoConflictingActions ==
    \A t, u \in Tasks : InFlight(t) /\ InFlight(u) /\ job[t].account = job[u].account => t = u
=============================================================================
