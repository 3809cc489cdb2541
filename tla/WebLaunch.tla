------------------------------ MODULE WebLaunch ------------------------------
(***************************************************************************)
(* Launching a resource in the browser (web_launcher.py and the launch      *)
(* handlers of ui_shell.py), while accounts are switched and signed out: the *)
(* spinner on the row, the warning before a second RemoteApp of a workspace, *)
(* the account the link is for.                                             *)
(*                                                                          *)
(* A link is abstracted to its account.  The launcher's call for launch      *)
(* details is off in this build, so a Cloud PC's link is composed like a     *)
(* bookmark's.                                                              *)
(* record_use, which may raise before anything else is done, is MethodPrefs'. *)
(***************************************************************************)
EXTENDS EventLoop

CONSTANTS
    Rows,          \* the keys of the resources listed
    RemoteApps,    \* the bookmarks among them whose kind is "remoteapp"
    WorkspaceOf,   \* workspace_id, by RemoteApp
    NoRow,
    Clicks,        \* what the user does to accounts
    MaxCalls       \* bound: no launch of a row with this many calls of the browser

ASSUME LaunchAssumption ==
    /\ RemoteApps \subseteq Rows
    /\ DOMAIN WorkspaceOf = RemoteApps
    /\ Clicks \subseteq {"add", "switch", "sign_out"}
    /\ NoRow \notin Rows /\ MaxCalls \in Nat

VARIABLES
    present,             \* the keys of AuthManager.accounts
    active,              \* AuthManager.active_account_id
    launching,           \* the window's _launching_keys: rows with a spinner
    dialog,              \* the row the open warning is about
    remoteappWorkspaces, \* the launcher's _remoteapp_workspaces
    abandoned,           \* calls of the browser whose launch was cancelled, by RemoteApp
    used,                \* history: workspaces a RemoteApp's tab was opened from
    lost,                \* history: those whose launch was cancelled before it noted that
    unstarted,           \* history: rows with the spinner of a launch cancelled before it began
    unlisted             \* history: accounts a switch made active though they were signed out,
                         \* until something cancels what is launched for them

accountVars == <<present, active>>
windowVars  == <<launching, dialog, remoteappWorkspaces>>
historyVars == <<used, lost, unstarted, unlisted>>
vars == <<loopVars, accountVars, windowVars, abandoned, historyVars>>

AppJob(kind, a) == [kind |-> kind, account |-> NoAccount, arg |-> a]

\* The launch of row k for account a.
LaunchJob(a, k) == [kind |-> "launch", account |-> a, arg |-> k]

IsLaunch(t) == job[t].kind = "launch"

RowOf(t) == job[t].arg

\* The workspaces that have k's tab as a RemoteApp: none, or one.
TabsOf(k) == {WorkspaceOf[r] : r \in RemoteApps \cap {k}}

Init ==
    /\ InitLoop
    /\ present \in SUBSET Accounts
    /\ active \in (IF present = {} THEN {NoAccount} ELSE present)
    /\ launching = {} /\ dialog = NoRow /\ remoteappWorkspaces = {}
    /\ abandoned = [k \in RemoteApps |-> 0]
    /\ used = {} /\ lost = {} /\ unstarted = {} /\ unlisted = {}

-----------------------------------------------------------------------------
(* The window's handlers.                                                   *)

LaunchesOf(k) == {t \in Tasks : IsLaunch(t) /\ RowOf(t) = k}

HasRoom(k) ==
    Cardinality(LaunchesOf(k)) + (IF k \in RemoteApps THEN abandoned[k] ELSE 0) < MaxCalls

StartWebLaunch(k) ==
    /\ active # NoAccount /\ HasRoom(k)
    /\ launching' = launching \cup {k}
    /\ CreateTask(LaunchJob(active, k))
    /\ UNCHANGED <<accountVars, remoteappWorkspaces, abandoned, historyVars>>

NeedsSecondRemoteappWarning(k) == TabsOf(k) \cap remoteappWorkspaces # {}

\* "Connect (Web)" on a row; which rows are shown by now is left open.  The dialog is
\* modal: until it is answered there is no other click, but tasks run on.
Launch(k) ==
    /\ dialog = NoRow /\ active # NoAccount
    /\ IF NeedsSecondRemoteappWarning(k)
       THEN dialog' = k /\ UNCHANGED <<loopVars, accountVars, launching, remoteappWorkspaces,
                                       abandoned, historyVars>>
       ELSE StartWebLaunch(k) /\ UNCHANGED dialog

\* "Open anyway" launches for the account that is active by now.
Confirm ==
    /\ dialog # NoRow /\ dialog' = NoRow
    /\ StartWebLaunch(dialog)

Dismiss ==
    /\ dialog # NoRow /\ dialog' = NoRow
    /\ UNCHANGED <<loopVars, accountVars, launching, remoteappWorkspaces, abandoned, historyVars>>

\* Bound: a sign-in is only started when nobody is signed in; a further account
\* leaves everything here as it is.
ClickAccount(kind, a) ==
    /\ dialog = NoRow /\ IF kind = "add" THEN present = {} ELSE a \in present
    /\ CreateTask(AppJob(kind, a))
    /\ UNCHANGED <<accountVars, windowVars, abandoned, historyVars>>

-----------------------------------------------------------------------------
(* The launch.                                                              *)

\* Mutant: a launch notes its RemoteApp before the browser is asked for.
LaunchBeginsNoting(t) ==
    /\ Running(t) /\ IsLaunch(t) /\ pc[t] = "new"
    /\ Run(t, "browser")
    /\ remoteappWorkspaces' = remoteappWorkspaces \cup TabsOf(RowOf(t))
    /\ UNCHANGED <<accountVars, launching, dialog, abandoned, historyVars>>

\* Composes the link and hands it to a thread that calls the browser.
LaunchBegins(t) ==
    /\ Running(t) /\ IsLaunch(t) /\ pc[t] = "new"
    /\ Run(t, "browser")
    /\ UNCHANGED <<accountVars, windowVars, abandoned, historyVars>>

\* The coroutine's finally.
SpinnerStops(t) ==
    /\ launching' = launching \ {RowOf(t)}
    /\ unstarted' = unstarted \ {RowOf(t)}

\* Mutant: the spinner is left to the next result when the browser could not be opened.
LaunchEndsOpened(t) ==
    /\ Running(t) /\ pc[t] = "browser"
    /\ IF reply[t] = "opened"
       THEN /\ remoteappWorkspaces' = remoteappWorkspaces \cup TabsOf(RowOf(t))
            /\ SpinnerStops(t)
       ELSE UNCHANGED <<remoteappWorkspaces, launching, unstarted>>
    /\ Run(t, "idle")
    /\ UNCHANGED <<accountVars, dialog, abandoned, used, lost, unlisted>>

\* Opened, or BrowserSpawnFailed: a toast with the link.
LaunchEnds(t) ==
    /\ Running(t) /\ pc[t] = "browser"
    /\ remoteappWorkspaces' =
           remoteappWorkspaces \cup (IF reply[t] = "opened" THEN TabsOf(RowOf(t)) ELSE {})
    /\ SpinnerStops(t)
    /\ Run(t, "idle")
    /\ UNCHANGED <<accountVars, dialog, abandoned, used, lost, unlisted>>

\* A coroutine that has not begun has no finally to run.
CancelledHere(t) ==
    /\ Cancelled(t) /\ IsLaunch(t)
    /\ IF pc[t] = "new"
       THEN unstarted' = unstarted \cup {RowOf(t)} /\ UNCHANGED launching
       ELSE SpinnerStops(t)
    /\ lost' = lost \cup (IF reply[t] = "opened" THEN TabsOf(RowOf(t)) ELSE {})
    /\ UNCHANGED <<accountVars, dialog, remoteappWorkspaces, abandoned, used, unlisted>>

-----------------------------------------------------------------------------
(* Accounts.  What the listeners of a switch create is in CloudPcProvider,   *)
(* as is what the window drops after a sign-out.                            *)

InBrowser(t) == IsLaunch(t) /\ pc[t] = "browser" /\ Suspended(t)

\* Threads are not cancelled: the browser opens the links of the launches of dead, too;
\* what matters of it is which workspaces that reaches.
Abandon(dead) ==
    abandoned' = [k \in RemoteApps |->
        abandoned[k] + Cardinality({t \in dead : InBrowser(t) /\ RowOf(t) = k})]

\* Mutant: the previous account's group is left running.
SwitchAccountOnly(t) ==
    /\ Running(t) /\ job[t].kind = "switch"
    /\ active' = job[t].arg
    /\ Run(t, "idle")
    /\ UNCHANGED <<present, windowVars, abandoned, historyVars>>

SwitchAccount(t) ==
    LET a == job[t].arg
        dead == IF active \in {NoAccount, a} THEN {} ELSE Tracked(active)
    IN
    /\ Running(t) /\ job[t].kind = "switch"
    /\ active' = a
    /\ Turn(t, "idle", dead, {}, <<>>)
    /\ Abandon(dead)
    /\ unlisted' = IF a = active THEN unlisted ELSE (unlisted \ {active}) \cup ({a} \ present)
    /\ UNCHANGED <<present, windowVars, used, lost, unstarted>>

\* The browser round trip of add_account is over when its task runs.
AddAccount(t) ==
    LET a == job[t].arg IN
    /\ Running(t) /\ job[t].kind = "add"
    /\ present' = present \cup {a}
    /\ active' = IF present' = {a} THEN a ELSE active
    /\ Run(t, "idle")
    /\ UNCHANGED <<windowVars, abandoned, historyVars>>

SignOutRemoves(t) ==
    /\ Running(t) /\ job[t].kind = "sign_out" /\ pc[t] = "new"
    /\ Run(t, "remove")
    /\ UNCHANGED <<accountVars, windowVars, abandoned, historyVars>>

\* sign_out after its last await; the next account becomes active without a word.
SignOutForgets(t) ==
    LET a == job[t].arg  left == present \ {a} IN
    /\ Running(t) /\ job[t].kind = "sign_out" /\ pc[t] = "remove"
    /\ present' = left
    /\ active' \in (IF active # a THEN {active} ELSE IF left = {} THEN {NoAccount} ELSE left)
    /\ TurnDropping(t, "idle", Tracked(a), {}, Tracked(a), <<>>)
    /\ Abandon(Tracked(a))
    /\ unlisted' = unlisted \ {a}
    /\ UNCHANGED <<windowVars, used, lost, unstarted>>

-----------------------------------------------------------------------------
(* What tasks wait for.                                                     *)

Returns(t) ==
    /\ pc[t] = "remove" /\ Wake(t, "none")
    /\ UNCHANGED <<accountVars, windowVars, abandoned, historyVars>>

BrowserOpens(t) ==
    /\ pc[t] = "browser" /\ Wake(t, "opened")
    /\ used' = used \cup TabsOf(RowOf(t))
    /\ UNCHANGED <<accountVars, windowVars, abandoned, lost, unstarted, unlisted>>

BrowserFails(t) ==
    /\ pc[t] = "browser" /\ Wake(t, "failed")
    /\ UNCHANGED <<accountVars, windowVars, abandoned, historyVars>>

\* A RemoteApp's call, of a cancelled launch; nobody waits for what it returns.
AbandonedCall(k) ==
    /\ abandoned[k] > 0
    /\ abandoned' = [abandoned EXCEPT ![k] = @ - 1]
    /\ \/ used' = used \cup TabsOf(k) /\ lost' = lost \cup TabsOf(k)
       \/ UNCHANGED <<used, lost>>
    /\ UNCHANGED <<loopVars, accountVars, windowVars, unstarted, unlisted>>

TaskStep(t) ==
    \/ LaunchBegins(t) \/ LaunchEnds(t) \/ CancelledHere(t)
    \/ SwitchAccount(t) \/ AddAccount(t) \/ SignOutRemoves(t) \/ SignOutForgets(t)

Event(t) == Returns(t) \/ BrowserOpens(t) \/ BrowserFails(t)

Next ==
    \/ \E k \in Rows : Launch(k)
    \/ \E k \in RemoteApps : AbandonedCall(k)
    \/ Confirm \/ Dismiss
    \/ \E kind \in Clicks, a \in Accounts : ClickAccount(kind, a)
    \/ \E t \in Tasks : TaskStep(t) \/ Event(t)

Spec == Init /\ [][Next]_vars

-----------------------------------------------------------------------------
(* FR-3: the browser session follows the active account.  A launch that was  *)
(* not cancelled is one of the account that is active: neither a warning     *)
(* answered after a switch or a sign-out, nor a click in the middle of one,   *)
(* has a link opened for the account that was.  (But for an account that a   *)
(* switch made active after it was signed out: the next sign-in replaces it  *)
(* and cancels nothing.)                                                     *)
LaunchesFollowActive ==
    \A t \in Tasks : IsLaunch(t) /\ cancel[t] = "no" =>
                         job[t].account \in {active} \cup unlisted

(* "A stale warning is worse than none", and a missing one disconnects the   *)
(* user: the launcher remembers the workspaces a tab was opened from, no     *)
(* more and no less, but for the launch that is about to note one and those   *)
(* that were cancelled while the browser opened theirs.                      *)
OpenedAreTracked ==
    used = remoteappWorkspaces \cup lost
           \cup UNION {TabsOf(RowOf(t)) : t \in {u \in Tasks : IsLaunch(u) /\ reply[u] = "opened"}}

(* Only a launch that is cancelled before it begins leaves its spinner       *)
(* behind; one that fails, or is cancelled while it waits, takes it along.   *)
SpinnersEnd ==
    launching \ unstarted \subseteq {RowOf(t) : t \in {u \in Tasks : IsLaunch(u)}}
=============================================================================
