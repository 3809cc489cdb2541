------------------------ MODULE CloudPcProviderProofs ------------------------
(***************************************************************************)
(* What the run of CloudPcProvider shows on two accounts and five slots, for *)
(* any number of accounts, tasks and clicks at a time.                       *)
(***************************************************************************)
EXTENDS CloudPcProvider, EventLoopProofs

AppJobs == {AppJob(kind, a) : kind \in {"add", "switch", "sign_out"}, a \in Accounts}

WorkJobs == {Job(kind, a) : kind \in {"enumerate", "poll", "refresh"}, a \in Accounts}

IsPoll(t) == job[t].kind = "poll"

(* What a task may be, by the place it is suspended at.  Only the work of an *)
(* account is ever cancelled.                                               *)
TaskOK(t) ==
    /\ pc[t] \in {"idle", "new", "remove", "forget", "page", "sleep"}
    /\ cancel[t] \in {"no", "yes", "lost"}
    /\ pc[t] = "idle" => job[t] = NoJob /\ cancel[t] = "no" /\ group[t] = NoAccount
    /\ pc[t] = "new" => job[t] \in WorkJobs \cup AppJobs
    /\ pc[t] \in {"remove", "forget"} => job[t] \in AppJobs /\ job[t].kind = "sign_out"
    /\ pc[t] = "page" => job[t] \in WorkJobs
    /\ pc[t] = "sleep" => job[t] \in WorkJobs /\ IsPoll(t)
    /\ job[t] \in AppJobs => cancel[t] = "no" /\ group[t] = NoAccount
    /\ job[t] \in WorkJobs => group[t] \in {job[t].account, NoAccount}
    /\ cancel[t] = "lost" => IsPoll(t)

TasksOK ==
    /\ DOMAIN job = Tasks /\ DOMAIN group = Tasks /\ DOMAIN pc = Tasks /\ DOMAIN cancel = Tasks
    /\ \A t \in Tasks : TaskOK(t)

(* The account a sign-in replaces is one that was signed out before it was   *)
(* made active.                                                             *)
AccountsOK ==
    /\ present \subseteq Accounts /\ active \in Accounts \cup {NoAccount}
    /\ active \in present \cup unlisted \cup {NoAccount}

\* Nobody has cancelled t; and it is not a loop that may be one that was.
Standing(t) == cancel[t] = "no" /\ ~(IsPoll(t) /\ job[t].account \in outlived)

(* Work that stands is in the group a switch or a sign-out cancels.           *)
WorkIsActive ==
    \A t \in Tasks : job[t] \in WorkJobs /\ Standing(t) =>
        job[t].account \in {active} \cup unlisted /\ group[t] = job[t].account

(* A refresh that stands is for an account that is signed in.                *)
PagesAreListed ==
    \A t \in Tasks : pc[t] = "page" /\ Standing(t) => job[t].account \in present

(* A loop that stands is the one the provider has noted.                     *)
LoopIsKnown == \A t \in Tasks : IsPoll(t) /\ Standing(t) => t = pollTask

NotedAccount == \A t \in Tasks : t = pollTask /\ IsPoll(t) => job[t].account = pollAccount

ResultsOK ==
    /\ DOMAIN last = Accounts /\ DOMAIN latest = Accounts
    /\ FailureKeepsList /\ SignOutIsClean

WorkInv == WorkIsActive /\ PagesAreListed /\ LoopIsKnown /\ NotedAccount

IInv == TasksOK /\ AccountsOK /\ WorkInv /\ ResultsOK

LEMMA JobShapes ==
    /\ \A j \in WorkJobs : /\ j.kind \in {"enumerate", "poll", "refresh"} /\ j.account \in Accounts
                           /\ j.account # NoAccount /\ j.arg = j.account /\ j = Job(j.kind, j.account)
    /\ \A j \in AppJobs : /\ j.kind \in {"add", "switch", "sign_out"} /\ j.account = NoAccount
                          /\ j.arg \in Accounts /\ j = AppJob(j.kind, j.arg)
    /\ NoJob.kind = "none" /\ NoJob \notin WorkJobs \cup AppJobs
    /\ \A j \in WorkJobs : j \notin AppJobs
  <1>1. \A j \in WorkJobs : /\ j.kind \in {"enumerate", "poll", "refresh"} /\ j.account \in Accounts
                           /\ j.account # NoAccount /\ j.arg = j.account /\ j = Job(j.kind, j.account)
    BY LoopAssumption DEF WorkJobs, Job
  <1>2. \A j \in AppJobs : /\ j.kind \in {"add", "switch", "sign_out"} /\ j.account = NoAccount
                          /\ j.arg \in Accounts /\ j = AppJob(j.kind, j.arg)
    BY DEF AppJobs, AppJob
  <1>3. NoJob.kind = "none"
    BY DEF NoJob
  <1> QED
    BY <1>1, <1>2, <1>3

(* What a task is, by its kind.                                              *)
LEMMA KindIsJob ==
    ASSUME TasksOK, NEW t \in Tasks
    PROVE  /\ job[t].kind \in {"enumerate", "poll", "refresh"} => job[t] \in WorkJobs
           /\ job[t].kind \in {"add", "switch", "sign_out"} => job[t] \in AppJobs
           /\ job[t].kind # "none" => Live(t)
           /\ Live(t) => job[t] \in WorkJobs \cup AppJobs
  <1>1. TaskOK(t)
    BY DEF TasksOK
  <1> QED
    BY <1>1, JobShapes DEF TaskOK, Live

-----------------------------------------------------------------------------
(* A turn of the loop.                                                      *)

\* t may go on to point.
MayReach(t, point) ==
    \/ point = "idle"
    \/ point = "page" /\ job[t] \in WorkJobs
    \/ point = "sleep" /\ job[t] \in WorkJobs /\ IsPoll(t)
    \/ point \in {"remove", "forget"} /\ job[t] \in AppJobs /\ job[t].kind = "sign_out"

\* Only work is cancelled, and only loops may survive it; only work is created.
SparesOthers(dead, lost, untracked, new) ==
    /\ \A u \in Tasks : u \in dead => job[u] \in WorkJobs
    /\ \A u \in Tasks : u \in lost => IsPoll(u)
    /\ untracked \subseteq dead /\ lost \subseteq dead
    /\ new \subseteq WorkJobs

LEMMA TurnKeepsTasks ==
    ASSUME TasksOK, NEW t \in Tasks, NEW point, NEW dead, NEW lost, NEW untracked, NEW new,
           Stepped(t, point, dead, lost, untracked, new),
           MayReach(t, point), SparesOthers(dead, lost, untracked, new)
    PROVE  TasksOK'
  <1>1. ASSUME NEW u \in Tasks PROVE TaskOK(u)'
    <2>1. TaskOK(u)
      BY DEF TasksOK
    <2>2. CASE Untouched(u, t, dead, lost, untracked)
      <3>1. CASE u \in dead
        BY <2>1, <2>2, <3>1, JobShapes DEF Untouched, TaskOK, SparesOthers, IsPoll
      <3>2. CASE u \notin dead
        BY <2>1, <2>2, <3>2 DEF Untouched, TaskOK, SparesOthers, IsPoll
      <3> QED
        BY <3>1, <3>2
    <2>3. CASE Resumed(u, t, point, untracked)
      <3>1. CASE point = "idle"
        BY <2>3, <3>1, JobShapes DEF Resumed, TaskOK
      <3>2. CASE point # "idle"
        BY <2>1, <2>3, <3>2, JobShapes DEF Resumed, TaskOK, MayReach, IsPoll
      <3> QED
        BY <3>1, <3>2
    <2>4. ASSUME NEW j \in new, Created(u, j, dead, lost) PROVE TaskOK(u)'
      <3>1. u \notin dead /\ u \notin lost /\ cancel[u] = "no" /\ j \in WorkJobs
        BY <2>1, <2>4, JobShapes DEF Created, TaskOK, SparesOthers
      <3> QED
        BY <2>4, <3>1, JobShapes DEF Created, TaskOK
    <2> QED
      BY <2>2, <2>3, <2>4 DEF Stepped
  <1>2. DOMAIN job' = Tasks /\ DOMAIN group' = Tasks /\ DOMAIN pc' = Tasks /\ DOMAIN cancel' = Tasks
    BY DEF Stepped
  <1> QED
    BY <1>1, <1>2 DEF TasksOK

\* t was not cancelled, ends, or is a loop that is known to have been cancelled.
GoesOn(t, point, dead) ==
    \/ point = "idle"
    \/ cancel[t] = "no" /\ t \notin dead
    \/ IsPoll(t) /\ job[t].account \in outlived'

(* What stands after a turn is what stood before it, or is new.              *)
LEMMA TurnStands ==
    ASSUME TasksOK, NEW t \in Tasks, NEW point, NEW dead, NEW lost, NEW untracked, NEW new,
           Stepped(t, point, dead, lost, untracked, new),
           SparesOthers(dead, lost, untracked, new), GoesOn(t, point, dead), outlived \subseteq outlived',
           NEW u \in Tasks, Standing(u)', job'[u] \in WorkJobs
    PROVE  \/ /\ Standing(u) /\ u \notin dead /\ job'[u] = job[u] /\ group'[u] = group[u]
              /\ pc'[u] = IF u = t THEN point ELSE pc[u]
           \/ \E j \in new : Created(u, j, dead, lost)
  <1>1. CASE Untouched(u, t, dead, lost, untracked)
    BY <1>1 DEF Untouched, Standing, SparesOthers, IsPoll
  <1>2. CASE Resumed(u, t, point, untracked)
    <2>1. point # "idle" /\ job'[u] = job[u] /\ u = t /\ pc'[u] = point
      BY <1>2, JobShapes DEF Resumed
    <2>2. ~(IsPoll(t) /\ job[t].account \in outlived')
      BY <2>1 DEF Standing, IsPoll
    <2>3. cancel[t] = "no" /\ t \notin dead
      BY <2>1, <2>2 DEF GoesOn
    <2>4. Standing(t) /\ t \notin untracked
      BY <2>2, <2>3 DEF Standing, SparesOthers
    <2> QED
      BY <1>2, <2>1, <2>3, <2>4 DEF Resumed
  <1> QED
    BY <1>1, <1>2 DEF Stepped

LEMMA TurnKeepsActive ==
    ASSUME TasksOK, WorkIsActive, NEW t \in Tasks, NEW point, NEW dead, NEW lost, NEW untracked, NEW new,
           Stepped(t, point, dead, lost, untracked, new),
           SparesOthers(dead, lost, untracked, new), GoesOn(t, point, dead), outlived \subseteq outlived',
           \A u \in Tasks : job[u] \in WorkJobs /\ Standing(u) /\ u \notin dead =>
               job[u].account \in {active'} \cup unlisted',
           \A j \in new : j.account \in {active'} \cup unlisted'
    PROVE  WorkIsActive'
  <1> SUFFICES ASSUME NEW u \in Tasks, job'[u] \in WorkJobs, Standing(u)'
               PROVE  job'[u].account \in {active'} \cup unlisted' /\ group'[u] = job'[u].account
    BY DEF WorkIsActive, WorkJobs
  <1>1. CASE Standing(u) /\ u \notin dead /\ job'[u] = job[u] /\ group'[u] = group[u]
    BY <1>1 DEF WorkIsActive
  <1>2. CASE \E j \in new : Created(u, j, dead, lost)
    BY <1>2 DEF Created
  <1> QED
    BY <1>1, <1>2, TurnStands

LEMMA TurnKeepsPages ==
    ASSUME TasksOK, TasksOK', PagesAreListed, NEW t \in Tasks, NEW point, NEW dead, NEW lost, NEW untracked, NEW new,
           Stepped(t, point, dead, lost, untracked, new),
           SparesOthers(dead, lost, untracked, new), GoesOn(t, point, dead), outlived \subseteq outlived',
           \A u \in Tasks : pc[u] = "page" /\ Standing(u) /\ u \notin dead => job[u].account \in present',
           point = "page" => job[t].account \in present'
    PROVE  PagesAreListed'
  <1> SUFFICES ASSUME NEW u \in Tasks, pc'[u] = "page", Standing(u)'
               PROVE  job'[u].account \in present'
    BY DEF PagesAreListed
  <1>1. job'[u] \in WorkJobs
    BY DEF TasksOK, TaskOK, WorkJobs
  <1>2. CASE Standing(u) /\ u \notin dead /\ job'[u] = job[u] /\ pc'[u] = IF u = t THEN point ELSE pc[u]
    BY <1>2
  <1>3. CASE \E j \in new : Created(u, j, dead, lost)
    BY <1>3 DEF Created
  <1> QED
    BY <1>1, <1>2, <1>3, TurnStands

LEMMA TurnKeepsLoop ==
    ASSUME TasksOK, TasksOK', LoopIsKnown, NotedAccount,
           NEW t \in Tasks, NEW point, NEW dead, NEW lost, NEW untracked, NEW new,
           Stepped(t, point, dead, lost, untracked, new),
           SparesOthers(dead, lost, untracked, new), GoesOn(t, point, dead), outlived \subseteq outlived',
           \A j \in new : j.kind # "poll", UNCHANGED pollVars
    PROVE  LoopIsKnown' /\ NotedAccount'
  <1>1. ASSUME NEW u \in Tasks, IsPoll(u)', Standing(u)' PROVE u = pollTask'
    <2>1. job'[u] \in WorkJobs
      BY <1>1, JobShapes DEF TasksOK, TaskOK, IsPoll, WorkJobs, AppJobs
    <2>2. CASE Standing(u) /\ job'[u] = job[u]
      BY <1>1, <2>2 DEF LoopIsKnown, IsPoll, pollVars
    <2>3. CASE \E j \in new : Created(u, j, dead, lost)
      BY <1>1, <2>3 DEF Created, IsPoll
    <2> QED
      BY <1>1, <2>1, <2>2, <2>3, TurnStands
  <1>2. ASSUME NEW u \in Tasks, u = pollTask', IsPoll(u)' PROVE job'[u].account = pollAccount'
    <2>1. job'[u] = job[u]
      BY <1>2, JobShapes DEF Stepped, Untouched, Resumed, Created, IsPoll
    <2> QED
      BY <1>2, <2>1 DEF NotedAccount, IsPoll, pollVars
  <1> QED
    BY <1>1, <1>2 DEF LoopIsKnown, NotedAccount

(* A turn that creates no work and leaves the active account alone.          *)
LEMMA QuietTurn ==
    ASSUME TasksOK, AccountsOK, WorkInv, NEW t \in Tasks, NEW point, Run(t, point),
           MayReach(t, point), GoesOn(t, point, {}), outlived \subseteq outlived',
           point = "page" => job[t].account \in present,
           present \subseteq present', present' \subseteq Accounts, UNCHANGED <<active, unlisted, pollVars>>
    PROVE  TasksOK' /\ AccountsOK' /\ WorkInv'
  <1>1. Stepped(t, point, {}, {}, {}, {}) /\ SparesOthers({}, {}, {}, {})
    BY RunEffect DEF SparesOthers
  <1>2. TasksOK'
    BY <1>1, TurnKeepsTasks
  <1>3. WorkIsActive'
    BY <1>1, TurnKeepsActive DEF WorkInv, WorkIsActive
  <1>4. PagesAreListed'
    BY <1>1, <1>2, TurnKeepsPages DEF WorkInv, PagesAreListed
  <1>5. LoopIsKnown' /\ NotedAccount'
    BY <1>1, <1>2, TurnKeepsLoop DEF WorkInv
  <1> QED
    BY <1>2, <1>3, <1>4, <1>5 DEF AccountsOK, WorkInv

(* A sign-out ends with its own task.                                        *)
LEMMA TurnKeepsSigning ==
    ASSUME TasksOK, NEW t \in Tasks, NEW point, NEW dead, NEW lost, NEW untracked, NEW new,
           Stepped(t, point, dead, lost, untracked, new)
    PROVE  \A a : SigningOut(a) /\ (point # "idle" \/ job[t].kind # "sign_out" \/ job[t].arg # a)
                   => SigningOut(a)'
  <1> SUFFICES ASSUME NEW a, SigningOut(a), point # "idle" \/ job[t].kind # "sign_out" \/ job[t].arg # a
               PROVE  SigningOut(a)'
    OBVIOUS
  <1>1. PICK u \in Tasks : job[u] = AppJob("sign_out", a)
    BY DEF SigningOut
  <1>2. pc[u] # "idle"
    BY <1>1 DEF TasksOK, TaskOK, AppJob, NoJob
  <1>3. job'[u] = job[u]
    BY <1>1, <1>2 DEF Stepped, Untouched, Resumed, Created, AppJob
  <1> QED
    BY <1>1, <1>3 DEF SigningOut, AppJob

LEMMA QuietResults ==
    ASSUME TasksOK, ResultsOK, NEW t \in Tasks, NEW point, Run(t, point),
           point # "idle" \/ job[t].kind # "sign_out",
           UNCHANGED resultVars, present \subseteq present', outlived \subseteq outlived'
    PROVE  ResultsOK'
  <1>1. Stepped(t, point, {}, {}, {}, {})
    BY RunEffect
  <1>2. \A a : SigningOut(a) => SigningOut(a)'
    BY <1>1, TurnKeepsSigning
  <1>3. SignOutIsClean'
    BY <1>2 DEF ResultsOK, SignOutIsClean, resultVars
  <1> QED
    BY <1>3 DEF ResultsOK, FailureKeepsList, resultVars

-----------------------------------------------------------------------------
(* The invariant, action by action.                                         *)

LEMMA InitHolds == Init => IInv
  <1> SUFFICES ASSUME Init PROVE IInv
    OBVIOUS
  <1>1. \A t \in Tasks : /\ job[t] = NoJob /\ pc[t] = "idle" /\ cancel[t] = "no" /\ group[t] = NoAccount
                        /\ ~IsPoll(t) /\ job[t] \notin WorkJobs \cup AppJobs
    BY JobShapes DEF Init, InitLoop, IsPoll
  <1>2. TasksOK
    BY <1>1 DEF Init, InitLoop, TasksOK, TaskOK
  <1>3. WorkInv
    BY <1>1 DEF WorkInv, WorkIsActive, PagesAreListed, LoopIsKnown, NotedAccount
  <1>4. AccountsOK
    BY DEF Init, AccountsOK
  <1>5. ResultsOK
    BY DEF Init, ResultsOK, FailureKeepsList, SignOutIsClean, Recorded
  <1> QED
    BY <1>2, <1>3, <1>4, <1>5 DEF IInv

(* The task that runs, and what it is.                                       *)
LEMMA RunnerGoesOn ==
    ASSUME TasksOK, NEW t \in Tasks, Running(t), NEW point
    PROVE  GoesOn(t, point, {})
  BY DEF Running, GoesOn

(* Steps of the loop that change neither accounts nor results.               *)
LEMMA PlainKeeps ==
    ASSUME IInv, NEW t \in Tasks,
           \/ CancelledHere(t) \/ Swallowed(t) \/ SignOutRemoves(t) \/ PollStarts(t)
           \/ PollTicks(t) \/ ManualRefresh(t) \/ NextPage(t) \/ AuthFailed(t)
    PROVE  IInv'
  <1> USE DEF IInv
  <1>1. TaskOK(t)
    BY DEF TasksOK
  <1>2. PICK point :
           /\ Run(t, point) /\ MayReach(t, point) /\ GoesOn(t, point, {}) /\ outlived \subseteq outlived'
           /\ point = "page" => job[t].account \in present
           /\ point # "idle" \/ job[t].kind # "sign_out"
           /\ UNCHANGED <<accountVars, unlisted, pollVars, resultVars>>
    <2>1. CASE CancelledHere(t)
      <3>1. job[t].kind # "sign_out"
        BY <2>1, <1>1, KindIsJob DEF CancelledHere, Cancelled, TaskOK
      <3> QED
        BY <2>1, <3>1 DEF CancelledHere, Cancelled, MayReach, GoesOn, historyVars
    <2>2. CASE Swallowed(t)
      <3>1. IsPoll(t) /\ job[t] \in WorkJobs
        BY <2>2, <1>1, KindIsJob DEF Swallowed, TaskOK, IsPoll
      <3> QED
        BY <2>2, <3>1 DEF Swallowed, MayReach, GoesOn
    <2>3. CASE SignOutRemoves(t)
      <3>1. job[t] \in AppJobs
        BY <2>3, KindIsJob DEF SignOutRemoves
      <3> QED
        BY <2>3, <3>1, RunnerGoesOn DEF SignOutRemoves, MayReach, historyVars
    <2>4. CASE PollStarts(t) \/ PollTicks(t)
      <3>1. IsPoll(t) /\ job[t] \in WorkJobs
        BY <2>4, KindIsJob DEF PollStarts, PollTicks, IsPoll
      <3> QED
        BY <2>4, <3>1, RunnerGoesOn, JobShapes DEF PollStarts, PollTicks, MayReach, historyVars, IsPoll
    <2>5. CASE ManualRefresh(t)
      <3>1. job[t] \in WorkJobs
        BY <2>5, KindIsJob DEF ManualRefresh
      <3> QED
        BY <2>5, <3>1, RunnerGoesOn, JobShapes DEF ManualRefresh, MayReach, historyVars
    <2>6. CASE NextPage(t) \/ AuthFailed(t)
      <3>1. job[t] \in WorkJobs /\ job[t].kind # "sign_out"
        BY <2>6, <1>1, JobShapes DEF NextPage, AuthFailed, Refreshing, TaskOK
      <3> QED
        BY <2>6, <3>1, RunnerGoesOn DEF NextPage, AuthFailed, MayReach, AfterRefresh, IsPoll, historyVars
    <2> QED
      BY <2>1, <2>2, <2>3, <2>4, <2>5, <2>6
  <1>3. TasksOK' /\ AccountsOK' /\ WorkInv'
    BY <1>2, QuietTurn DEF accountVars, AccountsOK
  <1>4. ResultsOK'
    BY <1>2, QuietResults DEF accountVars
  <1> QED
    BY <1>3, <1>4

LEMMA RefreshedKeeps ==
    ASSUME IInv, NEW t \in Tasks, Refreshed(t)
    PROVE  IInv'
  <1> USE DEF IInv
  <1>1. TaskOK(t)
    BY DEF TasksOK
  <1>2. job[t] \in WorkJobs /\ job[t].kind # "sign_out" /\ job[t].account \in Accounts
    BY <1>1, JobShapes DEF Refreshed, Refreshing, TaskOK
  <1>3. job[t].account \in present \cup outlived
    BY DEF Refreshed, Running, Refreshing, WorkInv, PagesAreListed, Standing
  <1>4. /\ Run(t, AfterRefresh(t)) /\ MayReach(t, AfterRefresh(t)) /\ GoesOn(t, AfterRefresh(t), {})
        /\ AfterRefresh(t) # "page" /\ UNCHANGED <<accountVars, pollVars, historyVars>>
    BY <1>2, RunnerGoesOn DEF Refreshed, MayReach, AfterRefresh, IsPoll
  <1>5. TasksOK' /\ AccountsOK' /\ WorkInv'
    BY <1>4, QuietTurn DEF accountVars, historyVars, AccountsOK
  <1>6. \A a : SigningOut(a) => SigningOut(a)'
    BY <1>2, <1>4, RunEffect, TurnKeepsSigning
  <1>7. /\ DOMAIN last' = Accounts /\ DOMAIN latest' = Accounts
        /\ \A a \in Accounts : a # job[t].account => latest'[a] = latest[a] /\ last'[a] = last[a]
    BY DEF Refreshed, Record, ResultsOK
  <1>8. FailureKeepsList'
    <2> DEFINE a == job[t].account
    <2>1. CASE reply[t] \in Recorded
      BY <1>2, <1>7, <2>1 DEF Refreshed, Record, ResultsOK, FailureKeepsList, Recorded
    <2>2. CASE reply[t] = "error"
      BY <1>2, <1>7, <2>2 DEF Refreshed, Record, ResultsOK, FailureKeepsList, Recorded
    <2> QED
      BY <2>1, <2>2 DEF Refreshed
  <1>9. SignOutIsClean'
    BY <1>3, <1>4, <1>6, <1>7 DEF ResultsOK, SignOutIsClean, accountVars, historyVars
  <1> QED
    BY <1>5, <1>7, <1>8, <1>9 DEF ResultsOK

LEMMA SignOutDropsKeeps ==
    ASSUME IInv, NEW t \in Tasks, SignOutDrops(t)
    PROVE  IInv'
  <1> USE DEF IInv
  <1>1. job[t] \in AppJobs /\ Run(t, "idle") /\ UNCHANGED <<accountVars, pollVars, last, historyVars>>
    BY KindIsJob DEF SignOutDrops
  <1>2. TasksOK' /\ AccountsOK' /\ WorkInv'
    BY <1>1, QuietTurn DEF MayReach, GoesOn, accountVars, historyVars, AccountsOK
  <1>3. latest' = [latest EXCEPT ![job[t].arg] = "none"] /\ job[t].arg \in Accounts
    BY <1>1, JobShapes DEF SignOutDrops
  <1>4. \A a : SigningOut(a) => SigningOut(a)' \/ a = job[t].arg
    BY <1>1, RunEffect, TurnKeepsSigning
  <1>5. SignOutIsClean'
    BY <1>1, <1>3, <1>4 DEF ResultsOK, SignOutIsClean, accountVars, historyVars
  <1>6. FailureKeepsList'
    BY <1>1, <1>3 DEF ResultsOK, FailureKeepsList, Recorded
  <1> QED
    BY <1>1, <1>2, <1>3, <1>5, <1>6 DEF ResultsOK

(* An account signs in.  The account it replaces as the active one, if any,   *)
(* is known to be unlisted.                                                  *)
LEMMA AddKeeps ==
    ASSUME IInv, NEW t \in Tasks, AddAccount(t)
    PROVE  IInv'
  <1> USE DEF IInv
  <1> DEFINE a == job[t].arg
  <1>1. job[t] \in AppJobs /\ a \in Accounts /\ pc[t] # "idle"
    BY KindIsJob, JobShapes DEF AddAccount, Live
  <1>2. /\ present' = present \cup {a} /\ cancel[t] = "no"
        /\ UNCHANGED <<pollVars, resultVars, historyVars>> /\ job[t].kind = "add"
    BY DEF AddAccount, Running
  <1>3. CASE UNCHANGED <<active, told>> /\ Run(t, "idle")
    <2>1. TasksOK' /\ AccountsOK' /\ WorkInv'
      BY <1>1, <1>2, <1>3, QuietTurn DEF MayReach, GoesOn, historyVars, AccountsOK
    <2>2. ResultsOK'
      BY <1>2, <1>3, QuietResults DEF historyVars
    <2> QED
      BY <2>1, <2>2
  <1>4. CASE present' = {a} /\ active' = a /\ Turn(t, "idle", {}, {}, Listeners(a))
    <2>1. Stepped(t, "idle", {}, {}, {}, {Job("enumerate", a)})
      BY <1>1, <1>4, TurnOneEffect DEF Listeners
    <2>2. /\ Job("enumerate", a) \in WorkJobs /\ Job("enumerate", a).account = a
          /\ Job("enumerate", a).kind = "enumerate"
      BY <1>1 DEF WorkJobs, Job
    <2>3. SparesOthers({}, {}, {}, {Job("enumerate", a)}) /\ GoesOn(t, "idle", {}) /\ MayReach(t, "idle")
      BY <2>2 DEF SparesOthers, GoesOn, MayReach
    <2>4. TasksOK'
      BY <2>1, <2>3, TurnKeepsTasks
    <2>5. AccountsOK'
      BY <1>1, <1>2, <1>4 DEF AccountsOK
    <2>6. WorkIsActive'
      <3>1. active \in {a, NoAccount} \cup unlisted
        BY <1>2, <1>4 DEF AccountsOK
      <3>2. \A u \in Tasks : job[u] \in WorkJobs /\ Standing(u) =>
                job[u].account \in {active'} \cup unlisted'
        BY <1>2, <1>4, <3>1, JobShapes DEF WorkInv, WorkIsActive, historyVars
      <3> QED
        BY <1>2, <1>4, <2>1, <2>2, <2>3, <3>2, TurnKeepsActive DEF WorkInv, historyVars
    <2>7. PagesAreListed'
      BY <1>2, <2>1, <2>3, <2>4, TurnKeepsPages DEF WorkInv, PagesAreListed, historyVars
    <2>8. LoopIsKnown' /\ NotedAccount'
      BY <1>2, <2>1, <2>2, <2>3, <2>4, TurnKeepsLoop DEF WorkInv, historyVars
    <2>9. SignOutIsClean'
      <3>1. \A b : SigningOut(b) => SigningOut(b)'
        BY <1>2, <2>1, TurnKeepsSigning
      <3> QED
        BY <1>2, <3>1 DEF ResultsOK, SignOutIsClean, historyVars, resultVars
    <2>10. ResultsOK'
      BY <1>2, <2>9 DEF ResultsOK, FailureKeepsList, resultVars
    <2> QED
      BY <2>4, <2>5, <2>6, <2>7, <2>8, <2>10 DEF WorkInv
  <1> QED
    BY <1>3, <1>4 DEF AddAccount

(* What a switch and a sign-out cancel.                                      *)
LEMMA TrackedIsWork ==
    ASSUME TasksOK, NEW a \in Accounts
    PROVE  /\ \A u \in Tasks : u \in Tracked(a) => job[u] \in WorkJobs /\ job[u].account = a
           /\ \A lost \in SUBSET Losing(Tracked(a)) :
                 \A u \in Tasks : u \in lost => IsPoll(u) /\ u \in Tracked(a)
  <1>1. ASSUME NEW u \in Tasks, u \in Tracked(a) PROVE job[u] \in WorkJobs /\ job[u].account = a
    <2>1. TaskOK(u) /\ Live(u) /\ group[u] = a /\ a # NoAccount
      BY <1>1, LoopAssumption DEF TasksOK, Tracked
    <2> QED
      BY <2>1, KindIsJob DEF TaskOK
  <1> QED
    BY <1>1 DEF Losing, IsPoll, Tracked

LEMMA SwitchKeeps ==
    ASSUME IInv, NEW t \in Tasks, SwitchAccount(t)
    PROVE  IInv'
  <1> USE DEF IInv
  <1> DEFINE a == job[t].arg
             dead == IF active = NoAccount THEN {} ELSE Tracked(active)
  <1>1. job[t] \in AppJobs /\ a \in Accounts /\ pc[t] # "idle" /\ job[t].kind = "switch"
    BY KindIsJob, JobShapes DEF SwitchAccount, Live
  <1>2. UNCHANGED <<pollVars, resultVars, outlived>> /\ cancel[t] = "no"
    BY DEF SwitchAccount, Running
  <1>3. CASE Run(t, "idle") /\ UNCHANGED <<accountVars, unlisted>>
    <2>1. TasksOK' /\ AccountsOK' /\ WorkInv'
      BY <1>1, <1>2, <1>3, QuietTurn DEF MayReach, GoesOn, AccountsOK, accountVars
    <2>2. ResultsOK'
      BY <1>1, <1>2, <1>3, QuietResults DEF accountVars
    <2> QED
      BY <2>1, <2>2
  <1>4. CASE a # active
    <2>1. /\ unlisted' = (unlisted \ {active}) \cup ({a} \ present)
          /\ active' = a /\ UNCHANGED present
      BY <1>4 DEF SwitchAccount
    <2>2. PICK lost \in SUBSET Losing(dead) : Turn(t, "idle", dead, lost, <<Job("enumerate", a)>>)
      BY <1>4 DEF SwitchAccount, Listeners
    <2>3. Stepped(t, "idle", dead, lost, {}, {Job("enumerate", a)})
      BY <1>1, <2>2, TurnOneEffect
    <2>4. /\ Job("enumerate", a) \in WorkJobs /\ Job("enumerate", a).account = a
          /\ Job("enumerate", a).kind = "enumerate"
      BY <1>1 DEF WorkJobs, Job
    <2>5. SparesOthers(dead, lost, {}, {Job("enumerate", a)})
      <3>1. CASE active = NoAccount
        BY <2>4, <3>1 DEF SparesOthers, Losing
      <3>2. CASE active # NoAccount
        <4>1. active \in Accounts
          BY <3>2 DEF AccountsOK
        <4> QED
          BY <2>4, <3>2, <4>1, TrackedIsWork DEF SparesOthers, Losing
      <3> QED
        BY <3>1, <3>2
    <2>6. \A u \in Tasks : job[u] \in WorkJobs /\ Standing(u) /\ u \notin dead =>
              job[u].account \in unlisted \ {active}
      <3> SUFFICES ASSUME NEW u \in Tasks, job[u] \in WorkJobs, Standing(u), u \notin dead
                   PROVE  job[u].account \in unlisted \ {active}
        OBVIOUS
      <3>1. job[u].account \in {active} \cup unlisted /\ group[u] = job[u].account
        BY DEF WorkInv, WorkIsActive
      <3>2. job[u].account # NoAccount /\ Live(u)
        BY KindIsJob, JobShapes
      <3>3. job[u].account # active
        BY <3>1, <3>2 DEF Tracked
      <3> QED
        BY <3>1, <3>3
    <2> HIDE DEF dead
    <2>7. GoesOn(t, "idle", dead) /\ MayReach(t, "idle")
      BY DEF GoesOn, MayReach
    <2>8. TasksOK'
      BY <2>3, <2>5, <2>7, TurnKeepsTasks
    <2>9. AccountsOK'
      BY <1>1, <2>1 DEF AccountsOK
    <2>10. WorkIsActive'
      BY <1>2, <2>1, <2>3, <2>4, <2>5, <2>6, <2>7, TurnKeepsActive DEF WorkInv
    <2>11. PagesAreListed'
      BY <1>2, <2>1, <2>3, <2>5, <2>7, <2>8, TurnKeepsPages DEF WorkInv, PagesAreListed
    <2>12. LoopIsKnown' /\ NotedAccount'
      BY <1>2, <2>3, <2>4, <2>5, <2>7, <2>8, TurnKeepsLoop DEF WorkInv
    <2>13. SignOutIsClean'
      <3>1. \A b : SigningOut(b) => SigningOut(b)'
        BY <1>1, <2>3, TurnKeepsSigning
      <3> QED
        BY <1>2, <2>1, <3>1 DEF ResultsOK, SignOutIsClean, resultVars
    <2>14. ResultsOK'
      BY <1>2, <2>13 DEF ResultsOK, FailureKeepsList, resultVars
    <2> QED
      BY <2>8, <2>9, <2>10, <2>11, <2>12, <2>14 DEF WorkInv
  <1> QED
    BY <1>3, <1>4 DEF SwitchAccount

LEMMA SignOutForgetsKeeps ==
    ASSUME IInv, NEW t \in Tasks, SignOutForgets(t)
    PROVE  IInv'
  <1> USE DEF IInv
  <1>1. PICK a \in Accounts : job[t] \in AppJobs /\ job[t] = AppJob("sign_out", a) /\ a = job[t].arg
    BY KindIsJob, JobShapes DEF SignOutForgets
  <1> DEFINE dead == Tracked(a)
             jobs == <<>>
  <1>2. /\ present' = present \ {a} /\ unlisted' = unlisted \ {a} /\ cancel[t] = "no"
        /\ UNCHANGED <<pollVars, resultVars, outlived>> /\ job[t].kind = "sign_out"
    BY <1>1 DEF SignOutForgets, Running
  <1>3. active # a => active' = active
    BY <1>1 DEF SignOutForgets
  <1>4. active = a => active' \in present' \cup {NoAccount}
    BY <1>1 DEF SignOutForgets
  <1>5. PICK lost \in SUBSET Losing(dead) : TurnDropping(t, "forget", dead, lost, dead, jobs)
    BY <1>1 DEF SignOutForgets
  <1>6. /\ jobs \in Seq({}) /\ Len(jobs) \in 0..2 /\ jobs = <<>>
        /\ \A i \in 1..Len(jobs) : jobs[i] \in {}
        /\ \A j \in {} : \E i \in 1..Len(jobs) : jobs[i] = j
    OBVIOUS
  <1> HIDE DEF jobs
  <1>7. Stepped(t, "forget", dead, lost, dead, {})
    BY <1>5, <1>6, TurnEffect
  <1>8. SparesOthers(dead, lost, dead, {}) /\ t \notin dead
    BY <1>1, TrackedIsWork, JobShapes DEF SparesOthers, Losing
  <1>9. \A u \in Tasks : job[u] \in WorkJobs /\ Standing(u) /\ u \notin dead =>
            job[u].account \in ({active} \cup unlisted) \ {a}
    <2> SUFFICES ASSUME NEW u \in Tasks, job[u] \in WorkJobs, Standing(u), u \notin dead
                 PROVE  job[u].account \in ({active} \cup unlisted) \ {a}
      OBVIOUS
    <2>1. job[u].account \in {active} \cup unlisted /\ group[u] = job[u].account
      BY DEF WorkInv, WorkIsActive
    <2>2. Live(u)
      BY KindIsJob, JobShapes
    <2> QED
      BY <2>1, <2>2 DEF Tracked
  <1> HIDE DEF dead
  <1>10. GoesOn(t, "forget", dead) /\ MayReach(t, "forget")
    BY <1>1, <1>2, <1>8 DEF GoesOn, MayReach
  <1>11. TasksOK'
    BY <1>7, <1>8, <1>10, TurnKeepsTasks
  <1>12. AccountsOK'
    BY <1>1, <1>2, <1>3, <1>4 DEF AccountsOK
  <1>13. WorkIsActive'
    BY <1>2, <1>3, <1>7, <1>8, <1>9, <1>10, TurnKeepsActive DEF WorkInv
  <1>14. PagesAreListed'
    <2>1. \A u \in Tasks : pc[u] = "page" /\ Standing(u) /\ u \notin dead => job[u].account \in present'
      BY <1>2, <1>9 DEF WorkInv, PagesAreListed, TasksOK, TaskOK
    <2> QED
      BY <1>2, <1>7, <1>8, <1>10, <1>11, <2>1, TurnKeepsPages DEF WorkInv
  <1>15. LoopIsKnown' /\ NotedAccount'
    BY <1>2, <1>7, <1>8, <1>10, <1>11, TurnKeepsLoop DEF WorkInv
  <1>16. SignOutIsClean'
    <2>1. \A b : SigningOut(b) => SigningOut(b)'
      BY <1>7, TurnKeepsSigning
    <2>2. SigningOut(a)'
      BY <1>1, <2>1 DEF SigningOut
    <2> QED
      BY <1>2, <2>1, <2>2 DEF ResultsOK, SignOutIsClean, resultVars
  <1>17. ResultsOK'
    BY <1>2, <1>16 DEF ResultsOK, FailureKeepsList, resultVars
  <1> QED
    BY <1>11, <1>12, <1>13, <1>14, <1>15, <1>17 DEF WorkInv

(* The loop that is noted is replaced by the new one; the old one, whose      *)
(* cancellation is on its way, no longer stands.                             *)
LEMMA EnumerateKeeps ==
    ASSUME IInv, NEW t \in Tasks, Enumerate(t)
    PROVE  IInv'
  <1> USE DEF IInv
  <1>1. PICK a \in Accounts : /\ job[t] \in WorkJobs /\ a = job[t].account /\ pc[t] # "idle"
                              /\ job[t].kind = "enumerate" /\ a # NoAccount
    BY KindIsJob, JobShapes DEF Enumerate, Live
  <1>2. UNCHANGED <<accountVars, resultVars, historyVars>> /\ cancel[t] = "no"
    BY DEF Enumerate, Running
  <1>3. PICK point : /\ point \in {"page", "idle"}
                     /\ point = "page" => a \in present
                     /\ IF IsPollingActive(a)
                        THEN Run(t, point) /\ UNCHANGED pollVars
                        ELSE /\ Turn(t, point, CurrentPoll, {}, <<Job("poll", a)>>)
                             /\ pollTask' = Slots(1)[1]
                             /\ pollAccount' = a
    BY <1>1 DEF Enumerate
  <1>4. MayReach(t, point) /\ GoesOn(t, point, {})
    BY <1>1, <1>2, <1>3 DEF MayReach, GoesOn
  <1>5. CASE Run(t, point) /\ UNCHANGED pollVars
    <2>1. TasksOK' /\ AccountsOK' /\ WorkInv'
      BY <1>1, <1>2, <1>3, <1>4, <1>5, QuietTurn DEF accountVars, historyVars, AccountsOK
    <2>2. ResultsOK'
      BY <1>1, <1>2, <1>5, QuietResults DEF accountVars, historyVars
    <2> QED
      BY <2>1, <2>2
  <1>6. CASE /\ Turn(t, point, CurrentPoll, {}, <<Job("poll", a)>>)
             /\ pollTask' = Slots(1)[1]
             /\ pollAccount' = a
    <2>1. Stepped(t, point, CurrentPoll, {}, {}, {Job("poll", a)})
      BY <1>1, <1>6, TurnOneEffect
    <2>2. Job("poll", a) \in WorkJobs /\ Job("poll", a).account = a
      BY <1>1 DEF WorkJobs, Job
    <2>3. SparesOthers(CurrentPoll, {}, {}, {Job("poll", a)})
      BY <2>2, KindIsJob DEF SparesOthers, CurrentPoll
    <2>4. t \notin CurrentPoll /\ GoesOn(t, point, CurrentPoll)
      BY <1>1, <1>2 DEF CurrentPoll, GoesOn
    <2>5. TasksOK'
      BY <1>4, <2>1, <2>3, TurnKeepsTasks
    <2>6. AccountsOK'
      BY <1>2 DEF AccountsOK, accountVars, historyVars
    <2>7. a \in {active} \cup unlisted
      BY <1>1, <1>2 DEF WorkInv, WorkIsActive, Standing, IsPoll
    <2>8. WorkIsActive'
      BY <1>2, <2>1, <2>2, <2>3, <2>4, <2>7, TurnKeepsActive DEF WorkInv, WorkIsActive, accountVars, historyVars
    <2>9. PagesAreListed'
      BY <1>1, <1>2, <1>3, <2>1, <2>3, <2>4, <2>5, TurnKeepsPages DEF WorkInv, PagesAreListed, accountVars, historyVars
    <2>10. /\ pollTask' \in Tasks \ {t} /\ Created(pollTask', Job("poll", a), CurrentPoll, {})
           /\ \A u \in Tasks \ {pollTask'} :
                 Untouched(u, t, CurrentPoll, {}, {}) \/ Resumed(u, t, point, {})
      BY <1>1, <1>6, TurnOneSlot
    <2>11. LoopIsKnown'
      <3> SUFFICES ASSUME NEW u \in Tasks, IsPoll(u)', Standing(u)', u # pollTask' PROVE FALSE
        BY DEF LoopIsKnown
      <3>1. u # t /\ job'[u] = job[u] /\ u \notin CurrentPoll /\ cancel[u] = "no"
        BY <1>1, <2>10, JobShapes DEF Untouched, Resumed, IsPoll, Standing
      <3>2. IsPoll(u) /\ Standing(u)
        BY <1>2, <3>1 DEF IsPoll, Standing, historyVars
      <3> QED
        BY <3>1, <3>2 DEF WorkInv, LoopIsKnown, CurrentPoll, IsPoll
    <2>12. NotedAccount'
      BY <1>6, <2>2, <2>10 DEF NotedAccount, Created
    <2>13. SignOutIsClean'
      <3>1. \A b : SigningOut(b) => SigningOut(b)'
        BY <1>1, <2>1, TurnKeepsSigning
      <3> QED
        BY <1>2, <3>1 DEF ResultsOK, SignOutIsClean, accountVars, historyVars, resultVars
    <2>14. ResultsOK'
      BY <1>2, <2>13 DEF ResultsOK, FailureKeepsList, resultVars
    <2> QED
      BY <2>5, <2>6, <2>8, <2>9, <2>11, <2>12, <2>14 DEF WorkInv
  <1> QED
    BY <1>3, <1>5, <1>6

LEMMA ClickKeeps ==
    ASSUME IInv, NEW kind \in Clicks, NEW a \in Accounts, Click(kind, a)
    PROVE  IInv'
  <1> USE DEF IInv
  <1>1. PICK j \in WorkJobs \cup AppJobs :
           CreateTask(j) /\ j.kind # "poll" /\ (j \in WorkJobs => j.account = active)
    <2>1. CASE kind = "add" /\ CreateTask(AppJob(kind, a))
      <3>1. AppJob(kind, a) \in AppJobs
        BY <2>1 DEF AppJobs
      <3> QED
        BY <2>1, <3>1, JobShapes DEF AppJob
    <2>2. CASE kind \in {"switch", "sign_out"} /\ CreateTask(AppJob(kind, a))
      <3>1. AppJob(kind, a) \in AppJobs
        BY <2>2 DEF AppJobs
      <3> QED
        BY <2>2, <3>1, JobShapes DEF AppJob
    <2>3. CASE kind = "refresh" /\ a = active /\ CreateTask(Job(kind, a))
      <3>1. Job(kind, a) \in WorkJobs
        BY <2>3 DEF WorkJobs
      <3> QED
        BY <2>3, <3>1 DEF Job
    <2> QED
      BY <2>1, <2>2, <2>3 DEF Click
  <1>2. PICK t \in Tasks : /\ pc[t] = "idle"
                           /\ job' = [job EXCEPT ![t] = j] /\ group' = [group EXCEPT ![t] = j.account]
                           /\ pc' = [pc EXCEPT ![t] = "new"] /\ UNCHANGED cancel
    BY <1>1, CreateEffect
  <1>3. TaskOK(t) /\ UNCHANGED <<accountVars, pollVars, resultVars, historyVars>>
    BY DEF TasksOK, Click
  <1>4. /\ job'[t] = j /\ group'[t] = j.account /\ pc'[t] = "new" /\ cancel[t] = "no" /\ cancel' = cancel
        /\ \A u \in Tasks \ {t} : job'[u] = job[u] /\ group'[u] = group[u] /\ pc'[u] = pc[u]
        /\ DOMAIN job' = Tasks /\ DOMAIN group' = Tasks /\ DOMAIN pc' = Tasks /\ DOMAIN cancel' = Tasks
    BY <1>2, <1>3 DEF TasksOK, TaskOK
  <1>5. TasksOK'
    <2>1. TaskOK(t)'
      BY <1>1, <1>4, JobShapes DEF TaskOK, IsPoll
    <2>2. ASSUME NEW u \in Tasks \ {t} PROVE TaskOK(u)'
      <3>1. TaskOK(u)
        BY DEF TasksOK
      <3> QED
        BY <1>4, <3>1 DEF TaskOK, IsPoll
    <2> QED
      BY <1>4, <2>1, <2>2 DEF TasksOK
  <1>6. \A u \in Tasks \ {t} : (Standing(u)' <=> Standing(u)) /\ (IsPoll(u)' <=> IsPoll(u))
    BY <1>3, <1>4 DEF Standing, IsPoll, historyVars
  <1>7. AccountsOK' /\ WorkIsActive' /\ PagesAreListed'
    BY <1>1, <1>3, <1>4, <1>6 DEF AccountsOK, WorkInv, WorkIsActive, PagesAreListed, accountVars, historyVars
  <1>8. LoopIsKnown' /\ NotedAccount'
    BY <1>1, <1>3, <1>4, <1>6 DEF WorkInv, LoopIsKnown, NotedAccount, pollVars, IsPoll
  <1>9. \A b : SigningOut(b) => SigningOut(b)'
    BY <1>2, <1>3, <1>4, JobShapes DEF SigningOut, TaskOK, AppJob
  <1>10. ResultsOK'
    BY <1>3, <1>9 DEF ResultsOK, FailureKeepsList, SignOutIsClean, resultVars, accountVars, historyVars
  <1> QED
    BY <1>5, <1>7, <1>8, <1>10 DEF WorkInv

LEMMA StutterKeeps ==
    ASSUME IInv, UNCHANGED <<job, group, pc, cancel, accountVars, pollVars, resultVars, historyVars>>
    PROVE  IInv'
  <1>1. TasksOK' /\ AccountsOK'
    BY DEF IInv, TasksOK, TaskOK, IsPoll, AccountsOK, accountVars, historyVars
  <1>2. WorkInv'
    BY DEF IInv, WorkInv, WorkIsActive, PagesAreListed, LoopIsKnown, NotedAccount, Standing, IsPoll,
           accountVars, historyVars, pollVars
  <1>3. ResultsOK'
    BY DEF IInv, ResultsOK, FailureKeepsList, SignOutIsClean, SigningOut, accountVars, historyVars, resultVars
  <1> QED
    BY <1>1, <1>2, <1>3 DEF IInv

LEMMA NextKeeps == IInv /\ [Next]_vars => IInv'
  <1> SUFFICES ASSUME IInv, [Next]_vars PROVE IInv'
    OBVIOUS
  <1>1. ASSUME NEW t \in Tasks, TaskStep(t) PROVE IInv'
    BY <1>1, PlainKeeps, RefreshedKeeps, SignOutDropsKeeps, AddKeeps, SwitchKeeps, SignOutForgetsKeeps,
       EnumerateKeeps DEF TaskStep
  <1>2. ASSUME NEW t \in Tasks, Event(t) PROVE IInv'
    BY <1>2, StutterKeeps DEF Event, PageArrives, Elapses, SignOutReturns, Wake
  <1>3. CASE UNCHANGED vars
    BY <1>3, StutterKeeps DEF vars, loopVars
  <1> QED
    BY <1>1, <1>2, <1>3, ClickKeeps DEF Next

-----------------------------------------------------------------------------
(* The theorems.                                                            *)

LEMMA Invariance == Spec => []IInv
  BY InitHolds, NextKeeps, PTL DEF Spec

(* However many accounts are signed in, switched to and signed out in        *)
(* whatever order, start_polling keeps one loop, of the account it has noted, *)
(* but for loops that outlived a cancellation (start_polling, _poll_loop).    *)
THEOREM KeepsOneLoop == Spec => []OnePollLoop
  <1>1. IInv => OnePollLoop
    <2> SUFFICES ASSUME IInv PROVE OnePollLoop
      OBVIOUS
    <2>1. \A t \in Tasks : Unchallenged(t) => t = pollTask
      BY DEF IInv, WorkInv, LoopIsKnown, Unchallenged, Standing, IsPoll
    <2>2. \A t \in CurrentPoll : job[t].account = pollAccount
      BY DEF IInv, WorkInv, NotedAccount, CurrentPoll, IsPoll
    <2> QED
      BY <2>1, <2>2 DEF OnePollLoop
  <1> QED
    BY <1>1, Invariance, PTL

(* What the window greys out after a failure is what the provider recorded   *)
(* last for that account (_do_refresh, _notify_result, MainWindow._sign_out). *)
THEOREM KeepsListOnFailure == Spec => []FailureKeepsList
  BY Invariance, PTL DEF IInv, ResultsOK

(* A sign-out that is over has left no result in the window: what was in     *)
(* flight was cancelled, or was not let begin (sign_out, forget_account).     *)
THEOREM SignOutCleans == Spec => []SignOutIsClean
  BY Invariance, PTL DEF IInv, ResultsOK

LEMMA StepWritesActive ==
    ASSUME IInv, [Next]_vars, NEW a \in Accounts, a \notin outlived \cup unlisted,
           latest'[a] \notin {"none", latest[a]}
    PROVE  a = active
  <1>1. ASSUME NEW t \in Tasks, Refreshed(t) PROVE a = active
    <2>1. latest'[a] # latest[a] => a = job[t].account
      BY <1>1 DEF Refreshed, Record, IInv, ResultsOK
    <2>2. job[t] \in WorkJobs
      BY <1>1 DEF Refreshed, Refreshing, IInv, TasksOK, TaskOK
    <2>3. a = job[t].account /\ Standing(t)
      BY <1>1, <2>1 DEF Refreshed, Running, Standing
    <2> QED
      BY <2>2, <2>3 DEF IInv, WorkInv, WorkIsActive
  <1>2. ASSUME NEW t \in Tasks, SignOutDrops(t) PROVE FALSE
    BY <1>2 DEF SignOutDrops, IInv, ResultsOK
  <1>3. ASSUME NEW t \in Tasks, TaskStep(t), ~Refreshed(t), ~SignOutDrops(t) PROVE latest' = latest
    BY <1>3 DEF TaskStep, CancelledHere, Swallowed, SwitchAccount, AddAccount, SignOutRemoves, SignOutForgets,
         Enumerate, PollStarts, PollTicks, ManualRefresh, NextPage, AuthFailed, resultVars
  <1>4. ASSUME NEW t \in Tasks, Event(t) PROVE latest' = latest
    BY <1>4 DEF Event, PageArrives, Elapses, SignOutReturns, resultVars
  <1>5. ASSUME NEW kind \in Clicks, NEW b \in Accounts, Click(kind, b) PROVE latest' = latest
    BY <1>5 DEF Click, resultVars
  <1>6. CASE UNCHANGED vars
    BY <1>6 DEF vars, resultVars
  <1> QED
    BY <1>1, <1>2, <1>3, <1>4, <1>5, <1>6 DEF Next

(* A result of another account than the active one reaches the window only   *)
(* from a loop that outlived its cancellation or an account that was active   *)
(* without being listed (switch_active_account, cancel_group, refresh_now).   *)
THEOREM WritesActiveOnly == Spec => OnlyActiveIsWritten
  <1>1. IInv /\ [Next]_vars =>
            [\A a \in Accounts \ (outlived \cup unlisted) :
                 latest'[a] \notin {"none", latest[a]} => a = active]_vars
    BY StepWritesActive
  <1> QED
    BY <1>1, Invariance, PTL DEF Spec, OnlyActiveIsWritten

-----------------------------------------------------------------------------
(* The order of what is queued: what ActiveIsPolled rests on.                *)

\* What is new, and what is being cancelled, is in the queue.
QueueOK ==
    /\ QueueIsOrder
    /\ \A t \in Tasks : pc[t] = "new" \/ cancel[t] # "no" => Queued(t)

TellsListed == told => active \in present

\* An enumeration of account a that is going to begin.
Fresh(t, a) == job[t] = Job("enumerate", a) /\ pc[t] = "new" /\ cancel[t] = "no"

\* One of an account that is not active any more.
Foreign(t) == \E a \in Accounts \ {active} : Fresh(t, a)

(* A noted loop on its way out is gone before an enumeration of its account  *)
(* asks whether it is polling.                                              *)
LeavesFirst ==
    \A t \in CurrentPoll : cancel[t] = "yes" =>
        \E i \in 1..Len(ready) :
            /\ ready[i] = t
            /\ \A j \in 1..Len(ready) : Fresh(ready[j], job[t].account) => i < j

HasLoop == \E t \in Tasks : job[t] = Job("poll", active) /\ cancel[t] # "yes"

(* The active account has its loop, or an enumeration that comes after those *)
(* of other accounts, which would take it away again.                        *)
WillPoll ==
    told /\ active # NoAccount =>
        \/ \E i \in 1..Len(ready) :
              Fresh(ready[i], active) /\ \A j \in 1..Len(ready) : Foreign(ready[j]) => j < i
        \/ HasLoop /\ \A t \in Tasks : ~Foreign(t)

OrderInv == QueueOK /\ TellsListed /\ LeavesFirst /\ WillPoll

\* A turn of t that cancels dead and creates a task for j in the slots of made, one at most.
Turned(t, point, dead, lost, untracked, made, j) ==
    /\ AtHead(t) /\ Requeued(t, dead, made)
    /\ \A u \in Tasks \ made : Untouched(u, t, dead, lost, untracked) \/ Resumed(u, t, point, untracked)
    /\ \A u \in made : /\ u \in Tasks \ {t} /\ Created(u, j, dead, lost)
                       /\ Len(ready') > 0 /\ ready'[Len(ready')] = u

LEMMA DropTurned ==
    ASSUME QueueOK, NEW t \in Tasks, AtHead(t), NEW point, NEW dead, NEW lost, NEW untracked,
           TurnDropping(t, point, dead, lost, untracked, <<>>), dead \subseteq Tasks
    PROVE  Turned(t, point, dead, lost, untracked, {}, NoJob)
  <1> DEFINE jobs == <<>>
  <1>1. /\ jobs \in Seq({}) /\ Len(jobs) \in 0..2 /\ jobs = <<>>
        /\ \A i \in 1..Len(jobs) : jobs[i] \in {}
        /\ \A j \in {} : \E i \in 1..Len(jobs) : jobs[i] = j
    OBVIOUS
  <1>2. TurnDropping(t, point, dead, lost, untracked, jobs)
    OBVIOUS
  <1>3. Requeued(t, dead, {})
    BY DropRequeues DEF QueueOK
  <1> HIDE DEF jobs
  <1>4. Stepped(t, point, dead, lost, untracked, {})
    BY <1>1, <1>2, TurnEffect
  <1> QED
    BY <1>3, <1>4 DEF Turned, Stepped

LEMMA RunTurned ==
    ASSUME QueueOK, NEW t \in Tasks, AtHead(t), NEW point, Run(t, point)
    PROVE  Turned(t, point, {}, {}, {}, {}, NoJob)
  BY DropTurned DEF Run, Turn

LEMMA OneTurned ==
    ASSUME QueueOK, NEW t \in Tasks, AtHead(t), NEW point, NEW dead, NEW lost, NEW j, pc[t] # "idle",
           Turn(t, point, dead, lost, <<j>>), dead \subseteq Tasks
    PROVE  Turned(t, point, dead, lost, {}, {Slots(1)[1]}, j)
  <1>1. Requeued(t, dead, {Slots(1)[1]}) /\ Len(ready') > 0 /\ ready'[Len(ready')] = Slots(1)[1]
    BY OneRequeues DEF QueueOK
  <1>2. /\ Slots(1)[1] \in Tasks \ {t} /\ Created(Slots(1)[1], j, dead, lost)
        /\ \A u \in Tasks \ {Slots(1)[1]} :
              Untouched(u, t, dead, lost, {}) \/ Resumed(u, t, point, {})
    BY TurnOneSlot
  <1> QED
    BY <1>1, <1>2 DEF Turned

(* Where tasks are after a turn.                                             *)
LEMMA TurnedPlaces ==
    ASSUME TasksOK, QueueOK, NEW t \in Tasks, NEW point, NEW dead, NEW lost, NEW untracked, NEW made, NEW j,
           Turned(t, point, dead, lost, untracked, made, j)
    PROVE  /\ Len(ready) \in Nat /\ Len(ready) > 0 /\ ready[1] = t /\ Len(ready') \in Nat
           /\ Len(ready') >= Len(ready) - 1
           /\ \A i \in 1..Len(ready) : /\ i # 1 => ready[i] # t /\ ready'[i - 1] = ready[i] /\ i - 1 \in 1..Len(ready')
                                       /\ ready[i] \in Tasks /\ Live(ready[i]) /\ ready[i] \notin made
           /\ \A i \in 1..Len(ready') :
                 \/ i + 1 \in 1..Len(ready) /\ ready'[i] = ready[i + 1] /\ ready'[i] # t
                 \/ i >= Len(ready) /\ ready'[i] \in made
                 \/ i >= Len(ready) /\ ready'[i] \in dead /\ Suspended(ready'[i]) /\ ready'[i] # t
           /\ \A i \in 1..Len(ready') : ready'[i] \in Tasks
  <1>1. /\ ready \in Seq(Tasks) /\ Len(ready) \in Nat
        /\ \A i, k \in 1..Len(ready) : ready[i] = ready[k] => i = k
        /\ \A i \in 1..Len(ready) : ready[i] \in Tasks /\ Live(ready[i])
    BY DEF QueueOK, QueueIsOrder
  <1>2. Len(ready) > 0 /\ ready[1] = t
    BY <1>1 DEF Turned, AtHead
  <1>3. /\ ready' \in Seq(Tasks) /\ Len(ready') \in Nat /\ Len(ready') >= Len(ready) - 1
        /\ \A i \in 1..(Len(ready) - 1) : ready'[i] = ready[i + 1]
        /\ \A i \in 1..Len(ready') : i >= Len(ready) =>
              ready'[i] \in made \/ (ready'[i] \in dead /\ Suspended(ready'[i]))
    BY DEF Turned, Requeued
  <1>4. Queued(t)
    BY <1>1, <1>2 DEF Queued
  <1>5. \A u \in made : ~Live(u)
    BY DEF Turned, Created, Live
  <1>6. ASSUME NEW i \in 1..Len(ready)
        PROVE  i # 1 => ready[i] # t /\ ready'[i - 1] = ready[i] /\ i - 1 \in 1..Len(ready')
    BY <1>1, <1>2, <1>3
  <1>7. ASSUME NEW i \in 1..Len(ready')
        PROVE  \/ i + 1 \in 1..Len(ready) /\ ready'[i] = ready[i + 1] /\ ready'[i] # t
               \/ i >= Len(ready) /\ ready'[i] \in made
               \/ i >= Len(ready) /\ ready'[i] \in dead /\ Suspended(ready'[i]) /\ ready'[i] # t
    <2>1. CASE i < Len(ready)
      BY <1>1, <1>2, <1>3, <2>1
    <2>2. CASE i >= Len(ready)
      BY <1>3, <1>4, <2>2 DEF Suspended
    <2> QED
      BY <1>1, <2>1, <2>2
  <1> QED
    BY <1>1, <1>2, <1>3, <1>5, <1>6, <1>7

LEMMA TurnedKeepsQueue ==
    ASSUME TasksOK, QueueOK, NEW t \in Tasks, NEW point, NEW dead, NEW lost, NEW untracked, NEW made, NEW j,
           Turned(t, point, dead, lost, untracked, made, j), MayReach(t, point),
           SparesOthers(dead, lost, untracked, {})
    PROVE  QueueOK'
  <1>1. ASSUME NEW i \in 1..Len(ready') PROVE pc'[ready'[i]] # "idle"
    <2> PICK u \in Tasks : u = ready'[i]
      BY TurnedPlaces
    <2>1. CASE i + 1 \in 1..Len(ready) /\ ready'[i] = ready[i + 1] /\ ready'[i] # t
      <3>1. u \notin made /\ Live(u) /\ u # t
        BY <2>1, TurnedPlaces
      <3>2. pc'[u] = pc[u]
        BY <3>1 DEF Turned, Untouched, Resumed
      <3> QED
        BY <3>1, <3>2 DEF Live
    <2>2. CASE ready'[i] \in made
      BY <2>2 DEF Turned, Created, Live
    <2>3. CASE ready'[i] \in dead /\ Suspended(ready'[i]) /\ ready'[i] # t
      <3>1. u \notin made /\ Live(u) /\ u # t
        BY <2>3 DEF Turned, Created, Live, Suspended
      <3>2. pc'[u] = pc[u]
        BY <3>1 DEF Turned, Untouched, Resumed
      <3> QED
        BY <3>1, <3>2 DEF Live
    <2> QED
      BY <2>1, <2>2, <2>3, TurnedPlaces
  <1>2. QueueIsOrder'
    BY <1>1 DEF QueueIsOrder, Turned, Requeued, Live
  <1>3. ASSUME NEW u \in Tasks, pc'[u] = "new" \/ cancel'[u] # "no" PROVE Queued(u)'
    <2>1. CASE u \in made
      BY <2>1, <1>2 DEF Turned, Queued, QueueIsOrder
    <2>2. CASE Resumed(u, t, point, untracked)
      BY <1>3, <2>2 DEF Resumed, MayReach
    <2>3. CASE Untouched(u, t, dead, lost, untracked)
      <3>1. CASE Queued(u)
        <4>1. PICK i \in 1..Len(ready) : ready[i] = u
          BY <3>1, QueuedByPlace DEF QueueOK, QueueIsOrder
        <4>2. i # 1
          BY <2>3, <4>1, TurnedPlaces DEF Untouched
        <4>3. ready'[i - 1] = u /\ i - 1 \in 1..Len(ready')
          BY <4>1, <4>2, TurnedPlaces
        <4> QED
          BY <4>3, <1>2 DEF Queued, QueueIsOrder
      <3>2. CASE ~Queued(u)
        <4>1. u \in dead
          BY <1>3, <2>3, <3>2 DEF Untouched, QueueOK, SparesOthers
        <4>2. Suspended(u)
          BY <3>2, <4>1, KindIsJob, JobShapes DEF SparesOthers, Suspended
        <4> QED
          BY <4>1, <4>2, <1>2 DEF Turned, Requeued, Queued, QueueIsOrder
      <3> QED
        BY <3>1, <3>2
    <2> QED
      BY <2>1, <2>2, <2>3 DEF Turned
  <1> QED
    BY <1>2, <1>3 DEF QueueOK

\* Fresh and Foreign in the next state.
FreshNext(u, a) == job'[u] = Job("enumerate", a) /\ pc'[u] = "new" /\ cancel'[u] = "no"

ForeignNext(u) == \E a \in Accounts \ {active'} : FreshNext(u, a)

LEMMA TurnedFresh ==
    ASSUME TasksOK, NEW t \in Tasks, NEW point, NEW dead, NEW lost, NEW untracked, NEW made, NEW j,
           Turned(t, point, dead, lost, untracked, made, j), MayReach(t, point),
           SparesOthers(dead, lost, untracked, {}), NEW u \in Tasks, NEW a
    PROVE  /\ FreshNext(u, a) => \/ u \notin made /\ Fresh(u, a) /\ u # t /\ u \notin dead
                                 \/ u \in made /\ j = Job("enumerate", a)
           /\ Fresh(u, a) /\ u # t /\ u \notin dead => u \notin made /\ FreshNext(u, a)
  <1>1. CASE u \in made
    BY <1>1 DEF Turned, Created, FreshNext, Fresh
  <1>2. CASE Untouched(u, t, dead, lost, untracked) /\ u \notin made
    BY <1>2 DEF Untouched, FreshNext, Fresh, SparesOthers
  <1>3. CASE Resumed(u, t, point, untracked) /\ u \notin made
    BY <1>3 DEF Resumed, MayReach, FreshNext
  <1> QED
    BY <1>1, <1>2, <1>3 DEF Turned

(* Whoever cancels a noted loop cancels the enumerations of its account too.  *)
LEMMA TurnedLeaves ==
    ASSUME TasksOK, QueueOK, LeavesFirst, NEW t \in Tasks, NEW point, NEW dead, NEW lost, NEW untracked,
           NEW made, NEW j, Turned(t, point, dead, lost, untracked, made, j), MayReach(t, point),
           SparesOthers(dead, lost, untracked, {}), pollTask' = pollTask, j.kind # "poll",
           \A p \in CurrentPoll : p \in dead =>
               \A u \in Tasks : Fresh(u, job[p].account) => u \in dead \/ u = t
    PROVE  LeavesFirst'
  <1> SUFFICES ASSUME NEW p \in Tasks, p = pollTask', job'[p].kind = "poll", cancel'[p] = "yes"
               PROVE  \E i \in 1..Len(ready') :
                         /\ ready'[i] = p
                         /\ \A k \in 1..Len(ready') : FreshNext(ready'[k], job'[p].account) => i < k
    BY DEF LeavesFirst, CurrentPoll, Fresh, FreshNext
  <1>1. p \notin made /\ p # t /\ job'[p] = job[p] /\ (cancel[p] = "yes" \/ p \in dead) /\ p \in CurrentPoll
    BY DEF Turned, Created, Untouched, Resumed, CurrentPoll
  <1>2. QueueOK'
    BY TurnedKeepsQueue
  <1>3. PICK i \in 1..Len(ready') : ready'[i] = p
    BY <1>2 DEF QueueOK, QueueIsOrder, Queued
  <1>4. \A k, m \in 1..Len(ready') : ready'[k] = ready'[m] => k = m
    BY <1>2 DEF QueueOK, QueueIsOrder
  <1>5. ASSUME NEW k \in 1..Len(ready'), FreshNext(ready'[k], job'[p].account) PROVE i < k
    <2> PICK u \in Tasks : u = ready'[k]
      BY TurnedPlaces
    <2>1. \/ u \notin made /\ Fresh(u, job[p].account) /\ u # t /\ u \notin dead
          \/ u \in made
      BY <1>1, <1>5, TurnedFresh
    <2>2. CASE u \in made
      <3>1. k = Len(ready')
        BY <2>2, <1>4 DEF Turned
      <3> QED
        BY <3>1, <2>2, <1>1, <1>3, TurnedPlaces
    <2>3. CASE u \notin made /\ Fresh(u, job[p].account) /\ u # t /\ u \notin dead
      <3>1. p \notin dead /\ cancel[p] = "yes"
        BY <1>1, <2>3
      <3>2. i + 1 \in 1..Len(ready) /\ ready[i + 1] = p
        BY <1>1, <1>3, <3>1, TurnedPlaces
      <3>3. k + 1 \in 1..Len(ready) /\ ready[k + 1] = u
        BY <2>3, TurnedPlaces
      <3>4. PICK n \in 1..Len(ready) :
               ready[n] = p /\ \A m \in 1..Len(ready) : Fresh(ready[m], job[p].account) => n < m
        BY <1>1, <3>1 DEF LeavesFirst
      <3>5. n = i + 1
        BY <3>2, <3>4 DEF QueueOK, QueueIsOrder
      <3>6. n < k + 1
        BY <2>3, <3>3, <3>4
      <3> QED
        BY <3>5, <3>6
    <2> QED
      BY <2>1, <2>2, <2>3
  <1> QED
    BY <1>3, <1>5

(* The enumeration the active account waits for moves up with the others.     *)
LEMMA MovesUp ==
    ASSUME TasksOK, QueueOK, NEW t \in Tasks, NEW point, NEW dead, NEW lost, NEW untracked,
           NEW made, NEW j, Turned(t, point, dead, lost, untracked, made, j), MayReach(t, point),
           SparesOthers(dead, lost, untracked, {}), active' = active, j.kind # "enumerate",
           NEW i \in 1..Len(ready), i # 1, Fresh(ready[i], active), ready[i] \notin dead,
           \A k \in 1..Len(ready) : Foreign(ready[k]) => k < i
    PROVE  WillPoll'
  <1>1. PICK u \in Tasks : u = ready[i] /\ u # t /\ ready'[i - 1] = u /\ i - 1 \in 1..Len(ready')
    BY TurnedPlaces
  <1>2. FreshNext(u, active)
    BY <1>1, TurnedFresh
  <1>3. ASSUME NEW k \in 1..Len(ready'), ForeignNext(ready'[k]) PROVE k < i - 1
    <2> PICK w \in Tasks : w = ready'[k]
      BY TurnedPlaces
    <2>1. PICK a \in Accounts \ {active} : FreshNext(w, a)
      BY <1>3 DEF ForeignNext
    <2>2. w \notin made /\ Fresh(w, a) /\ w # t /\ w \notin dead
      BY <2>1, TurnedFresh DEF Job
    <2>3. k + 1 \in 1..Len(ready) /\ ready[k + 1] = w
      BY <2>2, TurnedPlaces
    <2>4. k + 1 < i
      BY <2>2, <2>3 DEF Foreign
    <2> QED
      BY <2>3, <2>4
  <1>4. \E m \in 1..Len(ready') : /\ FreshNext(ready'[m], active')
                                  /\ \A k \in 1..Len(ready') : ForeignNext(ready'[k]) => k < m
    BY <1>1, <1>2, <1>3
  <1> QED
    BY <1>4 DEF WillPoll, Fresh, Foreign, FreshNext, ForeignNext

(* The enumeration of an account that has just become active is the last.     *)
LEMMA ComesLast ==
    ASSUME TasksOK, QueueOK, NEW t \in Tasks, NEW point, NEW dead, NEW lost, NEW untracked,
           NEW m, NEW j, Turned(t, point, dead, lost, untracked, {m}, j), MayReach(t, point),
           SparesOthers(dead, lost, untracked, {}), j = Job("enumerate", active')
    PROVE  WillPoll'
  <1>1. m \in Tasks /\ Created(m, j, dead, lost) /\ Len(ready') > 0 /\ ready'[Len(ready')] = m
    BY DEF Turned
  <1>2. m \notin dead /\ m \notin lost /\ cancel[m] = "no"
    <2>1. TaskOK(m) /\ pc[m] = "idle"
      BY <1>1 DEF TasksOK, Created
    <2> QED
      BY <1>1, <2>1, JobShapes DEF TaskOK, SparesOthers
  <1>3. FreshNext(m, active')
    BY <1>1, <1>2 DEF Created, FreshNext
  <1>4. Len(ready') \in 1..Len(ready')
    BY <1>1, TurnedPlaces
  <1>5. ASSUME NEW k \in 1..Len(ready'), ForeignNext(ready'[k]) PROVE k < Len(ready')
    <2>1. PICK a \in Accounts \ {active'} : FreshNext(ready'[k], a)
      BY <1>5 DEF ForeignNext
    <2>2. ready'[k] # m
      BY <1>3, <2>1 DEF FreshNext, Job
    <2> QED
      BY <1>1, <1>4, <2>2
  <1>6. \E i \in 1..Len(ready') : /\ FreshNext(ready'[i], active')
                                  /\ \A k \in 1..Len(ready') : ForeignNext(ready'[k]) => k < i
    BY <1>1, <1>3, <1>4, <1>5
  <1> QED
    BY <1>6 DEF WillPoll, Fresh, Foreign, FreshNext, ForeignNext

\* t ends its turn without ending the loop of the active account.
KeepsPolling(t, point) ==
    told /\ job[t] = Job("poll", active) /\ cancel[t] # "yes" => point # "idle"

(* The loop of the active account is not among the tasks another's cancelled.  *)
LEMMA LoopStays ==
    ASSUME TasksOK, NEW t \in Tasks, NEW point, NEW dead, NEW lost, NEW untracked, NEW made, NEW j,
           Turned(t, point, dead, lost, untracked, made, j),
           SparesOthers(dead, lost, untracked, {}), active' = active, told, KeepsPolling(t, point), HasLoop,
           \A u \in Tasks : u \in dead => job[u] # Job("poll", active)
    PROVE  HasLoop'
  <1>1. PICK p \in Tasks : job[p] = Job("poll", active) /\ cancel[p] # "yes"
    BY DEF HasLoop
  <1>2. pc[p] # "idle"
    BY <1>1 DEF TasksOK, TaskOK, Job, NoJob
  <1>3. CASE Untouched(p, t, dead, lost, untracked)
    BY <1>1, <1>3 DEF Untouched, SparesOthers, HasLoop
  <1>4. CASE Resumed(p, t, point, untracked)
    BY <1>1, <1>4 DEF Resumed, KeepsPolling, HasLoop
  <1> QED
    BY <1>2, <1>3, <1>4 DEF Turned, Created

LEMMA NoneForeign ==
    ASSUME TasksOK, NEW t \in Tasks, NEW point, NEW dead, NEW lost, NEW untracked, NEW made, NEW j,
           Turned(t, point, dead, lost, untracked, made, j), MayReach(t, point),
           SparesOthers(dead, lost, untracked, {}), active' = active, j.kind # "enumerate",
           \A u \in Tasks : u # t => ~Foreign(u)
    PROVE  \A u \in Tasks : ~ForeignNext(u)
  <1> SUFFICES ASSUME NEW u \in Tasks, NEW a \in Accounts \ {active}, FreshNext(u, a) PROVE FALSE
    BY DEF ForeignNext
  <1>1. u # t /\ Fresh(u, a)
    BY TurnedFresh DEF Job
  <1> QED
    BY <1>1 DEF Foreign

LEMMA QuietWill ==
    ASSUME TasksOK, QueueOK, WillPoll, NEW t \in Tasks, NEW point, NEW dead, NEW lost, NEW untracked,
           Turned(t, point, dead, lost, untracked, {}, NoJob), MayReach(t, point),
           SparesOthers(dead, lost, untracked, {}), UNCHANGED <<active, told>>, KeepsPolling(t, point),
           \A a : ~Fresh(t, a), \A u \in Tasks : u \in dead => job[u].account # active
    PROVE  WillPoll'
  <1> SUFFICES ASSUME told, active # NoAccount PROVE WillPoll'
    BY DEF WillPoll
  <1>1. NoJob.kind # "enumerate"
    BY JobShapes
  <1>2. CASE \E i \in 1..Len(ready) :
                Fresh(ready[i], active) /\ \A k \in 1..Len(ready) : Foreign(ready[k]) => k < i
    <2>1. PICK i \in 1..Len(ready) :
             Fresh(ready[i], active) /\ \A k \in 1..Len(ready) : Foreign(ready[k]) => k < i
      BY <1>2
    <2>2. i # 1 /\ ready[i] \in Tasks
      BY <2>1, TurnedPlaces
    <2>3. ready[i] \notin dead
      BY <2>1, <2>2 DEF Fresh, Job
    <2> QED
      BY <1>1, <2>1, <2>2, <2>3, MovesUp
  <1>3. CASE HasLoop /\ \A u \in Tasks : ~Foreign(u)
    <2>1. HasLoop'
      BY <1>3, LoopStays DEF Job
    <2>2. \A u \in Tasks : ~ForeignNext(u)
      BY <1>1, <1>3, NoneForeign
    <2> QED
      BY <2>1, <2>2 DEF WillPoll, Foreign, ForeignNext, Fresh, FreshNext
  <1> QED
    BY <1>2, <1>3 DEF WillPoll

-----------------------------------------------------------------------------
(* The order of the queue, action by action.                                *)

LEMMA InitOrder == Init => OrderInv
  <1> SUFFICES ASSUME Init PROVE OrderInv
    OBVIOUS
  <1>1. \A t \in Tasks : pc[t] = "idle" /\ cancel[t] = "no"
    BY DEF Init, InitLoop
  <1>2. ready = <<>> /\ told = FALSE /\ ready \in Seq(Tasks) /\ Len(ready) = 0
    BY DEF Init, InitLoop
  <1>3. QueueOK
    BY <1>1, <1>2 DEF QueueOK, QueueIsOrder
  <1>4. LeavesFirst
    BY <1>1 DEF LeavesFirst, CurrentPoll
  <1> QED
    BY <1>2, <1>3, <1>4 DEF OrderInv, TellsListed, WillPoll

LEMMA QuietOrder ==
    ASSUME IInv, OrderInv, NEW t \in Tasks, NEW point, AtHead(t), Run(t, point), MayReach(t, point),
           UNCHANGED <<active, told, pollTask>>, present \subseteq present', KeepsPolling(t, point),
           \A a : ~Fresh(t, a)
    PROVE  OrderInv'
  <1>1. TasksOK /\ QueueOK /\ LeavesFirst /\ WillPoll
    BY DEF IInv, OrderInv
  <1>2. Turned(t, point, {}, {}, {}, {}, NoJob) /\ SparesOthers({}, {}, {}, {})
    BY <1>1, RunTurned DEF SparesOthers
  <1>3. QueueOK'
    BY <1>1, <1>2, TurnedKeepsQueue
  <1>4. LeavesFirst'
    BY <1>1, <1>2, TurnedLeaves, JobShapes
  <1>5. WillPoll'
    BY <1>1, <1>2, QuietWill
  <1>6. TellsListed'
    BY DEF OrderInv, TellsListed
  <1> QED
    BY <1>3, <1>4, <1>5, <1>6 DEF OrderInv

LEMMA PlainOrder ==
    ASSUME IInv, OrderInv, NEW t \in Tasks,
           \/ CancelledHere(t) \/ Swallowed(t) \/ SignOutRemoves(t) \/ PollStarts(t)
           \/ PollTicks(t) \/ ManualRefresh(t) \/ NextPage(t) \/ AuthFailed(t)
           \/ Refreshed(t) \/ SignOutDrops(t)
    PROVE  OrderInv'
  <1>1. TaskOK(t) /\ TasksOK
    BY DEF IInv, TasksOK
  <1>2. told => active \in present
    BY DEF OrderInv, TellsListed
  <1>3. Job("poll", active).kind = "poll" /\ Job("poll", active).account = active
        /\ \A a : Job("enumerate", a).kind = "enumerate"
    BY DEF Job
  <1>4. PICK point :
           /\ Run(t, point) /\ AtHead(t) /\ MayReach(t, point) /\ KeepsPolling(t, point)
           /\ \A a : ~Fresh(t, a)
           /\ UNCHANGED <<accountVars, pollVars>>
    <2>1. CASE CancelledHere(t)
      BY <2>1 DEF CancelledHere, Cancelled, AtHead, MayReach, KeepsPolling, Fresh
    <2>2. CASE Swallowed(t)
      <3>1. IsPoll(t) /\ job[t] \in WorkJobs
        BY <2>2, <1>1, KindIsJob DEF Swallowed, TaskOK, IsPoll
      <3> QED
        BY <2>2, <3>1 DEF Swallowed, AtHead, MayReach, KeepsPolling, Fresh
    <2>3. CASE SignOutRemoves(t)
      <3>1. job[t] \in AppJobs
        BY <2>3, <1>1, KindIsJob DEF SignOutRemoves
      <3> QED
        BY <2>3, <3>1, <1>3 DEF SignOutRemoves, Running, AtHead, MayReach, KeepsPolling, Fresh
    <2>4. CASE PollStarts(t) \/ PollTicks(t)
      <3>1. IsPoll(t) /\ job[t] \in WorkJobs
        BY <2>4, <1>1, KindIsJob DEF PollStarts, PollTicks, IsPoll
      <3> QED
        BY <2>4, <3>1, <1>2, <1>3 DEF PollStarts, PollTicks, Running, AtHead, MayReach, KeepsPolling, Fresh
    <2>5. CASE ManualRefresh(t)
      <3>1. job[t] \in WorkJobs
        BY <2>5, <1>1, KindIsJob DEF ManualRefresh
      <3> QED
        BY <2>5, <3>1, <1>3 DEF ManualRefresh, Running, AtHead, MayReach, KeepsPolling, Fresh
    <2>6. CASE NextPage(t)
      <3>1. job[t] \in WorkJobs /\ pc[t] = "page"
        BY <2>6, <1>1 DEF NextPage, Refreshing, TaskOK
      <3> QED
        BY <2>6, <3>1, <1>2, <1>3 DEF NextPage, Running, AtHead, MayReach, KeepsPolling, Fresh
    <2>7. CASE AuthFailed(t) \/ Refreshed(t)
      <3>1. job[t] \in WorkJobs /\ pc[t] = "page"
        BY <2>7, <1>1 DEF AuthFailed, Refreshed, Refreshing, TaskOK
      <3> QED
        BY <2>7, <3>1, <1>3 DEF AuthFailed, Refreshed, AfterRefresh, Running, AtHead, MayReach, KeepsPolling,
                                Fresh, IsPoll
    <2>8. CASE SignOutDrops(t)
      BY <2>8, <1>3 DEF SignOutDrops, Running, AtHead, MayReach, KeepsPolling, Fresh
    <2> QED
      BY <2>1, <2>2, <2>3, <2>4, <2>5, <2>6, <2>7, <2>8
  <1> QED
    BY <1>4, QuietOrder DEF accountVars, pollVars

\* An account is made active, and its enumeration is created.
LEMMA ActivatesOrder ==
    ASSUME IInv, OrderInv, NEW t \in Tasks, NEW a \in Accounts, AtHead(t), pc[t] # "idle", NEW dead, NEW lost,
           SparesOthers(dead, lost, {}, {}), Turn(t, "idle", dead, lost, Listeners(a)),
           dead \subseteq Tasks, active' = a, told' => a \in present', pollTask' = pollTask,
           \A p \in CurrentPoll : p \in dead =>
               \A u \in Tasks : Fresh(u, job[p].account) => u \in dead \/ u = t
    PROVE  OrderInv'
  <1>1. TasksOK /\ QueueOK /\ LeavesFirst
    BY DEF IInv, OrderInv
  <1>2. PICK j : j = Job("enumerate", a)
    OBVIOUS
  <1>3. PICK m : m = Slots(1)[1]
    OBVIOUS
  <1>4. Turned(t, "idle", dead, lost, {}, {m}, j)
    BY <1>1, <1>2, <1>3, OneTurned DEF Listeners
  <1>5. MayReach(t, "idle") /\ j.kind # "poll"
    BY <1>2 DEF MayReach, Job
  <1>6. QueueOK'
    BY <1>1, <1>4, <1>5, TurnedKeepsQueue
  <1>7. LeavesFirst'
    BY <1>1, <1>4, <1>5, TurnedLeaves
  <1>8. WillPoll'
    BY <1>1, <1>2, <1>4, <1>5, ComesLast
  <1> QED
    BY <1>6, <1>7, <1>8 DEF OrderInv, TellsListed

LEMMA AddOrder ==
    ASSUME IInv, OrderInv, NEW t \in Tasks, AddAccount(t)
    PROVE  OrderInv'
  <1>1. PICK a \in Accounts : a = job[t].arg /\ job[t] \in AppJobs /\ pc[t] # "idle" /\ job[t].kind = "add"
    BY KindIsJob, JobShapes DEF AddAccount, IInv, Live
  <1>2. AtHead(t) /\ MayReach(t, "idle") /\ \A b : ~Fresh(t, b)
    BY <1>1 DEF AddAccount, Running, AtHead, MayReach, Fresh, Job
  <1>3. CASE UNCHANGED <<active, told>> /\ Run(t, "idle")
    <2>1. KeepsPolling(t, "idle")
      BY <1>1 DEF KeepsPolling, Job
    <2> QED
      BY <1>2, <1>3, <2>1, QuietOrder DEF AddAccount, pollVars
  <1>4. CASE present' = {a} /\ active' = a /\ Turn(t, "idle", {}, {}, Listeners(a))
    <2>1. SparesOthers({}, {}, {}, {}) /\ pollTask' = pollTask
      BY DEF SparesOthers, AddAccount, pollVars
    <2> QED
      BY <1>1, <1>2, <1>4, <2>1, ActivatesOrder
  <1> QED
    BY <1>1, <1>3, <1>4 DEF AddAccount

(* What a switch or a sign-out cancels of a noted loop's account.            *)
LEMMA AllOfAccount ==
    ASSUME IInv, NEW b \in Accounts, NEW p \in Tasks, p \in Tracked(b), NEW u \in Tasks, Fresh(u, job[p].account)
    PROVE  u \in Tracked(b)
  <1>1. job[p].account = b
    BY TrackedIsWork DEF IInv
  <1>2. job[u] \in WorkJobs /\ job[u].account = b /\ Standing(u)
    BY <1>1 DEF Fresh, WorkJobs, Job, Standing, IsPoll
  <1>3. group[u] = b
    BY <1>2 DEF IInv, WorkInv, WorkIsActive
  <1> QED
    BY <1>3 DEF Fresh, Tracked, Live

LEMMA SwitchOrder ==
    ASSUME IInv, OrderInv, NEW t \in Tasks, SwitchAccount(t)
    PROVE  OrderInv'
  <1>1. PICK a \in Accounts : a = job[t].arg /\ job[t] \in AppJobs /\ pc[t] # "idle" /\ job[t].kind = "switch"
    BY KindIsJob, JobShapes DEF SwitchAccount, IInv, Live
  <1>2. AtHead(t) /\ MayReach(t, "idle") /\ pollTask' = pollTask /\ \A b : ~Fresh(t, b)
    BY <1>1 DEF SwitchAccount, Running, AtHead, MayReach, Fresh, Job, pollVars
  <1>3. CASE a = active
    <2>1. KeepsPolling(t, "idle")
      BY <1>1 DEF KeepsPolling, Job
    <2> QED
      BY <1>1, <1>2, <1>3, <2>1, QuietOrder DEF SwitchAccount, accountVars
  <1>4. CASE a # active
    <2>1. PICK dead : dead = IF active = NoAccount THEN {} ELSE Tracked(active)
      OBVIOUS
    <2>2. PICK lost \in SUBSET Losing(dead) : Turn(t, "idle", dead, lost, Listeners(a))
      BY <1>1, <1>4, <2>1 DEF SwitchAccount
    <2>3. active' = a /\ (told' => a \in present')
      BY <1>1, <1>4 DEF SwitchAccount
    <2>4. active # NoAccount => active \in Accounts
      BY DEF IInv, AccountsOK
    <2>5. SparesOthers(dead, lost, {}, {}) /\ dead \subseteq Tasks
      <3>1. CASE active = NoAccount
        BY <2>1, <3>1 DEF SparesOthers, Losing
      <3>2. CASE active # NoAccount
        <4>1. dead = Tracked(active) /\ TasksOK
          BY <2>1, <3>2 DEF IInv
        <4> QED
          BY <2>4, <3>2, <4>1, TrackedIsWork DEF SparesOthers, Losing, Tracked
      <3> QED
        BY <3>1, <3>2
    <2>6. \A p \in CurrentPoll : p \in dead =>
              \A u \in Tasks : Fresh(u, job[p].account) => u \in dead \/ u = t
      BY <2>1, <2>4, AllOfAccount DEF CurrentPoll
    <2> QED
      BY <1>1, <1>2, <2>2, <2>3, <2>5, <2>6, ActivatesOrder
  <1> QED
    BY <1>3, <1>4

LEMMA SignOutForgetsOrder ==
    ASSUME IInv, OrderInv, NEW t \in Tasks, SignOutForgets(t)
    PROVE  OrderInv'
  <1>1. PICK a \in Accounts : job[t] \in AppJobs /\ job[t] = AppJob("sign_out", a) /\ a = job[t].arg
    BY KindIsJob, JobShapes DEF SignOutForgets, IInv
  <1>2. PICK dead : dead = Tracked(a)
    OBVIOUS
  <1>3. PICK lost \in SUBSET Losing(dead) : TurnDropping(t, "forget", dead, lost, dead, <<>>)
    BY <1>1, <1>2 DEF SignOutForgets
  <1>4. TasksOK /\ QueueOK /\ LeavesFirst /\ WillPoll
    BY DEF IInv, OrderInv
  <1>5. AtHead(t) /\ dead \subseteq Tasks /\ pollTask' = pollTask /\ present' = present \ {a}
    BY <1>1, <1>2 DEF SignOutForgets, Running, AtHead, Tracked, pollVars
  <1>6. Turned(t, "forget", dead, lost, dead, {}, NoJob)
    BY <1>3, <1>4, <1>5, DropTurned
  <1>7. SparesOthers(dead, lost, dead, {}) /\ MayReach(t, "forget")
    <2>1. \A u \in Tasks : u \in dead => job[u] \in WorkJobs
      BY <1>2, <1>4, TrackedIsWork
    <2>2. \A u \in Tasks : u \in lost => IsPoll(u) /\ u \in dead
      BY <1>2, <1>4, TrackedIsWork
    <2>3. lost \subseteq dead
      BY DEF Losing
    <2>4. job[t].kind = "sign_out"
      BY DEF SignOutForgets
    <2> QED
      BY <1>1, <2>1, <2>2, <2>3, <2>4 DEF SparesOthers, MayReach
  <1>8. QueueOK'
    BY <1>4, <1>6, <1>7, TurnedKeepsQueue
  <1>9. \A p \in CurrentPoll : p \in dead =>
            \A u \in Tasks : Fresh(u, job[p].account) => u \in dead \/ u = t
    BY <1>2, AllOfAccount DEF CurrentPoll
  <1>10. LeavesFirst'
    BY <1>4, <1>5, <1>6, <1>7, <1>9, TurnedLeaves, JobShapes
  <1>11. CASE active = a
    <2>1. told' = FALSE
      BY <1>1, <1>11 DEF SignOutForgets
    <2> QED
      BY <1>8, <1>10, <2>1 DEF OrderInv, TellsListed, WillPoll
  <1>12. CASE active # a
    <2>1. UNCHANGED <<active, told>>
      BY <1>1, <1>12 DEF SignOutForgets
    <2>2. TellsListed'
      BY <1>5, <1>12, <2>1 DEF OrderInv, TellsListed
    <2>3. KeepsPolling(t, "forget") /\ \A b : ~Fresh(t, b)
      BY <1>1 DEF KeepsPolling, Fresh, AppJob, Job
    <2>4. \A u \in Tasks : u \in dead => job[u].account # active
      BY <1>2, <1>4, <1>12, TrackedIsWork
    <2>5. WillPoll'
      BY <1>4, <1>6, <1>7, <2>1, <2>3, <2>4, QuietWill
    <2> QED
      BY <1>8, <1>10, <2>2, <2>5 DEF OrderInv
  <1> QED
    BY <1>11, <1>12

(* An enumeration of the active account finds its loop, which is not on its   *)
(* way out, or starts it; one of another account has the active one's behind. *)
LEMMA EnumerateOrder ==
    ASSUME IInv, OrderInv, NEW t \in Tasks, Enumerate(t)
    PROVE  OrderInv'
  <1>1. TasksOK /\ QueueOK /\ LeavesFirst /\ WillPoll
    BY DEF IInv, OrderInv
  <1>2. PICK a \in Accounts : /\ job[t] \in WorkJobs /\ a = job[t].account /\ pc[t] # "idle"
                              /\ job[t].kind = "enumerate" /\ a # NoAccount /\ Fresh(t, a)
    <2>1. job[t] \in WorkJobs /\ job[t].kind = "enumerate" /\ pc[t] = "new" /\ cancel[t] = "no"
      BY <1>1, KindIsJob DEF Enumerate, Running
    <2> QED
      BY <2>1, JobShapes DEF Fresh
  <1>3. AtHead(t) /\ UNCHANGED <<active, told, present>>
    BY DEF Enumerate, Running, AtHead, accountVars
  <1>4. PICK point : /\ point \in {"page", "idle"}
                     /\ IF IsPollingActive(a)
                        THEN Run(t, point) /\ UNCHANGED pollVars
                        ELSE /\ Turn(t, point, CurrentPoll, {}, <<Job("poll", a)>>)
                             /\ pollTask' = Slots(1)[1]
    BY <1>2 DEF Enumerate
  <1>5. MayReach(t, point) /\ KeepsPolling(t, point)
    BY <1>2, <1>4 DEF MayReach, KeepsPolling, Job
  <1>6. TellsListed'
    BY <1>3 DEF OrderInv, TellsListed
  <1>7. PICK dead, made, j :
           /\ Turned(t, point, dead, {}, {}, made, j) /\ SparesOthers(dead, {}, {}, {})
           /\ j.kind # "enumerate" /\ dead \subseteq CurrentPoll
           /\ \/ IsPollingActive(a) /\ dead = {} /\ made = {} /\ j = NoJob /\ UNCHANGED pollVars
              \/ made = {pollTask'} /\ j = Job("poll", a)
    <2>1. CASE IsPollingActive(a)
      <3>1. Turned(t, point, {}, {}, {}, {}, NoJob) /\ SparesOthers({}, {}, {}, {})
        BY <1>1, <1>3, <1>4, <2>1, RunTurned DEF SparesOthers
      <3>2. NoJob.kind # "enumerate"
        BY JobShapes
      <3> QED
        BY <1>4, <2>1, <3>1, <3>2
    <2>2. CASE ~IsPollingActive(a)
      <3>1. Turn(t, point, CurrentPoll, {}, <<Job("poll", a)>>) /\ pollTask' = Slots(1)[1]
        BY <1>4, <2>2
      <3>2. PICK dead : dead = CurrentPoll
        OBVIOUS
      <3>3. PICK j : j = Job("poll", a)
        OBVIOUS
      <3>4. Turned(t, point, dead, {}, {}, {Slots(1)[1]}, j)
        BY <1>1, <1>2, <1>3, <3>1, <3>2, <3>3, OneTurned DEF CurrentPoll
      <3>5. SparesOthers(dead, {}, {}, {}) /\ j.kind # "enumerate"
        BY <1>1, <3>2, <3>3, KindIsJob DEF SparesOthers, CurrentPoll, Job
      <3> QED
        BY <3>1, <3>2, <3>3, <3>4, <3>5
    <2> QED
      BY <2>1, <2>2
  <1>8. QueueOK'
    BY <1>1, <1>5, <1>7, TurnedKeepsQueue
  <1>9. LeavesFirst'
    <2>1. CASE dead = {} /\ UNCHANGED pollVars /\ j = NoJob
      BY <1>1, <1>5, <1>7, <2>1, TurnedLeaves, JobShapes DEF pollVars
    <2>2. CASE made = {pollTask'} /\ j = Job("poll", a)
      <3>1. PICK m \in Tasks : m = pollTask' /\ Created(m, j, dead, {})
        BY <1>7, <2>2 DEF Turned
      <3>2. m \notin dead /\ cancel[m] = "no"
        <4>1. TaskOK(m) /\ pc[m] = "idle"
          BY <1>1, <3>1 DEF TasksOK, Created
        <4> QED
          BY <1>7, <3>1, <4>1, JobShapes DEF TaskOK, SparesOthers
      <3>3. cancel'[m] = "no"
        BY <3>1, <3>2 DEF Created
      <3> QED
        BY <3>1, <3>3 DEF LeavesFirst, CurrentPoll
    <2> QED
      BY <1>7, <2>1, <2>2
  <1>10. ready[1] = t /\ Len(ready) > 0 /\ Len(ready) \in Nat
    BY <1>1, <1>7, TurnedPlaces
  <1>11. \A u \in Tasks : u \in dead => job[u].kind = "poll"
    BY <1>7 DEF CurrentPoll
  <1>12. ASSUME told, active # NoAccount,
                NEW i \in 1..Len(ready), i # 1, Fresh(ready[i], active),
                \A k \in 1..Len(ready) : Foreign(ready[k]) => k < i
         PROVE  WillPoll'
    <2>1. ready[i] \in Tasks
      BY <1>1, <1>7, TurnedPlaces
    <2>2. ready[i] \notin dead
      BY <1>11, <1>12, <2>1 DEF Fresh, Job
    <2> QED
      BY <1>1, <1>3, <1>5, <1>7, <1>12, <2>2, MovesUp
  <1>13. ASSUME told, active # NoAccount, a = active, \A u \in Tasks : ~Foreign(u)
         PROVE  WillPoll'
    <2>1. \A u \in Tasks : ~ForeignNext(u)
      BY <1>1, <1>3, <1>5, <1>7, <1>13, NoneForeign
    <2>2. HasLoop'
      <3>1. CASE IsPollingActive(a) /\ dead = {} /\ made = {}
        <4>1. PICK p \in Tasks : p = pollTask /\ job[p].kind = "poll" /\ p \in CurrentPoll /\ pollAccount = a
          BY <3>1 DEF IsPollingActive, CurrentPoll
        <4>2. job[p] = Job("poll", a)
          BY <1>1, <4>1, KindIsJob, JobShapes DEF IInv, WorkInv, NotedAccount, IsPoll
        <4>3. job[p].account = a
          BY <4>2 DEF Job
        <4>4. cancel[p] # "yes"
          BY <1>2, <1>10, <4>1, <4>3 DEF LeavesFirst, OrderInv
        <4>5. HasLoop
          BY <1>13, <4>2, <4>4 DEF HasLoop
        <4> QED
          BY <1>1, <1>3, <1>5, <1>7, <1>13, <3>1, <4>5, LoopStays
      <3>2. CASE made = {pollTask'} /\ j = Job("poll", a)
        <4>1. PICK m \in Tasks : m = pollTask' /\ Created(m, j, dead, {})
          BY <1>7, <3>2 DEF Turned
        <4>2. m \notin dead /\ cancel[m] = "no"
          <5>1. TaskOK(m) /\ pc[m] = "idle"
            BY <1>1, <4>1 DEF TasksOK, Created
          <5> QED
            BY <1>7, <4>1, <5>1, JobShapes DEF TaskOK, SparesOthers
        <4>3. cancel'[m] = "no" /\ job'[m] = Job("poll", active')
          BY <1>3, <1>13, <3>2, <4>1, <4>2 DEF Created
        <4> QED
          BY <4>1, <4>3 DEF HasLoop
      <3> QED
        BY <1>7, <3>1, <3>2
    <2> QED
      BY <2>1, <2>2 DEF WillPoll, Foreign, ForeignNext, Fresh, FreshNext
  <1>14. WillPoll'
    <2> SUFFICES ASSUME told, active # NoAccount PROVE WillPoll'
      BY <1>3 DEF WillPoll
    <2>1. CASE a # active
      <3>1. Foreign(t)
        BY <1>2, <2>1 DEF Foreign
      <3>2. PICK i \in 1..Len(ready) :
               Fresh(ready[i], active) /\ \A k \in 1..Len(ready) : Foreign(ready[k]) => k < i
        BY <1>1, <3>1 DEF WillPoll
      <3>3. i # 1
        BY <1>2, <1>10, <2>1, <3>2 DEF Fresh, Job
      <3> QED
        BY <1>12, <3>2, <3>3
    <2>2. CASE a = active /\ \A u \in Tasks : ~Foreign(u)
      BY <1>13, <2>2
    <2>3. CASE a = active /\ \E u \in Tasks : Foreign(u)
      <3>1. PICK i \in 1..Len(ready) :
               Fresh(ready[i], active) /\ \A k \in 1..Len(ready) : Foreign(ready[k]) => k < i
        BY <1>1, <2>3 DEF WillPoll
      <3>2. PICK u \in Tasks : Foreign(u)
        BY <2>3
      <3>3. PICK k \in 1..Len(ready) : ready[k] = u
        BY <1>1, <3>2, QueuedByPlace DEF Foreign, Fresh, QueueOK, QueueIsOrder
      <3>4. i # 1
        BY <3>1, <3>2, <3>3
      <3> QED
        BY <1>12, <3>1, <3>4
    <2> QED
      BY <2>1, <2>2, <2>3
  <1> QED
    BY <1>6, <1>8, <1>9, <1>14 DEF OrderInv

(* A new task, or one that is woken, joins the queue behind all others.       *)
LEMMA JoinsOrder ==
    ASSUME IInv, OrderInv, NEW t \in Tasks, ~Queued(t), ready' = Append(ready, t), pc'[t] # "idle",
           \A u \in Tasks \ {t} : job'[u] = job[u] /\ pc'[u] = pc[u],
           job'[t] = job[t] \/ (job[t].kind # "poll" /\ job'[t].kind # "poll"),
           \A a : ~FreshNext(t, a), UNCHANGED <<cancel, accountVars, pollVars>>
    PROVE  OrderInv'
  <1>1. TasksOK /\ QueueOK /\ LeavesFirst /\ WillPoll /\ QueueIsOrder
    BY DEF IInv, OrderInv, QueueOK
  <1>2. /\ ready' \in Seq(Tasks) /\ Len(ready') = Len(ready) + 1 /\ ready'[Len(ready')] = t
        /\ \A i \in 1..Len(ready) : ready'[i] = ready[i]
        /\ \A i, k \in 1..Len(ready') : ready'[i] = ready'[k] => i = k
    BY <1>1, AppendRequeues
  <1>3. ready \in Seq(Tasks) /\ Len(ready) \in Nat
    BY <1>1 DEF QueueIsOrder
  <1>4. \A i \in 1..Len(ready) : ready[i] \in Tasks \ {t} /\ i \in 1..Len(ready') /\ Live(ready[i])
    BY <1>1, <1>2, <1>3 DEF Queued, QueueIsOrder
  <1>5. \A i \in 1..Len(ready') : ready'[i] = t \/ (i \in 1..Len(ready) /\ ready'[i] = ready[i])
    BY <1>2, <1>3
  <1>6. Queued(t)' /\ \A u \in Tasks : Queued(u) => Queued(u)'
    BY <1>3, AppendQueue
  <1>7. QueueOK'
    <2>1. \A i \in 1..Len(ready') : pc'[ready'[i]] # "idle"
      BY <1>4, <1>5 DEF Live
    <2>2. QueueIsOrder'
      BY <1>2, <2>1 DEF QueueIsOrder, Live
    <2>3. \A u \in Tasks : pc'[u] = "new" \/ cancel'[u] # "no" => Queued(u)'
      BY <1>1, <1>6 DEF QueueOK
    <2> QED
      BY <2>2, <2>3 DEF QueueOK
  <1>8. TellsListed'
    BY DEF OrderInv, TellsListed, accountVars
  <1>9. \A u \in Tasks : \A a : FreshNext(u, a) => u # t /\ Fresh(u, a)
    BY DEF FreshNext, Fresh
  <1>10. \A u \in Tasks \ {t} : \A a : Fresh(u, a) => FreshNext(u, a)
    BY DEF FreshNext, Fresh
  <1>11. LeavesFirst'
    <2> SUFFICES ASSUME NEW p \in Tasks, p = pollTask', job'[p].kind = "poll", cancel'[p] = "yes"
                 PROVE  \E i \in 1..Len(ready') :
                           /\ ready'[i] = p
                           /\ \A k \in 1..Len(ready') : FreshNext(ready'[k], job'[p].account) => i < k
      BY DEF LeavesFirst, CurrentPoll, Fresh, FreshNext
    <2>1. job'[p] = job[p] /\ p \in CurrentPoll /\ cancel[p] = "yes"
      BY DEF CurrentPoll, pollVars
    <2>2. PICK i \in 1..Len(ready) :
             ready[i] = p /\ \A k \in 1..Len(ready) : Fresh(ready[k], job[p].account) => i < k
      BY <1>1, <2>1 DEF LeavesFirst
    <2>3. ASSUME NEW k \in 1..Len(ready'), FreshNext(ready'[k], job'[p].account) PROVE i < k
      BY <1>4, <1>5, <1>9, <2>1, <2>2, <2>3
    <2> QED
      BY <1>2, <1>4, <2>2, <2>3
  <1>12. \A u \in Tasks : ForeignNext(u) => Foreign(u) /\ u # t
    BY <1>9 DEF ForeignNext, Foreign, accountVars
  <1>13. WillPoll'
    <2> SUFFICES ASSUME told, active # NoAccount PROVE WillPoll'
      BY DEF WillPoll, accountVars
    <2>1. CASE \E i \in 1..Len(ready) :
                  Fresh(ready[i], active) /\ \A k \in 1..Len(ready) : Foreign(ready[k]) => k < i
      <3>1. PICK i \in 1..Len(ready) :
               Fresh(ready[i], active) /\ \A k \in 1..Len(ready) : Foreign(ready[k]) => k < i
        BY <2>1
      <3>2. i \in 1..Len(ready') /\ FreshNext(ready'[i], active')
        BY <1>2, <1>4, <1>10, <3>1 DEF accountVars
      <3>3. ASSUME NEW k \in 1..Len(ready'), ForeignNext(ready'[k]) PROVE k < i
        BY <1>4, <1>5, <1>12, <3>1, <3>3, <1>2
      <3>4. \E m \in 1..Len(ready') : /\ FreshNext(ready'[m], active')
                                      /\ \A k \in 1..Len(ready') : ForeignNext(ready'[k]) => k < m
        BY <3>2, <3>3
      <3> QED
        BY <3>4 DEF WillPoll, Fresh, Foreign, FreshNext, ForeignNext
    <2>2. CASE HasLoop /\ \A u \in Tasks : ~Foreign(u)
      <3>1. PICK p \in Tasks : job[p] = Job("poll", active) /\ cancel[p] # "yes"
        BY <2>2 DEF HasLoop
      <3>2. job'[p] = job[p]
        BY <3>1 DEF Job
      <3>3. HasLoop'
        BY <3>1, <3>2 DEF HasLoop, accountVars
      <3>4. \A u \in Tasks : ~ForeignNext(u)
        BY <1>12, <2>2
      <3> QED
        BY <3>3, <3>4 DEF WillPoll, Foreign, ForeignNext, Fresh, FreshNext
    <2> QED
      BY <1>1, <2>1, <2>2 DEF WillPoll
  <1> QED
    BY <1>7, <1>8, <1>11, <1>13 DEF OrderInv

LEMMA EventOrder ==
    ASSUME IInv, OrderInv, NEW t \in Tasks, Event(t)
    PROVE  OrderInv'
  <1>1. /\ Live(t) /\ ~Queued(t) /\ ready' = Append(ready, t)
        /\ UNCHANGED <<job, pc, cancel, accountVars, pollVars>>
    BY DEF Event, PageArrives, Elapses, SignOutReturns, Wake, Suspended
  <1>2. pc[t] # "new"
    BY <1>1 DEF OrderInv, QueueOK
  <1> QED
    BY <1>1, <1>2, JoinsOrder DEF Live, FreshNext

LEMMA ClickOrder ==
    ASSUME IInv, OrderInv, NEW kind \in Clicks, NEW a \in Accounts, Click(kind, a)
    PROVE  OrderInv'
  <1>1. PICK j : CreateTask(j) /\ j.kind \notin {"poll", "enumerate"}
    BY DEF Click, AppJob, Job
  <1>2. IsFiniteSet(Idle) /\ Cardinality(Idle) \in Nat /\ Cardinality(Idle) # 0
    BY <1>1, LoopAssumption, FS_Subset, FS_CardinalityType, FS_EmptySet DEF Idle, CreateTask
  <1>3. PICK t \in Tasks : t = Slots(1)[1] /\ pc[t] = "idle"
    BY <1>2, SlotsAreIdle DEF Idle, Live
  <1>4. /\ ready' = Append(ready, t) /\ job' = [job EXCEPT ![t] = j] /\ pc' = [pc EXCEPT ![t] = "new"]
        /\ UNCHANGED <<cancel, accountVars, pollVars>>
    BY <1>1, <1>3 DEF CreateTask, Click
  <1>5. DOMAIN job = Tasks /\ DOMAIN pc = Tasks /\ job[t].kind # "poll"
    BY <1>3, JobShapes DEF IInv, TasksOK, TaskOK
  <1>6. ~Queued(t)
    BY <1>3 DEF OrderInv, QueueOK, QueueIsOrder, Queued, Live
  <1> QED
    BY <1>1, <1>3, <1>4, <1>5, <1>6, JoinsOrder DEF FreshNext, Job

LEMMA OrderKept == IInv /\ OrderInv /\ [Next]_vars => OrderInv'
  <1> SUFFICES ASSUME IInv, OrderInv, [Next]_vars PROVE OrderInv'
    OBVIOUS
  <1>1. ASSUME NEW t \in Tasks, TaskStep(t) PROVE OrderInv'
    BY <1>1, PlainOrder, SwitchOrder, AddOrder, SignOutForgetsOrder, EnumerateOrder DEF TaskStep
  <1>2. CASE UNCHANGED vars
    <2>1. UNCHANGED <<ready, job, pc, cancel, active, told, present, pollTask>>
      BY <1>2 DEF vars, loopVars, accountVars, pollVars
    <2> QED
      BY <2>1 DEF OrderInv, QueueOK, QueueIsOrder, Queued, Live, TellsListed, LeavesFirst, CurrentPoll, WillPoll,
                  HasLoop, Foreign, Fresh
  <1> QED
    BY <1>1, <1>2, EventOrder, ClickOrder DEF Next

(* When nothing is left to run, the account the listeners were told of has    *)
(* its poll loop, in whatever order switches, sign-ins, sign-outs and the     *)
(* cancellations of loops and enumerations were queued (start_polling,        *)
(* _is_polling_active, _enumerate_active_account).                           *)
THEOREM ActiveHasLoop == Spec => []ActiveIsPolled
  <1>1. IInv /\ OrderInv => ActiveIsPolled
    <2> SUFFICES ASSUME OrderInv, ready = <<>>, active # NoAccount, told
                 PROVE  \E t \in Tasks : Polling(t) /\ job[t].account = active
      BY DEF ActiveIsPolled
    <2>1. HasLoop
      BY DEF OrderInv, WillPoll
    <2> QED
      BY <2>1 DEF HasLoop, Polling, Job
  <1> QED
    BY <1>1, InitHolds, InitOrder, NextKeeps, OrderKept, PTL DEF Spec
=============================================================================
