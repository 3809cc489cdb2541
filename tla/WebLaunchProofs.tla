--------------------------- MODULE WebLaunchProofs ---------------------------
(***************************************************************************)
(* What the run of WebLaunch shows on three task slots, for any number of     *)
(* slots, accounts, rows and workspaces.                                    *)
(***************************************************************************)
EXTENDS WebLaunch, EventLoopProofs

Launches == {LaunchJob(a, k) : a \in Accounts, k \in Rows}

AppJobs == {AppJob(kind, a) : kind \in {"add", "switch", "sign_out"}, a \in Accounts}

(* What a task may be, by the place it is suspended at.                      *)
TaskOK(t) ==
    /\ pc[t] \in {"idle", "new", "browser", "remove"}
    /\ cancel[t] \in {"no", "yes"}
    /\ pc[t] = "idle" => job[t] = NoJob /\ cancel[t] = "no"
    /\ pc[t] = "new" => job[t] \in Launches \cup AppJobs
    /\ pc[t] = "browser" => job[t] \in Launches
    /\ pc[t] = "remove" => job[t] \in AppJobs
    /\ reply[t] = "opened" => pc[t] = "browser"

TasksOK ==
    /\ DOMAIN job = Tasks /\ DOMAIN group = Tasks /\ DOMAIN pc = Tasks
    /\ DOMAIN cancel = Tasks /\ DOMAIN reply = Tasks
    /\ \A t \in Tasks : TaskOK(t)

(* A launch that is not being cancelled is in the group a switch away from   *)
(* its account, or its sign-out, cancels.                                    *)
LaunchesAreGrouped ==
    \A t \in Tasks : IsLaunch(t) /\ cancel[t] = "no" => group[t] = job[t].account

(* The account that a sign-in replaces is one that was signed out before it  *)
(* was made active.                                                          *)
ActiveIsKnown == active \in present \cup unlisted \cup {NoAccount}

(* A tab is only known to be open to a launch that is about to run.           *)
AnswersAreQueued ==
    /\ ready \in Seq(Tasks)
    /\ \A t \in Tasks : reply[t] = "opened" => Queued(t)

RowsOK == dialog \in Rows \cup {NoRow} /\ active \in Accounts \cup {NoAccount} /\ present \subseteq Accounts

IInv ==
    /\ TasksOK /\ AnswersAreQueued /\ RowsOK
    /\ LaunchesAreGrouped /\ ActiveIsKnown /\ LaunchesFollowActive
    /\ OpenedAreTracked /\ SpinnersEnd

LEMMA JobShapes ==
    /\ \A j \in Launches : j.kind = "launch" /\ j.account \in Accounts /\ j.arg \in Rows
    /\ \A j \in AppJobs : /\ j.kind \in {"add", "switch", "sign_out"}
                          /\ j.account = NoAccount /\ j.arg \in Accounts
    /\ NoJob.kind = "none"
  BY DEF Launches, AppJobs, LaunchJob, AppJob, NoJob

-----------------------------------------------------------------------------
(* Steps of the loop.                                                       *)

(* Task t runs up to point, cancelling those of dead and dropping those of    *)
(* untracked from their groups.                                              *)
Ran(t, point, dead, untracked) ==
    /\ DOMAIN job' = Tasks /\ DOMAIN group' = Tasks /\ DOMAIN pc' = Tasks
    /\ DOMAIN cancel' = Tasks /\ DOMAIN reply' = Tasks
    /\ \A u \in Tasks \ {t} :
          /\ job'[u] = job[u] /\ pc'[u] = pc[u] /\ reply'[u] = reply[u]
          /\ cancel'[u] = IF u \in dead THEN "yes" ELSE cancel[u]
          /\ group'[u] = IF u \in untracked THEN NoAccount ELSE group[u]
    /\ pc'[t] = point /\ cancel'[t] = "no" /\ reply'[t] = "none"
    /\ job'[t] = IF point = "idle" THEN NoJob ELSE job[t]
    /\ group'[t] = IF point = "idle" \/ t \in untracked THEN NoAccount ELSE group[t]

LEMMA TurnRuns ==
    ASSUME TasksOK, NEW t \in Tasks, NEW point, NEW dead, NEW untracked,
           TurnDropping(t, point, dead, {}, untracked, <<>>)
    PROVE  Ran(t, point, dead, untracked)
  <1> DEFINE jobs == <<>>
  <1>1. /\ jobs \in Seq({}) /\ Len(jobs) \in 0..2 /\ jobs = <<>>
        /\ \A i \in 1..Len(jobs) : jobs[i] \in {}
        /\ \A j \in {} : \E i \in 1..Len(jobs) : jobs[i] = j
    OBVIOUS
  <1>2. Stepped(t, point, dead, {}, untracked, {})
    <2>1. TurnDropping(t, point, dead, {}, untracked, jobs)
      OBVIOUS
    <2> HIDE DEF jobs
    <2> QED
      BY <1>1, <2>1, TurnEffect
  <1>3. \A u \in Tasks : Untouched(u, t, dead, {}, untracked) \/ Resumed(u, t, point, untracked)
    BY <1>2 DEF Stepped
  <1>4. /\ DOMAIN job' = Tasks /\ DOMAIN group' = Tasks /\ DOMAIN pc' = Tasks /\ DOMAIN cancel' = Tasks
    BY <1>2 DEF Stepped
  <1>5. reply' = [reply EXCEPT ![t] = "none"]
    BY DEF TurnDropping
  <1>6. DOMAIN reply' = Tasks /\ reply'[t] = "none" /\ \A u \in Tasks \ {t} : reply'[u] = reply[u]
    BY <1>5 DEF TasksOK
  <1>7. Resumed(t, t, point, untracked)
    BY <1>3 DEF Untouched
  <1>8. \A u \in Tasks \ {t} : Untouched(u, t, dead, {}, untracked)
    BY <1>3 DEF Resumed
  <1> QED
    BY <1>4, <1>6, <1>7, <1>8 DEF Ran, Untouched, Resumed

LEMMA TurnKeepsQueue ==
    ASSUME TasksOK, AnswersAreQueued, NEW t \in Tasks, AtHead(t), NEW point,
           NEW dead \in SUBSET Tasks, NEW untracked, TurnDropping(t, point, dead, {}, untracked, <<>>)
    PROVE  AnswersAreQueued'
  <1> DEFINE jobs == <<>>
  <1>1. jobs \in Seq({}) /\ Len(jobs) \in 0..2 /\ jobs = <<>>
    OBVIOUS
  <1>2. TurnDropping(t, point, dead, {}, untracked, jobs)
    OBVIOUS
  <1> HIDE DEF jobs
  <1>3. ready' \in Seq(Tasks) /\ \A u \in Tasks \ {t} : Queued(u) => Queued(u)'
    BY <1>1, <1>2, TurnQueue DEF AtHead, AnswersAreQueued
  <1>4. Ran(t, point, dead, untracked)
    BY <1>1, <1>2, TurnRuns
  <1> QED
    BY <1>3, <1>4 DEF Ran, AnswersAreQueued

LEMMA RunKeepsQueue ==
    ASSUME TasksOK, AnswersAreQueued, NEW t \in Tasks, AtHead(t), NEW point, Run(t, point)
    PROVE  AnswersAreQueued'
  BY TurnKeepsQueue DEF Run, Turn

LEMMA RunRuns ==
    ASSUME TasksOK, NEW t \in Tasks, NEW point, Run(t, point)
    PROVE  Ran(t, point, {}, {})
  BY TurnRuns DEF Run, Turn

LEMMA RanTasksOK ==
    ASSUME TasksOK, NEW t \in Tasks, NEW point, NEW dead, NEW untracked,
           Ran(t, point, dead, untracked), \A u \in dead : Live(u),
           \/ point = "idle"
           \/ point = "browser" /\ job[t] \in Launches
           \/ point = "remove" /\ job[t] \in AppJobs
    PROVE  TasksOK'
  <1>1. TaskOK(t)'
    BY DEF Ran, TaskOK, NoJob
  <1>2. ASSUME NEW u \in Tasks \ {t} PROVE TaskOK(u)'
    <2>1. TaskOK(u)
      BY DEF TasksOK
    <2> QED
      BY <2>1 DEF Ran, TaskOK, Live
  <1> QED
    BY <1>1, <1>2 DEF TasksOK, Ran

LEMMA CreateKeeps ==
    ASSUME TasksOK, NEW j \in Launches \cup AppJobs, CreateTask(j)
    PROVE  \E t \in Tasks :
              /\ pc[t] = "idle" /\ TasksOK' /\ UNCHANGED <<cancel, reply>>
              /\ \A u \in Tasks \ {t} : job'[u] = job[u] /\ pc'[u] = pc[u] /\ group'[u] = group[u]
              /\ job'[t] = j /\ group'[t] = j.account /\ pc'[t] = "new"
  <1>1. PICK t \in Tasks : /\ pc[t] = "idle"
                           /\ job' = [job EXCEPT ![t] = j] /\ group' = [group EXCEPT ![t] = j.account]
                           /\ pc' = [pc EXCEPT ![t] = "new"] /\ UNCHANGED cancel
    BY CreateEffect
  <1>2. UNCHANGED reply
    BY DEF CreateTask
  <1>3. \A u \in Tasks : TaskOK(u)'
    BY <1>1, <1>2 DEF TasksOK, TaskOK
  <1> QED
    BY <1>1, <1>2, <1>3 DEF TasksOK

LEMMA WakeKeeps ==
    ASSUME TasksOK, NEW t \in Tasks, NEW r, Wake(t, r), r = "opened" => pc[t] = "browser"
    PROVE  /\ TasksOK' /\ reply' = [reply EXCEPT ![t] = r] /\ UNCHANGED <<job, group, pc, cancel>>
  BY DEF Wake, TasksOK, TaskOK

-----------------------------------------------------------------------------
(* What the launcher knows, step by step.                                   *)

Opening(w) == \E t \in Tasks : IsLaunch(t) /\ reply[t] = "opened" /\ w \in TabsOf(RowOf(t))

Spinning(k) == \E t \in Tasks : IsLaunch(t) /\ RowOf(t) = k

LEMMA TrackedByElement ==
    /\ OpenedAreTracked <=>
           \A w : w \in used <=> w \in remoteappWorkspaces \/ w \in lost \/ Opening(w)
    /\ OpenedAreTracked' <=>
           \A w : w \in used' <=> w \in remoteappWorkspaces' \/ w \in lost' \/ Opening(w)'
  <1> DEFINE opening == UNION {TabsOf(RowOf(t)) : t \in {u \in Tasks : IsLaunch(u) /\ reply[u] = "opened"}}
  <1>1. /\ \A w : w \in opening <=> Opening(w)
        /\ OpenedAreTracked <=> used = remoteappWorkspaces \cup lost \cup opening
    BY DEF Opening, OpenedAreTracked
  <1>2. /\ \A w : w \in opening' <=> Opening(w)'
        /\ OpenedAreTracked' <=> used' = remoteappWorkspaces' \cup lost' \cup opening'
    BY DEF Opening, OpenedAreTracked
  <1> HIDE DEF opening
  <1> QED
    BY <1>1, <1>2

LEMMA SpinnersByElement ==
    /\ SpinnersEnd <=> \A k : k \in launching /\ k \notin unstarted => Spinning(k)
    /\ SpinnersEnd' <=> \A k : k \in launching' /\ k \notin unstarted' => Spinning(k)'
  BY DEF SpinnersEnd, Spinning

(* Nobody's launch is another's when t runs; what t opened or spun for, if    *)
(* anything, is all that may go.                                             *)
LEMMA RanOpening ==
    ASSUME TasksOK, NEW t \in Tasks, NEW point, NEW dead, NEW untracked, Ran(t, point, dead, untracked)
    PROVE  /\ \A w : Opening(w)' => Opening(w)
           /\ \A w : Opening(w) => \/ Opening(w)'
                                   \/ IsLaunch(t) /\ reply[t] = "opened" /\ w \in TabsOf(RowOf(t))
           /\ \A k : Spinning(k) => Spinning(k)' \/ (point = "idle" /\ IsLaunch(t) /\ RowOf(t) = k)
  <1>1. \A u \in Tasks \ {t} : /\ IsLaunch(u)' <=> IsLaunch(u)
                               /\ RowOf(u)' = RowOf(u) /\ reply'[u] = reply[u]
    BY DEF Ran, IsLaunch, RowOf
  <1>2. reply'[t] # "opened"
    BY DEF Ran
  <1>3. point # "idle" => (IsLaunch(t)' <=> IsLaunch(t)) /\ RowOf(t)' = RowOf(t)
    BY DEF Ran, IsLaunch, RowOf
  <1>4. \A k : TabsOf(k)' = TabsOf(k)
    BY DEF TabsOf
  <1>5. ASSUME NEW w, Opening(w)' PROVE Opening(w)
    <2>1. PICK u \in Tasks : IsLaunch(u)' /\ reply'[u] = "opened" /\ w \in TabsOf(RowOf(u)')
      BY <1>5 DEF Opening, TabsOf
    <2> QED
      BY <2>1, <1>1, <1>2 DEF Opening
  <1>6. ASSUME NEW w, Opening(w)
        PROVE  \/ Opening(w)'
               \/ IsLaunch(t) /\ reply[t] = "opened" /\ w \in TabsOf(RowOf(t))
    <2>1. PICK u \in Tasks : IsLaunch(u) /\ reply[u] = "opened" /\ w \in TabsOf(RowOf(u))
      BY <1>6 DEF Opening
    <2>2. u # t => IsLaunch(u)' /\ reply'[u] = "opened" /\ w \in TabsOf(RowOf(u)')
      BY <2>1, <1>1
    <2> QED
      BY <2>1, <2>2 DEF Opening, TabsOf
  <1>7. ASSUME NEW k, Spinning(k)
        PROVE  Spinning(k)' \/ (point = "idle" /\ IsLaunch(t) /\ RowOf(t) = k)
    BY <1>7, <1>1, <1>3 DEF Spinning
  <1> QED
    BY <1>5, <1>6, <1>7

(* A new task adds a launch and takes none away.                             *)
LEMMA CreatedOpening ==
    ASSUME TasksOK, NEW j \in Launches \cup AppJobs, CreateTask(j)
    PROVE  /\ \A w : Opening(w)' <=> Opening(w)
           /\ \A k : Spinning(k) => Spinning(k)'
           /\ j \in Launches => Spinning(j.arg)'
  <1>1. PICK t \in Tasks : /\ pc[t] = "idle" /\ TasksOK' /\ UNCHANGED <<cancel, reply>>
                           /\ \A u \in Tasks \ {t} : job'[u] = job[u] /\ pc'[u] = pc[u] /\ group'[u] = group[u]
                           /\ job'[t] = j /\ group'[t] = j.account /\ pc'[t] = "new"
    BY CreateKeeps
  <1>2. \A u \in Tasks \ {t} : (IsLaunch(u)' <=> IsLaunch(u)) /\ RowOf(u)' = RowOf(u)
    BY <1>1 DEF IsLaunch, RowOf
  <1>3. reply[t] # "opened" /\ reply' = reply /\ ~IsLaunch(t)
    BY <1>1 DEF TasksOK, TaskOK, IsLaunch, NoJob
  <1>4. ASSUME NEW w PROVE Opening(w)' <=> Opening(w)
    <2>1. \A u \in Tasks : (IsLaunch(u)' /\ reply'[u] = "opened" /\ w \in TabsOf(RowOf(u)'))
                          <=> (IsLaunch(u) /\ reply[u] = "opened" /\ w \in TabsOf(RowOf(u)))
      BY <1>2, <1>3
    <2>2. Opening(w)' <=> \E u \in Tasks : IsLaunch(u)' /\ reply'[u] = "opened" /\ w \in TabsOf(RowOf(u)')
      BY DEF Opening, TabsOf
    <2> QED
      BY <2>1, <2>2 DEF Opening
  <1>5. \A k : Spinning(k) => Spinning(k)'
    BY <1>2, <1>3 DEF Spinning
  <1>6. j \in Launches => IsLaunch(t)' /\ RowOf(t)' = j.arg
    BY <1>1, JobShapes DEF IsLaunch, RowOf
  <1> QED
    BY <1>4, <1>5, <1>6 DEF Spinning

-----------------------------------------------------------------------------
(* Whom launches are for, step by step.                                     *)

(* Other launches keep their group unless they are cancelled.                *)
LEMMA RanGrouped ==
    ASSUME TasksOK, LaunchesAreGrouped, NEW t \in Tasks, NEW point, NEW dead, NEW untracked,
           Ran(t, point, dead, untracked), untracked \subseteq dead,
           point = "idle" \/ (cancel[t] = "no" /\ t \notin untracked)
    PROVE  LaunchesAreGrouped'
  <1> SUFFICES ASSUME NEW u \in Tasks, IsLaunch(u)', cancel'[u] = "no"
               PROVE  group'[u] = job'[u].account
    BY DEF LaunchesAreGrouped
  <1>1. CASE u = t
    BY <1>1, JobShapes DEF Ran, IsLaunch, LaunchesAreGrouped
  <1>2. CASE u # t
    <2>1. u \notin dead /\ job'[u] = job[u] /\ cancel[u] = "no" /\ group'[u] = group[u]
      BY <1>2 DEF Ran
    <2> QED
      BY <2>1 DEF LaunchesAreGrouped, IsLaunch
  <1> QED
    BY <1>1, <1>2

(* An uncancelled launch after the step was one before it.                   *)
LEMMA RanLaunches ==
    ASSUME TasksOK, NEW t \in Tasks, NEW point, NEW dead, NEW untracked,
           Ran(t, point, dead, untracked), point = "idle" \/ cancel[t] = "no",
           NEW u \in Tasks, IsLaunch(u)', cancel'[u] = "no"
    PROVE  /\ IsLaunch(u) /\ cancel[u] = "no" /\ job'[u] = job[u]
           /\ u # t => u \notin dead
  <1>1. CASE u = t
    BY <1>1, JobShapes DEF Ran, IsLaunch
  <1>2. CASE u # t
    BY <1>2 DEF Ran, IsLaunch
  <1> QED
    BY <1>1, <1>2

LEMMA LaunchIsLaunch ==
    ASSUME TasksOK, NEW t \in Tasks, IsLaunch(t)
    PROVE  job[t] \in Launches /\ RowOf(t) \in Rows /\ job[t].account \in Accounts /\ Live(t)
  <1>1. job[t] \in Launches /\ Live(t)
    BY JobShapes DEF TasksOK, TaskOK, IsLaunch, Live
  <1> QED
    BY <1>1, JobShapes DEF RowOf

(* A step of a launch, or of another task that leaves the accounts alone.     *)
LEMMA QuietRun ==
    ASSUME IInv, NEW t \in Tasks, NEW point, AtHead(t), Run(t, point), point = "idle" \/ cancel[t] = "no",
           \/ point = "idle"
           \/ point = "browser" /\ job[t] \in Launches
           \/ point = "remove" /\ job[t] \in AppJobs,
           UNCHANGED <<accountVars, dialog, unlisted>>
    PROVE  /\ TasksOK' /\ AnswersAreQueued' /\ RowsOK' /\ LaunchesAreGrouped' /\ ActiveIsKnown' /\ LaunchesFollowActive'
           /\ Ran(t, point, {}, {})
  <1>1. Ran(t, point, {}, {})
    BY RunRuns DEF IInv
  <1>2. TasksOK'
    BY <1>1, RanTasksOK DEF IInv
  <1>3. LaunchesAreGrouped'
    BY <1>1, RanGrouped DEF IInv
  <1>4. LaunchesFollowActive'
    <2> SUFFICES ASSUME NEW u \in Tasks, IsLaunch(u)', cancel'[u] = "no"
                 PROVE  job'[u].account \in {active'} \cup unlisted'
      BY DEF LaunchesFollowActive
    <2>1. IsLaunch(u) /\ cancel[u] = "no" /\ job'[u] = job[u]
      BY <1>1, RanLaunches DEF IInv
    <2> QED
      BY <2>1 DEF IInv, LaunchesFollowActive, accountVars
  <1>5. RowsOK' /\ ActiveIsKnown'
    BY DEF IInv, RowsOK, ActiveIsKnown, accountVars
  <1>6. AnswersAreQueued'
    BY RunKeepsQueue DEF IInv
  <1> QED
    BY <1>1, <1>2, <1>3, <1>4, <1>5, <1>6

(* A step that changes neither what was opened nor who spins.                *)
LEMMA QuietData ==
    ASSUME IInv, UNCHANGED <<used, lost, remoteappWorkspaces, launching, unstarted>>,
           \A w : Opening(w)' <=> Opening(w), \A k : Spinning(k) => Spinning(k)'
    PROVE  OpenedAreTracked' /\ SpinnersEnd'
  <1>1. \A w : w \in used <=> w \in remoteappWorkspaces \/ w \in lost \/ Opening(w)
    BY TrackedByElement DEF IInv
  <1>2. \A w : w \in used' <=> w \in remoteappWorkspaces' \/ w \in lost' \/ Opening(w)'
    BY <1>1
  <1>3. OpenedAreTracked'
    BY <1>2, TrackedByElement
  <1>4. \A k : k \in launching /\ k \notin unstarted => Spinning(k)
    BY SpinnersByElement DEF IInv
  <1>5. \A k : k \in launching' /\ k \notin unstarted' => Spinning(k)'
    BY <1>4
  <1>6. SpinnersEnd'
    BY <1>5, SpinnersByElement
  <1> QED
    BY <1>3, <1>6

-----------------------------------------------------------------------------
(* The invariant, action by action.                                         *)

LEMMA InitHolds == Init => IInv
  <1> SUFFICES ASSUME Init PROVE IInv
    OBVIOUS
  <1>1. \A t \in Tasks : /\ job[t] = NoJob /\ pc[t] = "idle" /\ cancel[t] = "no" /\ reply[t] = "none"
                        /\ ~IsLaunch(t)
    BY DEF Init, InitLoop, IsLaunch, NoJob
  <1>2. TasksOK /\ AnswersAreQueued
    BY <1>1 DEF Init, InitLoop, TasksOK, TaskOK, AnswersAreQueued
  <1>3. LaunchesAreGrouped /\ LaunchesFollowActive
    BY <1>1 DEF LaunchesAreGrouped, LaunchesFollowActive
  <1>4. RowsOK /\ ActiveIsKnown
    BY DEF Init, RowsOK, ActiveIsKnown
  <1>5. OpenedAreTracked
    <2>1. \A w : ~Opening(w)
      BY <1>1 DEF Opening
    <2>2. used = {} /\ remoteappWorkspaces = {} /\ lost = {}
      BY DEF Init
    <2> QED
      BY <2>1, <2>2, TrackedByElement
  <1>6. SpinnersEnd
    BY DEF Init, SpinnersEnd
  <1> QED
    BY <1>2, <1>3, <1>4, <1>5, <1>6 DEF IInv

(* A callback of the window that creates a task leaves the others alone.      *)
LEMMA CreatedKeeps ==
    ASSUME IInv, NEW j \in Launches \cup AppJobs, CreateTask(j),
           j \in Launches => j.account = active,
           dialog' \in Rows \cup {NoRow}, UNCHANGED <<accountVars, unlisted>>
    PROVE  TasksOK' /\ AnswersAreQueued' /\ RowsOK' /\ LaunchesAreGrouped' /\ ActiveIsKnown' /\ LaunchesFollowActive'
  <1>1. PICK t \in Tasks : /\ pc[t] = "idle" /\ TasksOK' /\ UNCHANGED <<cancel, reply>>
                           /\ \A u \in Tasks \ {t} : job'[u] = job[u] /\ pc'[u] = pc[u] /\ group'[u] = group[u]
                           /\ job'[t] = j /\ group'[t] = j.account /\ pc'[t] = "new"
    BY CreateKeeps DEF IInv
  <1>2. j.kind = "launch" => j \in Launches
    BY JobShapes
  <1>3. LaunchesAreGrouped'
    BY <1>1 DEF IInv, LaunchesAreGrouped, IsLaunch
  <1>4. LaunchesFollowActive'
    BY <1>1, <1>2 DEF IInv, LaunchesFollowActive, IsLaunch, accountVars
  <1>5. RowsOK' /\ ActiveIsKnown'
    BY DEF IInv, RowsOK, ActiveIsKnown, accountVars
  <1>6. AnswersAreQueued'
    BY <1>1, CreateQueue DEF IInv, AnswersAreQueued
  <1> QED
    BY <1>1, <1>3, <1>4, <1>5, <1>6

LEMMA StartKeeps ==
    ASSUME IInv, NEW k \in Rows, StartWebLaunch(k),
           dialog' \in Rows \cup {NoRow}
    PROVE  IInv'
  <1> DEFINE j == LaunchJob(active, k)
  <1>1. j \in Launches /\ j.account = active /\ j.arg = k
    BY DEF IInv, RowsOK, StartWebLaunch, Launches, LaunchJob
  <1>2. CreateTask(j) /\ UNCHANGED <<accountVars, unlisted, used, lost, remoteappWorkspaces, unstarted>>
        /\ launching' = launching \cup {k}
    BY DEF StartWebLaunch, historyVars
  <1> HIDE DEF j
  <1>3. TasksOK' /\ AnswersAreQueued' /\ RowsOK' /\ LaunchesAreGrouped' /\ ActiveIsKnown' /\ LaunchesFollowActive'
    BY <1>1, <1>2, CreatedKeeps
  <1>4. (\A w : Opening(w)' <=> Opening(w)) /\ (\A r : Spinning(r) => Spinning(r)') /\ Spinning(k)'
    BY <1>1, <1>2, CreatedOpening DEF IInv
  <1>5. OpenedAreTracked'
    BY <1>2, <1>4, TrackedByElement DEF IInv
  <1>6. SpinnersEnd'
    BY <1>2, <1>4, SpinnersByElement DEF IInv
  <1> QED
    BY <1>3, <1>5, <1>6 DEF IInv

LEMMA ClickKeeps ==
    ASSUME IInv, NEW kind \in Clicks, NEW a \in Accounts, ClickAccount(kind, a)
    PROVE  IInv'
  <1> DEFINE j == AppJob(kind, a)
  <1>1. j \in AppJobs /\ j \notin Launches
    <2>1. j \in AppJobs
      BY LaunchAssumption DEF AppJobs
    <2> QED
      BY <2>1, JobShapes
  <1>2. CreateTask(j) /\ UNCHANGED <<accountVars, windowVars, abandoned, historyVars>>
    BY DEF ClickAccount
  <1> HIDE DEF j
  <1>3. dialog' \in Rows \cup {NoRow}
    BY <1>2 DEF IInv, RowsOK, windowVars
  <1>4. TasksOK' /\ AnswersAreQueued' /\ RowsOK' /\ LaunchesAreGrouped' /\ ActiveIsKnown' /\ LaunchesFollowActive'
    BY <1>1, <1>2, <1>3, CreatedKeeps DEF historyVars
  <1>5. (\A w : Opening(w)' <=> Opening(w)) /\ (\A r : Spinning(r) => Spinning(r)')
    BY <1>1, <1>2, CreatedOpening DEF IInv
  <1>6. OpenedAreTracked' /\ SpinnersEnd'
    BY <1>2, <1>5, QuietData DEF windowVars, historyVars
  <1> QED
    BY <1>4, <1>6 DEF IInv

(* The steps that only move a task on.                                       *)
LEMMA MoveKeeps ==
    ASSUME IInv, NEW t \in Tasks, Running(t),
           LaunchBegins(t) \/ SignOutRemoves(t)
    PROVE  IInv'
  <1>1. PICK point : /\ Run(t, point) /\ cancel[t] = "no" /\ reply[t] # "opened" /\ point # "idle"
                     /\ \/ point = "browser" /\ job[t] \in Launches
                        \/ point = "remove" /\ job[t] \in AppJobs
    <2>1. TaskOK(t) /\ cancel[t] = "no"
      BY DEF IInv, TasksOK, Running
    <2>2. CASE LaunchBegins(t)
      <3>1. job[t] \in Launches /\ reply[t] # "opened"
        BY <2>1, <2>2, JobShapes DEF LaunchBegins, IsLaunch, TaskOK
      <3> QED
        BY <2>1, <2>2, <3>1 DEF LaunchBegins
    <2>3. CASE SignOutRemoves(t)
      <3>1. job[t] \in AppJobs /\ reply[t] # "opened"
        BY <2>1, <2>3, JobShapes DEF SignOutRemoves, TaskOK
      <3> QED
        BY <2>1, <2>3, <3>1 DEF SignOutRemoves
    <2> QED
      BY <2>2, <2>3
  <1>2. UNCHANGED <<accountVars, windowVars, abandoned, historyVars>>
    BY DEF LaunchBegins, SignOutRemoves
  <1>3. /\ TasksOK' /\ AnswersAreQueued' /\ RowsOK' /\ LaunchesAreGrouped' /\ ActiveIsKnown' /\ LaunchesFollowActive'
        /\ Ran(t, point, {}, {})
    BY <1>1, <1>2, QuietRun DEF windowVars, historyVars, AtHead, Running
  <1>4. (\A w : Opening(w)' <=> Opening(w)) /\ (\A k : Spinning(k) => Spinning(k)')
    BY <1>1, <1>3, RanOpening DEF IInv
  <1>5. OpenedAreTracked' /\ SpinnersEnd'
    BY <1>2, <1>4, QuietData DEF windowVars, historyVars
  <1> QED
    BY <1>3, <1>5 DEF IInv

(* The end of a launch hands what its tab makes known to the launcher.        *)
LEMMA EndKeeps ==
    ASSUME IInv, NEW t \in Tasks, LaunchEnds(t)
    PROVE  IInv'
  <1>1. IsLaunch(t) /\ AtHead(t) /\ Run(t, "idle")
        /\ UNCHANGED <<accountVars, dialog, used, lost, unlisted>>
    BY JobShapes DEF LaunchEnds, AtHead, Running, IInv, TasksOK, TaskOK, IsLaunch
  <1>2. /\ TasksOK' /\ AnswersAreQueued' /\ RowsOK' /\ LaunchesAreGrouped' /\ ActiveIsKnown' /\ LaunchesFollowActive'
        /\ Ran(t, "idle", {}, {})
    BY <1>1, QuietRun
  <1>3. /\ \A w : Opening(w)' => Opening(w)
        /\ \A w : Opening(w) => \/ Opening(w)'
                                \/ IsLaunch(t) /\ reply[t] = "opened" /\ w \in TabsOf(RowOf(t))
        /\ \A k : Spinning(k) => Spinning(k)' \/ RowOf(t) = k
    BY <1>2, RanOpening DEF IInv
  <1>4. reply[t] = "opened" => \A w \in TabsOf(RowOf(t)) : Opening(w)
    BY <1>1 DEF Opening
  <1>5. \A w : w \in remoteappWorkspaces' <=>
                  w \in remoteappWorkspaces \/ (reply[t] = "opened" /\ w \in TabsOf(RowOf(t)))
    BY DEF LaunchEnds
  <1>6. OpenedAreTracked'
    <2>1. \A w : w \in used <=> w \in remoteappWorkspaces \/ w \in lost \/ Opening(w)
      BY TrackedByElement DEF IInv
    <2>2. \A w : w \in used' <=> w \in remoteappWorkspaces' \/ w \in lost' \/ Opening(w)'
      BY <1>1, <1>3, <1>4, <1>5, <2>1
    <2> QED
      BY <2>2, TrackedByElement
  <1>7. SpinnersEnd'
    BY <1>3, SpinnersByElement DEF IInv, LaunchEnds, SpinnerStops
  <1> QED
    BY <1>2, <1>6, <1>7 DEF IInv

(* A cancelled launch leaves what its tab would have made known, or its       *)
(* spinner if it had not begun, to the histories.                            *)
LEMMA CancelKeeps ==
    ASSUME IInv, NEW t \in Tasks, CancelledHere(t)
    PROVE  IInv'
  <1>1. IsLaunch(t) /\ AtHead(t) /\ Run(t, "idle")
        /\ UNCHANGED <<accountVars, dialog, used, remoteappWorkspaces, unlisted>>
    BY DEF CancelledHere, Cancelled, AtHead
  <1>2. /\ TasksOK' /\ AnswersAreQueued' /\ RowsOK' /\ LaunchesAreGrouped' /\ ActiveIsKnown' /\ LaunchesFollowActive'
        /\ Ran(t, "idle", {}, {})
    BY <1>1, QuietRun
  <1>3. /\ \A w : Opening(w)' => Opening(w)
        /\ \A w : Opening(w) => \/ Opening(w)'
                                \/ IsLaunch(t) /\ reply[t] = "opened" /\ w \in TabsOf(RowOf(t))
        /\ \A k : Spinning(k) => Spinning(k)' \/ RowOf(t) = k
    BY <1>2, RanOpening DEF IInv
  <1>4. reply[t] = "opened" => \A w \in TabsOf(RowOf(t)) : Opening(w)
    BY <1>1 DEF Opening
  <1>5. \A w : w \in lost' <=> w \in lost \/ (reply[t] = "opened" /\ w \in TabsOf(RowOf(t)))
    BY DEF CancelledHere
  <1>6. OpenedAreTracked'
    <2>1. \A w : w \in used <=> w \in remoteappWorkspaces \/ w \in lost \/ Opening(w)
      BY TrackedByElement DEF IInv
    <2>2. \A w : w \in used' <=> w \in remoteappWorkspaces' \/ w \in lost' \/ Opening(w)'
      BY <1>1, <1>3, <1>4, <1>5, <2>1
    <2> QED
      BY <2>2, TrackedByElement
  <1>7. \A k : k \in launching' /\ k \notin unstarted' => k \in launching /\ k \notin unstarted /\ k # RowOf(t)
    BY DEF CancelledHere, SpinnerStops
  <1>8. SpinnersEnd'
    BY <1>3, <1>7, SpinnersByElement DEF IInv
  <1> QED
    BY <1>2, <1>6, <1>8 DEF IInv

(* Steps of the account tasks: what was opened and who spins is theirs to     *)
(* leave alone, since none of them is a launch.                              *)
LEMMA AccountData ==
    ASSUME IInv, NEW t \in Tasks, ~IsLaunch(t), NEW point, NEW dead, NEW untracked,
           Ran(t, point, dead, untracked), UNCHANGED <<windowVars, used, lost, unstarted>>
    PROVE  OpenedAreTracked' /\ SpinnersEnd'
  <1>1. (\A w : Opening(w)' <=> Opening(w)) /\ (\A k : Spinning(k) => Spinning(k)')
    BY RanOpening DEF IInv
  <1> QED
    BY <1>1, QuietData DEF windowVars

(* A switch cancels the launches of the account it leaves; those that are     *)
(* left are of accounts made active after their sign-out.                     *)
LEMMA SwitchKeeps ==
    ASSUME IInv, NEW t \in Tasks, SwitchAccount(t)
    PROVE  IInv'
  <1> DEFINE a == job[t].arg
             dead == IF active \in {NoAccount, a} THEN {} ELSE Tracked(active)
  <1>1. /\ AtHead(t)
        /\ TurnDropping(t, "idle", dead, {}, {}, <<>>)
        /\ active' = a /\ UNCHANGED <<present, windowVars, used, lost, unstarted>>
        /\ unlisted' = IF a = active THEN unlisted ELSE (unlisted \ {active}) \cup ({a} \ present)
        /\ job[t].kind = "switch"
    BY DEF SwitchAccount, Turn, AtHead, Running
  <1>2. a \in Accounts /\ ~IsLaunch(t)
    BY <1>1, JobShapes DEF IInv, TasksOK, TaskOK, IsLaunch
  <1>3. dead \in SUBSET Tasks /\ \A u \in dead : Live(u)
    BY DEF Tracked
  <1>4. \A u \in Tasks : IsLaunch(u) /\ cancel[u] = "no" /\ u \notin dead =>
                              job[u].account \in {a} \cup ((unlisted \ {active}) \cup ({a} \ present))
                              \/ a = active
    <2> SUFFICES ASSUME NEW u \in Tasks, IsLaunch(u), cancel[u] = "no", u \notin dead, a # active
                 PROVE  job[u].account \in unlisted \ {active}
      OBVIOUS
    <2>1. /\ job[u].account \in Accounts /\ Live(u) /\ group[u] = job[u].account
          /\ job[u].account \in {active} \cup unlisted
      BY LaunchIsLaunch DEF IInv, LaunchesAreGrouped, LaunchesFollowActive
    <2>2. job[u].account # active
      BY <2>1, LoopAssumption DEF Tracked
    <2> QED
      BY <2>1, <2>2
  <1> HIDE DEF a, dead
  <1>5. Ran(t, "idle", dead, {})
    BY <1>1, TurnRuns DEF IInv
  <1>6. TasksOK' /\ AnswersAreQueued'
    BY <1>1, <1>3, <1>5, RanTasksOK, TurnKeepsQueue DEF IInv
  <1>7. LaunchesAreGrouped'
    BY <1>5, RanGrouped DEF IInv
  <1>8. LaunchesFollowActive'
    <2> SUFFICES ASSUME NEW u \in Tasks, IsLaunch(u)', cancel'[u] = "no"
                 PROVE  job'[u].account \in {active'} \cup unlisted'
      BY DEF LaunchesFollowActive
    <2>1. IsLaunch(u) /\ cancel[u] = "no" /\ job'[u] = job[u] /\ u \notin dead
      BY <1>2, <1>5, RanLaunches DEF IInv
    <2>2. CASE a = active
      BY <1>1, <2>1, <2>2 DEF IInv, LaunchesFollowActive
    <2>3. CASE a # active
      BY <1>1, <1>4, <2>1, <2>3
    <2> QED
      BY <2>2, <2>3
  <1>9. RowsOK' /\ ActiveIsKnown'
    BY <1>1, <1>2 DEF IInv, RowsOK, ActiveIsKnown, windowVars
  <1>10. OpenedAreTracked' /\ SpinnersEnd'
    BY <1>1, <1>2, <1>5, AccountData
  <1> QED
    BY <1>6, <1>7, <1>8, <1>9, <1>10 DEF IInv

(* A sign-in replaces only an active account that is not listed.              *)
LEMMA AddKeeps ==
    ASSUME IInv, NEW t \in Tasks, AddAccount(t)
    PROVE  IInv'
  <1> DEFINE a == job[t].arg
  <1>1. /\ AtHead(t)
        /\ Run(t, "idle") /\ job[t].kind = "add" /\ present' = present \cup {a}
        /\ active' = (IF present' = {a} THEN a ELSE active)
        /\ UNCHANGED <<windowVars, abandoned, historyVars>>
    BY DEF AddAccount, AtHead, Running
  <1>2. a \in Accounts /\ ~IsLaunch(t)
    BY <1>1, JobShapes DEF IInv, TasksOK, TaskOK, IsLaunch
  <1> HIDE DEF a
  <1>3. Ran(t, "idle", {}, {})
    BY <1>1, RunRuns DEF IInv
  <1>4. TasksOK' /\ AnswersAreQueued'
    BY <1>1, <1>3, RanTasksOK, RunKeepsQueue DEF IInv
  <1>5. LaunchesAreGrouped'
    BY <1>3, RanGrouped DEF IInv
  <1>6. active' # active => active \in unlisted \cup {NoAccount}
    BY <1>1 DEF IInv, ActiveIsKnown
  <1>7. LaunchesFollowActive'
    <2> SUFFICES ASSUME NEW u \in Tasks, IsLaunch(u)', cancel'[u] = "no"
                 PROVE  job'[u].account \in {active'} \cup unlisted'
      BY DEF LaunchesFollowActive
    <2>1. IsLaunch(u) /\ cancel[u] = "no" /\ job'[u] = job[u]
      BY <1>3, RanLaunches DEF IInv
    <2>2. job[u].account \in {active} \cup unlisted /\ job[u].account # NoAccount
      BY <2>1, LaunchIsLaunch, LoopAssumption DEF IInv, LaunchesFollowActive
    <2> QED
      BY <1>1, <1>6, <2>1, <2>2 DEF historyVars
  <1>8. RowsOK' /\ ActiveIsKnown'
    BY <1>1, <1>2 DEF IInv, RowsOK, ActiveIsKnown, windowVars, historyVars
  <1>9. OpenedAreTracked' /\ SpinnersEnd'
    BY <1>1, <1>2, <1>3, AccountData DEF historyVars
  <1> QED
    BY <1>4, <1>5, <1>7, <1>8, <1>9 DEF IInv

(* A sign-out cancels the launches of its account, active or not.             *)
LEMMA SignOutKeeps ==
    ASSUME IInv, NEW t \in Tasks, SignOutForgets(t)
    PROVE  IInv'
  <1> DEFINE a == job[t].arg
             left == present \ {a}
  <1>1. /\ AtHead(t)
        /\ TurnDropping(t, "idle", Tracked(a), {}, Tracked(a), <<>>) /\ job[t].kind = "sign_out"
        /\ present' = left /\ unlisted' = unlisted \ {a}
        /\ active' \in (IF active # a THEN {active} ELSE IF left = {} THEN {NoAccount} ELSE left)
        /\ UNCHANGED <<windowVars, used, lost, unstarted>>
    BY DEF SignOutForgets, AtHead, Running
  <1>2. ~IsLaunch(t) /\ a \in Accounts
    <2>1. job[t] \in AppJobs /\ pc[t] = "remove"
      BY <1>1, JobShapes DEF IInv, TasksOK, TaskOK, SignOutForgets
    <2> QED
      BY <1>1, <2>1, JobShapes DEF IsLaunch
  <1>3. \A u \in Tracked(a) : Live(u)
    BY DEF Tracked
  <1>4. Ran(t, "idle", Tracked(a), Tracked(a))
    BY <1>1, TurnRuns DEF IInv
  <1>5. TasksOK' /\ AnswersAreQueued'
    BY <1>1, <1>3, <1>4, RanTasksOK, TurnKeepsQueue DEF IInv, Tracked
  <1>6. LaunchesAreGrouped'
    BY <1>2, <1>4, RanGrouped DEF IInv
  <1>7. LaunchesFollowActive'
    <2> SUFFICES ASSUME NEW u \in Tasks, IsLaunch(u)', cancel'[u] = "no"
                 PROVE  job'[u].account \in {active'} \cup unlisted'
      BY DEF LaunchesFollowActive
    <2>1. IsLaunch(u) /\ cancel[u] = "no" /\ job'[u] = job[u] /\ u \notin Tracked(a)
      BY <1>2, <1>4, RanLaunches DEF IInv
    <2>2. /\ job[u].account \in {active} \cup unlisted /\ Live(u) /\ group[u] = job[u].account
      BY <2>1, LaunchIsLaunch DEF IInv, LaunchesFollowActive, LaunchesAreGrouped
    <2>3. job[u].account # a
      BY <2>1, <2>2 DEF Tracked
    <2> QED
      BY <1>1, <2>1, <2>2, <2>3
  <1>8. RowsOK' /\ ActiveIsKnown'
    BY <1>1, <1>2 DEF IInv, RowsOK, ActiveIsKnown, windowVars
  <1>9. OpenedAreTracked' /\ SpinnersEnd'
    BY <1>1, <1>2, <1>4, AccountData
  <1> QED
    BY <1>5, <1>6, <1>7, <1>8, <1>9 DEF IInv

(* The loop as it is leaves launches, and whom they are for, as they are.     *)
LEMMA LoopAlone ==
    ASSUME IInv, UNCHANGED <<job, group, pc, cancel, accountVars, unlisted>>,
           dialog' \in Rows \cup {NoRow}
    PROVE  /\ RowsOK' /\ LaunchesAreGrouped' /\ ActiveIsKnown' /\ LaunchesFollowActive'
           /\ \A k : Spinning(k) => Spinning(k)'
  BY DEF IInv, RowsOK, LaunchesAreGrouped, ActiveIsKnown, LaunchesFollowActive, IsLaunch, RowOf,
         Spinning, accountVars

(* An answer to the warning that launches nothing, or a stutter.              *)
LEMMA StutterKeeps ==
    ASSUME IInv, UNCHANGED <<loopVars, accountVars, launching, remoteappWorkspaces, historyVars>>,
           dialog' \in Rows \cup {NoRow}
    PROVE  IInv'
  <1>1. TasksOK' /\ AnswersAreQueued'
    BY DEF IInv, TasksOK, TaskOK, AnswersAreQueued, Queued, loopVars
  <1>2. /\ RowsOK' /\ LaunchesAreGrouped' /\ ActiveIsKnown' /\ LaunchesFollowActive'
        /\ \A k : Spinning(k) => Spinning(k)'
    BY LoopAlone DEF loopVars, historyVars
  <1>3. \A w : Opening(w)' <=> Opening(w)
    BY DEF Opening, IsLaunch, RowOf, TabsOf, loopVars
  <1>4. OpenedAreTracked' /\ SpinnersEnd'
    BY <1>2, <1>3, QuietData DEF historyVars
  <1> QED
    BY <1>1, <1>2, <1>4 DEF IInv

(* An executor's answer: a tab is open once its launch has been told so.      *)
LEMMA EventKeeps ==
    ASSUME IInv, NEW t \in Tasks, Event(t)
    PROVE  IInv'
  <1>1. PICK r \in {"none", "failed", "opened"} :
            /\ Wake(t, r) /\ (r = "opened" => pc[t] = "browser")
            /\ UNCHANGED <<accountVars, windowVars, lost, unstarted, unlisted>>
            /\ \A w : w \in used' <=> w \in used \/ (r = "opened" /\ w \in TabsOf(RowOf(t)))
    <2>1. CASE Returns(t)
      BY <2>1 DEF Returns, historyVars
    <2>2. CASE BrowserOpens(t)
      BY <2>2 DEF BrowserOpens
    <2>3. CASE BrowserFails(t)
      BY <2>3 DEF BrowserFails, historyVars
    <2> QED
      BY <2>1, <2>2, <2>3 DEF Event
  <1>2. TasksOK' /\ reply' = [reply EXCEPT ![t] = r] /\ UNCHANGED <<job, group, pc, cancel>>
    BY <1>1, WakeKeeps DEF IInv
  <1>3. AnswersAreQueued' /\ reply[t] # "opened"
    <2>1. ready' = Append(ready, t) /\ ~Queued(t)
      BY <1>1 DEF Wake, Suspended
    <2>2. ready' \in Seq(Tasks) /\ Queued(t)' /\ \A u \in Tasks : Queued(u) => Queued(u)'
      BY <2>1, AppendQueue DEF IInv, AnswersAreQueued
    <2> QED
      BY <1>2, <2>1, <2>2 DEF IInv, AnswersAreQueued, TasksOK
  <1>4. /\ RowsOK' /\ LaunchesAreGrouped' /\ ActiveIsKnown' /\ LaunchesFollowActive'
        /\ \A k : Spinning(k) => Spinning(k)'
    BY <1>1, <1>2, LoopAlone DEF windowVars, IInv, RowsOK
  <1>5. \A u \in Tasks : (IsLaunch(u)' <=> IsLaunch(u)) /\ RowOf(u)' = RowOf(u)
    BY <1>2 DEF IsLaunch, RowOf
  <1>6. r = "opened" => IsLaunch(t)
    BY <1>1, JobShapes DEF IInv, TasksOK, TaskOK, IsLaunch
  <1>7. ASSUME NEW w
        PROVE  Opening(w)' <=> Opening(w) \/ (r = "opened" /\ w \in TabsOf(RowOf(t)))
    <2>1. Opening(w)' <=> \E u \in Tasks : IsLaunch(u) /\ reply'[u] = "opened" /\ w \in TabsOf(RowOf(u))
      BY <1>5 DEF Opening, TabsOf
    <2>2. \A u \in Tasks : reply'[u] = IF u = t THEN r ELSE reply[u]
      BY <1>2 DEF IInv, TasksOK
    <2> QED
      BY <1>3, <1>6, <2>1, <2>2 DEF Opening
  <1>8. OpenedAreTracked'
    <2>1. \A w : w \in used <=> w \in remoteappWorkspaces \/ w \in lost \/ Opening(w)
      BY TrackedByElement DEF IInv
    <2>2. \A w : w \in used' <=> w \in remoteappWorkspaces' \/ w \in lost' \/ Opening(w)'
      BY <1>1, <1>7, <2>1 DEF windowVars
    <2> QED
      BY <2>2, TrackedByElement
  <1>9. SpinnersEnd'
    BY <1>1, <1>4, SpinnersByElement DEF IInv, windowVars
  <1> QED
    BY <1>2, <1>3, <1>4, <1>8, <1>9 DEF IInv

(* A tab that nobody waits for is in both histories, or in neither.           *)
LEMMA AbandonedKeeps ==
    ASSUME IInv, NEW k \in RemoteApps, AbandonedCall(k)
    PROVE  IInv'
  <1>1. /\ UNCHANGED <<loopVars, accountVars, windowVars, unstarted, unlisted>>
        /\ \E opened \in SUBSET TabsOf(k) : used' = used \cup opened /\ lost' = lost \cup opened
    <2>1. CASE used' = used \cup TabsOf(k) /\ lost' = lost \cup TabsOf(k)
      BY <2>1 DEF AbandonedCall
    <2>2. CASE UNCHANGED <<used, lost>>
      <3>1. used \cup {} = used /\ lost \cup {} = lost /\ {} \in SUBSET TabsOf(k)
        OBVIOUS
      <3> QED
        BY <2>2, <3>1 DEF AbandonedCall
    <2> QED
      BY <2>1, <2>2 DEF AbandonedCall
  <1>2. TasksOK' /\ AnswersAreQueued'
    BY <1>1 DEF IInv, TasksOK, TaskOK, AnswersAreQueued, Queued, loopVars
  <1>3. /\ RowsOK' /\ LaunchesAreGrouped' /\ ActiveIsKnown' /\ LaunchesFollowActive'
        /\ \A r : Spinning(r) => Spinning(r)'
    BY <1>1, LoopAlone DEF loopVars, windowVars, IInv, RowsOK
  <1>4. \A w : Opening(w)' <=> Opening(w)
    BY <1>1 DEF Opening, IsLaunch, RowOf, TabsOf, loopVars
  <1>5. OpenedAreTracked'
    <2>1. \A w : w \in used <=> w \in remoteappWorkspaces \/ w \in lost \/ Opening(w)
      BY TrackedByElement DEF IInv
    <2>2. \A w : w \in used' <=> w \in remoteappWorkspaces' \/ w \in lost' \/ Opening(w)'
      BY <1>1, <1>4, <2>1 DEF windowVars
    <2> QED
      BY <2>2, TrackedByElement
  <1>6. SpinnersEnd'
    BY <1>1, <1>3, SpinnersByElement DEF IInv, windowVars
  <1> QED
    BY <1>2, <1>3, <1>5, <1>6 DEF IInv

LEMMA NextKeeps == IInv /\ [Next]_vars => IInv'
  <1> SUFFICES ASSUME IInv, [Next]_vars PROVE IInv'
    OBVIOUS
  <1> USE DEF RowsOK
  <1>1. ASSUME NEW k \in Rows, Launch(k) PROVE IInv'
    <2>1. CASE dialog' = k /\ UNCHANGED <<loopVars, accountVars, launching, remoteappWorkspaces,
                                        abandoned, historyVars>>
      BY <2>1, StutterKeeps
    <2>2. CASE StartWebLaunch(k) /\ UNCHANGED dialog
      BY <2>2, StartKeeps DEF IInv
    <2> QED
      BY <1>1, <2>1, <2>2 DEF Launch
  <1>2. ASSUME Confirm PROVE IInv'
    BY <1>2, StartKeeps DEF Confirm, IInv
  <1>3. CASE Dismiss \/ UNCHANGED vars
    BY <1>3, StutterKeeps DEF Dismiss, vars, windowVars, IInv
  <1>4. ASSUME NEW t \in Tasks, TaskStep(t) PROVE IInv'
    BY <1>4, MoveKeeps, EndKeeps, CancelKeeps, SwitchKeeps, AddKeeps, SignOutKeeps
       DEF TaskStep, LaunchBegins, SignOutRemoves
  <1> QED
    BY <1>1, <1>2, <1>3, <1>4, ClickKeeps, EventKeeps, AbandonedKeeps DEF Next

-----------------------------------------------------------------------------
(* The theorems.                                                            *)

LEMMA Invariance == Spec => []IInv
  BY InitHolds, NextKeeps, PTL DEF Spec

(* Every launch that is not being cancelled is for the account that is       *)
(* active, or for one a switch made active after its sign-out, whatever is    *)
(* clicked in whatever order on however many accounts (_start_web_launch,     *)
(* switch_active_account, sign_out).                                        *)
THEOREM FollowsActive == Spec => []LaunchesFollowActive
  BY Invariance, PTL DEF IInv

(* The launcher's memory of workspaces with a tab is what was opened, but for *)
(* launches about to note theirs and those cancelled meanwhile (open_link).   *)
THEOREM TracksOpened == Spec => []OpenedAreTracked
  BY Invariance, PTL DEF IInv

(* A spinner without a launch is that of a launch cancelled before it began   *)
(* (the finally of _start_web_launch).                                       *)
THEOREM SpinnersStop == Spec => []SpinnersEnd
  BY Invariance, PTL DEF IInv
=============================================================================
