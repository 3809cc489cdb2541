------------------------ MODULE CloudPcActionsProofs ------------------------
(***************************************************************************)
(* What the runs of CloudPcActions show on five task slots, for any number   *)
(* of slots, accounts, retries and Retry-After values.                       *)
(***************************************************************************)
EXTENDS CloudPcActions, EventLoopProofs

Seconds == Int \cup {NoSeconds}

Requests == [attempt : Nat, budget : Nat, backoff : Seconds, after : Seconds, sleep : Int, sent : Nat]

Requesting == {"token", "post", "backoff"}

(* Where a task of each kind may be suspended.                               *)
PointsOf(kind) ==
    IF kind \in Actions THEN {"new"} \cup Requesting
    ELSE IF kind = "refresh" THEN {"new", "page"}
    ELSE IF kind = "watchdog" THEN {"new", "sleep"}
    ELSE IF kind = "switch" THEN {"new"}
    ELSE {"idle"}

JobKinds == Actions \cup {"refresh", "watchdog", "switch", "none"}

Jobs == [kind : JobKinds, account : Accounts \cup {NoAccount}, arg : Accounts \cup {NoAccount}]

TasksOK ==
    /\ job \in [Tasks -> Jobs]
    /\ group \in [Tasks -> Accounts \cup {NoAccount}]
    /\ cancel \in [Tasks -> {"no", "yes"}]
    /\ pc \in [Tasks -> UNION {PointsOf(k) : k \in JobKinds}]
    /\ \A t \in Tasks : /\ pc[t] \in PointsOf(job[t].kind)
                        /\ pc[t] = "idle" => cancel[t] = "no"
                        /\ job[t].kind = "switch" => job[t].arg \in Accounts

(* A request counts its attempts, and is one ahead while its POST is out.    *)
RequestOK(t) ==
    /\ SecondsCapped(req[t])
    /\ IF pc[t] \in Requesting
       THEN /\ req[t].budget = Budget(job[t].kind) /\ req[t].attempt <= req[t].budget
            /\ req[t].sent = req[t].attempt + (IF pc[t] = "post" THEN 1 ELSE 0)
       ELSE req[t] = Request(0)

RequestsOK == req \in [Tasks -> Requests] /\ \A t \in Tasks : RequestOK(t)

(* An action that is not being cancelled is the active account's, because    *)
(* its group is the one a switch cancels.                                    *)
ActionsAreActive ==
    \A t \in Tasks : Acting(t) => /\ group[t] = job[t].account /\ job[t].account \in Accounts
                                  /\ cancel[t] = "no" => job[t].account = active

WindowOK == active \in Accounts /\ switched \in BOOLEAN /\ pending \in [Accounts -> Actions \cup {"none"}]

(* Only a switch cancels anything.                                           *)
NoSwitchNoCancel ==
    ~switched => \A t \in Tasks : /\ cancel[t] = "no"
                                  /\ job[t].kind = "watchdog" => job[t].account = active

IInv ==
    /\ TasksOK /\ RequestsOK /\ ActionsAreActive
    /\ WindowOK /\ NoSwitchNoCancel /\ SuppressionIsWatched

-----------------------------------------------------------------------------
(* The request of graph_client.py.                                           *)

LEMMA BudgetIsNat == \A kind : Budget(kind) \in Nat
  BY ActionsAssumption DEF Budget

LEMMA NewRequest ==
    ASSUME NEW budget \in Nat
    PROVE  /\ Request(budget) \in Requests /\ SecondsCapped(Request(budget))
           /\ Request(budget).attempt = 0 /\ Request(budget).sent = 0
           /\ Request(budget).budget = budget
  BY GraphAssumption DEF Request, Requests, Seconds, SecondsCapped

LEMMA SentRequest ==
    ASSUME NEW r \in Requests, SecondsCapped(r)
    PROVE  /\ Sent(r) \in Requests /\ SecondsCapped(Sent(r))
           /\ Sent(r).attempt = r.attempt /\ Sent(r).sent = r.sent + 1
           /\ Sent(r).budget = r.budget
  BY DEF Sent, Requests, SecondsCapped

(* Both back-offs stay under their caps, whatever the header said before.    *)
LEMMA RefusedRequest ==
    ASSUME NEW r \in Requests, SecondsCapped(r), NEW header \in Seconds
    PROVE  /\ Refused(r, header) \in Requests /\ SecondsCapped(Refused(r, header))
           /\ Refused(r, header).attempt = r.attempt + 1
           /\ Refused(r, header).sent = r.sent /\ Refused(r, header).budget = r.budget
  <1>1. NextBackoff(r.backoff) \in 0..BackoffCap
    BY GraphAssumption DEF NextBackoff, Doubled, SecondsCapped, Requests, Seconds
  <1>2. header # NoSeconds => Clamped(header) \in Int /\ Clamped(header) <= RetryAfterCap
    BY GraphAssumption DEF Clamped, Seconds
  <1>3. CASE header = NoSeconds
    BY <1>1, <1>3, GraphAssumption DEF Refused, Requests, Seconds, SecondsCapped
  <1>4. CASE header # NoSeconds
    BY <1>2, <1>4, GraphAssumption DEF Refused, Requests, Seconds, SecondsCapped
  <1> QED
    BY <1>3, <1>4

-----------------------------------------------------------------------------
(* Steps of the loop.  A step of t that resumes it at a point of its kind    *)
(* and creates no actions keeps the tasks in order.                          *)

NewJobs == {j \in Jobs : j.kind \in {"refresh", "watchdog"}}

Stops(t, point) == point = "idle" \/ point \in PointsOf(job[t].kind)

LEMMA JobsDiffer ==
    \A k \in JobKinds : /\ "idle" \in PointsOf(k) <=> k = "none"
                        /\ "new" \in PointsOf(k) <=> k # "none"
                        /\ PointsOf(k) \cap Requesting # {} => k \in Actions
                        /\ "page" \in PointsOf(k) => k = "refresh"
                        /\ "sleep" \in PointsOf(k) => k = "watchdog"
                        /\ k \in Actions => k \notin {"refresh", "watchdog", "switch", "none"}
  BY DEF JobKinds, PointsOf, Actions, Requesting

LEMMA StepKeepsTasks ==
    ASSUME TasksOK, NEW t \in Tasks, pc[t] # "idle", NEW point, Stops(t, point), NEW dead,
           \A u \in dead : u \in Tasks /\ Live(u),
           NEW new \in SUBSET NewJobs, Stepped(t, point, dead, {}, {}, new)
    PROVE  TasksOK'
  <1> DEFINE OK(u) == /\ job'[u] \in Jobs /\ group'[u] \in Accounts \cup {NoAccount}
                      /\ cancel'[u] \in {"no", "yes"}
                      /\ pc'[u] \in PointsOf(job'[u].kind)
                      /\ pc'[u] = "idle" => cancel'[u] = "no"
                      /\ job'[u].kind = "switch" => job'[u].arg \in Accounts
  <1>1. ASSUME NEW u \in Tasks PROVE OK(u)
    <2>1. CASE Untouched(u, t, dead, {}, {})
      BY <2>1 DEF Untouched, TasksOK, Live
    <2>2. CASE Resumed(u, t, point, {})
      <3>1. NoJob \in Jobs /\ "idle" \in PointsOf(NoJob.kind) /\ NoJob.kind = "none"
        BY DEF NoJob, Jobs, JobKinds, PointsOf, Actions
      <3> QED
        BY <2>2, <3>1 DEF Resumed, Stops, TasksOK
    <2>3. CASE \E j \in new : Created(u, j, dead, {})
      <3>1. PICK j \in new : Created(u, j, dead, {})
        BY <2>3
      <3>2. /\ j \in Jobs /\ j.account \in Accounts \cup {NoAccount} /\ "new" \in PointsOf(j.kind)
            /\ j.kind # "switch"
        BY JobsDiffer DEF NewJobs, Jobs, JobKinds
      <3>3. u # t /\ cancel[u] = "no" /\ u \notin dead
        BY <3>1 DEF Created, TasksOK, Live
      <3> QED
        BY <3>1, <3>2, <3>3 DEF Created, TasksOK
    <2> QED
      BY <2>1, <2>2, <2>3 DEF Stepped
  <1>2. \A u \in Tasks : pc'[u] \in UNION {PointsOf(k) : k \in JobKinds}
    BY <1>1 DEF Jobs
  <1>3. /\ job' = [u \in Tasks |-> job'[u]] /\ pc' = [u \in Tasks |-> pc'[u]]
        /\ group' = [u \in Tasks |-> group'[u]] /\ cancel' = [u \in Tasks |-> cancel'[u]]
    BY DEF Stepped
  <1> QED
    BY <1>1, <1>2, <1>3 DEF TasksOK

(* Where t is resumed, its request is in the order that point asks for.      *)
Fits(r, kind, point) ==
    /\ r \in Requests /\ SecondsCapped(r)
    /\ IF point \in Requesting
       THEN /\ r.budget = Budget(kind) /\ r.attempt <= r.budget
            /\ r.sent = r.attempt + (IF point = "post" THEN 1 ELSE 0)
       ELSE r = Request(0)

LEMMA StepKeepsRequests ==
    ASSUME TasksOK, RequestsOK, NEW t \in Tasks, pc[t] # "idle", NEW point, NEW dead, NEW new,
           Stepped(t, point, dead, {}, {}, new),
           NEW r, req' = [req EXCEPT ![t] = r], Fits(r, job[t].kind, point)
    PROVE  RequestsOK'
  <1>1. req' \in [Tasks -> Requests]
    BY DEF RequestsOK, Fits
  <1>2. ASSUME NEW u \in Tasks PROVE RequestOK(u)'
    <2>1. CASE Untouched(u, t, dead, {}, {})
      BY <2>1 DEF Untouched, RequestsOK, RequestOK
    <2>2. CASE Resumed(u, t, point, {})
      <3>1. req'[u] = r /\ pc'[u] = point
        BY <2>2 DEF Resumed, RequestsOK
      <3>2. point \in Requesting => job'[u] = job[t]
        BY <2>2 DEF Resumed, Requesting
      <3> QED
        BY <3>1, <3>2 DEF RequestOK, Fits
    <2>3. CASE \E j \in new : Created(u, j, dead, {})
      BY <2>3 DEF Created, RequestsOK, RequestOK, Requesting
    <2> QED
      BY <2>1, <2>2, <2>3 DEF Stepped
  <1> QED
    BY <1>1, <1>2 DEF RequestsOK

(* A switch cancels every action of the account it leaves; other steps leave *)
(* the active account alone.                                                 *)
LEMMA StepKeepsActions ==
    ASSUME TasksOK, ActionsAreActive, NEW t \in Tasks, pc[t] # "idle", NEW point, NEW dead,
           NEW new \in SUBSET NewJobs, Stepped(t, point, dead, {}, {}, new),
           point # "idle" => cancel[t] = "no",
           active' = active \/ (dead = Tracked(active) /\ point = "idle")
    PROVE  ActionsAreActive'
  <1> SUFFICES ASSUME NEW u \in Tasks, Acting(u)'
               PROVE  /\ group'[u] = job'[u].account /\ job'[u].account \in Accounts
                      /\ cancel'[u] = "no" => job'[u].account = active'
    BY DEF ActionsAreActive, Acting
  <1>1. CASE Untouched(u, t, dead, {}, {})
    <2>1. /\ Acting(u) /\ group'[u] = group[u] /\ job'[u] = job[u]
          /\ cancel'[u] = IF u \in dead THEN "yes" ELSE cancel[u]
      BY <1>1 DEF Untouched, Acting
    <2>2. pc[u] # "idle"
      BY <2>1, JobsDiffer DEF TasksOK, Jobs, Acting
    <2>3. cancel'[u] = "no" => job[u].account = active'
      BY <2>1, <2>2 DEF ActionsAreActive, Tracked, Live
    <2> QED
      BY <2>1, <2>3 DEF ActionsAreActive
  <1>2. CASE Resumed(u, t, point, {})
    <2>1. point # "idle"
      BY <1>2 DEF Resumed, NoJob, Acting, Actions
    <2> QED
      BY <1>2, <2>1 DEF Resumed, ActionsAreActive, Acting
  <1>3. CASE \E j \in new : Created(u, j, dead, {})
    BY <1>3 DEF Created, NewJobs, Acting, Actions
  <1> QED
    BY <1>1, <1>2, <1>3 DEF Stepped

(* What keeps a suppression watched: its task goes on, or hands over.        *)
Watching(t) == Acting(t) \/ job[t].kind = "watchdog"

HandsOver(t, point, new) ==
    /\ \A j \in new : j.kind = "watchdog" => j.account = active
    /\ \A a \in Accounts : pending'[a] # "none" =>
           /\ pending[a] # "none"
           /\ \/ point # "idle" \/ ~Watching(t) \/ job[t].account # a
              \/ (~switched => \E j \in new : j.kind = "watchdog" /\ j.account = a)

LEMMA StepKeepsWatch ==
    ASSUME TasksOK, NoSwitchNoCancel, SuppressionIsWatched, NEW t \in Tasks, pc[t] # "idle",
           NEW point, NEW new \in SUBSET NewJobs, Stepped(t, point, {}, {}, {}, new),
           UNCHANGED <<active, switched>>,
           HandsOver(t, point, new)
    PROVE  NoSwitchNoCancel' /\ SuppressionIsWatched'
  <1>1. NoSwitchNoCancel'
    <2> SUFFICES ASSUME ~switched, NEW u \in Tasks
                 PROVE  cancel'[u] = "no" /\ (job'[u].kind = "watchdog" => job'[u].account = active)
      BY DEF NoSwitchNoCancel
    <2> QED
      BY DEF Stepped, Untouched, Resumed, Created, NoSwitchNoCancel, NoJob, HandsOver
  <1>2. SuppressionIsWatched'
    <2> SUFFICES ASSUME NEW a \in Accounts, pending'[a] # "none", ~switched
                 PROVE  \E u \in Tasks : job'[u].account = a /\ Watching(u)'
      BY DEF SuppressionIsWatched, Watching
    <2>1. PICK u \in Tasks : job[u].account = a /\ Watching(u)
      BY DEF SuppressionIsWatched, Watching, HandsOver
    <2>2. pc[u] # "idle"
      BY <2>1, JobsDiffer DEF Watching, Acting, TasksOK, Jobs
    <2>3. CASE u # t \/ point # "idle"
      <3>1. job'[u] = job[u]
        BY <2>2, <2>3 DEF Stepped, Untouched, Resumed, Created
      <3> QED
        BY <2>1, <3>1 DEF Watching, Acting
    <2>4. CASE u = t /\ point = "idle"
      <3>1. PICK j \in new : j.kind = "watchdog" /\ j.account = a
        BY <2>1, <2>4 DEF HandsOver
      <3>2. PICK v \in Tasks : job'[v] = j
        BY DEF Stepped, Created
      <3> QED
        BY <3>1, <3>2 DEF Watching
    <2> QED
      BY <2>3, <2>4
  <1> QED
    BY <1>1, <1>2

(* All of it together, for the steps that do not switch accounts.            *)
LEMMA StepKeepsIInv ==
    ASSUME IInv, NEW t \in Tasks, pc[t] # "idle", NEW point, Stops(t, point),
           NEW new \in SUBSET NewJobs, Stepped(t, point, {}, {}, {}, new),
           point # "idle" => cancel[t] = "no",
           NEW r, req' = [req EXCEPT ![t] = r], Fits(r, job[t].kind, point),
           UNCHANGED <<active, switched>>,
           pending' \in [Accounts -> Actions \cup {"none"}],
           HandsOver(t, point, new)
    PROVE  IInv'
  <1>1. TasksOK'
    BY StepKeepsTasks DEF IInv
  <1>2. RequestsOK'
    BY StepKeepsRequests DEF IInv
  <1>3. ActionsAreActive'
    BY StepKeepsActions DEF IInv
  <1>4. NoSwitchNoCancel' /\ SuppressionIsWatched'
    BY StepKeepsWatch DEF IInv
  <1>5. WindowOK'
    BY DEF WindowOK, IInv
  <1> QED
    BY <1>1, <1>2, <1>3, <1>4, <1>5 DEF IInv

(* What the steps of an action start from.                                   *)
LEMMA ActingTask ==
    ASSUME IInv, NEW t \in Tasks, Running(t), Acting(t)
    PROVE  /\ pc[t] # "idle" /\ cancel[t] = "no" /\ job[t].account = active
           /\ job[t].account \in Accounts /\ job[t].kind \in Actions
           /\ \A point \in Requesting : Stops(t, point)
           /\ Stops(t, "idle")
  <1>1. /\ pc[t] # "idle" /\ cancel[t] = "no" /\ job[t].kind \in Actions
    BY JobsDiffer DEF IInv, TasksOK, Jobs, Running, Acting
  <1> QED
    BY <1>1 DEF IInv, ActionsAreActive, Stops, PointsOf

LEMMA IdleRequest ==
    /\ \A kind : Fits(Request(0), kind, "idle")
    /\ \A kind, point : point \notin Requesting => Fits(Request(0), kind, point)
  BY NewRequest DEF Fits, Requesting

(* An action that ends without having been accepted.                         *)
LEMMA FailsKeepsIInv ==
    ASSUME IInv, NEW t \in Tasks, Running(t), Acting(t), Fails(t)
    PROVE  IInv'
  <1>1. Stepped(t, "idle", {}, {}, {}, {})
    BY RunEffect DEF Fails
  <1>2. /\ pending' = [pending EXCEPT ![job[t].account] = "none"]
        /\ req' = [req EXCEPT ![t] = Request(0)] /\ UNCHANGED <<active, switched>>
    BY DEF Fails, Lift
  <1>3. pending' \in [Accounts -> Actions \cup {"none"}]
    BY <1>2 DEF IInv, WindowOK
  <1>4. HandsOver(t, "idle", {})
    BY <1>2 DEF HandsOver, IInv, WindowOK
  <1> QED
    BY <1>1, <1>2, <1>3, <1>4, StepKeepsIInv, ActingTask, IdleRequest

(* An action that goes on to its next await.                                 *)
LEMMA GoesOnKeepsIInv ==
    ASSUME IInv, NEW t \in Tasks, Running(t), Acting(t), NEW point \in Requesting, Run(t, point),
           NEW r, req' = [req EXCEPT ![t] = r], Fits(r, job[t].kind, point), UNCHANGED uiVars
    PROVE  IInv'
  <1>1. Stepped(t, point, {}, {}, {}, {})
    BY RunEffect
  <1>2. UNCHANGED <<active, switched, pending>> /\ point # "idle"
    BY DEF uiVars, Requesting
  <1>3. pending' \in [Accounts -> Actions \cup {"none"}] /\ HandsOver(t, point, {})
    BY <1>2 DEF HandsOver, IInv, WindowOK
  <1> QED
    BY <1>1, <1>2, <1>3, StepKeepsIInv, ActingTask

LEMMA InvokeKeeps == ASSUME IInv, NEW t \in Tasks, Invoke(t) PROVE IInv'
  <1>1. CASE Fails(t)
    BY <1>1, FailsKeepsIInv DEF Invoke
  <1>2. CASE ~Fails(t)
    <2>1. Fits(Request(Budget(job[t].kind)), job[t].kind, "token")
      BY BudgetIsNat, NewRequest DEF Fits, Requesting
    <2> QED
      BY <1>2, <2>1, GoesOnKeepsIInv DEF Invoke, Requesting
  <1> QED
    BY <1>1, <1>2

LEMMA PostKeeps == ASSUME IInv, NEW t \in Tasks, Post(t) PROVE IInv'
  <1>1. /\ req[t] \in Requests /\ SecondsCapped(req[t]) /\ req[t].budget = Budget(job[t].kind)
        /\ req[t].attempt <= req[t].budget /\ req[t].sent = req[t].attempt
    BY DEF Post, IInv, RequestsOK, RequestOK, Requesting, Requests
  <1>2. Fits(Sent(req[t]), job[t].kind, "post")
    BY <1>1, SentRequest DEF Fits, Requesting
  <1> QED
    BY <1>2, GoesOnKeepsIInv DEF Post, Requesting

LEMMA NoTokenKeeps == ASSUME IInv, NEW t \in Tasks, NoToken(t) PROVE IInv'
  BY FailsKeepsIInv DEF NoToken

LEMMA RetryKeeps == ASSUME IInv, NEW t \in Tasks, Retry(t) PROVE IInv'
  <1>1. PICK header \in RetryAfters :
           IF GivesUp(Refused(req[t], header))
           THEN Fails(t)
           ELSE /\ Run(t, "backoff")
                /\ req' = [req EXCEPT ![t] = Refused(req[t], header)]
                /\ UNCHANGED uiVars
    BY DEF Retry
  <1>2. CASE GivesUp(Refused(req[t], header))
    BY <1>1, <1>2, FailsKeepsIInv DEF Retry
  <1>3. CASE ~GivesUp(Refused(req[t], header))
    <2>1. /\ req[t] \in Requests /\ SecondsCapped(req[t]) /\ req[t].budget = Budget(job[t].kind)
          /\ req[t].sent = req[t].attempt + 1
      BY DEF Retry, IInv, RequestsOK, RequestOK, Requesting
    <2>2. header \in Seconds
      BY ActionsAssumption DEF Seconds
    <2>3. /\ Refused(req[t], header) \in Requests /\ SecondsCapped(Refused(req[t], header))
          /\ Refused(req[t], header).attempt = req[t].attempt + 1
          /\ Refused(req[t], header).sent = req[t].sent
          /\ Refused(req[t], header).budget = req[t].budget
      BY <2>1, <2>2, RefusedRequest
    <2>4. Refused(req[t], header).attempt <= Refused(req[t], header).budget
      BY <1>3, <2>3 DEF GivesUp, Requests
    <2>5. Fits(Refused(req[t], header), job[t].kind, "backoff")
      BY <2>1, <2>3, <2>4 DEF Fits, Requesting, Requests
    <2> QED
      BY <1>1, <1>3, <2>5, GoesOnKeepsIInv DEF Retry, Requesting
  <1> QED
    BY <1>2, <1>3

LEMMA SleptKeeps == ASSUME IInv, NEW t \in Tasks, Slept(t) PROVE IInv'
  <1>1. req' = [req EXCEPT ![t] = req[t]]
    BY DEF Slept, IInv, RequestsOK
  <1>2. Fits(req[t], job[t].kind, "token")
    BY DEF Slept, IInv, RequestsOK, RequestOK, Requesting, Fits, Requests
  <1> QED
    BY <1>1, <1>2, GoesOnKeepsIInv DEF Slept, Requesting

LEMMA AcceptedKeeps == ASSUME IInv, NEW t \in Tasks, Accepted(t) PROVE IInv'
  <1> DEFINE refresh == Job("refresh", job[t].account)
             watchdog == Job("watchdog", active)
  <1>1. /\ pc[t] # "idle" /\ cancel[t] = "no" /\ job[t].account = active /\ active \in Accounts
        /\ Stops(t, "idle")
    BY ActingTask DEF Accepted
  <1>2. Stepped(t, "idle", {}, {}, {}, {refresh, watchdog})
    BY <1>1, TurnTwoEffect DEF Accepted
  <1>3. {refresh, watchdog} \in SUBSET NewJobs
    BY <1>1 DEF NewJobs, Jobs, Job, JobKinds
  <1>4. /\ req' = [req EXCEPT ![t] = Request(0)] /\ UNCHANGED <<active, switched, pending>>
    BY DEF Accepted, uiVars
  <1>5. HandsOver(t, "idle", {refresh, watchdog})
    BY <1>1, <1>4 DEF HandsOver, Job
  <1>6. pending' \in [Accounts -> Actions \cup {"none"}]
    BY <1>4 DEF IInv, WindowOK
  <1> HIDE DEF refresh, watchdog
  <1> QED
    BY <1>1, <1>2, <1>3, <1>4, <1>5, <1>6, StepKeepsIInv, IdleRequest

LEMMA RefusesKeeps == ASSUME IInv, NEW t \in Tasks, Refuses(t) PROVE IInv'
  BY FailsKeepsIInv DEF Refuses

-----------------------------------------------------------------------------
(* The steps of the other tasks.                                            *)

LEMMA StartWaitingKeeps == ASSUME IInv, NEW t \in Tasks, StartWaiting(t) PROVE IInv'
  <1> DEFINE point == IF job[t].kind = "refresh" THEN "page" ELSE "sleep"
  <1>1. /\ pc[t] # "idle" /\ cancel[t] = "no" /\ point # "idle" /\ point \notin Requesting
        /\ Stops(t, point)
    BY DEF StartWaiting, Running, Stops, PointsOf, Requesting, Actions
  <1>2. Stepped(t, point, {}, {}, {}, {})
    BY RunEffect DEF StartWaiting
  <1>3. req[t] = Request(0) /\ req' = [req EXCEPT ![t] = Request(0)]
    BY DEF StartWaiting, IInv, RequestsOK, RequestOK, Requesting
  <1>4. UNCHANGED <<active, switched, pending>>
    BY DEF StartWaiting, uiVars
  <1>5. pending' \in [Accounts -> Actions \cup {"none"}] /\ HandsOver(t, point, {})
    BY <1>1, <1>4 DEF HandsOver, IInv, WindowOK
  <1> HIDE DEF point
  <1> QED
    BY <1>1, <1>2, <1>3, <1>4, <1>5, StepKeepsIInv, IdleRequest

LEMMA RefreshedKeeps == ASSUME IInv, NEW t \in Tasks, Refreshed(t) PROVE IInv'
  <1>1. pc[t] # "idle" /\ job[t].kind = "refresh" /\ Stops(t, "idle")
    BY JobsDiffer DEF Refreshed, IInv, TasksOK, Jobs, Stops
  <1>2. Stepped(t, "idle", {}, {}, {}, {})
    BY RunEffect DEF Refreshed
  <1>3. req[t] = Request(0) /\ req' = [req EXCEPT ![t] = Request(0)]
    BY DEF Refreshed, IInv, RequestsOK, RequestOK, Requesting
  <1>4. ~Watching(t)
    BY <1>1 DEF Watching, Acting, Actions
  <1>5. pending' \in [Accounts -> Actions \cup {"none"}] /\ HandsOver(t, "idle", {})
    BY <1>4 DEF Refreshed, HandsOver, IInv, WindowOK
  <1> QED
    BY <1>1, <1>2, <1>3, <1>5, StepKeepsIInv, IdleRequest DEF Refreshed

LEMMA WatchdogFiresKeeps == ASSUME IInv, NEW t \in Tasks, WatchdogFires(t) PROVE IInv'
  <1>1. pc[t] # "idle" /\ Stops(t, "idle") /\ active \in Accounts
    BY DEF WatchdogFires, Stops, IInv, WindowOK
  <1>2. PICK new \in {{}, {Job("refresh", active)}} : Stepped(t, "idle", {}, {}, {}, new)
    BY <1>1, RunEffect, TurnOneEffect DEF WatchdogFires
  <1>3. new \in SUBSET NewJobs
    BY <1>1 DEF NewJobs, Jobs, Job, JobKinds
  <1>4. req[t] = Request(0) /\ req' = [req EXCEPT ![t] = Request(0)]
    BY DEF WatchdogFires, IInv, RequestsOK, RequestOK, Requesting
  <1>5. pending' = [pending EXCEPT ![job[t].account] = "none"] /\ UNCHANGED <<active, switched>>
    BY DEF WatchdogFires, Lift
  <1>6. \A j \in new : j.kind # "watchdog"
    BY <1>2 DEF Job
  <1>7. pending' \in [Accounts -> Actions \cup {"none"}] /\ HandsOver(t, "idle", new)
    BY <1>5, <1>6 DEF HandsOver, IInv, WindowOK
  <1> QED
    BY <1>1, <1>2, <1>3, <1>4, <1>5, <1>7, StepKeepsIInv, IdleRequest

LEMMA CancelledKeeps == ASSUME IInv, NEW t \in Tasks, CancelledHere(t) PROVE IInv'
  <1>1. pc[t] # "idle" /\ Stops(t, "idle") /\ switched
    BY DEF CancelledHere, Cancelled, IInv, TasksOK, NoSwitchNoCancel, Stops, WindowOK
  <1>2. Stepped(t, "idle", {}, {}, {}, {})
    BY RunEffect DEF CancelledHere, Cancelled
  <1>3. UNCHANGED <<active, switched, pending>> /\ req' = [req EXCEPT ![t] = Request(0)]
    BY DEF CancelledHere, uiVars
  <1>4. pending' \in [Accounts -> Actions \cup {"none"}] /\ HandsOver(t, "idle", {})
    BY <1>1, <1>3 DEF HandsOver, IInv, WindowOK
  <1> QED
    BY <1>1, <1>2, <1>3, <1>4, StepKeepsIInv, IdleRequest

LEMMA SwitchAccountKeeps == ASSUME IInv, NEW t \in Tasks, SwitchAccount(t) PROVE IInv'
  <1> DEFINE a == job[t].arg
  <1>1. /\ pc[t] = "new" /\ Stops(t, "idle") /\ job[t].kind = "switch"
        /\ req[t] = Request(0)
    BY DEF SwitchAccount, IInv, TasksOK, PointsOf, Actions, Stops, RequestsOK, RequestOK, Requesting
  <1>2. req' = [req EXCEPT ![t] = Request(0)] /\ pending' = pending
    BY <1>1 DEF SwitchAccount, IInv, RequestsOK
  <1>3. CASE a = active
    <2>1. Stepped(t, "idle", {}, {}, {}, {}) /\ UNCHANGED <<active, switched>>
      BY <1>3, RunEffect DEF SwitchAccount
    <2>2. ~Watching(t)
      BY <1>1 DEF Watching, Acting, Actions
    <2>3. pending' \in [Accounts -> Actions \cup {"none"}] /\ HandsOver(t, "idle", {})
      BY <1>2, <2>2 DEF HandsOver, IInv, WindowOK
    <2> QED
      BY <1>1, <1>2, <2>1, <2>3, StepKeepsIInv, IdleRequest
  <1>4. CASE a # active
    <2>1. /\ Stepped(t, "idle", Tracked(active), {}, {}, {Job("refresh", a)})
          /\ active' = a /\ switched' = TRUE
      BY <1>1, <1>4, TurnOneEffect DEF SwitchAccount
    <2>2. a \in Accounts
      BY <1>1 DEF IInv, TasksOK
    <2>3. {Job("refresh", a)} \in SUBSET NewJobs
      BY <2>2 DEF NewJobs, Jobs, Job, JobKinds
    <2>4. \A u \in Tracked(active) : u \in Tasks /\ Live(u)
      BY DEF Tracked
    <2>5. TasksOK'
      BY <1>1, <2>1, <2>3, <2>4, StepKeepsTasks DEF IInv
    <2>6. RequestsOK'
      BY <1>1, <1>2, <2>1, StepKeepsRequests, IdleRequest DEF IInv
    <2>7. ActionsAreActive'
      BY <1>1, <2>1, <2>3, StepKeepsActions DEF IInv
    <2>8. WindowOK' /\ NoSwitchNoCancel' /\ SuppressionIsWatched'
      BY <1>2, <2>1, <2>2 DEF IInv, WindowOK, NoSwitchNoCancel, SuppressionIsWatched
    <2> QED
      BY <2>5, <2>6, <2>7, <2>8 DEF IInv
  <1> QED
    BY <1>3, <1>4

-----------------------------------------------------------------------------
(* What is awaited arrives, and the user clicks.                             *)

LEMMA EventKeeps == ASSUME IInv, NEW t \in Tasks, Event(t) PROVE IInv'
  <1>1. UNCHANGED <<job, group, pc, cancel, active, switched, pending, req>>
    BY DEF Event, Wake, uiVars
  <1> QED
    BY <1>1 DEF IInv, TasksOK, RequestsOK, RequestOK, ActionsAreActive, Acting, WindowOK,
                NoSwitchNoCancel, SuppressionIsWatched

(* A click puts a task in an idle slot.                                      *)
LEMMA ClickKeeps ==
    ASSUME IInv, NEW j \in Jobs, j.kind \in Actions \cup {"refresh", "switch"},
           j.kind = "switch" => j.arg \in Accounts,
           j.kind \in Actions => j.account = active,
           CreateTask(j), UNCHANGED <<active, switched, req>>,
           \/ pending' = pending
           \/ j.kind \in Actions /\ pending' = [pending EXCEPT ![active] = j.kind]
    PROVE  IInv'
  <1>1. PICK t \in Tasks :
           /\ pc[t] = "idle"
           /\ job' = [job EXCEPT ![t] = j] /\ group' = [group EXCEPT ![t] = j.account]
           /\ pc' = [pc EXCEPT ![t] = "new"] /\ UNCHANGED cancel
    BY CreateEffect
  <1>2. /\ job[t].kind = "none" /\ cancel[t] = "no" /\ req[t] = Request(0)
        /\ "new" \in PointsOf(j.kind) /\ j.account \in Accounts \cup {NoAccount}
        /\ j.kind \in JobKinds
    BY <1>1, JobsDiffer DEF IInv, TasksOK, Jobs, RequestsOK, RequestOK, Requesting
  <1>3. TasksOK'
    BY <1>1, <1>2 DEF IInv, TasksOK
  <1>4. RequestsOK'
    BY <1>1, <1>2 DEF IInv, TasksOK, RequestsOK, RequestOK, Requesting
  <1>5. ActionsAreActive'
    BY <1>1, <1>2 DEF IInv, TasksOK, ActionsAreActive, Acting, WindowOK
  <1>6. WindowOK'
    BY DEF IInv, WindowOK
  <1>7. NoSwitchNoCancel'
    BY <1>1, <1>2 DEF IInv, TasksOK, NoSwitchNoCancel, Actions
  <1>8. SuppressionIsWatched'
    <2> SUFFICES ASSUME NEW a \in Accounts, pending'[a] # "none", ~switched
                 PROVE  \E u \in Tasks : job'[u].account = a /\ Watching(u)'
      BY DEF SuppressionIsWatched, Watching
    <2>1. CASE pending[a] # "none"
      <3>1. PICK u \in Tasks : job[u].account = a /\ Watching(u)
        BY <2>1 DEF IInv, SuppressionIsWatched, Watching
      <3>2. u # t
        BY <1>2, <3>1 DEF Watching, Acting, Actions
      <3>3. job'[u] = job[u]
        BY <1>1, <3>2 DEF IInv, TasksOK
      <3> QED
        BY <3>1, <3>3 DEF Watching, Acting
    <2>2. CASE pending[a] = "none"
      <3>1. a = active /\ j.kind \in Actions
        BY <2>2 DEF IInv, WindowOK
      <3>2. job'[t] = j
        BY <1>1 DEF IInv, TasksOK
      <3> QED
        BY <3>1, <3>2 DEF Watching, Acting
    <2> QED
      BY <2>1, <2>2
  <1> QED
    BY <1>3, <1>4, <1>5, <1>6, <1>7, <1>8 DEF IInv

LEMMA ClicksKeep ==
    ASSUME IInv,
           \/ \E action \in Actions : ClickAction(action)
           \/ ClickRefresh
           \/ \E a \in Accounts : ClickSwitch(a)
    PROVE  IInv'
  <1> USE DEF Jobs, JobKinds, IInv, WindowOK
  <1>1. ASSUME NEW action \in Actions, ClickAction(action) PROVE IInv'
    <2>1. Job(action, active) \in Jobs /\ Job(action, active).kind = action
          /\ Job(action, active).account = active /\ action # "switch"
      BY DEF Job, Actions
    <2> HIDE DEF IInv, Jobs, JobKinds, WindowOK
    <2> QED
      BY <1>1, <2>1, ClickKeeps DEF ClickAction
  <1>2. CASE ClickRefresh
    <2>1. Job("refresh", active) \in Jobs /\ Job("refresh", active).kind = "refresh"
          /\ "refresh" \notin Actions
      BY DEF Job, Actions
    <2> HIDE DEF IInv, Jobs, JobKinds, WindowOK
    <2> QED
      BY <1>2, <2>1, ClickKeeps DEF ClickRefresh, uiVars
  <1>3. ASSUME NEW a \in Accounts, ClickSwitch(a) PROVE IInv'
    <2>1. SwitchJob(a) \in Jobs /\ SwitchJob(a).kind = "switch" /\ SwitchJob(a).arg = a
          /\ "switch" \notin Actions
      BY DEF SwitchJob, Actions
    <2> HIDE DEF IInv, Jobs, JobKinds, WindowOK
    <2> QED
      BY <1>3, <2>1, ClickKeeps DEF ClickSwitch, uiVars
  <1> QED
    BY <1>1, <1>2, <1>3

-----------------------------------------------------------------------------
LEMMA InitIInv == Init => IInv
  <1> SUFFICES ASSUME Init PROVE IInv
    OBVIOUS
  <1> USE DEF Init, InitLoop
  <1>1. /\ NoJob \in Jobs /\ NoJob.kind = "none" /\ "idle" \in PointsOf("none")
        /\ "none" \in JobKinds
    BY DEF NoJob, Jobs, JobKinds, PointsOf, Actions
  <1>2. TasksOK
    BY <1>1 DEF TasksOK
  <1>3. RequestsOK
    BY NewRequest DEF RequestsOK, RequestOK, Requesting
  <1>4. ActionsAreActive /\ WindowOK /\ NoSwitchNoCancel /\ SuppressionIsWatched
    BY <1>1 DEF ActionsAreActive, Acting, Actions, WindowOK, NoSwitchNoCancel, SuppressionIsWatched
  <1> QED
    BY <1>2, <1>3, <1>4 DEF IInv

LEMMA NextKeeps == IInv /\ [Next]_vars => IInv'
  <1> SUFFICES ASSUME IInv, [Next]_vars PROVE IInv'
    OBVIOUS
  <1>1. ASSUME NEW t \in Tasks, TaskStep(t) PROVE IInv'
    BY <1>1, InvokeKeeps, PostKeeps, NoTokenKeeps, RetryKeeps, SleptKeeps, AcceptedKeeps,
       RefusesKeeps, StartWaitingKeeps, RefreshedKeeps, WatchdogFiresKeeps, SwitchAccountKeeps,
       CancelledKeeps DEF TaskStep
  <1>2. ASSUME NEW t \in Tasks, Event(t) PROVE IInv'
    BY <1>2, EventKeeps
  <1>3. CASE UNCHANGED vars
    BY <1>3 DEF vars, loopVars, uiVars, IInv, TasksOK, RequestsOK, RequestOK, ActionsAreActive,
                Acting, WindowOK, NoSwitchNoCancel, SuppressionIsWatched
  <1> QED
    BY <1>1, <1>2, <1>3, ClicksKeep DEF Next

LEMMA Invariance == Spec => []IInv
  BY InitIInv, NextKeeps, PTL DEF Spec

-----------------------------------------------------------------------------
(* The queue and the gate, of which the rest is independent.                 *)

QueueOK == ready \in Seq(Tasks) /\ contractDisabled \subseteq Actions

LEMMA StepKeepsQueue ==
    ASSUME IInv, QueueOK, NEW t \in Tasks, TaskStep(t)
    PROVE  QueueOK'
  <1>1. AtHead(t)
    BY DEF AtHead, TaskStep, Invoke, Post, NoToken, Retry, Slept, Accepted, Refuses, StartWaiting,
           Refreshed, WatchdogFires, SwitchAccount, CancelledHere, Cancelled, Running
  <1>2. contractDisabled' \subseteq Actions
    BY DEF QueueOK, TaskStep, Invoke, Post, NoToken, Retry, Slept, Accepted, Refuses, StartWaiting,
           Refreshed, WatchdogFires, SwitchAccount, CancelledHere, Acting
  <1>3. Tracked(active) \in SUBSET Tasks /\ {} \in SUBSET Tasks
    BY DEF Tracked
  <1>4. /\ \A point : Run(t, point) => ready' \in Seq(Tasks)
        /\ \A j : Turn(t, "idle", {}, {}, <<j>>) => ready' \in Seq(Tasks)
        /\ \A j : Turn(t, "idle", Tracked(active), {}, <<j>>) => ready' \in Seq(Tasks)
        /\ \A j, k : Turn(t, "idle", {}, {}, <<j, k>>) => ready' \in Seq(Tasks)
    BY <1>1, <1>3, FewJobsQueue DEF QueueOK
  <1>5. ready' \in Seq(Tasks)
    BY <1>4 DEF TaskStep, Invoke, Post, NoToken, Retry, Slept, Accepted, Refuses, Fails,
                StartWaiting, Refreshed, WatchdogFires, SwitchAccount, CancelledHere, Cancelled
  <1> QED
    BY <1>2, <1>5 DEF QueueOK

LEMMA NextKeepsQueue == IInv /\ QueueOK /\ [Next]_vars => QueueOK'
  <1> SUFFICES ASSUME IInv, QueueOK, [Next]_vars PROVE QueueOK'
    OBVIOUS
  <1>1. ASSUME NEW t \in Tasks, Event(t) PROVE QueueOK'
    <2>1. UNCHANGED contractDisabled /\ \E r : Wake(t, r)
      BY <1>1 DEF Event
    <2> QED
      BY <2>1, AppendQueue DEF QueueOK, Wake
  <1>2. CASE (\E action \in Actions : ClickAction(action)) \/ ClickRefresh
             \/ \E a \in Accounts : ClickSwitch(a)
    <2>1. UNCHANGED contractDisabled /\ \E j : CreateTask(j)
      BY <1>2 DEF ClickAction, ClickRefresh, ClickSwitch
    <2> QED
      BY <2>1, CreateQueue DEF QueueOK
  <1>3. CASE UNCHANGED vars
    BY <1>3 DEF vars, loopVars, QueueOK
  <1> QED
    BY <1>1, <1>2, <1>3, StepKeepsQueue DEF Next

-----------------------------------------------------------------------------
(* The results, for any number of task slots, accounts and retries.          *)

(* Every variable has its type: tasks stop where their kind does, and the     *)
(* loop's queue (asyncio_bridge.py) holds tasks.                             *)
THEOREM TypeCorrect == Spec => []TypeOK
  <1>1. Init => QueueOK
    BY DEF Init, InitLoop, QueueOK
  <1>2. \A k \in JobKinds : PointsOf(k) \subseteq {"idle", "new", "token", "post", "backoff", "page", "sleep"}
    BY DEF PointsOf, Requesting
  <1>3. IInv /\ QueueOK => TypeOK
    BY <1>2 DEF IInv, TasksOK, WindowOK, QueueOK, TypeOK
  <1> QED
    BY <1>1, <1>3, Invariance, NextKeepsQueue, PTL DEF Spec

(* _request_json sends at most one request more than its budget, and sleeps  *)
(* no longer than its caps.                                                  *)
THEOREM RequestsAreBounded == Spec => []RequestsBounded
  <1>1. IInv => RequestsBounded
    BY NewRequest, BudgetIsNat
       DEF IInv, RequestsOK, RequestOK, Requests, Requesting, RequestsBounded
  <1> QED
    BY <1>1, Invariance, PTL

(* invoke_action's budget for a reprovision holds on every path.             *)
THEOREM ReprovisionOnce == Spec => []ReprovisionIsSentOnce
  <1>1. IInv => ReprovisionIsSentOnce
    BY NewRequest
       DEF IInv, RequestsOK, RequestOK, Requests, Requesting, ReprovisionIsSentOnce, Budget
  <1> QED
    BY <1>1, Invariance, PTL

(* Until the first switch a suppressed action is always watched.             *)
THEOREM SuppressionWatched == Spec => []SuppressionIsWatched
  BY Invariance, PTL DEF IInv

(* Only Post counts a request as sent.                                       *)
LEMMA OnlyPostSends ==
    ASSUME IInv, [Next]_vars, NEW t \in Tasks, req'[t].sent > req[t].sent
    PROVE  Post(t)
  <1>1. req \in [Tasks -> Requests] /\ \A u \in Tasks : req[u].sent \in Nat
    BY DEF IInv, RequestsOK, Requests
  <1>2. ~(req' = req)
    BY <1>1
  <1>3. ASSUME NEW u \in Tasks, req' = [req EXCEPT ![u] = Request(0)] PROVE FALSE
    BY <1>1, <1>3, NewRequest
  <1>4. ASSUME NEW u \in Tasks, Post(u) PROVE u = t
    BY <1>1, <1>4 DEF Post
  <1>5. ASSUME NEW u \in Tasks, Invoke(u) PROVE FALSE
    <2>1. req' = [req EXCEPT ![u] = Request(Budget(job[u].kind))]
      BY <1>3, <1>5 DEF Invoke, Fails
    <2> QED
      BY <2>1, <1>1, NewRequest, BudgetIsNat
  <1>6. ASSUME NEW u \in Tasks, Retry(u) PROVE FALSE
    <2>1. PICK header \in RetryAfters : req' = [req EXCEPT ![u] = Refused(req[u], header)]
      BY <1>3, <1>6 DEF Retry, Fails
    <2>2. header \in Seconds
      BY ActionsAssumption DEF Seconds
    <2>3. SecondsCapped(req[u])
      BY DEF IInv, RequestsOK, RequestOK
    <2>4. Refused(req[u], header).sent = req[u].sent
      BY <1>1, <2>2, <2>3, RefusedRequest
    <2> QED
      BY <2>1, <2>4, <1>1
  <1>7. ASSUME NEW u \in Tasks, TaskStep(u) PROVE Post(u)
    BY <1>2, <1>3, <1>5, <1>6, <1>7
       DEF TaskStep, NoToken, Slept, Accepted, Refuses, Fails, StartWaiting, Refreshed,
           WatchdogFires, SwitchAccount, CancelledHere
  <1>8. CASE UNCHANGED vars
    BY <1>2, <1>8 DEF vars
  <1>9. ASSUME NEW u \in Tasks, Event(u) PROVE FALSE
    BY <1>2, <1>9 DEF Event
  <1>10. CASE (\E action \in Actions : ClickAction(action)) \/ ClickRefresh
              \/ \E a \in Accounts : ClickSwitch(a)
    BY <1>2, <1>10 DEF ClickAction, ClickRefresh, ClickSwitch
  <1> QED
    BY <1>4, <1>7, <1>8, <1>9, <1>10 DEF Next

(* A switch stops every POST of the account it leaves.                       *)
THEOREM PostsOnlyForActive == Spec => PostsForActive
  <1> DEFINE ForActive == \A t \in Tasks : req'[t].sent > req[t].sent => job[t].account = active
  <1>1. IInv /\ [Next]_vars => [ForActive]_vars
    BY OnlyPostSends, ActingTask DEF Post
  <1> HIDE DEF ForActive
  <1>2. Spec => [][ForActive]_vars
    BY <1>1, Invariance, PTL DEF Spec
  <1> QED
    BY <1>2 DEF ForActive, PostsForActive
=============================================================================
