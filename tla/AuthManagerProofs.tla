-------------------------- MODULE AuthManagerProofs --------------------------
(***************************************************************************)
(* What AuthManager promises for any number of accounts, scopes and tasks,   *)
(* and for every mix of the jobs its callers may schedule.                  *)
(***************************************************************************)
EXTENDS AuthManager, SequenceTheorems, TLAPS

-----------------------------------------------------------------------------
(* Queues: the serializer's and the locks'.                                  *)

InQ(q, t) == \E i \in 1..Len(q) : q[i] = t

\* Nobody stands in the queue twice.
Distinct(q) == \A i, j \in 1..Len(q) : q[i] = q[j] => i = j

LEMMA WithoutOther ==
    ASSUME NEW q, NEW t, ~InQ(q, t)
    PROVE  Without(q, t) = q
  BY DEF Without, InQ

LEMMA WithoutIsSeq ==
    ASSUME NEW S, NEW q \in Seq(S), NEW t
    PROVE  Without(q, t) \in Seq(S)
  <1>1. CASE ~InQ(q, t)
    BY <1>1, WithoutOther
  <1>2. CASE InQ(q, t)
    <2> DEFINE p == CHOOSE i \in 1..Len(q) : q[i] = t
    <2>1. p \in 1..Len(q)
      BY <1>2 DEF InQ
    <2>2. Without(q, t) = SubSeq(q, 1, p - 1) \o SubSeq(q, p + 1, Len(q))
      BY <1>2 DEF Without, InQ
    <2> HIDE DEF p
    <2>3. Len(q) \in Nat /\ \A i \in 1..Len(q) : q[i] \in S
      OBVIOUS
    <2>4. SubSeq(q, 1, p - 1) \in Seq(S)
      <3>1. p - 1 \in Int /\ \A i \in 1..(p - 1) : q[i] \in S
        BY <2>1, <2>3
      <3> QED BY <3>1, SubSeqProperties
    <2>5. SubSeq(q, p + 1, Len(q)) \in Seq(S)
      <3>1. p + 1 \in Int /\ Len(q) \in Int /\ \A i \in (p + 1)..Len(q) : q[i] \in S
        BY <2>1, <2>3
      <3> QED BY <3>1, SubSeqProperties
    <2> QED BY <2>2, <2>4, <2>5, ConcatProperties
  <1> QED BY <1>1, <1>2

(* What leaving a queue one stands in leaves of it.                          *)
LEMMA WithoutShifts ==
    ASSUME NEW S, NEW q \in Seq(S), NEW t, InQ(q, t)
    PROVE  \E p \in 1..Len(q) :
              /\ q[p] = t
              /\ Len(Without(q, t)) = Len(q) - 1
              /\ \A j \in 1..(Len(q) - 1) : Without(q, t)[j] = IF j < p THEN q[j] ELSE q[j + 1]
  <1> DEFINE p == CHOOSE i \in 1..Len(q) : q[i] = t
             front == SubSeq(q, 1, p - 1)
             back == SubSeq(q, p + 1, Len(q))
  <1>1. p \in 1..Len(q) /\ q[p] = t
    BY DEF InQ
  <1>2. Without(q, t) = front \o back
    BY DEF Without, InQ
  <1>3. Len(q) \in Nat
    OBVIOUS
  <1> HIDE DEF p
  <1>4. /\ front \in Seq(S) /\ Len(front) = p - 1
        /\ \A j \in 1..(p - 1) : front[j] = q[j]
    BY <1>1, <1>3, SubSeqProperties
  <1>5. /\ back \in Seq(S) /\ Len(back) = Len(q) - p
        /\ \A j \in 1..(Len(q) - p) : back[j] = q[p + j]
    BY <1>1, <1>3, SubSeqProperties
  <1> HIDE DEF front, back
  <1>6. /\ Len(front \o back) = Len(front) + Len(back)
        /\ Len(front) + Len(back) = Len(q) - 1
        /\ \A j \in 1..(Len(q) - 1) :
              (front \o back)[j] = IF j <= p - 1 THEN front[j] ELSE back[j - (p - 1)]
    <2>1. /\ Len(front \o back) = Len(front) + Len(back)
          /\ \A j \in 1..(Len(front) + Len(back)) :
                (front \o back)[j] = IF j <= Len(front) THEN front[j] ELSE back[j - Len(front)]
      BY <1>4, <1>5, ConcatProperties
    <2>2. Len(front) + Len(back) = Len(q) - 1
      BY <1>1, <1>3, <1>4, <1>5
    <2> QED BY <2>1, <2>2, <1>4
  <1>7. ASSUME NEW j \in 1..(Len(q) - 1)
        PROVE  (front \o back)[j] = IF j < p THEN q[j] ELSE q[j + 1]
    <2>1. CASE j < p
      BY <2>1, <1>1, <1>3, <1>4, <1>6
    <2>2. CASE ~(j < p)
      <3>1. j - (p - 1) \in 1..(Len(q) - p) /\ p + (j - (p - 1)) = j + 1
        BY <2>2, <1>1, <1>3
      <3>2. back[j - (p - 1)] = q[j + 1]
        BY <3>1, <1>5
      <3> QED BY <2>2, <3>2, <1>1, <1>3, <1>6
    <2> QED BY <2>1, <2>2
  <1> QED BY <1>1, <1>2, <1>6, <1>7

LEMMA WithoutDistinct ==
    ASSUME NEW S, NEW q \in Seq(S), Distinct(q), NEW t
    PROVE  /\ Distinct(Without(q, t))
           /\ \A u \in S : InQ(Without(q, t), u) <=> InQ(q, u) /\ u # t
           /\ \A u \in S \ {t} : Holds(q, u) => Holds(Without(q, t), u)
  <1>1. CASE ~InQ(q, t)
    BY <1>1, WithoutOther DEF InQ
  <1>2. CASE InQ(q, t)
    <2> DEFINE w == Without(q, t)
    <2>0. w \in Seq(S) /\ Len(q) \in Nat
      BY WithoutIsSeq
    <2>1. PICK p \in 1..Len(q) :
              /\ q[p] = t
              /\ Len(w) = Len(q) - 1
              /\ \A j \in 1..(Len(q) - 1) : w[j] = IF j < p THEN q[j] ELSE q[j + 1]
      BY <1>2, WithoutShifts
    <2> HIDE DEF w
    <2>2. Distinct(w)
      BY <2>0, <2>1 DEF Distinct
    <2>3. ASSUME NEW u \in S, InQ(w, u)
          PROVE  InQ(q, u) /\ u # t
      <3>1. PICK j \in 1..(Len(q) - 1) : w[j] = u
        BY <2>0, <2>1, <2>3 DEF InQ
      <3>2. CASE j < p
        BY <3>1, <3>2, <2>0, <2>1 DEF InQ, Distinct
      <3>3. CASE ~(j < p)
        <4>1. j + 1 \in 1..Len(q) /\ q[j + 1] = u /\ j + 1 # p
          BY <3>1, <3>3, <2>0, <2>1
        <4> QED BY <4>1, <2>1 DEF InQ, Distinct
      <3> QED BY <3>2, <3>3
    <2>4. ASSUME NEW u \in S, InQ(q, u), u # t
          PROVE  InQ(w, u)
      <3>1. PICK i \in 1..Len(q) : q[i] = u
        BY <2>4 DEF InQ
      <3>2. i # p
        BY <3>1, <2>1, <2>4
      <3>3. CASE i < p
        <4>1. i \in 1..(Len(q) - 1) /\ w[i] = u
          BY <3>1, <3>3, <2>0, <2>1
        <4> QED BY <4>1, <2>1 DEF InQ
      <3>4. CASE i > p
        <4>1. i - 1 \in 1..(Len(q) - 1) /\ ~(i - 1 < p) /\ (i - 1) + 1 = i
          BY <3>1, <3>4, <2>0, <2>1
        <4>2. w[i - 1] = u
          BY <4>1, <3>1, <2>1
        <4> QED BY <4>1, <4>2, <2>1 DEF InQ
      <3> QED BY <3>1, <3>2, <3>3, <3>4, <2>0, <2>1
    <2>5. ASSUME NEW u \in S \ {t}, Holds(q, u)
          PROVE  Holds(w, u)
      <3>1. q # <<>> /\ q[1] = u
        BY <2>5, HeadTailProperties DEF Holds
      <3>2. p # 1 /\ Len(q) > 1
        BY <3>1, <2>0, <2>1, <2>5
      <3>3. w[1] = u /\ Len(w) > 0
        BY <3>1, <3>2, <2>0, <2>1
      <3>4. w # <<>> /\ Head(w) = w[1]
        BY <3>3, <2>0, EmptySeq, HeadTailProperties
      <3> QED BY <3>3, <3>4 DEF Holds
    <2> QED BY <2>2, <2>3, <2>4, <2>5 DEF w
  <1> QED BY <1>1, <1>2

LEMMA AppendDistinct ==
    ASSUME NEW S, NEW q \in Seq(S), Distinct(q), NEW t \in S, ~InQ(q, t)
    PROVE  /\ Append(q, t) \in Seq(S)
           /\ Distinct(Append(q, t))
           /\ \A u \in S : InQ(Append(q, t), u) <=> InQ(q, u) \/ u = t
           /\ \A u \in S : Holds(q, u) => Holds(Append(q, t), u)
           /\ q = <<>> => Holds(Append(q, t), t)
  <1> DEFINE w == Append(q, t)
  <1>1. /\ w \in Seq(S) /\ Len(w) = Len(q) + 1 /\ Len(q) \in Nat
        /\ \A i \in 1..Len(q) : w[i] = q[i]
        /\ w[Len(q) + 1] = t
    BY AppendProperties
  <1>2. w # <<>> /\ Head(w) = w[1]
    BY <1>1, EmptySeq, HeadTailProperties
  <1>3. q # <<>> => Head(q) = q[1] /\ 1 \in 1..Len(q)
    BY EmptySeq, HeadTailProperties
  <1>4. q = <<>> => Len(q) = 0
    OBVIOUS
  <1> HIDE DEF w
  <1>5. Distinct(w)
    BY <1>1 DEF Distinct, InQ
  <1>6. \A u \in S : InQ(w, u) <=> InQ(q, u) \/ u = t
    BY <1>1 DEF InQ
  <1>7. \A u \in S : Holds(q, u) => Holds(w, u)
    BY <1>1, <1>2, <1>3 DEF Holds
  <1>8. q = <<>> => Holds(w, t)
    BY <1>1, <1>2, <1>4 DEF Holds
  <1> QED BY <1>1, <1>5, <1>6, <1>7, <1>8 DEF w

\* A lock's queue holds one task or none.
LEMMA SingleQueue ==
    ASSUME NEW t, NEW u
    PROVE  /\ Holds(<<t>>, u) <=> t = u
           /\ InQ(<<t>>, u) <=> t = u
           /\ Without(<<t>>, t) = <<>>
           /\ u # t => Without(<<t>>, u) = <<t>>
  <1> DEFINE q == <<t>>
  <1>1. q \in Seq({t}) /\ Len(q) = 1 /\ q[1] = t /\ q # <<>> /\ Head(q) = t
    OBVIOUS
  <1>2. InQ(q, u) <=> t = u
    BY <1>1 DEF InQ
  <1>3. InQ(q, t)
    BY <1>1 DEF InQ
  <1>4. Without(q, t) \in Seq({t}) /\ Len(Without(q, t)) = 0
    <2>1. Without(q, t) \in Seq({t})
      BY <1>1, WithoutIsSeq
    <2>2. Len(Without(q, t)) = Len(q) - 1
      BY <1>1, <1>3, WithoutShifts
    <2> QED BY <2>1, <2>2, <1>1
  <1>5. Without(q, t) = <<>>
    BY <1>4, EmptySeq
  <1> QED BY <1>1, <1>2, <1>5, WithoutOther DEF Holds

-----------------------------------------------------------------------------
(* What a task may be, by the place it is suspended at.                      *)

Acquiring(t) == job[t].op \in {"acquire", "poll"}

PlaceOK(t) ==
    /\ job[t].op \in (Ops \ {"pause"}) \cup {"none"}
    /\ pc[t] = "idle" => job[t] = NoJob
    /\ pc[t] # "idle" => job[t].op # "none"
    /\ pc[t] = "new" => job[t].op # "poll"
    /\ pc[t] = "sleep" => job[t].op = "poll"
    /\ pc[t] = "future" => Acquiring(t)
    /\ pc[t] = "find" => Acquiring(t) \/ job[t].op = "sign_out"
    /\ pc[t] \in {"serializer", "msal"} => job[t].op \notin {"switch", "start"}
    /\ pc[t] = "browser" => job[t].op \in {"reauth", "add"}
    /\ pc[t] \in {"build", "list"} => job[t].op = "start"
    /\ pc[t] # "lock"

JobOK(t) ==
    /\ job[t].op \in {"acquire", "poll", "reauth", "switch", "sign_out"} => job[t].account \in Accounts
    /\ Acquiring(t) => job[t].scope \in Scopes

\* Only work in an account's group is ever cancelled.
CancelOK(t) == cancel[t] => job[t].op \in {"acquire", "poll", "reauth"} /\ Live(t) /\ asked[t]

\* The executor call of a task that still awaits one is the one it made.
ThreadOK(t) ==
    /\ ~cancel[t] /\ pc[t] \in {"find", "build", "list"} => thread[t].call = pc[t]
    /\ ~cancel[t] /\ pc[t] = "msal" => thread[t].call = MsalCall(t)
    /\ thread[t].call = "acquire" => Acquiring(t)
    /\ thread[t].call = "remove" => job[t].op = "sign_out" /\ pc[t] = "msal"
    /\ thread[t].call = "redeem" /\ thread[t].result = "token" => thread[t].who \in Accounts

\* The future a leader answers for is there, and so is the one a task awaits.
FutureOK(t) ==
    /\ Leading(t) => frame[t].lock \in Tasks /\ fut[t] \in {"pending", "cancelled"}
    /\ pc[t] \in {"idle", "new"} => fut[t] = "none"
    /\ pc[t] = "future" => frame[t].leader \in Tasks /\ fut[frame[t].leader] # "none"

TaskOK(t) == PlaceOK(t) /\ JobOK(t) /\ CancelOK(t) /\ ThreadOK(t) /\ FutureOK(t)

TasksOK == \A t \in Tasks : TaskOK(t)

-----------------------------------------------------------------------------
(* Shared resources: who stands where, and which futures are registered.     *)

SerializerOK ==
    /\ Distinct(serQ)
    /\ \A t \in Tasks : InQ(serQ, t) <=> pc[t] \in {"serializer", "msal"}
    /\ \A t \in Tasks : pc[t] = "msal" => Holds(serQ, t)

\* A lock belongs to the task that created it and is held by the leader of that
\* task's key, with nobody behind.
LocksOK ==
    /\ \A k \in Keys : locks[k] # NoTask => Key(locks[k]) = k
    /\ \A l \in Tasks : lockQ[l] # <<>> =>
          \E t \in Tasks : /\ lockQ[l] = <<t>> /\ Leading(t)
                           /\ Key(t) = Key(l) /\ frame[t].lock = l

\* Calls for the same key: while they live, they are cancelled together.
SameCall(t, u) == Acquiring(u) /\ Live(u) /\ Key(u) = Key(t)

\* A leader lost its registration to the sign-out that cancelled every call for
\* its key: no call that is still wanted shares a key with it.
UnregisteredIsCancelled ==
    \A t, u \in Tasks : Leading(t) /\ inflight[Key(t)] # t /\ SameCall(t, u) => cancel[u]

FlightOK == LocksOK /\ UnregisteredIsCancelled /\ RegisteredIsLed /\ SingleFlight

\* The removal of an account's entry that its sign_out has not seen yet.
Removed(a) ==
    \E t \in Tasks : /\ job[t].op = "sign_out" /\ job[t].account = a
                     /\ pc[t] = "msal" /\ Returned(t, "remove") /\ thread[t].result = "ok"

Cached(a) == a \in tokens \/ Removed(a)

\* An acquisition that is still wanted finds its refresh token when its turn comes.
TokenWaits(t) ==
    /\ pc[t] = "find" /\ thread[t].result = "found" => Cached(job[t].account)
    /\ pc[t] = "serializer" => Cached(job[t].account)
    /\ pc[t] = "msal" => thread[t].hadToken /\ (~thread[t].running => thread[t].result # "none")

TokensOK ==
    /\ entries \subseteq tokens
    /\ \A t \in Tasks : Acquiring(t) /\ ~cancel[t] => TokenWaits(t)

Core == TypeOK /\ TasksOK /\ SerializerOK /\ FlightOK /\ TokensOK

(* What holds of a manager that start() does not run against: an account is  *)
(* dropped by its sign_out alone.                                            *)
Signing(t) == job[t].op = "reauth" /\ pc[t] \in {"browser", "serializer", "msal"}

ListedOK ==
    /\ \A a \in present : a \in entries \/ Removed(a)
    /\ \A t \in Tasks : job[t].op = "add" /\ pc[t] = "msal" /\ thread[t].result = "token"
                            => thread[t].who \in entries

(* What holds while calls are cancelled by whole groups.                     *)
GroupOK ==
    /\ \A t, u \in Tasks : Leading(t) /\ cancel[t] /\ SameCall(t, u) => cancel[u]
    /\ \A t \in Tasks : Leading(t) /\ fut[t] = "cancelled" => cancel[t]

\* A future a wanted caller awaits is led by a wanted call, or has its answer.
JoinedOK ==
    \A t \in Tasks : pc[t] = "future" =>
        LET l == frame[t].leader IN
        /\ Acquiring(l) /\ Key(l) = Key(t)
        /\ ~cancel[t] => \/ fut[l] = "pending" /\ Leading(l) /\ ~cancel[l]
                         \/ fut[l] \in {"token", "auth_error"} /\ ~Leading(l)

-----------------------------------------------------------------------------
(* Types.                                                                   *)

Results == {"none", "ok", "raised", "found", "missing", "token", "network"} \cup Errors

LEMMA NoFrameType == NoFrame \in FrameType
  BY DEF NoFrame, FrameType, AuthState

LEMMA NoThreadType == NoThread \in ThreadType
  BY DEF NoThread, ThreadType, Calls

LEMMA NoJobType == NoJob \in JobType
  BY DEF NoJob, JobType

LEMMA NewType == New \in Record /\ MarkActive(New) \in Record
  BY DEF New, MarkActive, Blocked, Record, AuthState

\* The methods of the record.
LEMMA RecordMethods ==
    ASSUME NEW r \in Record
    PROVE  /\ MarkActive(r) \in Record /\ MarkOffline(r) \in Record
           /\ BeginSilentRefresh(r) \in Record /\ BeginInteractive(r) \in Record
           /\ SignOut(r) \in Record
           /\ \A s \in AuthState : [r EXCEPT !.state = s] \in Record
  BY DEF MarkActive, MarkOffline, BeginSilentRefresh, BeginInteractive, SignOut, New, Record, AuthState

LEMMA RecordErrors ==
    ASSUME NEW r \in Record, NEW result, NEW c \in Claims \cup {NoClaims}, NEW url \in BOOLEAN
    PROVE  ApplyError(r, result, c, url) \in Record
  <1>1. /\ OnNetworkError(r) \in Record /\ OnDeviceCaBlocked(r) \in Record
        /\ OnConsentRequired(r, url) \in Record /\ OnInvalidGrant(r) \in Record
    BY DEF OnNetworkError, OnDeviceCaBlocked, OnConsentRequired, OnInvalidGrant, New, Record, AuthState
  <1>2. OnClaimsChallenge(r, c) \in Record
    BY DEF OnClaimsChallenge, New, Record, AuthState
  <1> QED BY <1>1, <1>2 DEF ApplyError

LEMMA SilentRecordType ==
    ASSUME NEW r \in Record, NEW result, NEW c \in Claims
    PROVE  SilentRecord(r, result, c) \in Record
  BY RecordMethods, RecordErrors DEF SilentRecord

LEMMA SetRecordType ==
    ASSUME TypeOK, NEW a, NEW r \in Record, SetRecord(a, r)
    PROVE  rec' \in [Accounts -> Record] /\ told' \in [Accounts -> AuthState]
  BY DEF TypeOK, SetRecord, Record

LEMMA SetHeldRecordType ==
    ASSUME TypeOK, NEW t, NEW a, NEW r \in Record, SetHeldRecord(t, a, r)
    PROVE  rec' \in [Accounts -> Record] /\ told' \in [Accounts -> AuthState]
  BY SetRecordType DEF SetHeldRecord, TypeOK

LEMMA EndType ==
    ASSUME TypeOK, NEW t, NEW o \in Outcomes, End(t, o)
    PROVE  /\ pc' \in [Tasks -> Points] /\ frame' \in [Tasks -> FrameType]
           /\ out' \in [Tasks -> Outcomes \cup {"none"}]
  BY NoFrameType DEF TypeOK, End, Points

LEMMA RunInThreadType ==
    ASSUME TypeOK, NEW t, NEW c \in Calls, RunInThread(t, c)
    PROVE  thread' \in [Tasks -> ThreadType]
  <1> DEFINE h == job[t].account \in tokens
             th == [NoThread EXCEPT !.call = c, !.running = TRUE, !.hadToken = h]
  <1>1. h \in BOOLEAN
    OBVIOUS
  <1> HIDE DEF h
  <1>2. [NoThread EXCEPT !.call = c, !.running = TRUE] \in ThreadType
    BY DEF NoThread, ThreadType
  <1>3. th = [[NoThread EXCEPT !.call = c, !.running = TRUE] EXCEPT !.hadToken = h]
    OBVIOUS
  <1>4. th \in ThreadType
    BY <1>1, <1>2, <1>3 DEF ThreadType
  <1> QED BY <1>4 DEF TypeOK, RunInThread, h

LEMMA ConsumeType ==
    ASSUME TypeOK, NEW t, Consume(t)
    PROVE  thread' \in [Tasks -> ThreadType]
  BY NoThreadType DEF TypeOK, Consume

LEMMA FinishType ==
    ASSUME TypeOK, NEW t \in Tasks, NEW r \in Results, Finish(t, r)
    PROVE  thread' \in [Tasks -> ThreadType]
  <1>1. [thread[t] EXCEPT !.running = FALSE, !.result = r] \in ThreadType
    <2>1. thread[t] \in ThreadType
      BY DEF TypeOK
    <2> QED BY <2>1 DEF ThreadType, Results
  <1> QED BY <1>1, NoThreadType DEF TypeOK, Finish

LEMMA CancelTasksType ==
    ASSUME TypeOK, NEW S, CancelTasks(S)
    PROVE  /\ cancel' \in [Tasks -> BOOLEAN] /\ asked' \in [Tasks -> BOOLEAN]
           /\ fut' \in [Tasks -> Outcomes \cup {"none", "pending"}]
  <1>1. cancel' \in [Tasks -> BOOLEAN] /\ asked' \in [Tasks -> BOOLEAN]
    BY DEF TypeOK, CancelTasks
  <1>2. fut' \in [Tasks -> Outcomes \cup {"none", "pending"}]
    BY DEF TypeOK, CancelTasks, Outcomes
  <1> QED BY <1>1, <1>2

LEMMA EnterSerializerType ==
    ASSUME TypeOK, NEW t \in Tasks, EnterSerializer(t)
    PROVE  /\ serQ' \in Seq(Tasks) /\ thread' \in [Tasks -> ThreadType]
           /\ pc' \in [Tasks -> Points]
  <1>1. serQ' \in Seq(Tasks)
    BY DEF TypeOK, EnterSerializer
  <1>2. MsalCall(t) \in Calls
    BY DEF MsalCall, Calls
  <1>3. thread' \in [Tasks -> ThreadType]
    BY <1>2, RunInThreadType, ConsumeType DEF EnterSerializer
  <1>4. pc' \in [Tasks -> Points]
    BY DEF TypeOK, EnterSerializer, Points
  <1> QED BY <1>1, <1>3, <1>4

LEMMA EndLeadType ==
    ASSUME TypeOK, NEW t \in Tasks, NEW o \in Outcomes, EndLead(t, o)
    PROVE  /\ pc' \in [Tasks -> Points] /\ frame' \in [Tasks -> FrameType]
           /\ out' \in [Tasks -> Outcomes \cup {"none"}]
           /\ inflight' \in [Keys -> Tasks \cup {NoTask}]
           /\ locks' \in [Keys -> Tasks \cup {NoTask}]
           /\ lockQ' \in [Tasks -> Seq(Tasks)]
           /\ fut' \in [Tasks -> Outcomes \cup {"none", "pending"}]
  <1>1. (IF fut[t] = "cancelled" THEN "invalid_state" ELSE o) \in Outcomes
    BY DEF Outcomes
  <1>2. /\ pc' \in [Tasks -> Points] /\ frame' \in [Tasks -> FrameType]
        /\ out' \in [Tasks -> Outcomes \cup {"none"}]
    BY <1>1, EndType DEF EndLead
  <1>3. inflight' \in [Keys -> Tasks \cup {NoTask}] /\ locks' \in [Keys -> Tasks \cup {NoTask}]
    BY DEF EndLead, TypeOK
  <1>4. lockQ' \in [Tasks -> Seq(Tasks)]
    <2>1. frame[t].lock \in Tasks => Without(lockQ[frame[t].lock], t) \in Seq(Tasks)
      BY WithoutIsSeq DEF TypeOK
    <2> QED BY <2>1 DEF EndLead, TypeOK
  <1>5. fut' \in [Tasks -> Outcomes \cup {"none", "pending"}]
    BY DEF EndLead, TypeOK, Outcomes
  <1> QED BY <1>2, <1>3, <1>4, <1>5

LEMMA ForgetType ==
    ASSUME TypeOK, NEW t \in Tasks, Forget(t)
    PROVE  TypeOK' \/ serQ' \notin Seq(Tasks)
  <1> DEFINE a == job[t].account
             left == present \ {a}
  <1>1. rec' \in [Accounts -> Record] /\ told' \in [Accounts -> AuthState]
    <2>1. a \in present => SignOut(rec[a]) \in Record
      BY RecordMethods DEF TypeOK
    <2> QED BY <2>1, SetRecordType DEF Forget, TypeOK
  <1>2. /\ pc' \in [Tasks -> Points] /\ frame' \in [Tasks -> FrameType]
        /\ out' \in [Tasks -> Outcomes \cup {"none"}]
    BY EndType DEF Forget, Outcomes
  <1>3. thread' \in [Tasks -> ThreadType]
    BY ConsumeType DEF Forget
  <1>4. /\ cancel' \in [Tasks -> BOOLEAN] /\ asked' \in [Tasks -> BOOLEAN]
        /\ fut' \in [Tasks -> Outcomes \cup {"none", "pending"}]
    BY CancelTasksType DEF Forget, CancelGroup
  <1>5. present' \subseteq Accounts /\ active' \in Accounts \cup {NoAccount}
    BY DEF Forget, TypeOK
  <1>6. inflight' \in [Keys -> Tasks \cup {NoTask}] /\ locks' \in [Keys -> Tasks \cup {NoTask}]
    BY DEF Forget, TypeOK
  <1>7. UNCHANGED <<app, epoch, lockQ, cacheVars, job>>
    BY DEF Forget
  <1> QED BY <1>1, <1>2, <1>3, <1>4, <1>5, <1>6, <1>7 DEF TypeOK, cacheVars

\* The account a task of these jobs works for has a record.
LEMMA RecordOfJob ==
    ASSUME TypeOK, TasksOK, NEW t \in Tasks,
           Acquiring(t) \/ job[t].op \in {"reauth", "switch", "sign_out"}
    PROVE  job[t].account \in Accounts /\ rec[job[t].account] \in Record
  BY DEF TypeOK, TasksOK, TaskOK, JobOK, Acquiring

\* The executor call a task that is not cancelled waits for is its own.
LEMMA CallOfTask ==
    ASSUME TypeOK, TasksOK, NEW t \in Tasks, ~cancel[t]
    PROVE  /\ pc[t] = "find" => Acquiring(t) \/ job[t].op = "sign_out"
           /\ pc[t] = "msal" /\ thread[t].call = "acquire" => Acquiring(t)
           /\ pc[t] = "msal" /\ thread[t].call = "remove" => job[t].op = "sign_out"
           /\ pc[t] = "msal" /\ thread[t].call = "redeem" => job[t].op \in {"reauth", "add"}
  <1>1. job[t].op \in AllOps \cup {"none"}
    BY DEF TypeOK, JobType
  <1> QED BY <1>1 DEF TasksOK, TaskOK, PlaceOK, ThreadOK, MsalCall, Acquiring, AllOps

LEMMA AcquireTypes ==
    ASSUME TypeOK, TasksOK, NEW t \in Tasks,
           AcquireJoins(t) \/ AcquireAlone(t) \/ FutureResolved(t)
    PROVE  TypeOK'
  <1> USE DEF taskVars
  <1>1. ASSUME Beginning(t)
        PROVE  Acquiring(t) /\ job[t].account \in Accounts /\ rec[job[t].account] \in Record
               /\ Key(t) \in Keys
    <2>1. Acquiring(t)
      BY <1>1 DEF Beginning, Acquiring
    <2> QED BY <2>1, RecordOfJob DEF TasksOK, TaskOK, JobOK, Key, Keys
  <1>2. pc[t] # "lock"
    BY DEF TasksOK, TaskOK, PlaceOK
  <1>3. ASSUME Join(t), inflight[Key(t)] \in Tasks \cup {NoTask} PROVE TypeOK'
    <2>1. pc' \in [Tasks -> Points]
      BY <1>3 DEF Join, TypeOK, Points
    <2>2. frame' \in [Tasks -> FrameType]
      BY <1>3, ZenonT(60) DEF Join, TypeOK, FrameType
    <2> QED BY <1>3, <2>1, <2>2 DEF Join, TypeOK, managerVars, flightVars, cacheVars
  <1>4. CASE AcquireJoins(t)
    BY <1>4, <1>1, <1>3 DEF AcquireJoins, TypeOK
  <1>5. CASE AcquireAlone(t)
    <2>1. PICK l \in Tasks :
            /\ AtLock(t, l)
            /\ IF inflight[Key(t)] # NoTask THEN Join(t)
               ELSE /\ locks' = IF pc[t] = "lock" THEN locks ELSE [locks EXCEPT ![Key(t)] = l]
                    /\ IF lockQ[l] # <<>> /\ ~Holds(lockQ[l], t) THEN WaitForLock(t, l)
                       ELSE LeadStarts(t, l) \/ LeadRefused(t, l)
      BY <1>5 DEF AcquireAlone
    <2>2. Beginning(t) /\ inflight[Key(t)] = NoTask
      BY <2>1, <1>2 DEF AtLock
    <2>3. locks' \in [Keys -> Tasks \cup {NoTask}]
      BY <2>1, <2>2 DEF TypeOK
    <2>4. lockQ[l] \in Seq(Tasks) /\ Append(lockQ[l], t) \in Seq(Tasks)
          /\ Without(lockQ[l], t) \in Seq(Tasks)
      BY WithoutIsSeq DEF TypeOK
    <2>5. CASE WaitForLock(t, l)
      <3>1. lockQ' \in [Tasks -> Seq(Tasks)]
        BY <2>5, <2>4 DEF WaitForLock, TypeOK
      <3>2. frame' \in [Tasks -> FrameType]
        BY <2>5, ZenonT(60) DEF WaitForLock, TypeOK, FrameType
      <3>3. pc' \in [Tasks -> Points]
        BY <2>5 DEF WaitForLock, TypeOK, Points
      <3> QED BY <2>5, <2>3, <3>1, <3>2, <3>3 DEF WaitForLock, TypeOK, managerVars, cacheVars
    <2>6. CASE LeadStarts(t, l)
      <3>1. lockQ' \in [Tasks -> Seq(Tasks)]
        BY <2>6, <2>4 DEF LeadStarts, TypeOK
      <3>2. frame' \in [Tasks -> FrameType]
        <4>1. epoch[job[t].account] \in Nat
          BY <2>2, <1>1 DEF TypeOK
        <4>2. [frame EXCEPT ![t].epoch = epoch[job[t].account]] \in [Tasks -> FrameType]
          BY <4>1, ZenonT(60) DEF TypeOK, FrameType
        <4>3. [frame EXCEPT ![t].epoch = epoch[job[t].account], ![t].lock = l]
                \in [Tasks -> FrameType]
          BY <4>2, ZenonT(60) DEF FrameType
        <4> QED BY <2>6, <4>3 DEF LeadStarts
      <3>3. pc' \in [Tasks -> Points]
        BY <2>6 DEF LeadStarts, TypeOK, Points
      <3>4. thread' \in [Tasks -> ThreadType]
        BY <2>6, RunInThreadType DEF LeadStarts, Calls
      <3>5. rec' \in [Accounts -> Record] /\ told' \in [Accounts -> AuthState]
        <4>1. BeginSilentRefresh(rec[job[t].account]) \in Record
          BY <2>2, <1>1, RecordMethods
        <4> QED BY <2>6, <4>1, SetRecordType DEF LeadStarts, TypeOK
      <3>6. inflight' \in [Keys -> Tasks \cup {NoTask}]
        BY <2>6 DEF LeadStarts, TypeOK
      <3>7. fut' \in [Tasks -> Outcomes \cup {"none", "pending"}]
        BY <2>6 DEF LeadStarts, TypeOK
      <3>8. UNCHANGED <<app, present, epoch, active, serQ, cacheVars, job, cancel, out, asked>>
        BY <2>6 DEF LeadStarts
      <3> QED
        BY <2>3, <3>1, <3>2, <3>3, <3>4, <3>5, <3>6, <3>7, <3>8 DEF TypeOK, cacheVars
    <2>7. CASE LeadRefused(t, l)
      <3>1. lockQ' \in [Tasks -> Seq(Tasks)]
        BY <2>7, <2>4 DEF LeadRefused, TypeOK
      <3>2. /\ pc' \in [Tasks -> Points] /\ frame' \in [Tasks -> FrameType]
            /\ out' \in [Tasks -> Outcomes \cup {"none"}]
        BY <2>7, EndType DEF LeadRefused, Outcomes
      <3>3. fut' \in [Tasks -> Outcomes \cup {"none", "pending"}]
        BY <2>7 DEF LeadRefused, TypeOK, Outcomes
      <3>4. UNCHANGED <<managerVars, inflight, serQ, cacheVars, thread, job, cancel, asked>>
        BY <2>7 DEF LeadRefused
      <3> QED BY <2>3, <3>1, <3>2, <3>3, <3>4 DEF TypeOK, managerVars, cacheVars
    <2> QED BY <2>1, <2>2, <2>5, <2>6, <2>7
  <1>6. CASE FutureResolved(t)
    <2>1. fut[frame[t].leader] \in Outcomes
      BY <1>6 DEF FutureResolved, TypeOK, TasksOK, TaskOK, FutureOK
    <2>2. /\ pc' \in [Tasks -> Points] /\ frame' \in [Tasks -> FrameType]
          /\ out' \in [Tasks -> Outcomes \cup {"none"}]
      BY <1>6, <2>1, EndType DEF FutureResolved
    <2>3. lockQ' \in [Tasks -> Seq(Tasks)]
      BY <1>6, WithoutIsSeq DEF FutureResolved, TypeOK
    <2>4. UNCHANGED <<managerVars, inflight, locks, fut, serQ, cacheVars, thread, job, cancel, asked>>
      BY <1>6 DEF FutureResolved
    <2> QED BY <2>2, <2>3, <2>4 DEF TypeOK, managerVars, cacheVars
  <1> QED BY <1>4, <1>5, <1>6

LEMMA LeadTypes ==
    ASSUME TypeOK, TasksOK, NEW t \in Tasks,
           \/ SerializerGranted(t) \/ AccountFound(t)
           \/ AcquireNotFound(t) \/ AcquireReturns(t) \/ Cancelled(t)
    PROVE  TypeOK'
  <1>0. Without(serQ, t) \in Seq(Tasks)
    BY WithoutIsSeq DEF TypeOK
  <1>1. CASE SerializerGranted(t)
    <2>1. MsalCall(t) \in Calls
      BY DEF MsalCall, Calls
    <2>2. thread' \in [Tasks -> ThreadType]
      BY <1>1, <2>1, RunInThreadType DEF SerializerGranted
    <2>3. pc' \in [Tasks -> Points]
      BY <1>1 DEF SerializerGranted, TypeOK, Points
    <2> QED BY <1>1, <2>2, <2>3 DEF SerializerGranted, TypeOK, managerVars, flightVars, cacheVars
  <1>2. CASE AccountFound(t)
    BY <1>2, EnterSerializerType DEF AccountFound, TypeOK, managerVars, flightVars, cacheVars
  <1>3. CASE AcquireNotFound(t)
    <2>1. rec[job[t].account] \in Record
      BY <1>3, CallOfTask, RecordOfJob DEF AcquireNotFound
    <2>2. rec' \in [Accounts -> Record] /\ told' \in [Accounts -> AuthState]
      <3>1. ApplyError(rec[job[t].account], "UNKNOWN", NoClaims, FALSE) \in Record
        BY <2>1, RecordErrors
      <3> QED BY <1>3, <3>1, SetHeldRecordType DEF AcquireNotFound
    <2>3. thread' \in [Tasks -> ThreadType]
      BY <1>3, ConsumeType DEF AcquireNotFound
    <2>4. UNCHANGED <<app, present, epoch, active, serQ, cacheVars, job, cancel, asked>>
      BY <1>3 DEF AcquireNotFound
    <2>5. EndLead(t, "auth_error") /\ "auth_error" \in Outcomes
      BY <1>3 DEF AcquireNotFound, Outcomes
    <2> QED BY <2>2, <2>3, <2>4, <2>5, EndLeadType DEF TypeOK, cacheVars
  <1>4. CASE AcquireReturns(t)
    <2>1. rec[job[t].account] \in Record
      BY <1>4, CallOfTask, RecordOfJob DEF AcquireReturns, Returned
    <2>2. rec' \in [Accounts -> Record] /\ told' \in [Accounts -> AuthState]
      <3>1. PICK c \in Claims : SetHeldRecord(t, job[t].account,
                                     SilentRecord(rec[job[t].account], thread[t].result, c))
        BY <1>4 DEF AcquireReturns
      <3>2. SilentRecord(rec[job[t].account], thread[t].result, c) \in Record
        BY <2>1, SilentRecordType
      <3> QED BY <3>1, <3>2, SetHeldRecordType
    <2>3. thread' \in [Tasks -> ThreadType]
      BY <1>4, ConsumeType DEF AcquireReturns
    <2>4. UNCHANGED <<app, present, epoch, active, cacheVars, job, cancel, asked>>
          /\ serQ' = Without(serQ, t)
      BY <1>4 DEF AcquireReturns
    <2>5. PICK o \in Outcomes : EndLead(t, o)
      BY <1>4 DEF AcquireReturns, Outcomes
    <2> QED BY <1>0, <2>2, <2>3, <2>4, <2>5, EndLeadType DEF TypeOK, cacheVars
  <1>5. CASE Cancelled(t)
    <2>1. /\ pc' \in [Tasks -> Points] /\ frame' \in [Tasks -> FrameType]
          /\ out' \in [Tasks -> Outcomes \cup {"none"}]
          /\ inflight' \in [Keys -> Tasks \cup {NoTask}]
          /\ locks' \in [Keys -> Tasks \cup {NoTask}]
          /\ lockQ' \in [Tasks -> Seq(Tasks)]
          /\ fut' \in [Tasks -> Outcomes \cup {"none", "pending"}]
      <3>1. "cancelled" \in Outcomes
        BY DEF Outcomes
      <3>2. CASE EndLead(t, "cancelled")
        BY <3>1, <3>2, EndLeadType
      <3>3. CASE /\ End(t, "cancelled")
                 /\ lockQ' = [l \in Tasks |-> Without(lockQ[l], t)]
                 /\ UNCHANGED <<inflight, locks, fut>>
        BY <3>1, <3>3, EndType, WithoutIsSeq DEF TypeOK
      <3> QED BY <1>5, <3>2, <3>3 DEF Cancelled
    <2>2. cancel' \in [Tasks -> BOOLEAN] /\ serQ' \in Seq(Tasks)
      BY <1>5, <1>0 DEF Cancelled, TypeOK
    <2>3. UNCHANGED <<managerVars, cacheVars, thread, job, asked>>
      BY <1>5 DEF Cancelled
    <2> QED BY <2>1, <2>2, <2>3 DEF TypeOK, managerVars, cacheVars
  <1> QED BY <1>1, <1>2, <1>3, <1>4, <1>5

LEMMA SignOutTypes ==
    ASSUME TypeOK, TasksOK, NEW t \in Tasks,
           \/ SignOutStarts(t) \/ SignOutNotFound(t) \/ SignOutRemoved(t) \/ Switch(t)
    PROVE  TypeOK'
  <1>0. Without(serQ, t) \in Seq(Tasks)
    BY WithoutIsSeq DEF TypeOK
  <1>1. CASE SignOutStarts(t)
    <2>1. thread' \in [Tasks -> ThreadType]
      BY <1>1, RunInThreadType DEF SignOutStarts, Calls
    <2>2. pc' \in [Tasks -> Points]
      BY <1>1 DEF SignOutStarts, TypeOK, Points
    <2> QED BY <1>1, <2>1, <2>2 DEF SignOutStarts, TypeOK, managerVars, flightVars, cacheVars
  <1>2. CASE SignOutNotFound(t)
    BY <1>2, ForgetType DEF SignOutNotFound, TypeOK
  <1>3. CASE SignOutRemoved(t)
    <2>1. CASE Forget(t)
      BY <1>3, <1>0, <2>1, ForgetType DEF SignOutRemoved
    <2>2. CASE /\ End(t, "error") /\ Consume(t)
               /\ UNCHANGED <<managerVars, flightVars, cacheVars, job, cancel, asked>>
      BY <1>3, <1>0, <2>2, EndType, ConsumeType
         DEF SignOutRemoved, Outcomes, TypeOK, managerVars, flightVars, cacheVars
    <2> QED BY <1>3, <2>1, <2>2 DEF SignOutRemoved
  <1>4. CASE Switch(t)
    <2>1. active' \in Accounts \cup {NoAccount}
      BY <1>4, RecordOfJob DEF Switch, TypeOK
    <2>2. /\ cancel' \in [Tasks -> BOOLEAN] /\ asked' \in [Tasks -> BOOLEAN]
          /\ fut' \in [Tasks -> Outcomes \cup {"none", "pending"}]
      BY <1>4, CancelTasksType DEF Switch, CancelGroup, TypeOK
    <2>3. /\ pc' \in [Tasks -> Points] /\ frame' \in [Tasks -> FrameType]
          /\ out' \in [Tasks -> Outcomes \cup {"none"}]
      BY <1>4, EndType DEF Switch, Outcomes
    <2>4. UNCHANGED <<app, present, rec, epoch, told, inflight, locks, lockQ, serQ, cacheVars,
                      thread, job>>
      BY <1>4 DEF Switch
    <2> QED BY <2>1, <2>2, <2>3, <2>4 DEF TypeOK, cacheVars
  <1> QED BY <1>1, <1>2, <1>3, <1>4

LEMMA SignInTypes ==
    ASSUME TypeOK, TasksOK, NEW t \in Tasks,
           \/ AddStarts(t) \/ ReauthStarts(t) \/ Redirected(t) \/ SignInAbandoned(t)
           \/ RedeemFailed(t) \/ Reauthenticated(t) \/ Added(t)
    PROVE  TypeOK'
  <1> DEFINE a == job[t].account
             TaskTypes == /\ pc' \in [Tasks -> Points] /\ frame' \in [Tasks -> FrameType]
                          /\ out' \in [Tasks -> Outcomes \cup {"none"}]
             RecordTypes == rec' \in [Accounts -> Record] /\ told' \in [Accounts -> AuthState]
  <1>0. Without(serQ, t) \in Seq(Tasks)
    BY WithoutIsSeq DEF TypeOK
  <1>1. CASE AddStarts(t)
    <2>1. TaskTypes
      BY <1>1, EndType DEF AddStarts, Outcomes, TypeOK, Points
    <2> QED BY <1>1, <2>1 DEF AddStarts, TypeOK, managerVars, flightVars, cacheVars
  <1>2. CASE ReauthStarts(t)
    <2>1. a \in Accounts /\ rec[a] \in Record /\ BeginInteractive(rec[a]) \in Record
      BY <1>2, RecordOfJob, RecordMethods DEF ReauthStarts
    <2>2. RecordTypes
      BY <1>2, <2>1, SetRecordType DEF ReauthStarts, TypeOK
    <2>3. TaskTypes
      <3>1. CASE End(t, "unknown") \/ End(t, "auth_error")
        BY <3>1, EndType DEF Outcomes
      <3>2. CASE /\ frame' = [frame EXCEPT ![t].epoch = epoch[a], ![t].saved = rec[a].state]
                 /\ pc' = [pc EXCEPT ![t] = "browser"]
                 /\ UNCHANGED out
        <4>1. epoch[a] \in Nat /\ rec[a].state \in AuthState
          BY <2>1 DEF TypeOK, Record
        <4>2. [frame EXCEPT ![t].epoch = epoch[a]] \in [Tasks -> FrameType]
          BY <4>1, ZenonT(60) DEF TypeOK, FrameType
        <4>3. frame' \in [Tasks -> FrameType]
          BY <3>2, <4>1, <4>2, ZenonT(60) DEF FrameType
        <4> QED BY <3>2, <4>3 DEF TypeOK, Points
      <3> QED BY <1>2, <3>1, <3>2 DEF ReauthStarts
    <2>4. UNCHANGED <<app, present, epoch, active, flightVars, serQ, cacheVars, thread,
                      job, cancel, asked>>
      BY <1>2 DEF ReauthStarts
    <2> QED BY <2>2, <2>3, <2>4 DEF TypeOK, flightVars, cacheVars
  <1>3. CASE Redirected(t)
    BY <1>3, EnterSerializerType DEF Redirected, TypeOK, managerVars, flightVars, cacheVars
  <1>4. CASE SignInAbandoned(t)
    <2>1. TaskTypes
      BY <1>4, EndType DEF SignInAbandoned, Outcomes
    <2>2. RecordTypes
      <3>1. frame[t].saved \in AuthState
        BY DEF TypeOK, FrameType
      <3>2. job[t].op = "reauth" => [rec[a] EXCEPT !.state = frame[t].saved] \in Record
        BY <3>1, RecordOfJob, RecordMethods
      <3> QED BY <1>4, <3>2 DEF SignInAbandoned, RestoreState, TypeOK
    <2> QED BY <1>4, <2>1, <2>2 DEF SignInAbandoned, TypeOK, flightVars, cacheVars
  <1>5. CASE RedeemFailed(t)
    <2>1. TaskTypes
      BY <1>5, EndType DEF RedeemFailed, Outcomes
    <2>2. RecordTypes
      <3>1. CASE UNCHANGED <<rec, told>>
        BY <3>1 DEF TypeOK
      <3>2. CASE job[t].op = "reauth"
        <4>1. rec[a] \in Record
          BY <3>2, RecordOfJob
        <4> QED BY <1>5, <4>1, RecordErrors, SetHeldRecordType DEF RedeemFailed, TypeOK
      <3> QED BY <1>5, <3>1, <3>2 DEF RedeemFailed
    <2>3. thread' \in [Tasks -> ThreadType]
      BY <1>5, ConsumeType DEF RedeemFailed
    <2> QED BY <1>5, <1>0, <2>1, <2>2, <2>3 DEF RedeemFailed, TypeOK, flightVars, cacheVars
  <1>6. CASE Reauthenticated(t)
    <2>1. TaskTypes
      BY <1>6, EndType DEF Reauthenticated, Outcomes
    <2>2. RecordTypes
      <3>1. MarkActive(rec[a]) \in Record
        BY <1>6, RecordOfJob, RecordMethods DEF Reauthenticated
      <3> QED BY <1>6, <3>1, SetHeldRecordType DEF Reauthenticated
    <2>3. thread' \in [Tasks -> ThreadType]
      BY <1>6, ConsumeType DEF Reauthenticated
    <2> QED BY <1>6, <1>0, <2>1, <2>2, <2>3 DEF Reauthenticated, TypeOK, flightVars, cacheVars
  <1>7. CASE Added(t)
    <2>1. TaskTypes
      BY <1>7, EndType DEF Added, Outcomes
    <2>2. RecordTypes
      BY <1>7, NewType, SetRecordType DEF Added
    <2>3. thread' \in [Tasks -> ThreadType]
      BY <1>7, ConsumeType DEF Added
    <2>4. thread[t].who \in Accounts
      BY <1>7 DEF Added, Returned, TasksOK, TaskOK, ThreadOK
    <2>5. /\ present' \subseteq Accounts /\ active' \in Accounts \cup {NoAccount}
          /\ epoch' \in [Accounts -> Nat]
      BY <1>7, <2>4 DEF Added, TypeOK
    <2>6. UNCHANGED <<app, flightVars, cacheVars, job, cancel, asked>> /\ serQ' \in Seq(Tasks)
      BY <1>7, <1>0 DEF Added
    <2> QED BY <2>1, <2>2, <2>3, <2>5, <2>6 DEF TypeOK, flightVars, cacheVars
  <1> QED BY <1>1, <1>2, <1>3, <1>4, <1>5, <1>6, <1>7

LEMMA StartTypes ==
    ASSUME TypeOK, TasksOK, NEW t \in Tasks,
           StartBuilds(t) \/ StartLists(t) \/ StartRebuilds(t)
    PROVE  TypeOK'
  <1>1. CASE StartBuilds(t)
    <2>1. thread' \in [Tasks -> ThreadType]
      BY <1>1, RunInThreadType DEF StartBuilds, Calls
    <2>2. pc' \in [Tasks -> Points]
      BY <1>1 DEF StartBuilds, TypeOK, Points
    <2> QED BY <1>1, <2>1, <2>2 DEF StartBuilds, TypeOK, managerVars, flightVars, cacheVars
  <1>2. CASE StartLists(t)
    <2>1. thread' \in [Tasks -> ThreadType]
      BY <1>2, RunInThreadType, ConsumeType DEF StartLists, Calls
    <2>2. /\ pc' \in [Tasks -> Points] /\ frame' \in [Tasks -> FrameType]
          /\ out' \in [Tasks -> Outcomes \cup {"none"}]
      BY <1>2, EndType DEF StartLists, Outcomes, Points, TypeOK
    <2>3. app' \in BOOLEAN
      BY <1>2 DEF StartLists, TypeOK
    <2> QED BY <1>2, <2>1, <2>2, <2>3 DEF StartLists, TypeOK, flightVars, cacheVars
  <1>3. CASE StartRebuilds(t)
    <2>1. thread' \in [Tasks -> ThreadType]
      BY <1>3, ConsumeType DEF StartRebuilds
    <2>2. /\ pc' \in [Tasks -> Points] /\ frame' \in [Tasks -> FrameType]
          /\ out' \in [Tasks -> Outcomes \cup {"none"}]
      BY <1>3, EndType DEF StartRebuilds, Outcomes
    <2>3. rec' \in [Accounts -> Record]
      BY <1>3, NewType DEF StartRebuilds
    <2>4. told' \in [Accounts -> AuthState]
      BY <1>3 DEF StartRebuilds, TypeOK, AuthState
    <2>5. /\ present' \subseteq Accounts /\ active' \in Accounts \cup {NoAccount}
          /\ epoch' \in [Accounts -> Nat]
      BY <1>3 DEF StartRebuilds, TypeOK
    <2>6. UNCHANGED <<app, flightVars, serQ, cacheVars, job, cancel, asked>>
      BY <1>3 DEF StartRebuilds
    <2> QED BY <2>1, <2>2, <2>3, <2>4, <2>5, <2>6 DEF TypeOK, flightVars, cacheVars
  <1> QED BY <1>1, <1>2, <1>3

LEMMA ThreadTypes ==
    ASSUME TypeOK, TasksOK, NEW t \in Tasks, Thread(t)
    PROVE  TypeOK'
  <1>1. thread' \in [Tasks -> ThreadType]
    <2>1. CASE \E r \in Results : Finish(t, r)
      BY <2>1, FinishType
    <2>2. CASE \E a \in Accounts :
                 thread' = [thread EXCEPT ![t] = IF Awaited(t)
                   THEN [@ EXCEPT !.running = FALSE, !.result = "token", !.who = a] ELSE NoThread]
      <3>1. PICK a \in Accounts :
                 thread' = [thread EXCEPT ![t] = IF Awaited(t)
                   THEN [@ EXCEPT !.running = FALSE, !.result = "token", !.who = a] ELSE NoThread]
        BY <2>2
      <3>2. thread[t] \in ThreadType
        BY DEF TypeOK
      <3>3. [thread[t] EXCEPT !.running = FALSE, !.result = "token", !.who = a] \in ThreadType
        BY <3>2 DEF ThreadType
      <3> QED BY <3>1, <3>3, NoThreadType DEF TypeOK
    <2>3. CASE ThreadReads(t)
      BY <2>1, <2>3 DEF ThreadReads, Results
    <2>4. CASE ThreadAcquires(t)
      BY <2>1, <2>4 DEF ThreadAcquires, Results
    <2>5. CASE ThreadRemoves(t)
      BY <2>1, <2>5 DEF ThreadRemoves, Results
    <2>6. CASE ThreadRedeems(t)
      BY <2>1, <2>2, <2>6 DEF ThreadRedeems, Results
    <2> QED BY <2>3, <2>4, <2>5, <2>6 DEF Thread
  <1>2. UNCHANGED <<managerVars, flightVars, serQ, taskVars>>
    BY DEF Thread, ThreadReads, ThreadAcquires, ThreadRemoves, ThreadRedeems
  <1>3. CASE ThreadReads(t)
    BY <1>1, <1>2, <1>3 DEF ThreadReads, TypeOK, managerVars, flightVars, taskVars
  <1>4. CASE ThreadAcquires(t)
    <2>1. job[t].account \in Accounts
      BY <1>4, RecordOfJob DEF ThreadAcquires, TasksOK, TaskOK, ThreadOK
    <2> QED BY <1>1, <1>2, <1>4, <2>1 DEF ThreadAcquires, TypeOK, managerVars, flightVars, taskVars
  <1>5. CASE ThreadRemoves(t)
    BY <1>1, <1>2, <1>5 DEF ThreadRemoves, TypeOK, managerVars, flightVars, taskVars
  <1>6. CASE ThreadRedeems(t)
    BY <1>1, <1>2, <1>6 DEF ThreadRedeems, TypeOK, managerVars, flightVars, taskVars
  <1> QED BY <1>3, <1>4, <1>5, <1>6 DEF Thread

-----------------------------------------------------------------------------
(* What a step of a task does to the others.                                 *)

\* The others stay where they are.
Alone(t) ==
    /\ job' = job
    /\ \A u \in Tasks \ {t} : /\ pc'[u] = pc[u] /\ frame'[u] = frame[u]
                              /\ thread'[u] = thread[u] /\ out'[u] = out[u]

\* The live tasks of the group of account a are, and the futures they await.
GroupCancelled(a) ==
    /\ \A u \in Tasks : IF Live(u) /\ a \in Accounts /\ Group(u) = a
                        THEN cancel'[u] /\ asked'[u] /\ job[u].op \in {"acquire", "poll", "reauth"}
                        ELSE cancel'[u] = cancel[u] /\ asked'[u] = asked[u]
    /\ \A l \in Tasks :
          \/ fut'[l] = fut[l]
          \/ /\ fut[l] = "pending" /\ fut'[l] = "cancelled" /\ a \in Accounts
             /\ \E u \in Tasks : /\ pc[u] = "future" /\ ~cancel[u] /\ frame[u].leader = l
                                 /\ Group(u) = a

LEMMA Domains ==
    ASSUME TypeOK
    PROVE  /\ DOMAIN job = Tasks /\ DOMAIN pc = Tasks /\ DOMAIN frame = Tasks
           /\ DOMAIN thread = Tasks /\ DOMAIN out = Tasks /\ DOMAIN cancel = Tasks
           /\ DOMAIN asked = Tasks /\ DOMAIN fut = Tasks /\ DOMAIN lockQ = Tasks
           /\ DOMAIN inflight = Keys /\ DOMAIN locks = Keys
  BY DEF TypeOK

LEMMA CancelGroupEffect ==
    ASSUME TypeOK, NEW a, CancelGroup(a)
    PROVE  GroupCancelled(a)
  <1> DEFINE S == {u \in Tasks : Live(u) /\ a \in Accounts /\ Group(u) = a}
  <1>1. CancelTasks(S)
    BY DEF CancelGroup
  <1>2. \A u \in Tasks : cancel'[u] = (cancel[u] \/ u \in S) /\ asked'[u] = (asked[u] \/ u \in S)
    BY <1>1 DEF CancelTasks
  <1>3. \A u \in Tasks : u \in S => job[u].op \in {"acquire", "poll", "reauth"}
    BY AuthManagerAssumption DEF Group
  <1>4. \A u \in Tasks : u \notin S => cancel'[u] = cancel[u] /\ asked'[u] = asked[u]
    BY <1>1, ZenonT(60) DEF CancelTasks, TypeOK
  <1>5. \A l \in Tasks :
          \/ fut'[l] = fut[l]
          \/ /\ fut[l] = "pending" /\ fut'[l] = "cancelled" /\ a \in Accounts
             /\ \E u \in Tasks : /\ pc[u] = "future" /\ ~cancel[u] /\ frame[u].leader = l
                                 /\ Group(u) = a
    <2> SUFFICES ASSUME NEW l \in Tasks, fut'[l] # fut[l]
                 PROVE  /\ fut[l] = "pending" /\ fut'[l] = "cancelled" /\ a \in Accounts
                        /\ \E u \in Tasks : /\ pc[u] = "future" /\ ~cancel[u] /\ frame[u].leader = l
                                            /\ Group(u) = a
      OBVIOUS
    <2>1. fut'[l] = IF fut[l] = "pending"
                       /\ \E u \in S : pc[u] = "future" /\ ~cancel[u] /\ frame[u].leader = l
                    THEN "cancelled" ELSE fut[l]
      BY <1>1 DEF CancelTasks
    <2>2. /\ fut[l] = "pending" /\ fut'[l] = "cancelled"
          /\ \E u \in S : pc[u] = "future" /\ ~cancel[u] /\ frame[u].leader = l
      BY <2>1
    <2>3. PICK u \in S : pc[u] = "future" /\ ~cancel[u] /\ frame[u].leader = l
      BY <2>2
    <2>4. u \in Tasks /\ a \in Accounts /\ Group(u) = a
      BY <2>3
    <2> QED
      BY <2>2, <2>3, <2>4
  <1>6. \A u \in Tasks : IF Live(u) /\ a \in Accounts /\ Group(u) = a
                         THEN cancel'[u] /\ asked'[u] /\ job[u].op \in {"acquire", "poll", "reauth"}
                         ELSE cancel'[u] = cancel[u] /\ asked'[u] = asked[u]
    <2> SUFFICES ASSUME NEW u \in Tasks
                 PROVE  IF Live(u) /\ a \in Accounts /\ Group(u) = a
                        THEN cancel'[u] /\ asked'[u] /\ job[u].op \in {"acquire", "poll", "reauth"}
                        ELSE cancel'[u] = cancel[u] /\ asked'[u] = asked[u]
      OBVIOUS
    <2>1. CASE Live(u) /\ a \in Accounts /\ Group(u) = a
      <3>1. u \in S
        BY <2>1
      <3>2. cancel'[u] /\ asked'[u] /\ job[u].op \in {"acquire", "poll", "reauth"}
        BY <3>1, <1>2, <1>3, Zenon
      <3> QED BY <2>1, <3>2, Zenon
    <2>2. CASE ~(Live(u) /\ a \in Accounts /\ Group(u) = a)
      <3>1. u \notin S
        BY <2>2
      <3> QED BY <2>2, <3>1, <1>4, Zenon
    <2> QED BY <2>1, <2>2
  <1> QED BY <1>5, <1>6, Zenon DEF GroupCancelled

\* Where a job that ends leaves its task.
LEMMA EndEffect ==
    ASSUME TypeOK, NEW t \in Tasks, NEW o, End(t, o)
    PROVE  /\ pc'[t] = IF job[t].op = "poll" /\ o \notin {"cancelled", "unknown"}
                       THEN "sleep" ELSE "done"
           /\ frame'[t] = NoFrame /\ out'[t] = o
           /\ \A u \in Tasks \ {t} : pc'[u] = pc[u] /\ frame'[u] = frame[u] /\ out'[u] = out[u]
  BY DEF End, TypeOK

LEMMA ThreadEffects ==
    ASSUME TypeOK, NEW t \in Tasks
    PROVE  /\ \A c : RunInThread(t, c) =>
                 /\ thread'[t].call = c /\ thread'[t].running /\ thread'[t].result = "none"
                 /\ thread'[t].hadToken = (job[t].account \in tokens)
                 /\ \A u \in Tasks \ {t} : thread'[u] = thread[u]
           /\ Consume(t) =>
                 /\ thread'[t] = NoThread
                 /\ \A u \in Tasks \ {t} : thread'[u] = thread[u]
           /\ \A r : Finish(t, r) =>
                 /\ thread'[t] = IF Awaited(t)
                                 THEN [thread[t] EXCEPT !.running = FALSE, !.result = r]
                                 ELSE NoThread
                 /\ \A u \in Tasks \ {t} : thread'[u] = thread[u]
  <1>1. ASSUME NEW c, RunInThread(t, c)
        PROVE  /\ thread'[t].call = c /\ thread'[t].running /\ thread'[t].result = "none"
               /\ thread'[t].hadToken = (job[t].account \in tokens)
               /\ \A u \in Tasks \ {t} : thread'[u] = thread[u]
    <2> DEFINE th == [NoThread EXCEPT !.call = c, !.running = TRUE,
                                      !.hadToken = job[t].account \in tokens]
    <2>1. thread'[t] = th /\ \A u \in Tasks \ {t} : thread'[u] = thread[u]
      BY <1>1, Domains DEF RunInThread
    <2>2. th.call = c /\ th.running /\ th.result = "none" /\ th.hadToken = (job[t].account \in tokens)
      BY DEF NoThread
    <2> QED BY <2>1, <2>2
  <1>2. ASSUME Consume(t)
        PROVE  thread'[t] = NoThread /\ \A u \in Tasks \ {t} : thread'[u] = thread[u]
    BY <1>2, Domains DEF Consume
  <1>3. ASSUME NEW r, Finish(t, r)
        PROVE  /\ thread'[t] = IF Awaited(t)
                               THEN [thread[t] EXCEPT !.running = FALSE, !.result = r]
                               ELSE NoThread
               /\ \A u \in Tasks \ {t} : thread'[u] = thread[u]
    BY <1>3, Domains DEF Finish
  <1> QED BY <1>1, <1>2, <1>3

\* What a thread returns to a task that awaits it.
LEMMA FinishedThread ==
    ASSUME TypeOK, NEW t \in Tasks, Awaited(t), NEW r, Finish(t, r)
    PROVE  /\ ~thread'[t].running /\ thread'[t].result = r
           /\ thread'[t].call = thread[t].call /\ thread'[t].hadToken = thread[t].hadToken
  <1>1. thread[t] \in ThreadType
    BY DEF TypeOK
  <1>2. thread'[t] = [thread[t] EXCEPT !.running = FALSE, !.result = r]
    BY ThreadEffects
  <1>3. DOMAIN thread[t] = {"call", "running", "hadToken", "result", "who"}
    BY <1>1 DEF ThreadType
  <1> QED BY <1>2, <1>3

LEMMA NoThreadFacts ==
    NoThread.call = "none" /\ ~NoThread.running /\ NoThread.result = "none"
  BY DEF NoThread

(* The lock never makes a caller wait: with no future registered for the key *)
(* nobody leads it, so nobody holds its lock.                                *)
LEMMA LockIsFree ==
    ASSUME TypeOK, TasksOK, FlightOK, NEW t \in Tasks, Beginning(t), inflight[Key(t)] = NoTask
    PROVE  /\ Key(t) \in Keys /\ Acquiring(t) /\ ~Leading(t) /\ Live(t)
           /\ \A u \in Tasks : Leading(u) => Key(u) # Key(t)
           /\ LockOf(t) \in Tasks /\ Key(LockOf(t)) = Key(t) /\ lockQ[LockOf(t)] = <<>>
  <1>1. Acquiring(t) /\ ~cancel[t] /\ pc[t] \in {"new", "sleep"}
    BY DEF Beginning, Acquiring
  <1>2. Key(t) \in Keys
    BY <1>1 DEF TasksOK, TaskOK, JobOK, Key, Keys, Acquiring
  <1>3. ~Leading(t) /\ Live(t)
    BY <1>1 DEF Leading, Live
  <1>4. \A u \in Tasks : Leading(u) => Key(u) # Key(t)
    <2> SUFFICES ASSUME NEW u \in Tasks, Leading(u), Key(u) = Key(t)
                 PROVE  FALSE
      OBVIOUS
    <2>1. inflight[Key(u)] # u
      BY AuthManagerAssumption
    <2> QED BY <1>1, <1>3, <2>1 DEF FlightOK, UnregisteredIsCancelled, SameCall
  <1>5. LockOf(t) \in Tasks /\ Key(LockOf(t)) = Key(t)
    BY <1>2 DEF LockOf, TypeOK, FlightOK, LocksOK
  <1>6. lockQ[LockOf(t)] = <<>>
    BY <1>4, <1>5 DEF FlightOK, LocksOK
  <1> QED BY <1>1, <1>2, <1>3, <1>4, <1>5, <1>6

\* The two ways a call that does not join another begins.
LEMMA AcquireAloneCases ==
    ASSUME TypeOK, TasksOK, FlightOK, NEW t \in Tasks, AcquireAlone(t)
    PROVE  /\ Beginning(t) /\ inflight[Key(t)] = NoTask
           /\ locks' = [locks EXCEPT ![Key(t)] = LockOf(t)]
           /\ LeadStarts(t, LockOf(t)) \/ LeadRefused(t, LockOf(t))
  <1>1. PICK l \in Tasks :
          /\ AtLock(t, l)
          /\ IF inflight[Key(t)] # NoTask THEN Join(t)
             ELSE /\ locks' = IF pc[t] = "lock" THEN locks ELSE [locks EXCEPT ![Key(t)] = l]
                  /\ IF lockQ[l] # <<>> /\ ~Holds(lockQ[l], t) THEN WaitForLock(t, l)
                     ELSE LeadStarts(t, l) \/ LeadRefused(t, l)
    BY DEF AcquireAlone
  <1>2. pc[t] # "lock"
    BY DEF TasksOK, TaskOK, PlaceOK
  <1>3. Beginning(t) /\ inflight[Key(t)] = NoTask /\ l = LockOf(t)
    BY <1>1, <1>2 DEF AtLock
  <1>4. lockQ[l] = <<>>
    BY <1>3, LockIsFree
  <1> QED BY <1>1, <1>2, <1>3, <1>4

-----------------------------------------------------------------------------
(* A step keeps every task in one of the places it may be in.                *)

\* What may happen to the flags and the future of a task that does not run.
Flags(t) ==
    /\ \A u \in Tasks \ {t} :
          /\ \/ cancel'[u] = cancel[u] /\ asked'[u] = asked[u]
             \/ cancel'[u] /\ asked'[u] /\ Live(u) /\ job[u].op \in {"acquire", "poll", "reauth"}
          /\ fut'[u] = fut[u] \/ (fut[u] = "pending" /\ fut'[u] = "cancelled")
    /\ \A u \in Tasks : fut[u] # "none" => fut'[u] # "none"

LEMMA OthersOK ==
    ASSUME TasksOK, NEW t \in Tasks, Alone(t), Flags(t), TaskOK(t)'
    PROVE  TasksOK'
  <1> SUFFICES ASSUME NEW u \in Tasks \ {t} PROVE TaskOK(u)'
    BY DEF TasksOK
  <1>1. /\ job' = job /\ pc'[u] = pc[u] /\ frame'[u] = frame[u] /\ thread'[u] = thread[u]
        /\ TaskOK(u)
    BY DEF Alone, TasksOK
  <1>2. PlaceOK(u)' /\ JobOK(u)'
    BY <1>1 DEF TaskOK, PlaceOK, JobOK, Acquiring
  <1>3. CancelOK(u)'
    BY <1>1 DEF Flags, TaskOK, CancelOK, Live
  <1>4. ThreadOK(u)'
    <2>1. ~cancel'[u] => ~cancel[u]
      BY DEF Flags
    <2> QED BY <1>1, <2>1 DEF TaskOK, ThreadOK, MsalCall, Acquiring
  <1>5. FutureOK(u)'
    BY <1>1 DEF Flags, TaskOK, FutureOK, Leading
  <1> QED BY <1>2, <1>3, <1>4, <1>5 DEF TaskOK

LEMMA EndKeepsTask ==
    ASSUME TypeOK, NEW t \in Tasks, TaskOK(t), Live(t), NEW o, End(t, o), job' = job, ~cancel'[t],
           \/ thread'[t] = NoThread
           \/ thread'[t] = thread[t] /\ pc[t] # "msal"
    PROVE  TaskOK(t)'
  <1>1. pc'[t] \in {"sleep", "done"} /\ (pc'[t] = "sleep" => job[t].op = "poll")
    BY EndEffect
  <1>2. job[t].op # "none"
    BY DEF TaskOK, PlaceOK, Live
  <1>3. PlaceOK(t)' /\ JobOK(t)'
    BY <1>1, <1>2 DEF TaskOK, PlaceOK, JobOK, Acquiring
  <1>4. ThreadOK(t)'
    BY <1>1, NoThreadFacts DEF TaskOK, ThreadOK, Acquiring
  <1>5. FutureOK(t)'
    BY <1>1 DEF FutureOK, Leading
  <1> QED BY <1>3, <1>4, <1>5 DEF TaskOK, CancelOK

\* Nothing of a step concerns the shared futures, nor the task's part in them.
Quiet(t) ==
    /\ Alone(t) /\ UNCHANGED <<cancel, asked, fut, inflight, locks, lockQ>>
    /\ Leading(t)' <=> Leading(t)
    /\ Leading(t) => frame'[t].lock = frame[t].lock
    /\ Live(t)' => Live(t)
    /\ pc'[t] = "future" => pc[t] = "future" /\ frame'[t] = frame[t]

LEMMA QuietKeepsOthers ==
    ASSUME TasksOK, NEW t \in Tasks, Quiet(t), TaskOK(t)'
    PROVE  TasksOK'
  <1>1. Flags(t)
    BY DEF Quiet, Flags
  <1> QED BY <1>1, OthersOK DEF Quiet

\* Leaving every lock's queue, for a task that leads nothing.
LEMMA LeavesNoLock ==
    ASSUME TypeOK, FlightOK, NEW t \in Tasks, ~Leading(t)
    PROVE  [l \in Tasks |-> Without(lockQ[l], t)] = lockQ
  <1>1. ASSUME NEW l \in Tasks PROVE Without(lockQ[l], t) = lockQ[l]
    <2>1. CASE lockQ[l] = <<>>
      BY <2>1 DEF Without
    <2>2. CASE lockQ[l] # <<>>
      <3>1. PICK u \in Tasks : lockQ[l] = <<u>> /\ Leading(u)
        BY <2>2 DEF FlightOK, LocksOK
      <3> QED BY <3>1, SingleQueue
    <2> QED BY <2>1, <2>2
  <1> QED BY <1>1 DEF TypeOK

\* A job that ends outside of an acquisition's own call.
LEMMA EndIsQuiet ==
    ASSUME TypeOK, NEW t \in Tasks, TaskOK(t), Live(t), ~Leading(t), ~cancel[t],
           NEW o, End(t, o), Consume(t) \/ (thread' = thread /\ pc[t] # "msal"),
           UNCHANGED <<job, cancel, asked, fut, inflight, locks, lockQ>>
    PROVE  Quiet(t) /\ TaskOK(t)'
  <1>1. Alone(t)
    <2>1. \A u \in Tasks \ {t} : pc'[u] = pc[u] /\ frame'[u] = frame[u] /\ out'[u] = out[u]
      BY EndEffect
    <2>2. \A u \in Tasks \ {t} : thread'[u] = thread[u]
      BY ThreadEffects
    <2> QED BY <2>1, <2>2 DEF Alone
  <1>2. TaskOK(t)'
    BY EndKeepsTask, ThreadEffects
  <1>3. pc'[t] \in {"sleep", "done"}
    BY EndEffect
  <1> QED BY <1>1, <1>2, <1>3 DEF Quiet, Leading

LEMMA SerializerIsQuiet ==
    ASSUME TypeOK, TypeOK', NEW t \in Tasks, TaskOK(t), ~cancel[t],
           EnterSerializer(t) \/ (RunInThread(t, MsalCall(t)) /\ pc' = [pc EXCEPT ![t] = "msal"]),
           pc[t] \in {"find", "browser", "serializer"},
           UNCHANGED <<flightVars, job, frame, cancel, out, asked>>
    PROVE  Quiet(t) /\ TaskOK(t)'
  <1>1. /\ pc'[t] \in {"serializer", "msal"}
        /\ \A u \in Tasks \ {t} : pc'[u] = pc[u]
    BY Domains DEF EnterSerializer
  <1>2. /\ \A u \in Tasks \ {t} : thread'[u] = thread[u]
        /\ \/ thread'[t] = NoThread /\ pc'[t] = "serializer"
           \/ thread'[t].call = MsalCall(t) /\ thread'[t].result = "none" /\ pc'[t] = "msal"
    BY ThreadEffects, Domains DEF EnterSerializer
  <1>3. Alone(t)
    BY <1>1, <1>2 DEF Alone
  <1>4. /\ job[t].op \in AllOps \cup {"none"} /\ Live(t)
        /\ job[t].op \notin {"none", "switch", "start"}
    BY DEF TypeOK, JobType, TaskOK, PlaceOK, Live, Acquiring
  <1>5. Leading(t)' <=> Leading(t)
    BY <1>1, <1>4 DEF Leading, TaskOK, PlaceOK, Acquiring
  <1>6. PlaceOK(t)' /\ JobOK(t)'
    BY <1>1, <1>4 DEF TaskOK, PlaceOK, JobOK, Acquiring
  <1>7. ThreadOK(t)'
    BY <1>1, <1>2, <1>4, NoThreadFacts DEF TaskOK, ThreadOK, MsalCall, Acquiring, AllOps
  <1>8. FutureOK(t)'
    BY <1>1, <1>5 DEF TaskOK, FutureOK, flightVars, Leading
  <1> QED BY <1>1, <1>3, <1>4, <1>5, <1>6, <1>7, <1>8 DEF Quiet, TaskOK, CancelOK, Live, flightVars

\* A task that begins to wait, outside of an acquisition.
LEMMA WaitIsQuiet ==
    ASSUME TypeOK, TypeOK', NEW t \in Tasks, TaskOK(t), ~cancel[t], ~Acquiring(t), Live(t), pc[t] # "msal",
           NEW p \in {"find", "browser", "build", "list"}, pc' = [pc EXCEPT ![t] = p],
           /\ p = "find" => job[t].op = "sign_out"
           /\ p = "browser" => job[t].op \in {"reauth", "add"}
           /\ p \in {"build", "list"} => job[t].op = "start",
           IF p = "browser" THEN thread' = thread ELSE RunInThread(t, p),
           \A u \in Tasks \ {t} : frame'[u] = frame[u],
           UNCHANGED <<flightVars, job, cancel, out, asked>>
    PROVE  Quiet(t) /\ TaskOK(t)'
  <1>1. pc'[t] = p /\ \A u \in Tasks \ {t} : pc'[u] = pc[u]
    BY Domains
  <1>2. /\ \A u \in Tasks \ {t} : thread'[u] = thread[u]
        /\ IF p = "browser" THEN thread'[t] = thread[t]
                            ELSE thread'[t].call = p /\ thread'[t].result = "none"
    BY ThreadEffects
  <1>3. Alone(t)
    BY <1>1, <1>2 DEF Alone
  <1>4. ~Leading(t) /\ ~Leading(t)'
    BY <1>1 DEF Leading, Acquiring
  <1>5. PlaceOK(t)' /\ JobOK(t)'
    BY <1>1 DEF TaskOK, PlaceOK, JobOK, Acquiring
  <1>6. ThreadOK(t)'
    BY <1>1, <1>2 DEF TaskOK, ThreadOK, Acquiring
  <1>7. FutureOK(t)'
    BY <1>1, <1>4 DEF FutureOK
  <1> QED BY <1>1, <1>3, <1>4, <1>5, <1>6, <1>7 DEF Quiet, TaskOK, CancelOK, Live, flightVars

LEMMA ThreadIsQuiet ==
    ASSUME TypeOK, TypeOK', NEW t \in Tasks, TaskOK(t), Thread(t)
    PROVE  Quiet(t) /\ TaskOK(t)'
  <1>1. UNCHANGED <<flightVars, taskVars>>
    BY DEF Thread, ThreadReads, ThreadAcquires, ThreadRemoves, ThreadRedeems
  <1>2. /\ \A u \in Tasks \ {t} : thread'[u] = thread[u]
        /\ \/ thread'[t] = NoThread /\ ~Awaited(t)
           \/ /\ thread'[t].call = thread[t].call /\ Awaited(t)
              /\ thread[t].call = "redeem" /\ thread'[t].result = "token"
                    => thread'[t].who \in Accounts
    <2>1. ASSUME NEW r, Finish(t, r), thread[t].call = "redeem" => r # "token"
          PROVE  <1>2!1 /\ <1>2!2
      <3>1. /\ thread'[t] = IF Awaited(t)
                            THEN [thread[t] EXCEPT !.running = FALSE, !.result = r]
                            ELSE NoThread
            /\ \A u \in Tasks \ {t} : thread'[u] = thread[u]
        BY <2>1, ThreadEffects
      <3>2. thread[t] \in ThreadType
        BY DEF TypeOK
      <3> QED BY <2>1, <3>1, <3>2 DEF ThreadType
    <2>2. ASSUME NEW a \in Accounts,
                 thread' = [thread EXCEPT ![t] = IF Awaited(t)
                   THEN [@ EXCEPT !.running = FALSE, !.result = "token", !.who = a] ELSE NoThread]
          PROVE  <1>2!1 /\ <1>2!2
      <3>1. thread[t] \in ThreadType
        BY DEF TypeOK
      <3> QED BY <2>2, <3>1, Domains DEF ThreadType
    <2>3. CASE ThreadRedeems(t)
      <3>1. \A r \in Errors \cup {"network"} : r # "token"
        BY AuthManagerAssumption DEF MsalErrorCategory
      <3> QED BY <2>1, <2>2, <2>3, <3>1 DEF ThreadRedeems
    <2>4. CASE ThreadReads(t) \/ ThreadAcquires(t) \/ ThreadRemoves(t)
      BY <2>1, <2>4 DEF ThreadReads, ThreadAcquires, ThreadRemoves
    <2> QED BY <2>3, <2>4 DEF Thread
  <1>3. Quiet(t)
    BY <1>1, <1>2 DEF Quiet, Alone, Leading, Live, taskVars, flightVars
  <1>4. ThreadOK(t)'
    BY <1>1, <1>2, NoThreadFacts
       DEF TaskOK, ThreadOK, Awaited, taskVars, MsalCall, Acquiring
  <1>5. PlaceOK(t)' /\ JobOK(t)' /\ CancelOK(t)' /\ FutureOK(t)'
    BY <1>1 DEF TaskOK, PlaceOK, JobOK, CancelOK, FutureOK, Leading, Live, Acquiring, taskVars, flightVars
  <1> QED BY <1>3, <1>4, <1>5 DEF TaskOK

\* The steps that leave the shared futures, and who leads them, alone.
QuietStep(t) ==
    \/ SerializerGranted(t) \/ FutureResolved(t) \/ AccountFound(t)
    \/ SignOutStarts(t) \/ (SignOutRemoved(t) /\ thread[t].result # "ok")
    \/ AddStarts(t) \/ ReauthStarts(t) \/ Redirected(t) \/ SignInAbandoned(t)
    \/ RedeemFailed(t) \/ Reauthenticated(t) \/ Added(t)
    \/ StartBuilds(t) \/ StartLists(t) \/ StartRebuilds(t)

LEMMA QuietEffect ==
    ASSUME TypeOK, TypeOK', TasksOK, FlightOK, NEW t \in Tasks, QuietStep(t)
    PROVE  Quiet(t) /\ TaskOK(t)'
  <1>0. TaskOK(t)
    BY DEF TasksOK
  <1>1. CASE SerializerGranted(t)
    BY <1>0, <1>1, SerializerIsQuiet DEF SerializerGranted
  <1>2. CASE AccountFound(t)
    BY <1>0, <1>2, SerializerIsQuiet DEF AccountFound
  <1>3. CASE Redirected(t)
    BY <1>0, <1>3, SerializerIsQuiet DEF Redirected
  <1>4. CASE FutureResolved(t)
    <2>1. ~Leading(t) /\ Live(t) /\ ~cancel[t] /\ pc[t] # "msal"
      BY <1>4 DEF FutureResolved, Leading, Live
    <2>2. lockQ' = lockQ
      BY <1>4, <2>1, LeavesNoLock DEF FutureResolved
    <2>3. /\ End(t, fut[frame[t].leader])
          /\ UNCHANGED <<job, cancel, asked, fut, inflight, locks>> /\ thread' = thread
      BY <1>4 DEF FutureResolved
    <2> QED BY <1>0, <2>1, <2>2, <2>3, EndIsQuiet
  <1>5. CASE SignOutStarts(t)
    <2>1. ~Acquiring(t) /\ Live(t) /\ ~cancel[t] /\ pc[t] # "msal"
      BY <1>5 DEF SignOutStarts, Acquiring, Live
    <2> QED BY <1>0, <1>5, <2>1, WaitIsQuiet DEF SignOutStarts
  <1>6. CASE SignOutRemoved(t) /\ thread[t].result # "ok"
    <2>1. ~Leading(t) /\ Live(t) /\ ~cancel[t]
      BY <1>6, CallOfTask DEF SignOutRemoved, Returned, Leading, Live
    <2>2. End(t, "error") /\ Consume(t) /\ UNCHANGED <<flightVars, job, cancel, asked>>
      BY <1>6 DEF SignOutRemoved
    <2> QED BY <1>0, <2>1, <2>2, EndIsQuiet DEF flightVars
  <1>7. CASE AddStarts(t)
    <2>1. ~Acquiring(t) /\ ~Leading(t) /\ Live(t) /\ ~cancel[t] /\ pc[t] # "msal"
      BY <1>7 DEF AddStarts, Acquiring, Leading, Live
    <2>2. CASE app
      BY <1>0, <1>7, <2>1, <2>2, WaitIsQuiet DEF AddStarts
    <2>3. CASE ~app
      BY <1>0, <1>7, <2>1, <2>3, EndIsQuiet DEF AddStarts, flightVars
    <2> QED BY <2>2, <2>3
  <1>8. CASE ReauthStarts(t)
    <2>1. ~Acquiring(t) /\ ~Leading(t) /\ Live(t) /\ ~cancel[t] /\ pc[t] # "msal"
      BY <1>8 DEF ReauthStarts, Acquiring, Leading, Live
    <2>2. UNCHANGED <<flightVars, thread, job, cancel, asked>>
      BY <1>8 DEF ReauthStarts
    <2>3. CASE End(t, "unknown") \/ End(t, "auth_error")
      BY <1>0, <2>1, <2>2, <2>3, EndIsQuiet DEF flightVars
    <2>4. CASE /\ frame' = [frame EXCEPT ![t].epoch = epoch[job[t].account],
                                         ![t].saved = rec[job[t].account].state]
               /\ pc' = [pc EXCEPT ![t] = "browser"]
               /\ UNCHANGED out
      <3>1. \A u \in Tasks \ {t} : frame'[u] = frame[u]
        BY <2>4, Domains
      <3>2. job[t].op = "reauth"
        BY <1>8 DEF ReauthStarts
      <3> QED BY <1>0, <2>1, <2>2, <2>4, <3>1, <3>2, WaitIsQuiet
    <2> QED BY <1>8, <2>3, <2>4 DEF ReauthStarts
  <1>9. CASE SignInAbandoned(t)
    <2>1. ~Leading(t) /\ Live(t) /\ ~cancel[t] /\ pc[t] # "msal"
      BY <1>9 DEF SignInAbandoned, Leading, Live
    <2> QED BY <1>0, <1>9, <2>1, EndIsQuiet DEF SignInAbandoned, flightVars
  <1>10. CASE RedeemFailed(t) \/ Reauthenticated(t) \/ Added(t)
    <2>1. ~Leading(t) /\ Live(t) /\ ~cancel[t]
      BY <1>10, CallOfTask DEF RedeemFailed, Reauthenticated, Added, Returned, Leading, Live
    <2>2. /\ \E o \in Outcomes : End(t, o)
          /\ Consume(t) /\ UNCHANGED <<flightVars, job, cancel, asked>>
      BY <1>10 DEF RedeemFailed, Reauthenticated, Added, Outcomes
    <2> QED BY <1>0, <2>1, <2>2, EndIsQuiet DEF flightVars
  <1>11. CASE StartBuilds(t)
    <2>1. ~Acquiring(t) /\ Live(t) /\ ~cancel[t] /\ pc[t] # "msal"
      BY <1>11 DEF StartBuilds, Acquiring, Live
    <2> QED BY <1>0, <1>11, <2>1, WaitIsQuiet DEF StartBuilds
  <1>12. CASE StartLists(t)
    <2>1. /\ ~Acquiring(t) /\ ~Leading(t) /\ Live(t) /\ ~cancel[t] /\ pc[t] # "msal"
          /\ job[t].op = "start"
      BY <1>0, <1>12 DEF StartLists, TaskOK, PlaceOK, Acquiring, Leading, Live
    <2>2. UNCHANGED <<flightVars, job, cancel, asked>>
      BY <1>12 DEF StartLists
    <2>3. CASE End(t, "error") /\ Consume(t)
      BY <1>0, <2>1, <2>2, <2>3, EndIsQuiet DEF flightVars
    <2>4. CASE /\ RunInThread(t, "list") /\ pc' = [pc EXCEPT ![t] = "list"]
               /\ UNCHANGED <<out, frame>>
      BY <1>0, <2>1, <2>2, <2>4, WaitIsQuiet
    <2> QED BY <1>12, <2>3, <2>4 DEF StartLists
  <1>13. CASE StartRebuilds(t)
    <2>1. ~Leading(t) /\ Live(t) /\ ~cancel[t]
      BY <1>13 DEF StartRebuilds, Leading, Live
    <2> QED BY <1>0, <1>13, <2>1, EndIsQuiet DEF StartRebuilds, flightVars
  <1> QED
    BY <1>1, <1>2, <1>3, <1>4, <1>5, <1>6, <1>7, <1>8, <1>9, <1>10, <1>11, <1>12, <1>13
       DEF QuietStep

-----------------------------------------------------------------------------
(* The other steps.                                                         *)

\* t awaits the future of the call that is registered for its key.
Joined(t) ==
    /\ Alone(t) /\ UNCHANGED <<cancel, asked, fut, inflight, locks, lockQ>>
    /\ Acquiring(t) /\ ~cancel[t] /\ ~Leading(t) /\ ~Leading(t)' /\ Live(t)
    /\ pc'[t] = "future" /\ frame'[t].leader = inflight[Key(t)]
    /\ Key(t) \in Keys /\ inflight[Key(t)] # NoTask

LEMMA JoinEffect ==
    ASSUME TypeOK, TypeOK', TasksOK, FlightOK, NEW t \in Tasks, AcquireJoins(t)
    PROVE  Joined(t) /\ TasksOK'
  <1>0. TaskOK(t)
    BY DEF TasksOK
  <1>1. /\ Acquiring(t) /\ ~cancel[t] /\ pc[t] \in {"new", "sleep"}
        /\ inflight[Key(t)] # NoTask /\ Join(t)
    BY DEF AcquireJoins, Beginning, Acquiring
  <1>2. Key(t) \in Keys
    BY <1>0, <1>1 DEF TaskOK, JobOK, Key, Keys, Acquiring
  <1>3. /\ pc'[t] = "future" /\ frame'[t].leader = inflight[Key(t)]
        /\ \A u \in Tasks \ {t} : pc'[u] = pc[u] /\ frame'[u] = frame[u]
    BY <1>1, Domains DEF Join, TypeOK, FrameType
  <1>4. UNCHANGED <<flightVars, thread, job, cancel, out, asked>>
    BY <1>1 DEF Join
  <1>5. Joined(t)
    BY <1>1, <1>2, <1>3, <1>4 DEF Joined, Alone, flightVars, Leading, Live
  <1>6. Leading(inflight[Key(t)]) /\ inflight[Key(t)] \in Tasks
    BY <1>1, <1>2 DEF FlightOK, RegisteredIsLed, TypeOK
  <1>7. fut[inflight[Key(t)]] # "none"
    BY <1>6 DEF TasksOK, TaskOK, FutureOK
  <1>8. PlaceOK(t)' /\ JobOK(t)' /\ CancelOK(t)'
    BY <1>0, <1>1, <1>3, <1>4 DEF TaskOK, PlaceOK, JobOK, CancelOK, Acquiring
  <1>9. ThreadOK(t)'
    BY <1>0, <1>1, <1>3, <1>4 DEF TaskOK, ThreadOK, Acquiring
  <1>10. FutureOK(t)'
    BY <1>3, <1>4, <1>5, <1>6, <1>7 DEF FutureOK, flightVars, Joined
  <1>11. Flags(t)
    BY <1>4 DEF Flags, flightVars
  <1> QED BY <1>5, <1>8, <1>9, <1>10, <1>11, OthersOK DEF Joined, TaskOK

\* t registers its future and holds the key's lock.
Led(t) ==
    /\ Alone(t) /\ UNCHANGED <<cancel, asked>>
    /\ Acquiring(t) /\ ~cancel[t] /\ ~Leading(t) /\ Leading(t)' /\ Live(t) /\ Key(t) \in Keys
    /\ pc'[t] = "find"
    /\ \A u \in Tasks \ {t} : fut'[u] = fut[u]
    /\ fut'[t] = "pending"
    /\ inflight' = [inflight EXCEPT ![Key(t)] = t]
    /\ LockOf(t) \in Tasks /\ Key(LockOf(t)) = Key(t) /\ frame'[t].lock = LockOf(t)
    /\ locks' = [locks EXCEPT ![Key(t)] = LockOf(t)]
    /\ lockQ' = [lockQ EXCEPT ![LockOf(t)] = <<t>>]
    /\ \A u \in Tasks : Leading(u) => Key(u) # Key(t)
    /\ thread'[t].result = "none"

LEMMA LedEffect ==
    ASSUME TypeOK, TypeOK', TasksOK, FlightOK, NEW t \in Tasks, AcquireAlone(t),
           LeadStarts(t, LockOf(t))
    PROVE  Led(t) /\ TasksOK'
  <1>0. TaskOK(t)
    BY DEF TasksOK
  <1>1. Beginning(t) /\ inflight[Key(t)] = NoTask /\ locks' = [locks EXCEPT ![Key(t)] = LockOf(t)]
    BY AcquireAloneCases
  <1>2. /\ Key(t) \in Keys /\ Acquiring(t) /\ ~Leading(t) /\ Live(t) /\ ~cancel[t]
        /\ \A u \in Tasks : Leading(u) => Key(u) # Key(t)
        /\ LockOf(t) \in Tasks /\ Key(LockOf(t)) = Key(t) /\ lockQ[LockOf(t)] = <<>>
    BY <1>1, LockIsFree DEF Beginning
  <1>3. /\ RunInThread(t, "find") /\ pc' = [pc EXCEPT ![t] = "find"]
        /\ fut' = [fut EXCEPT ![t] = "pending"]
        /\ inflight' = [inflight EXCEPT ![Key(t)] = t]
        /\ lockQ' = [lockQ EXCEPT ![LockOf(t)] = IF Holds(@, t) THEN @ ELSE Append(@, t)]
        /\ UNCHANGED <<job, cancel, out, asked>>
    BY DEF LeadStarts
  <1>4. /\ frame'[t].lock = LockOf(t)
        /\ \A u \in Tasks \ {t} : frame'[u] = frame[u]
    BY <1>2, Domains DEF LeadStarts, TypeOK, FrameType
  <1>5. lockQ' = [lockQ EXCEPT ![LockOf(t)] = <<t>>]
    BY <1>2, <1>3 DEF Holds
  <1>6. /\ thread'[t].call = "find" /\ thread'[t].result = "none"
        /\ \A u \in Tasks \ {t} : thread'[u] = thread[u]
    BY <1>3, ThreadEffects
  <1>7. /\ pc'[t] = "find" /\ \A u \in Tasks \ {t} : pc'[u] = pc[u]
    BY <1>3, Domains
  <1>8. fut'[t] = "pending" /\ \A u \in Tasks \ {t} : fut'[u] = fut[u]
    BY <1>3, Domains
  <1>9. Leading(t)'
    BY <1>2, <1>3, <1>7 DEF Leading, Acquiring
  <1>10. Alone(t)
    BY <1>3, <1>4, <1>6, <1>7 DEF Alone
  <1>11. Led(t)
    BY <1>1, <1>2, <1>3, <1>4, <1>5, <1>6, <1>7, <1>8, <1>9, <1>10 DEF Led
  <1>12. PlaceOK(t)' /\ JobOK(t)' /\ CancelOK(t)'
    BY <1>0, <1>2, <1>3, <1>7 DEF TaskOK, PlaceOK, JobOK, CancelOK, Acquiring
  <1>13. ThreadOK(t)'
    BY <1>6, <1>7 DEF ThreadOK
  <1>14. FutureOK(t)'
    BY <1>2, <1>4, <1>7, <1>8 DEF FutureOK
  <1>15. Flags(t)
    BY <1>3, <1>8 DEF Flags
  <1> QED BY <1>10, <1>11, <1>12, <1>13, <1>14, <1>15, OthersOK DEF TaskOK

\* t's future is failed before anybody can see it.
Refused(t) ==
    /\ Alone(t) /\ UNCHANGED <<cancel, asked, inflight, lockQ>>
    /\ Acquiring(t) /\ ~cancel[t] /\ ~Leading(t) /\ ~Leading(t)' /\ Live(t) /\ Beginning(t)
    /\ Key(t) \in Keys
    /\ pc'[t] \in {"sleep", "done"} /\ out'[t] \in {"unknown", "auth_error"}
    /\ \A u \in Tasks \ {t} : fut'[u] = fut[u]
    /\ LockOf(t) \in Tasks /\ Key(LockOf(t)) = Key(t)
    /\ locks' = [locks EXCEPT ![Key(t)] = LockOf(t)]

LEMMA RefusedEffect ==
    ASSUME TypeOK, TypeOK', TasksOK, FlightOK, NEW t \in Tasks, AcquireAlone(t),
           LeadRefused(t, LockOf(t))
    PROVE  Refused(t) /\ TasksOK'
  <1>0. TaskOK(t)
    BY DEF TasksOK
  <1>1. Beginning(t) /\ inflight[Key(t)] = NoTask /\ locks' = [locks EXCEPT ![Key(t)] = LockOf(t)]
    BY AcquireAloneCases
  <1>2. /\ Key(t) \in Keys /\ Acquiring(t) /\ ~Leading(t) /\ Live(t) /\ ~cancel[t]
        /\ LockOf(t) \in Tasks /\ Key(LockOf(t)) = Key(t) /\ lockQ[LockOf(t)] = <<>>
        /\ pc[t] \in {"new", "sleep"}
    BY <1>1, LockIsFree DEF Beginning
  <1>3. /\ lockQ' = [lockQ EXCEPT ![LockOf(t)] = Without(@, t)]
        /\ UNCHANGED <<inflight, thread, job, cancel, asked>>
    BY DEF LeadRefused
  <1>4. PICK o \in {"unknown", "auth_error"} : End(t, o) /\ fut' = [fut EXCEPT ![t] = o]
    BY DEF LeadRefused
  <1>5. lockQ' = lockQ
    <2>1. Without(lockQ[LockOf(t)], t) = lockQ[LockOf(t)]
      BY <1>2 DEF Without
    <2> QED BY <1>2, <1>3, <2>1 DEF TypeOK
  <1>6. /\ pc'[t] \in {"sleep", "done"} /\ out'[t] = o
        /\ \A u \in Tasks \ {t} : pc'[u] = pc[u] /\ frame'[u] = frame[u] /\ out'[u] = out[u]
    BY <1>4, EndEffect
  <1>7. fut'[t] = o /\ \A u \in Tasks \ {t} : fut'[u] = fut[u]
    BY <1>4, Domains
  <1>8. Alone(t)
    BY <1>3, <1>6 DEF Alone
  <1>9. Refused(t)
    BY <1>1, <1>2, <1>3, <1>5, <1>6, <1>7, <1>8 DEF Refused, Leading
  <1>10. TaskOK(t)'
    BY <1>0, <1>2, <1>3, <1>4, EndKeepsTask
  <1>11. Flags(t)
    BY <1>3, <1>7 DEF Flags
  <1> QED BY <1>8, <1>9, <1>10, <1>11, OthersOK

\* t, the leader, ends its call with o and drops the registration.
Resolved(t, o) ==
    /\ Alone(t) /\ UNCHANGED <<asked, locks>>
    /\ \A u \in Tasks \ {t} : cancel'[u] = cancel[u] /\ fut'[u] = fut[u]
    /\ Leading(t) /\ ~Leading(t)' /\ Key(t) \in Keys /\ ~cancel'[t]
    /\ pc'[t] \in {"sleep", "done"}
    /\ pc'[t] = "sleep" => job[t].op = "poll"
    /\ fut'[t] = IF fut[t] = "cancelled" THEN "cancelled" ELSE o
    /\ out'[t] = IF fut[t] = "cancelled" THEN "invalid_state" ELSE o
    /\ inflight' = [inflight EXCEPT ![Key(t)] = NoTask]
    /\ frame[t].lock \in Tasks
    /\ lockQ' = [lockQ EXCEPT ![frame[t].lock] = Without(@, t)]

LEMMA ResolvedEffect ==
    ASSUME TypeOK, TypeOK', TasksOK, NEW t \in Tasks, Leading(t), NEW o \in Outcomes, EndLead(t, o),
           \/ Consume(t)
           \/ thread' = thread /\ cancel[t],
           ~cancel'[t],
           \A u \in Tasks \ {t} : cancel'[u] = cancel[u], UNCHANGED <<job, asked>>
    PROVE  Resolved(t, o) /\ TasksOK'
  <1>0. TaskOK(t)
    BY DEF TasksOK
  <1>1. /\ Key(t) \in Keys /\ frame[t].lock \in Tasks /\ fut[t] # "none" /\ Acquiring(t)
        /\ Live(t)
    BY <1>0 DEF TaskOK, JobOK, FutureOK, Key, Keys, Leading, Acquiring, Live
  <1> DEFINE p == IF fut[t] = "cancelled" THEN "invalid_state" ELSE o
  <1>2. /\ End(t, p) /\ UNCHANGED locks
        /\ fut' = [fut EXCEPT ![t] = IF @ = "cancelled" THEN @ ELSE o]
        /\ inflight' = [inflight EXCEPT ![Key(t)] = NoTask]
        /\ lockQ' = [lockQ EXCEPT ![frame[t].lock] = Without(@, t)]
    BY DEF EndLead
  <1>3. /\ pc'[t] \in {"sleep", "done"} /\ (pc'[t] = "sleep" => job[t].op = "poll")
        /\ out'[t] = p
        /\ \A u \in Tasks \ {t} : pc'[u] = pc[u] /\ frame'[u] = frame[u] /\ out'[u] = out[u]
    BY <1>2, EndEffect
  <1>4. /\ fut'[t] = IF fut[t] = "cancelled" THEN "cancelled" ELSE o
        /\ \A u \in Tasks \ {t} : fut'[u] = fut[u]
    BY <1>2, Domains
  <1>5. \A u \in Tasks \ {t} : thread'[u] = thread[u]
    BY ThreadEffects
  <1>6. Alone(t)
    BY <1>3, <1>5 DEF Alone
  <1>7. Resolved(t, o)
    BY <1>1, <1>2, <1>3, <1>4, <1>6 DEF Resolved, Leading
  <1>8. PlaceOK(t)' /\ JobOK(t)' /\ CancelOK(t)' /\ FutureOK(t)'
    BY <1>0, <1>1, <1>3 DEF TaskOK, PlaceOK, JobOK, CancelOK, FutureOK, Acquiring, Leading
  <1>9. ThreadOK(t)'
    BY <1>0, <1>1, <1>3, ThreadEffects, NoThreadFacts DEF TaskOK, ThreadOK, Acquiring
  <1>10. Flags(t)
    BY <1>1, <1>4 DEF Flags, Outcomes
  <1> QED BY <1>6, <1>7, <1>8, <1>9, <1>10, OthersOK DEF TaskOK

\* A CancelledError ends a task that leads nothing.
Dropped(t) ==
    /\ Alone(t) /\ UNCHANGED <<asked, fut, inflight, locks, lockQ>>
    /\ \A u \in Tasks \ {t} : cancel'[u] = cancel[u]
    /\ ~Leading(t) /\ ~Leading(t)' /\ cancel[t] /\ ~cancel'[t] /\ pc'[t] = "done"
    /\ out'[t] = "cancelled"

LEMMA CancelledEffect ==
    ASSUME TypeOK, TypeOK', TasksOK, FlightOK, NEW t \in Tasks, Cancelled(t)
    PROVE  /\ Resolved(t, "cancelled") \/ Dropped(t)
           /\ cancel[t] /\ asked[t] /\ thread' = thread /\ TasksOK'
  <1>0. TaskOK(t)
    BY DEF TasksOK
  <1>1. /\ cancel[t] /\ Live(t) /\ ~cancel'[t] /\ \A u \in Tasks \ {t} : cancel'[u] = cancel[u]
        /\ UNCHANGED <<thread, job, asked>>
    BY Domains DEF Cancelled
  <1>2. asked[t] /\ job[t].op \in {"acquire", "poll", "reauth"}
    BY <1>0, <1>1 DEF TaskOK, CancelOK
  <1>3. CASE Leading(t)
    <2>1. EndLead(t, "cancelled") /\ "cancelled" \in Outcomes
      BY <1>3 DEF Cancelled, Leading, Outcomes
    <2> QED BY <1>1, <1>2, <1>3, <2>1, ResolvedEffect
  <1>4. CASE ~Leading(t)
    <2>1. /\ End(t, "cancelled") /\ UNCHANGED <<inflight, locks, fut>>
          /\ lockQ' = [l \in Tasks |-> Without(lockQ[l], t)]
      BY <1>4 DEF Cancelled, Leading
    <2>2. lockQ' = lockQ
      BY <1>4, <2>1, LeavesNoLock
    <2>3. /\ pc'[t] = "done" /\ out'[t] = "cancelled"
          /\ \A u \in Tasks \ {t} : pc'[u] = pc[u] /\ frame'[u] = frame[u] /\ out'[u] = out[u]
      BY <2>1, EndEffect
    <2>4. Alone(t)
      BY <1>1, <2>3 DEF Alone
    <2>5. Dropped(t)
      BY <1>1, <1>4, <2>1, <2>2, <2>3, <2>4 DEF Dropped, Leading
    <2>6. PlaceOK(t)' /\ JobOK(t)' /\ CancelOK(t)' /\ FutureOK(t)'
      BY <1>0, <1>1, <1>2, <2>3 DEF TaskOK, PlaceOK, JobOK, CancelOK, FutureOK, Acquiring, Leading
    <2>7. ThreadOK(t)'
      BY <1>0, <1>1, <1>2, <2>3 DEF TaskOK, ThreadOK, Acquiring
    <2>8. Flags(t)
      BY <1>1, <2>1 DEF Flags
    <2> QED BY <1>1, <1>2, <2>4, <2>5, <2>6, <2>7, <2>8, OthersOK DEF TaskOK
  <1> QED BY <1>3, <1>4

\* t, in the application's own group, cancels the group of account a; a sign_out
\* drops what is registered for the account, too.
Regrouped(t, a) ==
    /\ Alone(t) /\ GroupCancelled(a) /\ lockQ' = lockQ
    /\ job[t].op \in {"sign_out", "switch"} /\ Live(t) /\ ~cancel[t] /\ ~cancel'[t]
    /\ pc'[t] = "done" /\ pc[t] # "future"
    /\ \A k \in Keys :
          \/ inflight'[k] = inflight[k] /\ locks'[k] = locks[k]
          \/ inflight'[k] = NoTask /\ locks'[k] = NoTask /\ k[1] = a /\ a \in Accounts

LEMMA GroupFlags ==
    ASSUME NEW t \in Tasks, NEW a, GroupCancelled(a)
    PROVE  Flags(t)
  BY DEF GroupCancelled, Flags

LEMMA ForgetEffect ==
    ASSUME TypeOK, TypeOK', TasksOK, FlightOK, NEW t \in Tasks, Live(t), ~cancel[t],
           job[t].op = "sign_out", Forget(t)
    PROVE  Regrouped(t, job[t].account) /\ TasksOK'
  <1> DEFINE a == job[t].account
  <1>0. TaskOK(t) /\ pc[t] # "future" /\ a \in Accounts
    BY DEF TasksOK, TaskOK, PlaceOK, Acquiring, JobOK
  <1>1. CancelGroup(a) /\ End(t, "ok") /\ Consume(t) /\ UNCHANGED <<lockQ, job>>
    BY DEF Forget
  <1>2. GroupCancelled(a)
    BY <1>1, CancelGroupEffect
  <1>3. ~cancel'[t]
    BY <1>0, <1>2, AuthManagerAssumption DEF GroupCancelled, Group
  <1>4. /\ pc'[t] = "done"
        /\ \A u \in Tasks \ {t} : pc'[u] = pc[u] /\ frame'[u] = frame[u] /\ out'[u] = out[u]
    BY <1>1, EndEffect
  <1>5. thread'[t] = NoThread /\ \A u \in Tasks \ {t} : thread'[u] = thread[u]
    BY <1>1, ThreadEffects
  <1>6. Alone(t)
    BY <1>1, <1>4, <1>5 DEF Alone
  <1>7. \A k \in Keys :
          \/ inflight'[k] = inflight[k] /\ locks'[k] = locks[k]
          \/ inflight'[k] = NoTask /\ locks'[k] = NoTask /\ k[1] = a /\ a \in Accounts
    BY <1>0 DEF Forget
  <1>8. Regrouped(t, a)
    BY <1>0, <1>1, <1>2, <1>3, <1>4, <1>6, <1>7 DEF Regrouped
  <1>9. TaskOK(t)'
    BY <1>0, <1>1, <1>3, <1>5, EndKeepsTask
  <1> QED BY <1>2, <1>6, <1>8, <1>9, GroupFlags, OthersOK

LEMMA SwitchEffect ==
    ASSUME TypeOK, TypeOK', TasksOK, FlightOK, NEW t \in Tasks, Switch(t)
    PROVE  (Quiet(t) \/ \E a \in Accounts \cup {NoAccount} : Regrouped(t, a)) /\ TasksOK'
  <1>0. TaskOK(t)
    BY DEF TasksOK
  <1>1. /\ job[t].op = "switch" /\ pc[t] = "new" /\ ~cancel[t] /\ End(t, "ok")
        /\ UNCHANGED <<inflight, locks, lockQ, thread, job>>
    BY DEF Switch
  <1>2. Live(t) /\ ~Leading(t)
    BY <1>1 DEF Live, Leading
  <1>3. CASE UNCHANGED <<cancel, asked, fut>>
    <2>1. Quiet(t) /\ TaskOK(t)'
      BY <1>0, <1>1, <1>2, <1>3, EndIsQuiet
    <2> QED BY <2>1, QuietKeepsOthers
  <1>4. CASE CancelGroup(active)
    <2>1. GroupCancelled(active) /\ active \in Accounts \cup {NoAccount}
      BY <1>4, CancelGroupEffect DEF TypeOK
    <2>2. ~cancel'[t]
      BY <1>1, <2>1, AuthManagerAssumption DEF GroupCancelled, Group
    <2>3. /\ pc'[t] = "done"
          /\ \A u \in Tasks \ {t} : pc'[u] = pc[u] /\ frame'[u] = frame[u] /\ out'[u] = out[u]
      BY <1>1, EndEffect
    <2>4. Alone(t)
      BY <1>1, <2>3 DEF Alone
    <2>5. Regrouped(t, active)
      BY <1>1, <1>2, <2>1, <2>2, <2>3, <2>4 DEF Regrouped
    <2>6. TaskOK(t)'
      BY <1>0, <1>1, <1>2, <2>2, EndKeepsTask
    <2> QED BY <2>1, <2>4, <2>5, <2>6, GroupFlags, OthersOK
  <1> QED BY <1>3, <1>4 DEF Switch

\* pause_polling: nothing moves, and nobody but the poll loop is cancelled.
Paused(t) ==
    /\ UNCHANGED <<managerVars, inflight, locks, lockQ, serQ, cacheVars, thread, job, pc, frame, out>>
    /\ job[t].op = "poll" /\ Live(t) /\ cancel'[t] /\ asked'[t]
    /\ \A u \in Tasks \ {t} : cancel'[u] = cancel[u] /\ asked'[u] = asked[u]
    /\ \A u \in Tasks : fut'[u] = fut[u] \/ (fut[u] = "pending" /\ fut'[u] = "cancelled")

LEMMA PausedEffect ==
    ASSUME TypeOK, TasksOK, PausePolling
    PROVE  TypeOK' /\ TasksOK' /\ \E t \in Tasks : Paused(t)
  <1>1. PICK t \in Tasks : job[t].op = "poll" /\ Live(t) /\ ~cancel[t] /\ CancelTasks({t})
    BY DEF PausePolling
  <1>2. UNCHANGED <<managerVars, inflight, locks, lockQ, serQ, cacheVars, thread, job, pc, frame, out>>
    BY DEF PausePolling
  <1>3. TypeOK'
    BY <1>1, <1>2, CancelTasksType DEF TypeOK, managerVars, cacheVars
  <1>4. /\ cancel'[t] /\ asked'[t]
        /\ \A u \in Tasks : fut'[u] = fut[u] \/ (fut[u] = "pending" /\ fut'[u] = "cancelled")
    BY <1>1 DEF CancelTasks
  <1>5. \A u \in Tasks \ {t} : cancel'[u] = cancel[u] /\ asked'[u] = asked[u]
    BY <1>1 DEF CancelTasks, TypeOK
  <1>6. Paused(t)
    BY <1>1, <1>2, <1>4, <1>5 DEF Paused
  <1>7. Alone(t) /\ Flags(t)
    BY <1>2, <1>4, <1>5 DEF Alone, Flags
  <1>8. TaskOK(t)
    BY DEF TasksOK
  <1>9. PlaceOK(t)' /\ JobOK(t)' /\ CancelOK(t)'
    BY <1>1, <1>2, <1>4, <1>8 DEF TaskOK, PlaceOK, JobOK, CancelOK, Acquiring, Live
  <1>10. ThreadOK(t)'
    BY <1>2, <1>4, <1>8 DEF TaskOK, ThreadOK, Acquiring
  <1>11. FutureOK(t)'
    BY <1>2, <1>4, <1>8 DEF TaskOK, FutureOK, Leading
  <1> QED BY <1>3, <1>6, <1>7, <1>9, <1>10, <1>11, OthersOK DEF TaskOK

\* A new task, while nobody has a CancelledError on its way.
Scheduled(t, op, a) ==
    /\ UNCHANGED <<managerVars, flightVars, serQ, cacheVars, thread, frame, cancel, out, asked>>
    /\ pc[t] = "idle" /\ pc'[t] \in {"new", "sleep"}
    /\ op \in Ops /\ job'[t].op = op /\ job'[t].account = a
    /\ \A u \in Tasks \ {t} : pc'[u] = pc[u] /\ job'[u] = job[u]
    /\ \A u \in Tasks : ~cancel[u]

LEMMA ScheduledEffect ==
    ASSUME TypeOK, TasksOK,
           NEW op \in Ops \ {"pause"}, NEW a \in Accounts \cup {NoAccount}, NEW s \in Scopes,
           Schedule(op, a, s)
    PROVE  TypeOK' /\ TasksOK' /\ \E t \in Tasks : Scheduled(t, op, a)
  <1> DEFINE j == [op |-> op, account |-> a, scope |-> s]
             p == IF op = "poll" THEN "sleep" ELSE "new"
  <1>1. PICK t \in Tasks : t = (CHOOSE u \in Tasks : pc[u] = "idle") /\ pc[t] = "idle"
    BY DEF Schedule
  <1>2. /\ job' = [job EXCEPT ![t] = j] /\ pc' = [pc EXCEPT ![t] = p]
        /\ UNCHANGED <<managerVars, flightVars, serQ, cacheVars, thread, frame, cancel, out, asked>>
        /\ \A u \in Tasks : ~cancel[u]
    BY <1>1 DEF Schedule
  <1>3. p \in Points /\ p \in {"new", "sleep"}
    BY DEF Points
  <1>4. j \in JobType
    BY AuthManagerAssumption DEF JobType
  <1> HIDE DEF p
  <1>5. TypeOK'
    BY <1>1, <1>2, <1>3, <1>4 DEF TypeOK, managerVars, flightVars, cacheVars
  <1>6. Scheduled(t, op, a)
    BY <1>1, <1>2, <1>3, Domains DEF Scheduled
  <1>7. /\ job'[t] = j /\ pc'[t] \in {"new", "sleep"}
        /\ pc'[t] = "new" => op # "poll"
        /\ pc'[t] = "sleep" => op = "poll"
        /\ UNCHANGED <<fut, thread, frame, cancel, asked>>
    BY <1>1, <1>2, Domains DEF flightVars, p
  <1>8. /\ op \in AllOps \ {"pause"} /\ s \in Scopes
        /\ op \in {"acquire", "poll", "reauth", "switch", "sign_out"} => a \in Accounts
    BY AuthManagerAssumption DEF Schedule, Offered, TypeOK
  <1>9. TaskOK(t) /\ job[t] = NoJob
    BY <1>1 DEF TasksOK, TaskOK, PlaceOK
  <1>10. PlaceOK(t)' /\ JobOK(t)'
    BY <1>7, <1>8 DEF PlaceOK, JobOK, Acquiring, AllOps
  <1>11. CancelOK(t)'
    BY <1>1, <1>2, <1>7 DEF CancelOK
  <1>12. ThreadOK(t)'
    BY <1>7, <1>9 DEF TaskOK, ThreadOK, Acquiring, NoJob
  <1>13. FutureOK(t)'
    BY <1>1, <1>7, <1>9 DEF TaskOK, FutureOK, Leading
  <1>14. \A u \in Tasks \ {t} : TaskOK(u)'
    <2> SUFFICES ASSUME NEW u \in Tasks \ {t} PROVE TaskOK(u)'
      OBVIOUS
    <2>1. TaskOK(u) /\ pc'[u] = pc[u] /\ job'[u] = job[u] /\ UNCHANGED <<fut, thread, frame, cancel, asked>>
      BY <1>6, <1>7 DEF TasksOK, Scheduled
    <2> QED
      BY <2>1 DEF TaskOK, PlaceOK, JobOK, CancelOK, ThreadOK, FutureOK, Acquiring, Live, Leading, MsalCall
  <1> QED BY <1>1, <1>5, <1>6, <1>10, <1>11, <1>12, <1>13, <1>14 DEF TasksOK, TaskOK

-----------------------------------------------------------------------------
(* The shared futures and the locks.                                        *)

LEMMA AloneKeeps ==
    ASSUME NEW t \in Tasks, Alone(t)
    PROVE  /\ \A u : /\ Key(u)' = Key(u) /\ Group(u)' = Group(u)
                     /\ Acquiring(u)' <=> Acquiring(u)
           /\ \A u \in Tasks \ {t} : (Leading(u)' <=> Leading(u)) /\ (Live(u)' <=> Live(u))
  BY DEF Alone, Key, Group, Acquiring, Leading, Live

LEMMA LeadingFacts ==
    ASSUME TasksOK, NEW t \in Tasks, Leading(t)
    PROVE  /\ Key(t) \in Keys /\ Acquiring(t) /\ Live(t) /\ frame[t].lock \in Tasks
           /\ fut[t] \in {"pending", "cancelled"}
  BY DEF TasksOK, TaskOK, JobOK, FutureOK, Key, Keys, Leading, Acquiring, Live

(* A step that lets nobody begin or end leading, drops registrations only    *)
(* where it cancels, and ends what it brings back to life.                   *)
LEMMA FlightKept ==
    ASSUME TypeOK, TypeOK', TasksOK, TasksOK', FlightOK, NEW t \in Tasks, Alone(t),
           Leading(t)' <=> Leading(t),
           Leading(t) => frame'[t].lock = frame[t].lock,
           lockQ' = lockQ,
           \A k \in Keys : \/ inflight'[k] = inflight[k]
                           \/ /\ inflight'[k] = NoTask
                              /\ \A u \in Tasks : Acquiring(u) /\ Live(u)' /\ Key(u) = k => cancel'[u],
           \A k \in Keys : locks'[k] \in {locks[k], NoTask} \/ Key(locks'[k]) = k,
           \A u \in Tasks : cancel[u] /\ Live(u)' => cancel'[u],
           Live(t)' => Live(t)
    PROVE  FlightOK'
  <1>1. /\ \A u : Key(u)' = Key(u)
        /\ \A u \in Tasks : /\ Leading(u)' <=> Leading(u)
                            /\ Acquiring(u)' <=> Acquiring(u)
                            /\ Live(u)' => Live(u)
                            /\ Leading(u) => frame'[u].lock = frame[u].lock
    BY AloneKeeps DEF Alone
  <1>2. LocksOK'
    <2>1. \A k \in Keys : locks'[k] # NoTask => \E u \in Tasks : u = locks'[k] /\ Key(u)' = k
      <3> SUFFICES ASSUME NEW k \in Keys, locks'[k] # NoTask
                   PROVE  locks'[k] \in Tasks /\ Key(locks'[k]) = k
        BY <1>1
      <3>1. locks'[k] \in Tasks
        BY DEF TypeOK
      <3> QED BY <3>1 DEF FlightOK, LocksOK
    <2>2. ASSUME NEW l \in Tasks, lockQ'[l] # <<>>
          PROVE  \E u \in Tasks : /\ lockQ'[l] = <<u>> /\ Leading(u)'
                                  /\ Key(u)' = Key(l)' /\ frame'[u].lock = l
      <3>1. PICK u \in Tasks : lockQ[l] = <<u>> /\ Leading(u) /\ Key(u) = Key(l) /\ frame[u].lock = l
        BY <2>2 DEF FlightOK, LocksOK
      <3> QED BY <1>1, <3>1
    <2> QED BY <2>1, <2>2 DEF LocksOK, Key
  <1>3. UnregisteredIsCancelled'
    <2> SUFFICES ASSUME NEW v \in Tasks, NEW u \in Tasks,
                        Leading(v)', inflight'[Key(v)'] # v, SameCall(v, u)'
                 PROVE  cancel'[u]
      BY DEF UnregisteredIsCancelled
    <2>1. Leading(v) /\ inflight'[Key(v)] # v /\ SameCall(v, u) /\ Live(u)' /\ Key(v) \in Keys
      BY <1>1, LeadingFacts DEF SameCall
    <2>2. CASE inflight'[Key(v)] = inflight[Key(v)]
      BY <2>1, <2>2 DEF FlightOK, UnregisteredIsCancelled
    <2>3. CASE inflight'[Key(v)] # inflight[Key(v)]
      BY <2>1, <2>3 DEF SameCall
    <2> QED BY <2>2, <2>3
  <1>4. RegisteredIsLed'
    <2> SUFFICES ASSUME NEW k \in Keys, inflight'[k] # NoTask
                 PROVE  \E u \in Tasks : u = inflight'[k] /\ Leading(u)' /\ Key(u)' = k
      BY DEF RegisteredIsLed, Leading, Key
    <2>1. inflight'[k] = inflight[k] /\ inflight[k] \in Tasks
      BY DEF TypeOK
    <2> QED BY <1>1, <2>1 DEF FlightOK, RegisteredIsLed
  <1>5. SingleFlight'
    BY <1>1 DEF FlightOK, SingleFlight, TasksOK, TaskOK, PlaceOK
  <1> QED BY <1>2, <1>3, <1>4, <1>5 DEF FlightOK

LEMMA FlightQuiet ==
    ASSUME TypeOK, TypeOK', TasksOK, TasksOK', FlightOK, NEW t \in Tasks, Quiet(t)
    PROVE  FlightOK'
  BY FlightKept DEF Quiet

LEMMA FlightJoined ==
    ASSUME TypeOK, TypeOK', TasksOK, TasksOK', FlightOK, NEW t \in Tasks, Joined(t)
    PROVE  FlightOK'
  BY FlightKept DEF Joined

LEMMA FlightRefused ==
    ASSUME TypeOK, TypeOK', TasksOK, TasksOK', FlightOK, NEW t \in Tasks, Refused(t)
    PROVE  FlightOK'
  <1>1. \A k \in Keys : locks'[k] \in {locks[k], NoTask} \/ Key(locks'[k]) = k
    BY DEF Refused, TypeOK
  <1> QED BY <1>1, FlightKept DEF Refused

LEMMA FlightDropped ==
    ASSUME TypeOK, TypeOK', TasksOK, TasksOK', FlightOK, NEW t \in Tasks, Dropped(t)
    PROVE  FlightOK'
  <1>1. ~Live(t)'
    BY DEF Dropped, Live
  <1> QED BY <1>1, FlightKept DEF Dropped

LEMMA FlightRegrouped ==
    ASSUME TypeOK, TypeOK', TasksOK, TasksOK', FlightOK, NEW t \in Tasks, NEW a, Regrouped(t, a)
    PROVE  FlightOK'
  <1>1. /\ Alone(t) /\ GroupCancelled(a) /\ lockQ' = lockQ /\ ~Leading(t) /\ ~Leading(t)' /\ ~Live(t)'
        /\ ~Acquiring(t)
    BY DEF Regrouped, Leading, Live, Alone, Acquiring
  <1>2. \A u \in Tasks : cancel[u] => cancel'[u]
    BY <1>1 DEF GroupCancelled
  <1>3. ASSUME NEW k \in Keys, inflight'[k] # inflight[k]
        PROVE  /\ inflight'[k] = NoTask
               /\ \A u \in Tasks : Acquiring(u) /\ Live(u)' /\ Key(u) = k => cancel'[u]
    <2>1. inflight'[k] = NoTask /\ k[1] = a /\ a \in Accounts
      BY <1>3 DEF Regrouped
    <2>2. ASSUME NEW u \in Tasks, Acquiring(u), Live(u)', Key(u) = k
          PROVE  cancel'[u]
      <3>1. Live(u)
        BY <1>1, <2>2, AloneKeeps
      <3>2. Group(u) = a
        BY <2>1, <2>2 DEF Group, Acquiring, Key
      <3> QED BY <1>1, <2>1, <3>1, <3>2 DEF GroupCancelled
    <2> QED BY <2>1, <2>2
  <1>4. \A k \in Keys : locks'[k] \in {locks[k], NoTask}
    BY DEF Regrouped
  <1> QED BY <1>1, <1>2, <1>3, <1>4, FlightKept

LEMMA FlightLed ==
    ASSUME TypeOK, TypeOK', TasksOK, TasksOK', FlightOK, NEW t \in Tasks, Led(t)
    PROVE  FlightOK'
  <1> DEFINE l == LockOf(t)
  <1>1. /\ \A u : Key(u)' = Key(u)
        /\ \A u \in Tasks : Acquiring(u)' <=> Acquiring(u)
        /\ \A u \in Tasks \ {t} : /\ Leading(u)' <=> Leading(u)
                                  /\ Live(u)' <=> Live(u)
                                  /\ frame'[u].lock = frame[u].lock
    BY AloneKeeps DEF Alone, Led
  <1>2. /\ Leading(t)' /\ Live(t) /\ ~cancel[t] /\ Key(t) \in Keys
        /\ \A u \in Tasks : Leading(u) => Key(u) # Key(t)
        /\ l \in Tasks /\ Key(l) = Key(t) /\ frame'[t].lock = l
    BY DEF Led
  <1>3. /\ inflight'[Key(t)] = t
        /\ \A k \in Keys \ {Key(t)} : inflight'[k] = inflight[k]
        /\ locks'[Key(t)] = l
        /\ \A k \in Keys \ {Key(t)} : locks'[k] = locks[k]
        /\ lockQ'[l] = <<t>>
        /\ \A m \in Tasks \ {l} : lockQ'[m] = lockQ[m]
    BY <1>2, Domains DEF Led
  <1>4. LocksOK'
    <2>1. \A k \in Keys : locks'[k] # NoTask => \E u \in Tasks : u = locks'[k] /\ Key(u)' = k
      <3> SUFFICES ASSUME NEW k \in Keys, locks'[k] # NoTask
                   PROVE  locks'[k] \in Tasks /\ Key(locks'[k]) = k
        BY <1>1
      <3>1. CASE k = Key(t)
        BY <1>2, <1>3, <3>1
      <3>2. CASE k # Key(t)
        <4>1. locks'[k] = locks[k]
          BY <1>3, <3>2
        <4> QED BY <4>1 DEF FlightOK, LocksOK, TypeOK
      <3> QED BY <3>1, <3>2
    <2>2. ASSUME NEW m \in Tasks, lockQ'[m] # <<>>
          PROVE  \E u \in Tasks : /\ lockQ'[m] = <<u>> /\ Leading(u)'
                                  /\ Key(u)' = Key(m)' /\ frame'[u].lock = m
      <3>1. CASE m = l
        BY <1>1, <1>2, <1>3, <3>1
      <3>2. CASE m # l
        <4>1. PICK u \in Tasks : lockQ[m] = <<u>> /\ Leading(u) /\ Key(u) = Key(m) /\ frame[u].lock = m
          BY <1>3, <2>2, <3>2 DEF FlightOK, LocksOK
        <4>2. u # t
          BY <1>2, <4>1
        <4> QED BY <1>1, <1>3, <3>2, <4>1, <4>2
      <3> QED BY <3>1, <3>2
    <2> QED BY <2>1, <2>2 DEF LocksOK, Key
  <1>5. UnregisteredIsCancelled'
    <2> SUFFICES ASSUME NEW v \in Tasks, NEW u \in Tasks,
                        Leading(v)', inflight'[Key(v)'] # v, SameCall(v, u)'
                 PROVE  cancel'[u]
      BY DEF UnregisteredIsCancelled
    <2>1. v # t
      BY <1>1, <1>3
    <2>2. Leading(v) /\ Key(v) \in Keys \ {Key(t)}
      BY <1>1, <1>2, <2>1, LeadingFacts
    <2>3. inflight[Key(v)] # v
      BY <1>1, <1>3, <2>2
    <2>4. SameCall(v, u)
      BY <1>1, <1>2 DEF SameCall
    <2> QED BY <2>2, <2>3, <2>4 DEF FlightOK, UnregisteredIsCancelled, Led
  <1>6. RegisteredIsLed'
    <2> SUFFICES ASSUME NEW k \in Keys, inflight'[k] # NoTask
                 PROVE  \E u \in Tasks : u = inflight'[k] /\ Leading(u)' /\ Key(u)' = k
      BY DEF RegisteredIsLed, Leading, Key
    <2>1. CASE k = Key(t)
      BY <1>1, <1>2, <1>3, <2>1
    <2>2. CASE k # Key(t)
      <3>1. inflight'[k] = inflight[k] /\ inflight[k] \in Tasks
        BY <1>3, <2>2 DEF TypeOK
      <3>2. Leading(inflight[k]) /\ Key(inflight[k]) = k
        BY <3>1 DEF FlightOK, RegisteredIsLed
      <3>3. inflight[k] # t
        BY <2>2, <3>2
      <3> QED BY <1>1, <3>1, <3>2, <3>3
    <2> QED BY <2>1, <2>2
  <1>7. SingleFlight'
    BY <1>1, <1>2 DEF FlightOK, SingleFlight, TasksOK, TaskOK, PlaceOK
  <1> QED BY <1>4, <1>5, <1>6, <1>7 DEF FlightOK

LEMMA FlightResolved ==
    ASSUME TypeOK, TypeOK', TasksOK, TasksOK', FlightOK, NEW t \in Tasks, NEW o, Resolved(t, o)
    PROVE  FlightOK'
  <1> DEFINE l == frame[t].lock
  <1>1. /\ \A u : Key(u)' = Key(u)
        /\ \A u \in Tasks : Acquiring(u)' <=> Acquiring(u)
        /\ \A u \in Tasks \ {t} : /\ Leading(u)' <=> Leading(u)
                                  /\ Live(u)' <=> Live(u)
                                  /\ frame'[u].lock = frame[u].lock
    BY AloneKeeps DEF Alone, Resolved
  <1>2. /\ Leading(t) /\ ~Leading(t)' /\ Key(t) \in Keys /\ l \in Tasks
        /\ \A u \in Tasks \ {t} : Leading(u) => Key(u) # Key(t)
    BY DEF Resolved, FlightOK, SingleFlight
  <1>3. /\ inflight'[Key(t)] = NoTask
        /\ \A k \in Keys \ {Key(t)} : inflight'[k] = inflight[k]
        /\ locks' = locks
        /\ lockQ'[l] = Without(lockQ[l], t)
        /\ \A m \in Tasks \ {l} : lockQ'[m] = lockQ[m]
    BY <1>2, Domains DEF Resolved
  <1>4. LocksOK'
    <2>1. \A k \in Keys : locks'[k] # NoTask => \E u \in Tasks : u = locks'[k] /\ Key(u)' = k
      BY <1>1, <1>3 DEF FlightOK, LocksOK, TypeOK
    <2>2. ASSUME NEW m \in Tasks, lockQ'[m] # <<>>
          PROVE  \E u \in Tasks : /\ lockQ'[m] = <<u>> /\ Leading(u)'
                                  /\ Key(u)' = Key(m)' /\ frame'[u].lock = m
      <3>1. lockQ[m] # <<>>
        <4>1. Without(<<>>, t) = <<>>
          BY DEF Without
        <4> QED BY <1>3, <2>2, <4>1
      <3>2. PICK u \in Tasks : lockQ[m] = <<u>> /\ Leading(u) /\ Key(u) = Key(m) /\ frame[u].lock = m
        BY <3>1 DEF FlightOK, LocksOK
      <3>3. u # t /\ lockQ'[m] = <<u>>
        <4>1. CASE m = l
          <5>1. Without(<<u>>, t) # <<>> /\ lockQ'[m] = Without(<<u>>, t)
            BY <1>3, <2>2, <3>2, <4>1
          <5> QED BY <5>1, SingleQueue
        <4>2. CASE m # l
          BY <1>3, <3>2, <4>2
        <4> QED BY <4>1, <4>2
      <3> QED BY <1>1, <3>2, <3>3
    <2> QED BY <2>1, <2>2 DEF LocksOK, Key
  <1>5. UnregisteredIsCancelled'
    <2> SUFFICES ASSUME NEW v \in Tasks, NEW u \in Tasks,
                        Leading(v)', inflight'[Key(v)'] # v, SameCall(v, u)'
                 PROVE  cancel'[u]
      BY DEF UnregisteredIsCancelled
    <2>1. v # t /\ Leading(v)
      BY <1>1, <1>2
    <2>2. Key(v) \in Keys \ {Key(t)}
      BY <1>2, <2>1, LeadingFacts
    <2>3. inflight[Key(v)] # v
      BY <1>1, <1>3, <2>2
    <2>4. u # t
      BY <1>1, <2>2 DEF SameCall
    <2>5. SameCall(v, u)
      BY <1>1, <2>4 DEF SameCall
    <2> QED BY <2>1, <2>3, <2>4, <2>5 DEF FlightOK, UnregisteredIsCancelled, Resolved
  <1>6. RegisteredIsLed'
    <2> SUFFICES ASSUME NEW k \in Keys, inflight'[k] # NoTask
                 PROVE  \E u \in Tasks : u = inflight'[k] /\ Leading(u)' /\ Key(u)' = k
      BY DEF RegisteredIsLed, Leading, Key
    <2>1. k # Key(t) /\ inflight'[k] = inflight[k] /\ inflight[k] \in Tasks
      BY <1>3 DEF TypeOK
    <2>2. Leading(inflight[k]) /\ Key(inflight[k]) = k
      BY <2>1 DEF FlightOK, RegisteredIsLed
    <2> QED BY <1>1, <2>1, <2>2
  <1>7. SingleFlight'
    BY <1>1, <1>2 DEF FlightOK, SingleFlight, TasksOK, TaskOK, PlaceOK
  <1> QED BY <1>4, <1>5, <1>6, <1>7 DEF FlightOK

LEMMA FlightPaused ==
    ASSUME TypeOK, TasksOK, FlightOK, NEW t \in Tasks, Paused(t)
    PROVE  FlightOK'
  <1>1. UNCHANGED <<inflight, locks, lockQ, job, pc, frame>> /\ \A u \in Tasks : cancel[u] => cancel'[u]
    BY DEF Paused
  <1> QED
    BY <1>1 DEF FlightOK, LocksOK, UnregisteredIsCancelled, RegisteredIsLed, SingleFlight,
                SameCall, Leading, Live, Acquiring, Key

LEMMA FlightScheduled ==
    ASSUME TypeOK, TasksOK, TasksOK', FlightOK, NEW t \in Tasks, NEW op, NEW a, Scheduled(t, op, a)
    PROVE  FlightOK'
  <1>1. /\ UNCHANGED <<inflight, locks, lockQ, frame, cancel>>
        /\ \A u \in Tasks : ~cancel[u]
        /\ \A u \in Tasks \ {t} : Key(u)' = Key(u) /\ (Leading(u)' <=> Leading(u))
    BY DEF Scheduled, Key, Leading, flightVars
  <1>2. ~Leading(t) /\ ~Leading(t)' /\ Key(t) \notin Keys
    <2>1. job[t].account = NoAccount /\ pc[t] = "idle" /\ pc'[t] \in {"new", "sleep"}
      BY DEF Scheduled, TasksOK, TaskOK, PlaceOK, NoJob
    <2> QED BY <2>1, AuthManagerAssumption DEF Leading, Key, Keys
  <1>3. LocksOK'
    <2>1. ASSUME NEW k \in Keys, locks[k] # NoTask
          PROVE  Key(locks[k])' = k
      BY <1>1, <1>2, <2>1 DEF FlightOK, LocksOK, TypeOK
    <2>2. ASSUME NEW m \in Tasks, lockQ[m] # <<>>
          PROVE  \E u \in Tasks : /\ lockQ[m] = <<u>> /\ Leading(u)'
                                  /\ Key(u)' = Key(m)' /\ frame[u].lock = m
      <3>1. PICK u \in Tasks : lockQ[m] = <<u>> /\ Leading(u) /\ Key(u) = Key(m) /\ frame[u].lock = m
        BY <2>2 DEF FlightOK, LocksOK
      <3>2. u # t /\ m # t
        BY <1>2, <3>1, LeadingFacts
      <3> QED BY <1>1, <3>1, <3>2
    <2> QED BY <1>1, <2>1, <2>2 DEF LocksOK
  <1>4. \A v \in Tasks : Leading(v)' => inflight[Key(v)'] = v
    <2> SUFFICES ASSUME NEW v \in Tasks, Leading(v)'
                 PROVE  inflight[Key(v)'] = v
      OBVIOUS
    <2>1. v # t /\ Leading(v) /\ Key(v)' = Key(v)
      BY <1>1, <1>2
    <2>2. SameCall(v, v)
      BY <2>1, LeadingFacts DEF SameCall
    <2> QED BY <1>1, <2>1, <2>2 DEF FlightOK, UnregisteredIsCancelled
  <1>5. UnregisteredIsCancelled'
    BY <1>1, <1>4 DEF UnregisteredIsCancelled
  <1>6. RegisteredIsLed'
    BY <1>1, <1>2 DEF FlightOK, RegisteredIsLed, TypeOK
  <1>7. SingleFlight'
    BY <1>1, <1>2 DEF FlightOK, SingleFlight, TasksOK, TaskOK, PlaceOK
  <1> QED BY <1>3, <1>5, <1>6, <1>7 DEF FlightOK

-----------------------------------------------------------------------------
(* Every step of a task or of its thread, with what it does to the others.   *)

\* What a silent call's result resolves the future with.
Answer(result) == CASE result = "token" -> "token"
                    [] result = "none"  -> "type_error"
                    [] OTHER            -> "auth_error"

Forgets(t) == SignOutNotFound(t) \/ (SignOutRemoved(t) /\ thread[t].result = "ok")

Effect(t) ==
    \/ QuietStep(t) /\ Quiet(t)
    \/ Thread(t) /\ Quiet(t)
    \/ AcquireJoins(t) /\ Joined(t)
    \/ LeadStarts(t, LockOf(t)) /\ Beginning(t) /\ Led(t)
    \/ LeadRefused(t, LockOf(t)) /\ Refused(t)
    \/ AcquireNotFound(t) /\ Resolved(t, "auth_error")
    \/ AcquireReturns(t) /\ Resolved(t, Answer(thread[t].result))
    \/ /\ Cancelled(t) /\ cancel[t] /\ asked[t]
       /\ Resolved(t, "cancelled") \/ Dropped(t)
    \/ Forgets(t) /\ Forget(t) /\ job[t].op = "sign_out" /\ Regrouped(t, job[t].account)
    \/ Switch(t) /\ (Quiet(t) \/ \E a \in Accounts \cup {NoAccount} : Regrouped(t, a))

LEMMA StepTypes ==
    ASSUME TypeOK, TasksOK, NEW t \in Tasks, Step(t) \/ Thread(t)
    PROVE  TypeOK'
  BY AcquireTypes, LeadTypes, SignOutTypes, SignInTypes, StartTypes, ThreadTypes DEF Step

LEMMA StepEffect ==
    ASSUME TypeOK, TasksOK, FlightOK, NEW t \in Tasks, Step(t) \/ Thread(t)
    PROVE  TypeOK' /\ TasksOK' /\ Effect(t)
  <1>0. TypeOK' /\ TaskOK(t)
    BY StepTypes DEF TasksOK
  <1>1. CASE QuietStep(t)
    BY <1>0, <1>1, QuietEffect, QuietKeepsOthers DEF Effect
  <1>2. CASE Thread(t)
    BY <1>0, <1>2, ThreadIsQuiet, QuietKeepsOthers DEF Effect
  <1>3. CASE AcquireJoins(t)
    BY <1>0, <1>3, JoinEffect DEF Effect
  <1>4. CASE AcquireAlone(t)
    BY <1>0, <1>4, AcquireAloneCases, LedEffect, RefusedEffect DEF Effect
  <1>5. CASE AcquireNotFound(t)
    <2>1. /\ EndLead(t, "auth_error") /\ "auth_error" \in Outcomes /\ Consume(t)
          /\ ~cancel[t] /\ pc[t] = "find" /\ job[t].op # "sign_out"
          /\ UNCHANGED <<job, cancel, asked>>
      BY <1>5 DEF AcquireNotFound, Outcomes
    <2>2. Leading(t)
      BY <2>1, CallOfTask DEF Leading, Acquiring
    <2> QED BY <1>0, <1>5, <2>1, <2>2, ResolvedEffect DEF Effect
  <1>6. CASE AcquireReturns(t)
    <2>1. /\ EndLead(t, Answer(thread[t].result)) /\ Answer(thread[t].result) \in Outcomes
          /\ Consume(t) /\ ~cancel[t] /\ pc[t] = "msal" /\ thread[t].call = "acquire"
          /\ UNCHANGED <<job, cancel, asked>>
      BY <1>6 DEF AcquireReturns, Returned, Outcomes, Answer
    <2>2. Leading(t)
      BY <2>1, CallOfTask DEF Leading, Acquiring
    <2> QED BY <1>0, <1>6, <2>1, <2>2, ResolvedEffect DEF Effect
  <1>7. CASE Cancelled(t)
    BY <1>0, <1>7, CancelledEffect DEF Effect
  <1>8. CASE Forgets(t)
    <2>1. ~cancel[t] /\ Live(t) /\ job[t].op = "sign_out" /\ Forget(t)
      BY <1>8, CallOfTask DEF Forgets, SignOutNotFound, SignOutRemoved, Returned, Live
    <2> QED BY <1>0, <1>8, <2>1, ForgetEffect DEF Effect
  <1>9. CASE Switch(t)
    BY <1>0, <1>9, SwitchEffect DEF Effect
  <1> QED
    BY <1>1, <1>2, <1>3, <1>4, <1>5, <1>6, <1>7, <1>8, <1>9 DEF Step, QuietStep, Forgets

LEMMA EffectIsAlone ==
    ASSUME NEW t \in Tasks, Effect(t)
    PROVE  Alone(t)
  BY DEF Effect, Quiet, Joined, Led, Refused, Resolved, Dropped, Regrouped

LEMMA FlightStep ==
    ASSUME TypeOK, TypeOK', TasksOK, TasksOK', FlightOK, NEW t \in Tasks, Effect(t)
    PROVE  FlightOK'
  BY FlightQuiet, FlightJoined, FlightLed, FlightRefused, FlightResolved, FlightDropped,
     FlightRegrouped DEF Effect

-----------------------------------------------------------------------------
(* The serializer.                                                          *)

InSerializer(t) == pc[t] \in {"serializer", "msal"}

StaysInLine(t) ==
    /\ serQ' = serQ /\ (InSerializer(t)' <=> InSerializer(t))
    /\ pc'[t] = "msal" => pc[t] = "msal" \/ Holds(serQ, t)

EntersLine(t) ==
    /\ serQ' = Append(serQ, t) /\ ~InSerializer(t) /\ InSerializer(t)'
    /\ pc'[t] = "msal" => serQ = <<>>

LeavesLine(t) == serQ' = Without(serQ, t) /\ ~InSerializer(t)'

LEMMA LineKept ==
    ASSUME TypeOK, SerializerOK, NEW t \in Tasks, \A u \in Tasks \ {t} : pc'[u] = pc[u],
           StaysInLine(t) \/ EntersLine(t) \/ LeavesLine(t)
    PROVE  SerializerOK'
  <1>0. /\ serQ \in Seq(Tasks) /\ Distinct(serQ)
        /\ \A u \in Tasks : InQ(serQ, u) <=> InSerializer(u)
        /\ \A u \in Tasks : pc[u] = "msal" => Holds(serQ, u)
        /\ \A u \in Tasks \ {t} : InSerializer(u)' <=> InSerializer(u)
    BY DEF TypeOK, SerializerOK, InSerializer
  <1>1. CASE StaysInLine(t)
    BY <1>0, <1>1 DEF StaysInLine, SerializerOK, InSerializer
  <1>2. CASE EntersLine(t)
    <2>1. /\ Distinct(serQ')
          /\ \A u \in Tasks : InQ(serQ', u) <=> InQ(serQ, u) \/ u = t
          /\ \A u \in Tasks : Holds(serQ, u) => Holds(serQ', u)
          /\ serQ = <<>> => Holds(serQ', t)
      BY <1>0, <1>2, AppendDistinct DEF EntersLine
    <2>2. \A u \in Tasks : InQ(serQ', u) <=> InSerializer(u)'
      BY <1>0, <1>2, <2>1 DEF EntersLine
    <2>3. \A u \in Tasks : pc'[u] = "msal" => Holds(serQ', u)
      BY <1>0, <1>2, <2>1 DEF EntersLine
    <2> QED BY <2>1, <2>2, <2>3 DEF SerializerOK, InSerializer
  <1>3. CASE LeavesLine(t)
    <2>1. /\ Distinct(serQ')
          /\ \A u \in Tasks : InQ(serQ', u) <=> InQ(serQ, u) /\ u # t
          /\ \A u \in Tasks \ {t} : Holds(serQ, u) => Holds(serQ', u)
      BY <1>0, <1>3, WithoutDistinct DEF LeavesLine
    <2>2. \A u \in Tasks : InQ(serQ', u) <=> InSerializer(u)'
      BY <1>0, <1>3, <2>1 DEF LeavesLine
    <2>3. \A u \in Tasks : pc'[u] = "msal" => Holds(serQ', u)
      BY <1>0, <1>3, <2>1 DEF LeavesLine, InSerializer
    <2> QED BY <2>1, <2>2, <2>3 DEF SerializerOK, InSerializer
  <1> QED BY <1>1, <1>2, <1>3

\* A task that is not in line and does not enter it.
LEMMA OutOfLine ==
    ASSUME NEW t, ~InSerializer(t), ~InSerializer(t)', serQ' = serQ
    PROVE  StaysInLine(t)
  BY DEF StaysInLine, InSerializer

LEMMA EndsOutOfLine ==
    ASSUME TypeOK, NEW t \in Tasks, NEW o, End(t, o)
    PROVE  ~InSerializer(t)'
  BY EndEffect DEF InSerializer

LEMMA QuietLine ==
    ASSUME TypeOK, TasksOK, NEW t \in Tasks, QuietStep(t)
    PROVE  StaysInLine(t) \/ EntersLine(t) \/ LeavesLine(t)
  <1>1. CASE SerializerGranted(t)
    BY <1>1, Domains DEF SerializerGranted, StaysInLine, InSerializer
  <1>2. CASE AccountFound(t) \/ Redirected(t)
    <2>1. EnterSerializer(t) /\ pc[t] \in {"find", "browser"}
      BY <1>2 DEF AccountFound, Redirected
    <2> QED BY <2>1, Domains DEF EnterSerializer, EntersLine, InSerializer
  <1>3. CASE SignOutRemoved(t) /\ thread[t].result # "ok"
    BY <1>3, EndsOutOfLine DEF SignOutRemoved, LeavesLine
  <1>4. CASE RedeemFailed(t) \/ Reauthenticated(t) \/ Added(t)
    <2>1. serQ' = Without(serQ, t) /\ \E o \in Outcomes : End(t, o)
      BY <1>4 DEF RedeemFailed, Reauthenticated, Added, Outcomes
    <2> QED BY <2>1, EndsOutOfLine DEF LeavesLine
  <1>5. CASE \/ FutureResolved(t) \/ SignInAbandoned(t) \/ StartRebuilds(t)
             \/ SignOutStarts(t) \/ StartBuilds(t)
             \/ AddStarts(t) \/ ReauthStarts(t) \/ StartLists(t)
    <2>1. serQ' = serQ /\ ~InSerializer(t)
      BY <1>5 DEF FutureResolved, SignInAbandoned, StartRebuilds, SignOutStarts, StartBuilds,
                  AddStarts, ReauthStarts, StartLists, InSerializer
    <2>2. \/ \E o \in Outcomes : End(t, o)
          \/ End(t, fut[frame[t].leader])
          \/ \E p \in {"find", "browser", "build", "list"} : pc' = [pc EXCEPT ![t] = p]
      BY <1>5 DEF FutureResolved, SignInAbandoned, StartRebuilds, SignOutStarts, StartBuilds,
                  AddStarts, ReauthStarts, StartLists, Outcomes
    <2>3. ~InSerializer(t)'
      <3>1. CASE \E p \in {"find", "browser", "build", "list"} : pc' = [pc EXCEPT ![t] = p]
        BY <3>1, Domains DEF InSerializer
      <3> QED BY <2>2, <3>1, EndsOutOfLine
    <2> QED BY <2>1, <2>3, OutOfLine
  <1> QED BY <1>1, <1>2, <1>3, <1>4, <1>5 DEF QuietStep

LEMMA EffectLine ==
    ASSUME TypeOK, TasksOK, NEW t \in Tasks, Effect(t)
    PROVE  StaysInLine(t) \/ EntersLine(t) \/ LeavesLine(t)
  <1>1. CASE QuietStep(t)
    BY <1>1, QuietLine
  <1>2. CASE Thread(t)
    <2>1. serQ' = serQ /\ pc' = pc
      BY <1>2 DEF Thread, ThreadReads, ThreadAcquires, ThreadRemoves, ThreadRedeems, taskVars
    <2> QED BY <2>1 DEF StaysInLine, InSerializer
  <1>3. CASE AcquireJoins(t) /\ Joined(t)
    BY <1>3, OutOfLine DEF AcquireJoins, Join, Joined, Leading, Acquiring, InSerializer
  <1>4. CASE LeadStarts(t, LockOf(t)) /\ Led(t)
    BY <1>4, OutOfLine DEF LeadStarts, Led, Leading, Acquiring, InSerializer
  <1>5. CASE LeadRefused(t, LockOf(t)) /\ Refused(t)
    BY <1>5, OutOfLine DEF LeadRefused, Refused, Leading, Acquiring, InSerializer
  <1>6. CASE AcquireNotFound(t) /\ Resolved(t, "auth_error")
    BY <1>6, OutOfLine DEF AcquireNotFound, Resolved, InSerializer
  <1>7. CASE AcquireReturns(t) /\ Resolved(t, Answer(thread[t].result))
    BY <1>7 DEF AcquireReturns, Resolved, InSerializer, LeavesLine
  <1>8. CASE Cancelled(t) /\ (Resolved(t, "cancelled") \/ Dropped(t))
    BY <1>8 DEF Cancelled, Resolved, Dropped, InSerializer, LeavesLine
  <1>9. CASE Forgets(t) /\ Regrouped(t, job[t].account)
    BY <1>9, OutOfLine
       DEF Forgets, SignOutNotFound, SignOutRemoved, Regrouped, InSerializer, LeavesLine
  <1>10. CASE Switch(t)
    <2>1. serQ' = serQ /\ pc[t] = "new" /\ End(t, "ok")
      BY <1>10 DEF Switch
    <2> QED BY <2>1, EndsOutOfLine, OutOfLine DEF InSerializer
  <1> QED BY <1>1, <1>2, <1>3, <1>4, <1>5, <1>6, <1>7, <1>8, <1>9, <1>10 DEF Effect

LEMMA SerializerStep ==
    ASSUME TypeOK, TasksOK, SerializerOK, NEW t \in Tasks, Effect(t)
    PROVE  SerializerOK'
  <1>1. \A u \in Tasks \ {t} : pc'[u] = pc[u]
    BY EffectIsAlone DEF Alone
  <1> QED BY <1>1, EffectLine, LineKept

-----------------------------------------------------------------------------
(* The token cache.                                                         *)

\* Nobody else removes an account's entry while a task holds the serializer.
LEMMA NobodyRemoves ==
    ASSUME SerializerOK, NEW t \in Tasks, job[t].op # "sign_out", serQ = <<>> \/ Holds(serQ, t), NEW a
    PROVE  ~Removed(a)
  BY DEF SerializerOK, Removed, Holds, InQ

LEMMA EffectCancels ==
    ASSUME NEW t \in Tasks, Effect(t)
    PROVE  /\ \A u \in Tasks \ {t} : cancel[u] => cancel'[u]
           /\ ~Cancelled(t) => (cancel'[t] <=> cancel[t])
  <1>1. CASE Quiet(t) \/ Joined(t) \/ Led(t) \/ Refused(t)
    BY <1>1 DEF Quiet, Joined, Led, Refused
  <1>2. CASE Dropped(t) \/ \E o : Resolved(t, o)
    <2>1. \A u \in Tasks \ {t} : cancel'[u] = cancel[u]
      BY <1>2 DEF Dropped, Resolved
    <2>2. AcquireNotFound(t) \/ AcquireReturns(t) => UNCHANGED cancel
      BY DEF AcquireNotFound, AcquireReturns
    <2>3. CASE Cancelled(t)
      BY <2>1, <2>3
    <2>4. CASE ~Cancelled(t) /\ ~UNCHANGED cancel
      BY <2>2, <2>4 DEF Effect, Quiet, Joined, Led, Refused, Regrouped, GroupCancelled
    <2> QED BY <2>1, <2>3, <2>4
  <1>3. CASE \E a : Regrouped(t, a)
    BY <1>3 DEF Regrouped, GroupCancelled
  <1> QED BY <1>1, <1>2, <1>3 DEF Effect

LEMMA ForgetsRegroups ==
    ASSUME TypeOK, TypeOK', TasksOK, FlightOK, NEW t \in Tasks, Forgets(t)
    PROVE  Regrouped(t, job[t].account) /\ Forget(t) /\ job[t].op = "sign_out"
  <1>1. ~cancel[t] /\ Live(t) /\ job[t].op = "sign_out" /\ Forget(t)
    BY CallOfTask DEF Forgets, SignOutNotFound, SignOutRemoved, Returned, Live
  <1> QED BY <1>1, ForgetEffect

\* Only its own sign_out takes a removal that has ended to its next step.
LEMMA RemovalEnds ==
    ASSUME TypeOK, TasksOK, NEW t \in Tasks, Effect(t), job[t].op = "sign_out", pc[t] = "msal",
           Returned(t, "remove"), thread[t].result = "ok"
    PROVE  Forgets(t)
  <1>1. ~cancel[t] /\ ~Acquiring(t)
    BY DEF TasksOK, TaskOK, CancelOK, Acquiring
  <1>2. ~QuietStep(t)
    BY <1>1
       DEF QuietStep, SerializerGranted, FutureResolved, AccountFound, SignOutStarts, AddStarts,
           ReauthStarts, Redirected, SignInAbandoned, RedeemFailed, Reauthenticated, Added,
           StartBuilds, StartLists, StartRebuilds, Returned
  <1>3. ~Thread(t)
    BY DEF Thread, ThreadReads, ThreadAcquires, ThreadRemoves, ThreadRedeems, Returned
  <1> QED BY <1>1, <1>2, <1>3 DEF Effect, Joined, Led, Refused, Resolved, Leading, Acquiring, Switch

LEMMA RemovedKept ==
    ASSUME TypeOK, TasksOK, NEW t \in Tasks, Effect(t), NEW a, Removed(a)
    PROVE  Removed(a)' \/ (Forgets(t) /\ job[t].account = a)
  <1>1. PICK s \in Tasks : /\ job[s].op = "sign_out" /\ job[s].account = a
                           /\ pc[s] = "msal" /\ Returned(s, "remove") /\ thread[s].result = "ok"
    BY DEF Removed
  <1>2. CASE s = t
    BY <1>1, <1>2, RemovalEnds
  <1>3. CASE s # t
    BY <1>1, <1>3, EffectIsAlone DEF Alone, Removed, Returned
  <1> QED BY <1>2, <1>3

\* The cache changes in the executor's threads alone, and a removal leaves its mark.
LEMMA CacheKept ==
    ASSUME TypeOK, TasksOK, NEW t \in Tasks, Effect(t)
    PROVE  /\ ~Thread(t) => UNCHANGED <<entries, tokens>>
           /\ \A a : a \in tokens => a \in tokens' \/ Removed(a)'
           /\ \A a : a \in entries => a \in entries' \/ Removed(a)'
  <1>1. ASSUME ~Thread(t) PROVE UNCHANGED <<entries, tokens>>
    <2>1. QuietStep(t) => UNCHANGED cacheVars
      BY DEF QuietStep, SerializerGranted, FutureResolved, AccountFound, SignOutStarts, AddStarts,
             ReauthStarts, Redirected, SignInAbandoned, RedeemFailed, Reauthenticated, Added,
             StartBuilds, StartLists, StartRebuilds, SignOutRemoved, Forget
    <2>2. ~QuietStep(t) => UNCHANGED cacheVars
      BY <1>1 DEF Effect, AcquireJoins, Join, LeadStarts, LeadRefused, AcquireNotFound,
                  AcquireReturns, Cancelled, Forget, Switch
    <2> QED BY <2>1, <2>2 DEF cacheVars
  <1>2. CASE Thread(t) /\ ~ThreadRemoves(t)
    BY <1>2 DEF Thread, ThreadReads, ThreadAcquires, ThreadRedeems
  <1>3. CASE ThreadRemoves(t)
    <2>1. job[t].op = "sign_out" /\ pc[t] = "msal" /\ ~cancel[t]
      BY <1>3 DEF ThreadRemoves, TasksOK, TaskOK, ThreadOK, CancelOK
    <2>2. job' = job /\ pc' = pc
      BY <1>3 DEF ThreadRemoves, taskVars
    <2>3. CASE Finish(t, "ok") /\ entries' = entries \ {job[t].account} /\ tokens' = tokens \ {job[t].account}
      <3>1. Awaited(t)
        BY <2>1 DEF Awaited
      <3>2. thread'[t].call = "remove" /\ ~thread'[t].running /\ thread'[t].result = "ok"
        BY <1>3, <2>3, <3>1, FinishedThread DEF ThreadRemoves
      <3>3. PICK x : x = job[t].account
        OBVIOUS
      <3>4. Removed(x)'
        BY <2>1, <2>2, <3>2, <3>3 DEF Removed, Returned
      <3>5. Thread(t)
        BY <1>3 DEF Thread
      <3> HIDE DEF Removed
      <3>6. /\ \A a : a \in tokens => a \in tokens' \/ a = x
            /\ \A a : a \in entries => a \in entries' \/ a = x
        BY <2>3, <3>3
      <3> QED BY <3>4, <3>5, <3>6
    <2>4. CASE UNCHANGED <<entries, tokens>>
      BY <2>4
    <2> QED BY <1>3, <2>3, <2>4 DEF ThreadRemoves
  <1> QED BY <1>1, <1>2, <1>3

LEMMA CachedKept ==
    ASSUME TypeOK, TasksOK, NEW t \in Tasks, Effect(t), NEW a, Cached(a)
    PROVE  Cached(a)' \/ (Forgets(t) /\ job[t].account = a)
  BY CacheKept, RemovedKept DEF Cached

LEMMA EntriesHaveTokens ==
    ASSUME TypeOK, TasksOK, TokensOK, NEW t \in Tasks, Effect(t)
    PROVE  entries' \subseteq tokens'
  <1>1. CASE ~Thread(t)
    BY <1>1, CacheKept DEF TokensOK
  <1>2. CASE Thread(t)
    BY <1>2 DEF Thread, ThreadReads, ThreadAcquires, ThreadRemoves, ThreadRedeems, TokensOK
  <1> QED BY <1>1, <1>2

\* The others keep what they wait for.
LEMMA TokensOfOthers ==
    ASSUME TypeOK, TypeOK', TasksOK, FlightOK, TokensOK, NEW t \in Tasks, Effect(t),
           NEW u \in Tasks \ {t}, Acquiring(u)', ~cancel'[u]
    PROVE  TokenWaits(u)'
  <1>1. /\ ~cancel[u] /\ Acquiring(u) /\ job'[u] = job[u] /\ pc'[u] = pc[u] /\ thread'[u] = thread[u]
    BY EffectCancels, EffectIsAlone DEF Alone, Acquiring
  <1>2. TokenWaits(u)
    BY <1>1 DEF TokensOK
  <1>3. ASSUME pc[u] \in {"find", "serializer"}, Cached(job[u].account)
        PROVE  Cached(job[u].account)'
    <2>1. CASE Forgets(t) /\ job[t].account = job[u].account
      <3>1. job[u].account \in Accounts /\ Group(u) = job[u].account /\ Live(u)
        BY <1>1, <1>3 DEF TasksOK, TaskOK, JobOK, Acquiring, Group, Live
      <3>2. Regrouped(t, job[t].account)
        BY <2>1, ForgetsRegroups
      <3> QED BY <1>1, <2>1, <3>1, <3>2 DEF Regrouped, GroupCancelled
    <2>2. CASE ~(Forgets(t) /\ job[t].account = job[u].account)
      BY <1>1, <1>3, <2>2, CachedKept
    <2> QED BY <2>1, <2>2
  <1> QED BY <1>1, <1>2, <1>3 DEF TokenWaits

\* A wanted acquisition at the front of the line has its token there.
LEMMA TokenAtFront ==
    ASSUME TypeOK, TasksOK, SerializerOK, NEW t \in Tasks, Acquiring(t), Cached(job[t].account),
           serQ = <<>> \/ Holds(serQ, t), RunInThread(t, MsalCall(t))
    PROVE  thread'[t].hadToken /\ thread'[t].running
  <1>1. job[t].account \in tokens
    BY NobodyRemoves DEF Cached, Acquiring
  <1> QED BY <1>1, ThreadEffects

LEMMA TokensOfRunning ==
    ASSUME TypeOK, TypeOK', TasksOK, SerializerOK, FlightOK, TokensOK, NEW t \in Tasks,
           Effect(t), Acquiring(t), ~cancel'[t]
    PROVE  TokenWaits(t)'
  <1>0. job' = job
    BY EffectIsAlone DEF Alone
  <1>1. CASE pc'[t] \notin {"find", "serializer", "msal"}
    BY <1>1 DEF TokenWaits
  <1>2. CASE Led(t)
    BY <1>2 DEF Led, TokenWaits
  <1>3. CASE Thread(t)
    <2>1. UNCHANGED taskVars /\ TokenWaits(t) /\ ~cancel[t]
      <3>1. UNCHANGED taskVars
        BY <1>3 DEF Thread, ThreadReads, ThreadAcquires, ThreadRemoves, ThreadRedeems
      <3> QED BY <3>1 DEF TokensOK, taskVars
    <2>2. ~Forgets(t)
      BY CallOfTask, <2>1 DEF Forgets, SignOutNotFound, SignOutRemoved, Returned, Acquiring
    <2>3. CASE pc[t] = "serializer"
      BY <1>0, <2>1, <2>2, <2>3, CachedKept DEF TokenWaits, taskVars
    <2>4. CASE pc[t] = "find"
      <3>1. thread[t].call = "find" /\ Awaited(t)
        BY <2>1, <2>4 DEF TasksOK, TaskOK, ThreadOK, Awaited
      <3>2. /\ Finish(t, IF job[t].account \in entries THEN "found" ELSE "missing")
            /\ UNCHANGED <<entries, tokens>>
        BY <1>3, <3>1 DEF Thread, ThreadReads, ThreadAcquires, ThreadRemoves, ThreadRedeems
      <3>3. thread'[t].result = IF job[t].account \in entries THEN "found" ELSE "missing"
        BY <3>1, <3>2, FinishedThread
      <3> QED BY <1>0, <2>1, <2>4, <3>2, <3>3 DEF TokenWaits, TokensOK, Cached, taskVars
    <2>5. CASE pc[t] = "msal"
      <3>1. thread[t].call = "acquire" /\ Awaited(t) /\ thread[t].hadToken
        BY <2>1, <2>5 DEF TasksOK, TaskOK, ThreadOK, Awaited, MsalCall, Acquiring, TokenWaits
      <3>2. PICK r \in {"token", "network"} \cup Errors : Finish(t, r)
        BY <1>3, <3>1 DEF Thread, ThreadReads, ThreadAcquires, ThreadRemoves, ThreadRedeems
      <3>3. thread'[t].result = r /\ thread'[t].hadToken
        BY <3>1, <3>2, FinishedThread
      <3>4. r # "none"
        BY AuthManagerAssumption DEF MsalErrorCategory
      <3> QED BY <2>1, <2>5, <3>3, <3>4 DEF TokenWaits, taskVars
    <2> QED BY <1>1, <2>1, <2>3, <2>4, <2>5 DEF taskVars
  <1>4. CASE SerializerGranted(t)
    <2>1. Cached(job[t].account)
      BY <1>4 DEF SerializerGranted, TokensOK, TokenWaits
    <2> QED BY <1>4, <2>1, TokenAtFront, Domains DEF SerializerGranted, TokenWaits
  <1>5. CASE AccountFound(t)
    <2>1. Cached(job[t].account)
      BY <1>5 DEF AccountFound, TokensOK, TokenWaits
    <2>2. EnterSerializer(t)
      BY <1>5 DEF AccountFound
    <2>3. CASE serQ = <<>>
      BY <2>1, <2>2, <2>3, TokenAtFront, Domains DEF EnterSerializer, TokenWaits
    <2>4. CASE serQ # <<>>
      <3>1. pc'[t] = "serializer"
        BY <2>2, <2>4, Domains DEF EnterSerializer
      <3>2. ~Forgets(t)
        BY <1>5, CallOfTask DEF AccountFound, Forgets, SignOutNotFound, SignOutRemoved, Returned, Acquiring
      <3>3. Cached(job[t].account)'
        BY <1>0, <2>1, <3>2, CachedKept
      <3> QED BY <3>1, <3>3 DEF TokenWaits
    <2> QED BY <2>3, <2>4
  <1>6. CASE QuietStep(t) /\ ~SerializerGranted(t) /\ ~AccountFound(t)
    <2>1. FutureResolved(t)
      <3>1. ~cancel[t]
        BY <1>6 DEF QuietStep, FutureResolved, SignOutStarts, SignOutRemoved, AddStarts, ReauthStarts,
                    Redirected, SignInAbandoned, RedeemFailed, Reauthenticated, Added, StartBuilds,
                    StartLists, StartRebuilds
      <3>2. ~SignOutRemoved(t) /\ ~RedeemFailed(t)
        BY <3>1, CallOfTask DEF SignOutRemoved, RedeemFailed, Returned, Acquiring
      <3>3. pc[t] \notin {"browser", "build", "list"}
        BY DEF TasksOK, TaskOK, PlaceOK, Acquiring
      <3> QED
        BY <1>6, <3>2, <3>3
           DEF QuietStep, SignOutStarts, AddStarts, ReauthStarts, Redirected, SignInAbandoned,
               Reauthenticated, Added, StartBuilds, StartLists, StartRebuilds, Acquiring
    <2>2. pc'[t] \in {"sleep", "done"}
      BY <2>1, EndEffect DEF FutureResolved
    <2> QED BY <1>1, <2>2
  <1>7. CASE \/ Joined(t) \/ Refused(t) \/ (\E o : Resolved(t, o)) \/ Dropped(t)
             \/ \E a : Regrouped(t, a)
    <2>1. pc'[t] \notin {"find", "serializer", "msal"}
      BY <1>7 DEF Joined, Refused, Resolved, Dropped, Regrouped
    <2> QED BY <1>1, <2>1
  <1>8. CASE Switch(t)
    BY <1>8 DEF Switch, Acquiring
  <1> QED BY <1>2, <1>3, <1>4, <1>5, <1>6, <1>7, <1>8 DEF Effect

LEMMA TokensStep ==
    ASSUME TypeOK, TypeOK', TasksOK, SerializerOK, FlightOK, TokensOK, NEW t \in Tasks, Effect(t)
    PROVE  TokensOK'
  <1>1. \A u \in Tasks : Acquiring(u)' <=> Acquiring(u)
    BY EffectIsAlone, AloneKeeps
  <1> QED BY <1>1, EntriesHaveTokens, TokensOfOthers, TokensOfRunning DEF TokensOK

LEMMA TokensPaused ==
    ASSUME TokensOK, NEW t \in Tasks, Paused(t)
    PROVE  TokensOK'
  <1>1. UNCHANGED <<entries, tokens, job, pc, thread>> /\ \A u \in Tasks : cancel[u] => cancel'[u]
    BY DEF Paused, cacheVars
  <1> QED BY <1>1 DEF TokensOK, TokenWaits, Cached, Removed, Returned, Acquiring

LEMMA TokensScheduled ==
    ASSUME TokensOK, TasksOK, NEW t \in Tasks, NEW op, NEW a, Scheduled(t, op, a)
    PROVE  TokensOK'
  <1>1. /\ UNCHANGED <<entries, tokens, thread, cancel>>
        /\ pc[t] = "idle" /\ pc'[t] \in {"new", "sleep"}
        /\ \A u \in Tasks \ {t} : pc'[u] = pc[u] /\ job'[u] = job[u]
    BY DEF Scheduled, cacheVars
  <1>2. \A x : Removed(x) => Removed(x)'
    BY <1>1 DEF Removed, Returned
  <1>3. TokenWaits(t)'
    BY <1>1 DEF TokenWaits
  <1>4. ASSUME NEW u \in Tasks \ {t}, Acquiring(u)', ~cancel'[u]
        PROVE  TokenWaits(u)'
    BY <1>1, <1>2, <1>4 DEF TokensOK, TokenWaits, Cached, Acquiring
  <1> QED BY <1>1, <1>3, <1>4 DEF TokensOK

-----------------------------------------------------------------------------
(* The core invariant.                                                      *)

LEMMA InitCore == Init => Core
  <1> SUFFICES ASSUME Init PROVE Core
    OBVIOUS
  <1>1. PICK cached \in SUBSET Accounts : InitRest(cached)
    BY DEF Init, InitCold, InitStarted
  <1>2. /\ present \subseteq Accounts /\ active \in Accounts \cup {NoAccount} /\ app \in BOOLEAN
        /\ rec \in [Accounts -> Record] /\ told \in [Accounts -> AuthState]
    <2>1. CASE InitCold
      BY <2>1, NewType DEF InitCold, AuthState
    <2>2. CASE InitStarted
      <3>1. rec \in [Accounts -> Record]
        BY <2>2, NewType DEF InitStarted
      <3>2. \A a \in Accounts : rec[a].state \in AuthState
        BY <3>1 DEF Record
      <3> QED BY <2>2, <3>1, <3>2 DEF InitStarted
    <2> QED BY <2>1, <2>2 DEF Init
  <1>3. TypeOK
    <2>1. /\ epoch \in [Accounts -> Nat]
          /\ inflight \in [Keys -> Tasks \cup {NoTask}] /\ locks \in [Keys -> Tasks \cup {NoTask}]
          /\ lockQ \in [Tasks -> Seq(Tasks)] /\ serQ \in Seq(Tasks)
          /\ fut \in [Tasks -> Outcomes \cup {"none", "pending"}]
          /\ entries \subseteq Accounts /\ tokens \subseteq Accounts /\ listed \subseteq Accounts
      BY <1>1 DEF InitRest
    <2>2. /\ thread \in [Tasks -> ThreadType] /\ job \in [Tasks -> JobType]
          /\ frame \in [Tasks -> FrameType]
      BY <1>1, NoThreadType, NoJobType, NoFrameType DEF InitRest
    <2>3. /\ pc \in [Tasks -> Points] /\ cancel \in [Tasks -> BOOLEAN]
          /\ out \in [Tasks -> Outcomes \cup {"none"}] /\ asked \in [Tasks -> BOOLEAN]
      BY <1>1 DEF InitRest, Points
    <2> QED BY <1>2, <2>1, <2>2, <2>3 DEF TypeOK
  <1>4. \A t \in Tasks : /\ job[t] = NoJob /\ pc[t] = "idle" /\ ~cancel[t] /\ thread[t] = NoThread
                          /\ fut[t] = "none" /\ lockQ[t] = <<>>
    BY <1>1 DEF InitRest
  <1>5. TasksOK
    BY <1>4, NoThreadFacts
       DEF TasksOK, TaskOK, PlaceOK, JobOK, CancelOK, ThreadOK, FutureOK, NoJob, Acquiring, Leading
  <1>6. SerializerOK
    BY <1>1, <1>4 DEF SerializerOK, Distinct, InQ, InitRest
  <1>7. FlightOK
    <2>1. \A k \in Keys : inflight[k] = NoTask /\ locks[k] = NoTask
      BY <1>1 DEF InitRest
    <2> QED BY <1>4, <2>1
        DEF FlightOK, LocksOK, UnregisteredIsCancelled, RegisteredIsLed, SingleFlight, Leading
  <1>8. TokensOK
    BY <1>1, <1>4 DEF TokensOK, TokenWaits, InitRest
  <1> QED BY <1>3, <1>5, <1>6, <1>7, <1>8 DEF Core

LEMMA CoreOfTask ==
    ASSUME Core, NEW t \in Tasks, Step(t) \/ Thread(t)
    PROVE  Core' /\ Effect(t)
  BY StepEffect, FlightStep, SerializerStep, TokensStep DEF Core

LEMMA CorePaused ==
    ASSUME Core, PausePolling
    PROVE  Core' /\ \E t \in Tasks : Paused(t)
  <1>1. TypeOK' /\ TasksOK'
    BY PausedEffect DEF Core
  <1>2. PICK t \in Tasks : Paused(t)
    BY PausedEffect DEF Core
  <1>3. SerializerOK'
    BY <1>2 DEF Core, Paused, SerializerOK
  <1> QED BY <1>1, <1>2, <1>3, FlightPaused, TokensPaused DEF Core

LEMMA CoreScheduled ==
    ASSUME Core, NEW op \in Ops \ {"pause"}, NEW a \in Accounts \cup {NoAccount}, NEW s \in Scopes,
           Schedule(op, a, s)
    PROVE  Core' /\ \E t \in Tasks : Scheduled(t, op, a)
  <1>1. TypeOK' /\ TasksOK'
    BY ScheduledEffect DEF Core
  <1>2. PICK t \in Tasks : Scheduled(t, op, a)
    BY ScheduledEffect DEF Core
  <1>3. SerializerOK'
    <2>1. serQ' = serQ /\ \A u \in Tasks : InSerializer(u)' <=> InSerializer(u)
      BY <1>2 DEF Scheduled, InSerializer
    <2>2. \A u \in Tasks : pc'[u] = "msal" => pc[u] = "msal"
      BY <1>2 DEF Scheduled
    <2> QED BY <2>1, <2>2 DEF Core, SerializerOK, InSerializer
  <1> QED BY <1>1, <1>2, <1>3, FlightScheduled, TokensScheduled DEF Core

LEMMA CoreStutters ==
    ASSUME Core, UNCHANGED vars
    PROVE  Core'
  <1>1. /\ UNCHANGED <<app, present, rec, epoch, active, told, inflight, locks, lockQ, fut, serQ>>
        /\ UNCHANGED <<entries, tokens, listed, thread, job, pc, frame, cancel, out, asked>>
    BY DEF vars, managerVars, flightVars, cacheVars, taskVars
  <1>2. TypeOK' /\ SerializerOK'
    BY <1>1 DEF Core, TypeOK, SerializerOK
  <1>3. TasksOK'
    BY <1>1 DEF Core, TasksOK, TaskOK, PlaceOK, JobOK, CancelOK, ThreadOK, FutureOK, Acquiring,
                Leading, Live, MsalCall
  <1>4. FlightOK'
    BY <1>1 DEF Core, FlightOK, LocksOK, UnregisteredIsCancelled, RegisteredIsLed, SingleFlight,
                SameCall, Leading, Live, Acquiring, Key
  <1>5. TokensOK'
    BY <1>1 DEF Core, TokensOK, TokenWaits, Cached, Removed, Returned, Acquiring
  <1> QED BY <1>2, <1>3, <1>4, <1>5 DEF Core

\* Every step is a task's, a thread's, pause_polling, a new task's or none.
LEMMA NextCases ==
    ASSUME [Next]_vars
    PROVE  \/ \E t \in Tasks : Step(t) \/ Thread(t)
           \/ \E op \in Ops \ {"pause"}, a \in Accounts \cup {NoAccount}, s \in Scopes : Schedule(op, a, s)
           \/ PausePolling
           \/ UNCHANGED vars
  BY DEF Next, Idle

LEMMA CoreStep == Core /\ [Next]_vars => Core'
  BY NextCases, CoreOfTask, CorePaused, CoreScheduled, CoreStutters

THEOREM CoreInvariant == Spec => []Core
  BY InitCore, CoreStep, PTL DEF Spec

(* TypeOK: every variable keeps its type, through any interleaving of the    *)
(* jobs, their threads and their cancellations.                             *)
THEOREM TypeCorrect == Spec => []TypeOK
  <1>1. Core => TypeOK
    BY DEF Core
  <1> QED BY <1>1, CoreInvariant, PTL

(* SingleFlight, the silent acquisition of auth_manager.py: one MSAL call    *)
(* per account and scopes, and nobody ever waits at the lock behind it.      *)
THEOREM OneCallPerKey == Spec => []SingleFlight
  <1>1. Core => SingleFlight
    BY DEF Core, FlightOK
  <1> QED BY <1>1, CoreInvariant, PTL

(* RegisteredIsLed: the task whose future is registered is still leading     *)
(* that key.                                                                *)
THEOREM NobodyJoinsTheDead == Spec => []RegisteredIsLed
  <1>1. Core => RegisteredIsLed
    BY DEF Core, FlightOK
  <1> QED BY <1>1, CoreInvariant, PTL

(* OneCacheWriter: CacheWriteSerializer lets one awaited MSAL call write the *)
(* token cache at a time.                                                   *)
THEOREM WritersAreSerialized == Spec => []OneCacheWriter
  <1>1. Core => OneCacheWriter
    BY DEF Core, SerializerOK, Holds, OneCacheWriter
  <1> QED BY <1>1, CoreInvariant, PTL

-----------------------------------------------------------------------------
(* Without a start() running against it: an account is dropped by its        *)
(* sign_out alone, which cancels the account's work.                        *)

LEMMA PresentChanges ==
    ASSUME "start" \notin Ops, TasksOK, NEW t \in Tasks, Effect(t)
    PROVE  \/ present' = present
           \/ Added(t) /\ present' = present \cup {thread[t].who}
           \/ Forgets(t) /\ present' = present \ {job[t].account}
  <1>1. ~StartRebuilds(t)
    BY DEF TasksOK, TaskOK, PlaceOK, StartRebuilds
  <1>2. CASE QuietStep(t) /\ ~Added(t)
    <2>1. UNCHANGED present
      BY <1>1, <1>2
         DEF QuietStep, SerializerGranted, FutureResolved, AccountFound, SignOutStarts,
             SignOutRemoved, AddStarts, ReauthStarts, Redirected, SignInAbandoned, RedeemFailed,
             Reauthenticated, StartBuilds, StartLists, managerVars
    <2> QED BY <2>1
  <1>3. CASE Added(t)
    BY <1>3 DEF Added
  <1>4. CASE Thread(t)
    BY <1>4 DEF Thread, ThreadReads, ThreadAcquires, ThreadRemoves, ThreadRedeems, managerVars
  <1>5. CASE Forgets(t) /\ Forget(t)
    BY <1>5 DEF Forget
  <1>6. CASE \/ AcquireJoins(t) \/ LeadStarts(t, LockOf(t)) \/ LeadRefused(t, LockOf(t))
             \/ AcquireNotFound(t) \/ AcquireReturns(t) \/ Cancelled(t) \/ Switch(t)
    BY <1>6 DEF AcquireJoins, Join, LeadStarts, LeadRefused, AcquireNotFound, AcquireReturns,
                Cancelled, Switch, managerVars
  <1> QED BY <1>2, <1>3, <1>4, <1>5, <1>6 DEF Effect

\* Where a step that does not leave the task in msal or the browser takes it.
LEMMA QuietPlaces ==
    ASSUME TypeOK, NEW t \in Tasks, QuietStep(t),
           ~SerializerGranted(t), ~AccountFound(t), ~Redirected(t)
    PROVE  /\ pc'[t] \notin {"serializer", "msal"}
           /\ pc'[t] = "browser" => AddStarts(t) \/ ReauthStarts(t)
  <1>1. CASE \/ FutureResolved(t) \/ SignOutRemoved(t) \/ SignInAbandoned(t) \/ RedeemFailed(t)
             \/ Reauthenticated(t) \/ Added(t) \/ StartRebuilds(t)
    <2>1. PICK o : End(t, o)
      <3>1. CASE SignOutRemoved(t)
        BY <3>1 DEF SignOutRemoved, Forget
      <3>2. CASE ~SignOutRemoved(t)
        BY <1>1, <3>2 DEF FutureResolved, SignInAbandoned, RedeemFailed, Reauthenticated,
                          Added, StartRebuilds
      <3> QED BY <3>1, <3>2
    <2> QED BY <2>1, EndEffect
  <1>2. CASE \/ SignOutStarts(t) \/ StartBuilds(t) \/ AddStarts(t) \/ ReauthStarts(t) \/ StartLists(t)
    <2>1. \/ \E o \in Outcomes : End(t, o)
          \/ \E p \in {"find", "browser", "build", "list"} :
                /\ pc' = [pc EXCEPT ![t] = p]
                /\ p = "browser" => AddStarts(t) \/ ReauthStarts(t)
      BY <1>2 DEF SignOutStarts, StartBuilds, AddStarts, ReauthStarts, StartLists, Outcomes
    <2>2. CASE \E o \in Outcomes : End(t, o)
      BY <2>2, EndEffect
    <2>3. CASE \E p \in {"find", "browser", "build", "list"} :
                /\ pc' = [pc EXCEPT ![t] = p]
                /\ p = "browser" => AddStarts(t) \/ ReauthStarts(t)
      BY <2>3, Domains
    <2> QED BY <2>1, <2>2, <2>3
  <1> QED BY <1>1, <1>2 DEF QuietStep

\* A call that has just been handed to its thread has not returned.
LEMMA CallBegins ==
    ASSUME TypeOK, NEW t \in Tasks, Effect(t), ~Thread(t), pc'[t] = "msal"
    PROVE  thread'[t].result = "none"
  <1>1. CASE SerializerGranted(t)
    BY <1>1, ThreadEffects DEF SerializerGranted
  <1>2. CASE AccountFound(t) \/ Redirected(t)
    <2>1. EnterSerializer(t)
      BY <1>2 DEF AccountFound, Redirected
    <2> QED BY <2>1, ThreadEffects, NoThreadFacts DEF EnterSerializer
  <1>3. CASE QuietStep(t) /\ ~SerializerGranted(t) /\ ~AccountFound(t) /\ ~Redirected(t)
    BY <1>3, QuietPlaces
  <1>4. CASE Led(t)
    BY <1>4 DEF Led
  <1>5. CASE \/ Joined(t) \/ Refused(t) \/ (\E o : Resolved(t, o)) \/ Dropped(t)
             \/ \E a : Regrouped(t, a)
    <2>1. pc'[t] \notin {"find", "serializer", "msal"}
      BY <1>5 DEF Joined, Refused, Resolved, Dropped, Regrouped
    <2> QED BY <2>1
  <1>6. CASE Switch(t)
    <2>1. End(t, "ok")
      BY <1>6 DEF Switch
    <2> QED BY <2>1, EndEffect
  <1> QED BY <1>1, <1>2, <1>3, <1>4, <1>5, <1>6 DEF Effect

LEMMA AddedIsCached ==
    ASSUME TypeOK, TasksOK, SerializerOK, ListedOK, NEW t \in Tasks, Effect(t),
           NEW u \in Tasks, job'[u].op = "add", pc'[u] = "msal", thread'[u].result = "token"
    PROVE  thread'[u].who \in entries'
  <1>1. job' = job
    BY EffectIsAlone DEF Alone
  <1>2. CASE u # t
    <2>1. pc[u] = "msal" /\ thread'[u] = thread[u]
      BY <1>2, EffectIsAlone DEF Alone
    <2>2. thread[u].who \in entries
      BY <1>1, <2>1 DEF ListedOK
    <2>3. ~ThreadRemoves(t)
      BY <1>2, <2>1 DEF ThreadRemoves, TasksOK, TaskOK, ThreadOK, SerializerOK, Holds
    <2>4. entries \subseteq entries'
      <3>1. CASE ~Thread(t)
        BY <3>1, CacheKept
      <3>2. CASE Thread(t)
        BY <2>3, <3>2 DEF Thread, ThreadReads, ThreadAcquires, ThreadRedeems
      <3> QED BY <3>1, <3>2
    <2> QED BY <2>1, <2>2, <2>4
  <1>3. CASE u = t /\ Thread(t)
    <2>1. pc[t] = "msal"
      BY <1>3 DEF Thread, ThreadReads, ThreadAcquires, ThreadRemoves, ThreadRedeems, taskVars
    <2>2. /\ ~cancel[t] /\ thread[t].call = "redeem"
          /\ Awaited(t)
      BY <1>1, <1>3, <2>1 DEF TasksOK, TaskOK, CancelOK, ThreadOK, MsalCall, Awaited
    <2>3. ThreadRedeems(t)
      BY <1>3, <2>2 DEF Thread, ThreadReads, ThreadAcquires, ThreadRemoves
    <2>4. ASSUME NEW r \in Errors \cup {"network"}, Finish(t, r)
          PROVE  FALSE
      <3>1. thread'[t].result = r
        BY <2>2, <2>4, FinishedThread
      <3> QED BY <1>3, <3>1, AuthManagerAssumption DEF MsalErrorCategory
    <2>5. PICK a \in Accounts :
             /\ thread' = [thread EXCEPT ![t] =
                   [@ EXCEPT !.running = FALSE, !.result = "token", !.who = a]]
             /\ entries' = entries \cup {a}
      BY <2>2, <2>3, <2>4 DEF ThreadRedeems
    <2>6. thread'[t].who = a
      <3>1. thread[t] \in ThreadType /\ DOMAIN thread = Tasks
        BY DEF TypeOK
      <3>2. DOMAIN thread[t] = {"call", "running", "hadToken", "result", "who"}
        BY <3>1 DEF ThreadType
      <3>3. thread'[t] = [thread[t] EXCEPT !.running = FALSE, !.result = "token", !.who = a]
        BY <2>5, <3>1
      <3> QED BY <3>2, <3>3
    <2> QED BY <1>3, <2>5, <2>6
  <1>4. CASE u = t /\ ~Thread(t)
    BY <1>4, CallBegins
  <1> QED BY <1>2, <1>3, <1>4

LEMMA ListedStep ==
    ASSUME "start" \notin Ops, Core, ListedOK, NEW t \in Tasks, Effect(t)
    PROVE  ListedOK'
  <1>0. TypeOK /\ TasksOK /\ SerializerOK
    BY DEF Core
  <1>1. ASSUME NEW a \in present'
        PROVE  (a \in entries \/ Removed(a))'
    <2>1. CASE a \in present
      <3>1. a \in entries \/ Removed(a)
        BY <2>1 DEF ListedOK
      <3>2. ~(Forgets(t) /\ job[t].account = a)
        <4> SUFFICES ASSUME Forgets(t), job[t].account = a PROVE FALSE
          OBVIOUS
        <4>1. Forget(t)
          BY DEF Forgets, SignOutNotFound, SignOutRemoved
        <4> QED BY <1>1, <4>1 DEF Forget
      <3> QED BY <1>0, <3>1, <3>2, CacheKept, RemovedKept
    <2>2. CASE a \notin present
      <3>1. Added(t) /\ a = thread[t].who
        BY <1>0, <1>1, <2>2, PresentChanges
      <3>2. a \in entries
        BY <3>1 DEF Added, ListedOK
      <3> QED BY <1>0, <3>2, CacheKept
    <2> QED BY <2>1, <2>2
  <1>2. \A u \in Tasks : job'[u].op = "add" /\ pc'[u] = "msal" /\ thread'[u].result = "token"
                            => thread'[u].who \in entries'
    BY <1>0, AddedIsCached
  <1> QED BY <1>1, <1>2 DEF ListedOK

\* A call begins for an account the manager lists.
LEMMA WorkBegins ==
    ASSUME TypeOK, TasksOK, NEW t \in Tasks, Effect(t), (Leading(t) \/ Signing(t))'
    PROVE  Leading(t) \/ Signing(t) \/ job[t].account \in present
  <1>0. job' = job
    BY EffectIsAlone DEF Alone
  <1>1. CASE LeadStarts(t, LockOf(t))
    BY <1>1 DEF LeadStarts
  <1>2. CASE ReauthStarts(t)
    <2>1. CASE job[t].account \in present
      BY <2>1
    <2>2. CASE job[t].account \notin present
      <3>1. End(t, "unknown")
        BY <1>2, <2>2 DEF ReauthStarts
      <3> QED BY <3>1, EndEffect DEF Leading, Signing
    <2> QED BY <2>1, <2>2
  <1>3. CASE Quiet(t) /\ (SerializerGranted(t) \/ AccountFound(t) \/ Redirected(t))
    <2>1. Leading(t)' => Leading(t)
      BY <1>3 DEF Quiet
    <2>2. Signing(t)' => Signing(t)
      BY <1>0, <1>3 DEF Signing, SerializerGranted, AccountFound, Redirected, TasksOK, TaskOK, PlaceOK, Acquiring
    <2> QED BY <2>1, <2>2
  <1>4. CASE /\ QuietStep(t) /\ Quiet(t) /\ ~ReauthStarts(t)
             /\ ~SerializerGranted(t) /\ ~AccountFound(t) /\ ~Redirected(t)
    <2>1. Leading(t)' => Leading(t)
      BY <1>4 DEF Quiet
    <2>2. Signing(t)' => AddStarts(t)
      BY <1>4, QuietPlaces DEF Signing
    <2>3. ~(Signing(t)' /\ AddStarts(t))
      BY <1>0 DEF Signing, AddStarts
    <2> QED BY <2>1, <2>2, <2>3
  <1>5. CASE Thread(t)
    <2>1. pc' = pc
      BY <1>5 DEF Thread, ThreadReads, ThreadAcquires, ThreadRemoves, ThreadRedeems, taskVars
    <2> QED BY <1>0, <2>1 DEF Leading, Signing
  <1>6. CASE \/ Joined(t) \/ Refused(t) \/ (\E o : Resolved(t, o)) \/ Dropped(t)
             \/ \E a : Regrouped(t, a)
    <2>1. pc'[t] \in {"future", "sleep", "done"}
      BY <1>6 DEF Joined, Refused, Resolved, Dropped, Regrouped
    <2> QED BY <2>1 DEF Leading, Signing
  <1>7. CASE Switch(t)
    <2>1. End(t, "ok")
      BY <1>7 DEF Switch
    <2> QED BY <2>1, EndEffect DEF Leading, Signing
  <1> QED BY <1>1, <1>2, <1>3, <1>4, <1>5, <1>6, <1>7 DEF Effect

LEMMA NoWorkStep ==
    ASSUME "start" \notin Ops, Core, TypeOK', NoWorkForSignedOut, NEW t \in Tasks, Effect(t)
    PROVE  NoWorkForSignedOut'
  <1>0. TypeOK /\ TasksOK
    BY DEF Core
  <1>1. \A u \in Tasks : Leading(u) \/ Signing(u) => job[u].account \in present \/ cancel[u]
    BY DEF NoWorkForSignedOut, Signing
  <1>2. job' = job
    BY EffectIsAlone DEF Alone
  <1>3. ASSUME NEW u \in Tasks \ {t}, (Leading(u) \/ Signing(u))'
        PROVE  job[u].account \in present' \/ cancel'[u]
    <2>1. Leading(u) \/ Signing(u)
      BY <1>2, <1>3, EffectIsAlone DEF Alone, Leading, Signing
    <2>2. CASE cancel[u]
      BY <2>2, EffectCancels
    <2>3. CASE job[u].account \in present /\ ~Forgets(t)
      BY <1>0, <2>3, PresentChanges
    <2>4. CASE job[u].account \in present /\ Forgets(t)
      <3>1. Regrouped(t, job[t].account) /\ present' = present \ {job[t].account}
        BY <1>0, <2>4, ForgetsRegroups DEF Core, Forget
      <3>2. CASE job[u].account = job[t].account
        <4>1. Live(u) /\ Group(u) = job[u].account /\ job[u].account \in Accounts
          BY <1>0, <2>1 DEF Leading, Signing, Live, Group, TasksOK, TaskOK, JobOK
        <4> QED BY <3>1, <3>2, <4>1 DEF Regrouped, GroupCancelled
      <3>3. CASE job[u].account # job[t].account
        BY <2>4, <3>1, <3>3
      <3> QED BY <3>2, <3>3
    <2> QED BY <1>1, <2>1, <2>2, <2>3, <2>4
  <1>4. ASSUME (Leading(t) \/ Signing(t))'
        PROVE  job[t].account \in present' \/ cancel'[t]
    <2>1. pc'[t] \in {"find", "browser", "serializer", "msal"}
      BY <1>4 DEF Leading, Signing
    <2>2. ~Forgets(t)
      <3> SUFFICES ASSUME Forgets(t) PROVE FALSE
        OBVIOUS
      <3>1. End(t, "ok")
        BY DEF Forgets, SignOutNotFound, SignOutRemoved, Forget
      <3> QED BY <1>0, <2>1, <3>1, EndEffect
    <2>3. ~Cancelled(t)
      <3> SUFFICES ASSUME Cancelled(t) PROVE FALSE
        OBVIOUS
      <3>1. PICK o : End(t, o)
        BY DEF Cancelled, EndLead
      <3> QED BY <1>0, <2>1, <3>1, EndEffect
    <2>4. cancel'[t] <=> cancel[t]
      BY <2>3, EffectCancels
    <2>5. job[t].account \in present \/ cancel[t]
      BY <1>0, <1>1, <1>4, WorkBegins
    <2>6. job[t].account \in present => job[t].account \in present'
      BY <1>0, <2>2, PresentChanges
    <2> QED BY <2>4, <2>5, <2>6
  <1> QED BY <1>2, <1>3, <1>4 DEF NoWorkForSignedOut, Signing

Listing == Core /\ ListedOK /\ NoWorkForSignedOut

LEMMA InitListing ==
    ASSUME "start" \notin Ops, Init
    PROVE  Listing
  <1>1. PICK cached \in SUBSET Accounts : present = cached /\ InitRest(cached)
    BY DEF Init, InitStarted
  <1>2. \A t \in Tasks : pc[t] = "idle"
    BY <1>1 DEF InitRest
  <1> QED BY <1>1, <1>2, InitCore DEF Listing, ListedOK, NoWorkForSignedOut, Leading, InitRest

LEMMA ListingStep ==
    ASSUME "start" \notin Ops, Listing, [Next]_vars
    PROVE  Listing'
  <1>0. Core /\ Core' /\ ListedOK /\ NoWorkForSignedOut
    BY CoreStep DEF Listing
  <1>1. CASE \E t \in Tasks : Step(t) \/ Thread(t)
    <2>1. PICK t \in Tasks : Effect(t)
      BY <1>0, <1>1, CoreOfTask
    <2>2. TypeOK'
      BY <1>0 DEF Core
    <2> QED BY <1>0, <2>1, <2>2, ListedStep, NoWorkStep DEF Listing
  <1>2. CASE \E op \in Ops \ {"pause"}, a \in Accounts \cup {NoAccount}, s \in Scopes : Schedule(op, a, s)
    <2>1. PICK t \in Tasks : \E op, a : Scheduled(t, op, a)
      BY <1>0, <1>2, CoreScheduled
    <2>2. /\ UNCHANGED <<present, entries, thread, cancel>> /\ pc[t] = "idle" /\ pc'[t] \in {"new", "sleep"}
          /\ \A u \in Tasks \ {t} : pc'[u] = pc[u] /\ job'[u] = job[u]
      BY <2>1 DEF Scheduled, managerVars, cacheVars
    <2>3. \A x : Removed(x) => Removed(x)'
      BY <2>2 DEF Removed, Returned
    <2>4. ListedOK'
      BY <1>0, <2>2, <2>3 DEF ListedOK
    <2>5. NoWorkForSignedOut'
      BY <1>0, <2>2 DEF NoWorkForSignedOut, Leading
    <2> QED BY <1>0, <2>4, <2>5 DEF Listing
  <1>3. CASE PausePolling
    <2>1. PICK t \in Tasks : Paused(t)
      BY <1>0, <1>3, CorePaused
    <2>2. /\ UNCHANGED <<present, entries, thread, job, pc>>
          /\ \A u \in Tasks : cancel[u] => cancel'[u]
      BY <2>1 DEF Paused, managerVars, cacheVars
    <2> QED BY <1>0, <2>2 DEF Listing, ListedOK, Removed, Returned, NoWorkForSignedOut, Leading
  <1>4. CASE UNCHANGED vars
    <2>1. UNCHANGED <<present, entries, thread, job, pc, cancel>>
      BY <1>4 DEF vars, managerVars, cacheVars, taskVars
    <2> QED BY <1>0, <2>1 DEF Listing, ListedOK, Removed, Returned, NoWorkForSignedOut, Leading
  <1> QED BY <1>1, <1>2, <1>3, <1>4, NextCases

(* NoWorkForSignedOut, sign_out's destroyed task group (FR-3-AC-3), wherever *)
(* start() is not among the jobs: once an account is gone, every call that   *)
(* had begun for it has a CancelledError on its way.                        *)
THEOREM SignOutLeavesNoWork ==
    ASSUME "start" \notin Ops
    PROVE  Spec => []NoWorkForSignedOut
  <1>1. Init => Listing
    BY InitListing
  <1>2. Listing /\ [Next]_vars => Listing'
    BY ListingStep
  <1>3. Listing => NoWorkForSignedOut
    BY DEF Listing
  <1> QED BY <1>1, <1>2, <1>3, PTL DEF Spec

(* ListedAccountsAreCached, wherever start() is not among the jobs: an       *)
(* account of self.accounts has its entry in the MSAL cache, but for the one *)
(* a sign_out has just removed.                                             *)
THEOREM ListedAreCached ==
    ASSUME "start" \notin Ops
    PROVE  Spec => []ListedAccountsAreCached
  <1>1. Init => Listing
    BY InitListing
  <1>2. Listing /\ [Next]_vars => Listing'
    BY ListingStep
  <1>3. Listing => ListedAccountsAreCached
    BY DEF Listing, ListedOK, Removed, ListedAccountsAreCached
  <1> QED BY <1>1, <1>2, <1>3, PTL DEF Spec

-----------------------------------------------------------------------------
(* Without pause_polling, which cancels one task of a group: calls for a key *)
(* are cancelled together, and a wanted caller follows a wanted leader.      *)

\* One key, one group.
LEMMA KeyOfGroup ==
    ASSUME NEW t, NEW u, Acquiring(t), Acquiring(u), Key(t) = Key(u)
    PROVE  Group(t) = Group(u) /\ Group(t) = job[t].account
  BY DEF Key, Group, Acquiring

\* A task nobody can have joined: it has no future yet, or nobody awaits it.
LEMMA BeginningIsUnjoined ==
    ASSUME TasksOK, NEW t \in Tasks, Beginning(t), NEW u \in Tasks, pc[u] = "future"
    PROVE  frame[u].leader # t
  BY DEF Beginning, TasksOK, TaskOK, FutureOK

\* What a leader that nobody cancelled ends with.
LEMMA WantedAnswer ==
    ASSUME TypeOK, TasksOK, TokensOK, NEW t \in Tasks, NEW o, Resolved(t, o), ~cancel[t],
           \/ AcquireNotFound(t) /\ o = "auth_error"
           \/ AcquireReturns(t) /\ o = Answer(thread[t].result)
    PROVE  o \in {"token", "auth_error"}
  <1>1. CASE AcquireReturns(t)
    <2>1. pc[t] = "msal" /\ ~thread[t].running /\ Acquiring(t)
      BY <1>1 DEF AcquireReturns, Returned, Resolved, Leading, Acquiring
    <2>2. thread[t].result # "none"
      BY <2>1 DEF TokensOK, TokenWaits
    <2> QED BY <1>1, <2>2 DEF Answer, AcquireNotFound
  <1> QED BY <1>1

LEMMA GroupStep ==
    ASSUME Core, GroupOK, JoinedOK, NEW t \in Tasks, Effect(t)
    PROVE  GroupOK'
  <1>0. TypeOK /\ TasksOK /\ FlightOK /\ Alone(t)
    BY EffectIsAlone DEF Core
  <1>1. /\ \A u : Key(u)' = Key(u) /\ (Acquiring(u)' <=> Acquiring(u))
        /\ \A u \in Tasks \ {t} : (Leading(u)' <=> Leading(u)) /\ (Live(u)' <=> Live(u))
    BY <1>0, AloneKeeps
  <1>2. CASE Quiet(t) \/ Joined(t) \/ Refused(t)
    <2>1. /\ cancel' = cancel /\ (Live(t)' => Live(t)) /\ (Leading(t)' => Leading(t))
      BY <1>2 DEF Quiet, Joined, Refused
    <2>2. \A l \in Tasks : Leading(l)' => fut'[l] = fut[l]
      BY <1>2 DEF Quiet, Joined, Refused
    <2>3. \A l, u \in Tasks : /\ Leading(l)' => Leading(l)
                              /\ SameCall(l, u)' => SameCall(l, u)
      BY <1>1, <2>1 DEF SameCall
    <2> QED BY <2>1, <2>2, <2>3 DEF GroupOK
  <1>3. CASE Led(t)
    <2>1. cancel' = cancel /\ Live(t) /\ ~cancel[t] /\ fut'[t] = "pending"
          /\ \A u \in Tasks \ {t} : fut'[u] = fut[u]
      BY <1>3 DEF Led
    <2>2. \A l \in Tasks \ {t}, u \in Tasks : SameCall(l, u)' => SameCall(l, u)
      BY <1>1, <2>1 DEF SameCall
    <2> QED BY <1>1, <2>1, <2>2 DEF GroupOK
  <1>4. CASE (\E o : Resolved(t, o)) \/ Dropped(t)
    <2>1. /\ ~Leading(t)' /\ (Leading(t) \/ ~Live(t)')
          /\ \A u \in Tasks \ {t} : cancel'[u] = cancel[u] /\ fut'[u] = fut[u]
      BY <1>4 DEF Resolved, Dropped, Live
    <2>2. ASSUME NEW l \in Tasks, NEW u \in Tasks, Leading(l)', cancel'[l], SameCall(l, u)'
          PROVE  cancel'[u]
      <3>1. l # t /\ Leading(l) /\ cancel[l]
        BY <1>1, <2>1, <2>2
      <3>2. u # t
        <4>1. CASE ~Live(t)'
          BY <2>2, <4>1 DEF SameCall
        <4>2. CASE Leading(t) /\ u = t
          <5>1. Key(l) = Key(t)
            BY <1>1, <2>2, <4>2 DEF SameCall
          <5> QED BY <1>0, <3>1, <4>2, <5>1 DEF FlightOK, SingleFlight
        <4> QED BY <2>1, <4>1, <4>2
      <3>3. SameCall(l, u)
        BY <1>1, <2>2, <3>1, <3>2 DEF SameCall
      <3> QED BY <2>1, <3>1, <3>2, <3>3 DEF GroupOK
    <2>3. ASSUME NEW l \in Tasks, Leading(l)', fut'[l] = "cancelled"
          PROVE  cancel'[l]
      BY <1>1, <2>1, <2>3 DEF GroupOK
    <2> QED BY <2>2, <2>3 DEF GroupOK
  <1>5. CASE \E a : Regrouped(t, a)
    <2>1. PICK a : Regrouped(t, a)
      BY <1>5
    <2>2. GroupCancelled(a) /\ ~Acquiring(t)
      BY <2>1 DEF Regrouped, Acquiring
    <2>3. ~Leading(t) /\ ~Leading(t)'
      BY <1>1, <2>2 DEF Leading, Acquiring
    <2>4. ASSUME NEW l \in Tasks, NEW u \in Tasks, Leading(l)', cancel'[l], SameCall(l, u)'
          PROVE  cancel'[u]
      <3>1. l # t /\ u # t /\ Leading(l) /\ SameCall(l, u)
        BY <1>1, <2>2, <2>3, <2>4 DEF SameCall
      <3>2. CASE cancel[l]
        <4>1. cancel[u]
          BY <3>1, <3>2 DEF GroupOK
        <4> QED BY <2>2, <4>1 DEF GroupCancelled
      <3>3. CASE ~cancel[l]
        <4>1. Live(l) /\ a \in Accounts /\ Group(l) = a
          BY <2>2, <2>4, <3>3 DEF GroupCancelled
        <4>2. Group(u) = a /\ Live(u)
          BY <1>0, <3>1, <4>1, KeyOfGroup, LeadingFacts DEF SameCall
        <4> QED BY <2>2, <4>1, <4>2 DEF GroupCancelled
      <3> QED BY <3>2, <3>3
    <2>5. ASSUME NEW l \in Tasks, Leading(l)', fut'[l] = "cancelled"
          PROVE  cancel'[l]
      <3>1. Leading(l)
        BY <1>1, <2>3, <2>5
      <3>2. CASE fut[l] = "cancelled"
        <4>1. cancel[l]
          BY <3>1, <3>2 DEF GroupOK
        <4> QED BY <2>2, <4>1 DEF GroupCancelled
      <3>3. CASE fut[l] # "cancelled"
        <4>1. PICK u \in Tasks : /\ pc[u] = "future" /\ ~cancel[u] /\ frame[u].leader = l
                                 /\ Group(u) = a /\ a \in Accounts
          BY <2>2, <2>5, <3>3 DEF GroupCancelled
        <4>2. Acquiring(l) /\ Key(l) = Key(u) /\ Acquiring(u)
          BY <1>0, <4>1 DEF JoinedOK, TasksOK, TaskOK, PlaceOK
        <4>3. Group(l) = a /\ Live(l)
          BY <1>0, <3>1, <4>1, <4>2, KeyOfGroup, LeadingFacts
        <4> QED BY <2>2, <4>1, <4>3 DEF GroupCancelled
      <3> QED BY <3>2, <3>3
    <2> QED BY <2>4, <2>5 DEF GroupOK
  <1> QED BY <1>2, <1>3, <1>4, <1>5 DEF Effect

\* The part of JoinedOK that is about one caller.
Follows(u) ==
    LET l == frame[u].leader IN
    /\ Acquiring(l) /\ Key(l) = Key(u)
    /\ ~cancel[u] => \/ fut[l] = "pending" /\ Leading(l) /\ ~cancel[l]
                     \/ fut[l] \in {"token", "auth_error"} /\ ~Leading(l)

LEMMA FollowsKept ==
    ASSUME NEW t \in Tasks, Alone(t), NEW u \in Tasks, Follows(u), frame'[u].leader = frame[u].leader,
           LET l == frame[u].leader IN
           \/ cancel'[u]
           \/ /\ ~cancel[u] /\ (Leading(l)' <=> Leading(l)) /\ fut'[l] = fut[l]
              /\ Leading(l) /\ ~cancel[l] => ~cancel'[l]
    PROVE  Follows(u)'
  <1>1. PICK l : l = frame[u].leader
    OBVIOUS
  <1>2. /\ Acquiring(l)' <=> Acquiring(l)
        /\ Key(l)' = Key(l) /\ Key(u)' = Key(u)
    BY AloneKeeps
  <1>3. /\ Acquiring(l)' /\ Key(l)' = Key(u)'
        /\ ~cancel'[u] => \/ fut'[l] = "pending" /\ Leading(l)' /\ ~cancel'[l]
                          \/ fut'[l] \in {"token", "auth_error"} /\ ~Leading(l)'
    BY <1>1, <1>2 DEF Follows
  <1> QED BY <1>1, <1>3 DEF Follows

LEMMA JoinedStep ==
    ASSUME Core, GroupOK, JoinedOK, NEW t \in Tasks, Effect(t)
    PROVE  JoinedOK'
  <1>0. TypeOK /\ TasksOK /\ FlightOK /\ TokensOK /\ Alone(t)
    BY EffectIsAlone DEF Core
  <1> SUFFICES ASSUME NEW u \in Tasks, pc'[u] = "future"
               PROVE  Follows(u)'
    BY DEF JoinedOK, Follows
  <1>1. /\ \A v : Key(v)' = Key(v) /\ (Acquiring(v)' <=> Acquiring(v))
        /\ \A v \in Tasks \ {t} : (Leading(v)' <=> Leading(v)) /\ (Live(v)' <=> Live(v))
    BY <1>0, AloneKeeps
  <1>2. PICK l : l = frame[u].leader
    OBVIOUS
  <1>3. ASSUME pc[u] = "future"
        PROVE  Follows(u) /\ l \in Tasks /\ ~Leading(u)
    BY <1>0, <1>2, <1>3 DEF JoinedOK, Follows, TasksOK, TaskOK, FutureOK, Leading
  <1>4. u # t => pc[u] = "future" /\ frame'[u] = frame[u]
    BY <1>0 DEF Alone
  <1>5. CASE Quiet(t)
    <2>1. /\ pc[u] = "future" /\ frame'[u] = frame[u]
          /\ cancel' = cancel /\ fut' = fut /\ (Leading(t)' <=> Leading(t))
      BY <1>4, <1>5 DEF Quiet
    <2> QED BY <1>0, <1>1, <1>2, <1>3, <2>1, FollowsKept
  <1>6. CASE Joined(t)
    <2>1. CASE u # t
      BY <1>0, <1>1, <1>2, <1>3, <1>4, <1>6, <2>1, FollowsKept DEF Joined
    <2>2. CASE u = t
      <3>1. PICK m \in Tasks : m = inflight[Key(t)]
        BY <1>0, <1>6 DEF Joined, TypeOK
      <3>2. /\ Leading(m) /\ Key(m) = Key(t) /\ m # t
            /\ Acquiring(t) /\ Live(t) /\ ~cancel[t] /\ UNCHANGED <<cancel, fut>>
            /\ frame'[t].leader = m
        BY <1>0, <1>6, <3>1 DEF Joined, FlightOK, RegisteredIsLed
      <3>3. ~cancel[m]
        BY <3>2 DEF GroupOK, SameCall
      <3>4. fut[m] = "pending" /\ Acquiring(m)
        BY <1>0, <3>2, <3>3, LeadingFacts DEF GroupOK
      <3>5. Leading(m)' /\ Acquiring(m)' /\ Key(m)' = Key(t)'
        BY <1>1, <3>2, <3>4
      <3> QED BY <2>2, <3>2, <3>3, <3>4, <3>5 DEF Follows
    <2> QED BY <2>1, <2>2
  <1>7. CASE (Led(t) /\ Beginning(t)) \/ Refused(t)
    <2>1. /\ cancel' = cancel /\ pc'[t] # "future" /\ Beginning(t)
          /\ \A v \in Tasks \ {t} : fut'[v] = fut[v]
      BY <1>7 DEF Led, Refused
    <2>2. u # t /\ l # t
      BY <1>0, <1>2, <1>4, <2>1, BeginningIsUnjoined
    <2> QED BY <1>0, <1>1, <1>2, <1>3, <1>4, <2>1, <2>2, FollowsKept
  <1>8. CASE \E o : /\ Resolved(t, o)
                    /\ \/ AcquireNotFound(t) /\ o = "auth_error"
                       \/ AcquireReturns(t) /\ o = Answer(thread[t].result)
                       \/ Cancelled(t)
    <2>1. PICK o : /\ Resolved(t, o)
                   /\ \/ AcquireNotFound(t) /\ o = "auth_error"
                      \/ AcquireReturns(t) /\ o = Answer(thread[t].result)
                      \/ Cancelled(t)
      BY <1>8
    <2>2. /\ \A v \in Tasks \ {t} : cancel'[v] = cancel[v] /\ fut'[v] = fut[v]
          /\ Leading(t) /\ ~Leading(t)' /\ pc'[t] # "future"
          /\ fut'[t] = IF fut[t] = "cancelled" THEN "cancelled" ELSE o
      BY <2>1 DEF Resolved
    <2>3. u # t /\ frame'[u] = frame[u] /\ Follows(u) /\ l \in Tasks
      BY <1>3, <1>4, <2>2
    <2>4. CASE l # t
      BY <1>0, <1>1, <1>2, <2>2, <2>3, <2>4, FollowsKept
    <2>5. CASE l = t /\ ~cancel[u]
      <3>1. fut[t] = "pending" /\ ~cancel[t] /\ Acquiring(t) /\ Key(t) = Key(u)
        BY <1>2, <2>2, <2>3, <2>5 DEF Follows
      <3>2. o \in {"token", "auth_error"}
        BY <1>0, <2>1, <3>1, WantedAnswer DEF Cancelled
      <3>3. fut'[t] \in {"token", "auth_error"} /\ ~Leading(t)' /\ Acquiring(t)' /\ Key(t)' = Key(u)'
        BY <1>1, <2>2, <3>1, <3>2
      <3>4. frame'[u].leader = t
        BY <1>2, <2>3, <2>5
      <3> QED BY <3>3, <3>4 DEF Follows
    <2>6. CASE l = t /\ cancel[u]
      BY <1>0, <1>2, <2>2, <2>3, <2>6, FollowsKept
    <2> QED BY <2>4, <2>5, <2>6
  <1>9. CASE Dropped(t)
    <2>1. /\ \A v \in Tasks \ {t} : cancel'[v] = cancel[v]
          /\ fut' = fut /\ ~Leading(t) /\ ~Leading(t)' /\ pc'[t] # "future" /\ ~cancel'[t]
      BY <1>9 DEF Dropped
    <2>2. u # t
      BY <2>1
    <2> QED BY <1>0, <1>1, <1>2, <1>3, <1>4, <2>1, <2>2, FollowsKept
  <1>10. CASE \E a : Regrouped(t, a)
    <2>1. PICK a : Regrouped(t, a)
      BY <1>10
    <2>2. GroupCancelled(a) /\ ~Acquiring(t) /\ pc'[t] # "future"
      BY <2>1 DEF Regrouped, Acquiring
    <2>3. u # t /\ frame'[u] = frame[u] /\ Follows(u) /\ l \in Tasks /\ Acquiring(u) /\ Live(u)
      BY <1>0, <1>3, <1>4, <2>2 DEF TasksOK, TaskOK, PlaceOK, Live
    <2>4. /\ Acquiring(l) /\ Key(l) = Key(u) /\ l # t
      BY <1>2, <2>2, <2>3 DEF Follows
    <2>5. CASE a \in Accounts /\ Group(u) = a
      <3>1. cancel'[u]
        BY <2>2, <2>3, <2>5 DEF GroupCancelled
      <3> QED BY <1>0, <2>3, <3>1, FollowsKept
    <2>6. CASE ~(a \in Accounts /\ Group(u) = a)
      <3>1. ~(a \in Accounts /\ Group(l) = a)
        BY <2>3, <2>4, <2>6, KeyOfGroup
      <3>2. cancel'[u] = cancel[u] /\ cancel'[l] = cancel[l]
        BY <2>2, <2>3, <2>6, <3>1 DEF GroupCancelled
      <3>3. fut'[l] = fut[l]
        <4> SUFFICES ASSUME fut'[l] # fut[l] PROVE FALSE
          OBVIOUS
        <4>1. PICK v \in Tasks : /\ pc[v] = "future" /\ frame[v].leader = l
                                 /\ Group(v) = a /\ a \in Accounts
          BY <2>2, <2>3 DEF GroupCancelled
        <4>2. Acquiring(v) /\ Key(l) = Key(v)
          BY <1>0, <4>1 DEF JoinedOK, TasksOK, TaskOK, PlaceOK
        <4> QED BY <2>4, <3>1, <4>1, <4>2, KeyOfGroup
      <3> QED BY <1>0, <1>1, <1>2, <2>3, <2>4, <3>2, <3>3, FollowsKept
    <2> QED BY <2>5, <2>6
  <1> QED BY <1>5, <1>6, <1>7, <1>8, <1>9, <1>10 DEF Effect

LEMMA EffectAsks ==
    ASSUME NEW t \in Tasks, Effect(t), NEW u \in Tasks, asked[u]
    PROVE  asked'[u]
  <1>1. CASE \E a : Regrouped(t, a)
    BY <1>1 DEF Regrouped, GroupCancelled
  <1>2. CASE ~\E a : Regrouped(t, a)
    BY <1>2 DEF Effect, Quiet, Joined, Led, Refused, Resolved, Dropped
  <1> QED BY <1>1, <1>2

\* How an acquisition that nobody cancelled ends.
LEMMA OutcomeOfRunning ==
    ASSUME Core, GroupOK, JoinedOK, AcquireContract, NEW t \in Tasks, Effect(t),
           job[t].op = "acquire", pc'[t] = "done", ~asked'[t]
    PROVE  out'[t] \in {"token", "auth_error", "unknown", "not_started"}
  <1>0. TypeOK /\ TasksOK /\ FlightOK /\ TokensOK /\ Acquiring(t) /\ ~asked[t]
    BY EffectAsks DEF Core, Acquiring
  <1>1. ~cancel[t]
    BY <1>0 DEF TasksOK, TaskOK, CancelOK
  <1>2. CASE FutureResolved(t)
    <2>1. /\ pc[t] = "future" /\ fut[frame[t].leader] # "pending" /\ End(t, fut[frame[t].leader])
      BY <1>2 DEF FutureResolved
    <2>2. fut[frame[t].leader] \in {"token", "auth_error"}
      BY <1>1, <2>1 DEF JoinedOK
    <2> QED BY <1>0, <2>1, <2>2, EndEffect
  <1>3. CASE SerializerGranted(t) \/ AccountFound(t)
    <2>1. pc'[t] \in {"serializer", "msal"}
      BY <1>0, <1>3, Domains DEF SerializerGranted, AccountFound, EnterSerializer
    <2> QED BY <2>1
  <1>4. CASE QuietStep(t) /\ ~FutureResolved(t) /\ ~SerializerGranted(t) /\ ~AccountFound(t)
    <2>1. ~SignOutRemoved(t) /\ ~RedeemFailed(t)
      BY <1>0, <1>1, CallOfTask DEF SignOutRemoved, RedeemFailed, Returned, Acquiring
    <2>2. pc[t] \notin {"browser", "build", "list"}
      BY <1>0 DEF TasksOK, TaskOK, PlaceOK, Acquiring
    <2> QED
      BY <1>4, <2>1, <2>2
         DEF QuietStep, SignOutStarts, AddStarts, ReauthStarts, Redirected, SignInAbandoned,
             Reauthenticated, Added, StartBuilds, StartLists, StartRebuilds
  <1>5. CASE Thread(t)
    <2>1. pc' = pc /\ out' = out
      BY <1>5 DEF Thread, ThreadReads, ThreadAcquires, ThreadRemoves, ThreadRedeems, taskVars
    <2> QED BY <1>0, <2>1 DEF AcquireContract
  <1>6. CASE Joined(t) \/ Led(t) \/ Refused(t)
    BY <1>6 DEF Joined, Led, Refused
  <1>7. CASE \E o : /\ Resolved(t, o)
                    /\ \/ AcquireNotFound(t) /\ o = "auth_error"
                       \/ AcquireReturns(t) /\ o = Answer(thread[t].result)
    <2>1. PICK o : /\ Resolved(t, o)
                   /\ \/ AcquireNotFound(t) /\ o = "auth_error"
                      \/ AcquireReturns(t) /\ o = Answer(thread[t].result)
      BY <1>7
    <2>2. o \in {"token", "auth_error"}
      BY <1>0, <1>1, <2>1, WantedAnswer
    <2>3. fut[t] # "cancelled"
      BY <1>1, <2>1 DEF Resolved, GroupOK
    <2> QED BY <2>1, <2>2, <2>3 DEF Resolved
  <1>8. CASE Regrouped(t, job[t].account) \/ Switch(t)
    BY <1>8 DEF Regrouped, Switch
  <1>9. ~(Cancelled(t) /\ cancel[t])
    BY <1>1
  <1> QED BY <1>2, <1>3, <1>4, <1>5, <1>6, <1>7, <1>8, <1>9 DEF Effect

LEMMA ContractStep ==
    ASSUME Core, GroupOK, JoinedOK, AcquireContract, NEW t \in Tasks, Effect(t)
    PROVE  AcquireContract'
  <1>1. job' = job /\ \A u \in Tasks \ {t} : pc'[u] = pc[u] /\ out'[u] = out[u]
    BY EffectIsAlone DEF Alone
  <1>2. \A u \in Tasks : asked[u] => asked'[u]
    BY EffectAsks
  <1>3. \A u \in Tasks \ {t} : job'[u].op = "acquire" /\ pc'[u] = "done" /\ ~asked'[u]
                  => out'[u] \in {"token", "auth_error", "unknown", "not_started"}
    BY <1>1, <1>2 DEF AcquireContract
  <1> QED BY <1>1, <1>3, OutcomeOfRunning DEF AcquireContract

Sharing == Core /\ GroupOK /\ JoinedOK /\ AcquireContract

LEMMA InitSharing == Init => Sharing
  <1> SUFFICES ASSUME Init PROVE Sharing
    OBVIOUS
  <1>1. \A t \in Tasks : pc[t] = "idle"
    BY DEF Init, InitCold, InitStarted, InitRest
  <1> QED BY <1>1, InitCore DEF Sharing, GroupOK, JoinedOK, AcquireContract, Leading

LEMMA SharingScheduled ==
    ASSUME Sharing, NEW t \in Tasks, NEW op, NEW a, Scheduled(t, op, a)
    PROVE  GroupOK' /\ JoinedOK' /\ AcquireContract'
  <1>1. /\ UNCHANGED <<fut, frame, cancel, out, asked>> /\ pc[t] = "idle" /\ pc'[t] \in {"new", "sleep"}
        /\ \A u \in Tasks \ {t} : pc'[u] = pc[u] /\ job'[u] = job[u]
        /\ \A u \in Tasks : ~cancel[u]
    BY DEF Scheduled, flightVars
  <1>2. TasksOK
    BY DEF Sharing, Core
  <1>3. /\ ~Leading(t) /\ ~Leading(t)'
        /\ \A u \in Tasks \ {t} : /\ Leading(u)' <=> Leading(u)
                                  /\ Key(u)' = Key(u) /\ (Acquiring(u)' <=> Acquiring(u))
    BY <1>1 DEF Leading, Key, Acquiring
  <1>4. GroupOK'
    <2>1. \A u \in Tasks : Leading(u)' => fut'[u] # "cancelled"
      BY <1>1, <1>3 DEF Sharing, GroupOK
    <2> QED BY <1>1, <2>1 DEF GroupOK
  <1>5. JoinedOK'
    <2> SUFFICES ASSUME NEW u \in Tasks, pc'[u] = "future"
                 PROVE  Follows(u)'
      BY DEF JoinedOK, Follows
    <2>1. u # t /\ pc[u] = "future" /\ Follows(u)
      BY <1>1 DEF Sharing, JoinedOK, Follows
    <2>2. PICK l \in Tasks : l = frame[u].leader /\ fut[l] # "none" /\ l # t
      BY <1>1, <1>2, <2>1 DEF TasksOK, TaskOK, FutureOK
    <2>3. frame'[u].leader = l
      BY <1>1, <2>2
    <2> QED BY <1>1, <1>3, <2>1, <2>2, <2>3 DEF Follows
  <1>6. AcquireContract'
    BY <1>1 DEF Sharing, AcquireContract
  <1> QED BY <1>4, <1>5, <1>6

LEMMA SharingStep ==
    ASSUME "pause" \notin Ops, Sharing, [Next]_vars
    PROVE  Sharing'
  <1>0. Core /\ Core' /\ GroupOK /\ JoinedOK /\ AcquireContract
    BY CoreStep DEF Sharing
  <1>1. CASE \E t \in Tasks : Step(t) \/ Thread(t)
    <2>1. PICK t \in Tasks : Effect(t)
      BY <1>0, <1>1, CoreOfTask
    <2> QED BY <1>0, <2>1, GroupStep, JoinedStep, ContractStep DEF Sharing
  <1>2. CASE \E op \in Ops \ {"pause"}, a \in Accounts \cup {NoAccount}, s \in Scopes : Schedule(op, a, s)
    <2>1. PICK t \in Tasks : \E op, a : Scheduled(t, op, a)
      BY <1>0, <1>2, CoreScheduled
    <2> QED BY <1>0, <2>1, SharingScheduled DEF Sharing
  <1>3. ~PausePolling
    BY DEF PausePolling
  <1>4. CASE UNCHANGED vars
    <2>1. UNCHANGED <<fut, job, pc, frame, cancel, out, asked>>
      BY <1>4 DEF vars, flightVars, taskVars
    <2> QED BY <1>0, <2>1
        DEF Sharing, GroupOK, JoinedOK, AcquireContract, Leading, SameCall, Acquiring, Live, Key
  <1> QED BY <1>1, <1>2, <1>3, <1>4, NextCases

(* AcquireContract, the shared future of acquire_token_silently, wherever    *)
(* pause_polling is not called: a caller nobody cancelled ends with a token  *)
(* or an AuthError, through the cancellations of others.                    *)
THEOREM CallersSeeTheContract ==
    ASSUME "pause" \notin Ops
    PROVE  Spec => []AcquireContract
  <1>1. Sharing /\ [Next]_vars => Sharing'
    BY SharingStep
  <1>2. Sharing => AcquireContract
    BY DEF Sharing
  <1> QED BY <1>1, <1>2, InitSharing, PTL DEF Spec

-----------------------------------------------------------------------------
(* The active account.                                                      *)

Active == Core /\ ActiveIsListed

LEMMA InitActive == Init => Active
  <1> SUFFICES ASSUME Init PROVE ActiveIsListed
    BY InitCore DEF Active
  <1>1. CASE InitCold
    BY <1>1 DEF InitCold, ActiveIsListed
  <1>2. CASE InitStarted
    BY <1>2 DEF InitStarted, ActiveIsListed
  <1> QED BY <1>1, <1>2 DEF Init

LEMMA ActiveStep ==
    ASSUME "switch" \notin Ops, Core, ActiveIsListed, NEW t \in Tasks, Effect(t)
    PROVE  ActiveIsListed'
  <1>1. ~Switch(t)
    BY DEF Core, TasksOK, TaskOK, PlaceOK, Switch
  <1>2. CASE QuietStep(t) /\ ~Added(t) /\ ~StartRebuilds(t)
    <2>1. UNCHANGED <<present, active>>
      BY <1>2
         DEF QuietStep, SerializerGranted, FutureResolved, AccountFound, SignOutStarts,
             SignOutRemoved, AddStarts, ReauthStarts, Redirected, SignInAbandoned, RedeemFailed,
             Reauthenticated, StartBuilds, StartLists, managerVars
    <2> QED BY <2>1 DEF ActiveIsListed
  <1>3. CASE Added(t)
    BY <1>3 DEF Added, ActiveIsListed
  <1>4. CASE StartRebuilds(t)
    BY <1>4 DEF StartRebuilds, ActiveIsListed
  <1>5. CASE Thread(t)
    <2>1. UNCHANGED <<present, active>>
      BY <1>5 DEF Thread, ThreadReads, ThreadAcquires, ThreadRemoves, ThreadRedeems, managerVars
    <2> QED BY <2>1 DEF ActiveIsListed
  <1>6. CASE Forget(t)
    BY <1>6 DEF Forget, ActiveIsListed
  <1>7. CASE \/ AcquireJoins(t) \/ LeadStarts(t, LockOf(t)) \/ LeadRefused(t, LockOf(t))
             \/ AcquireNotFound(t) \/ AcquireReturns(t) \/ Cancelled(t)
    <2>1. UNCHANGED <<present, active>>
      BY <1>7 DEF AcquireJoins, Join, LeadStarts, LeadRefused, AcquireNotFound, AcquireReturns,
                  Cancelled, managerVars
    <2> QED BY <2>1 DEF ActiveIsListed
  <1> QED BY <1>1, <1>2, <1>3, <1>4, <1>5, <1>6, <1>7 DEF Effect

(* ActiveIsListed, wherever switch_active_account is not among the jobs: the *)
(* active account is one of self.accounts, through sign-ins, sign-outs and a *)
(* start() that ends after them.                                            *)
THEOREM ActiveAccountIsListed ==
    ASSUME "switch" \notin Ops
    PROVE  Spec => []ActiveIsListed
  <1>1. Active /\ [Next]_vars => Active'
    <2> SUFFICES ASSUME Active, [Next]_vars PROVE ActiveIsListed'
      BY CoreStep DEF Active
    <2>1. CASE \E t \in Tasks : Step(t) \/ Thread(t)
      BY <2>1, CoreOfTask, ActiveStep DEF Active
    <2>2. CASE UNCHANGED managerVars
      BY <2>2 DEF Active, ActiveIsListed, managerVars
    <2>3. CASE \E op \in Ops \ {"pause"}, a \in Accounts \cup {NoAccount}, s \in Scopes : Schedule(op, a, s)
      BY <2>2, <2>3 DEF Schedule
    <2>4. CASE PausePolling \/ UNCHANGED vars
      BY <2>2, <2>4 DEF PausePolling, vars
    <2> QED BY <2>1, <2>3, <2>4, NextCases
  <1>2. Active => ActiveIsListed
    BY DEF Active
  <1> QED BY <1>1, <1>2, InitActive, PTL DEF Spec
=============================================================================
