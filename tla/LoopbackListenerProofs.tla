----------------------- MODULE LoopbackListenerProofs -----------------------
(***************************************************************************)
(* What the runs of LoopbackListener show for three connections, for any     *)
(* set of them: one redirect is accepted, the genuine one is recognised, and *)
(* the listener implements OneShotRedirect.                                  *)
(***************************************************************************)
EXTENDS LoopbackListener, TLAPS

(* The listener is armed from before the browser opens, a matching           *)
(* connection is younger than that, and one that does not exist yet has no   *)
(* answer.                                                                   *)
ArmedFirst ==
    /\ flow \in {"opening", "waiting"} => expected
    /\ \A c \in Connections : /\ kind[c] = "matching" => expected
                              /\ kind[c] = "none" => answer[c] = "none" /\ handler[c] = "none"

(* A sign-in that goes on has no outcome.                                    *)
OpenWhileRunning == flow \in {"new", "initiating", "opening", "waiting"} => outcome = "open"

(* The holder of the lock is the one in front, whoever it is refusing.       *)
RefuserHolds ==
    \A c \in Connections : handler[c] = "refusing" => lockQ # <<>> /\ Head(lockQ) = c

RedirectOK == OneAccepted /\ GenuineIsRecognised /\ ArmedFirst /\ OpenWhileRunning
LockOK == LockIsWanted /\ RefuserHolds
IInv == TypeOK /\ RedirectOK /\ LockOK

-----------------------------------------------------------------------------
(* What joining and leaving the lock's queue do to it.                       *)
Distinct(q) == \A i, j \in DOMAIN q : q[i] = q[j] => i = j

InQueue(c, q) == \E i \in DOMAIN q : q[i] = c

LEMMA LockIsWantedIs ==
    LockIsWanted <=> /\ Distinct(lockQ)
                     /\ \A c \in Connections :
                           InQueue(c, lockQ) <=> handler[c] \in {"locking", "refusing"}
  BY DEF LockIsWanted, Distinct, InQueue

(* A handler that has read its request joins at the end, once.               *)
LEMMA QueueJoined ==
    ASSUME NEW c \in Connections, NEW q \in Seq(Connections), Distinct(q), ~InQueue(c, q)
    PROVE  /\ Append(q, c) \in Seq(Connections)
           /\ Distinct(Append(q, c))
           /\ \A d \in Connections : InQueue(d, Append(q, c)) <=> InQueue(d, q) \/ d = c
           /\ q # <<>> => Append(q, c) # <<>> /\ Head(Append(q, c)) = Head(q)
  <1> DEFINE r == Append(q, c)
  <1>1. /\ r \in Seq(Connections) /\ Len(r) = Len(q) + 1 /\ Len(q) \in Nat
        /\ DOMAIN r = 1..Len(q) + 1 /\ DOMAIN q = 1..Len(q)
        /\ \A i \in 1..Len(q) : r[i] = q[i]
        /\ r[Len(q) + 1] = c
    OBVIOUS
  <1>2. q # <<>> => r # <<>> /\ Head(r) = Head(q)
    OBVIOUS
  <1> HIDE DEF r
  <1>3. Distinct(r)
    BY <1>1 DEF Distinct, InQueue
  <1>4. \A d \in Connections : InQueue(d, r) <=> InQueue(d, q) \/ d = c
    <2> SUFFICES ASSUME NEW d \in Connections PROVE InQueue(d, r) <=> InQueue(d, q) \/ d = c
      OBVIOUS
    <2>1. InQueue(d, r) => InQueue(d, q) \/ d = c
      BY <1>1 DEF InQueue
    <2>2. InQueue(d, q) => InQueue(d, r)
      BY <1>1 DEF InQueue
    <2>3. InQueue(c, r)
      BY <1>1 DEF InQueue
    <2> QED
      BY <2>1, <2>2, <2>3
  <1> QED
    BY <1>1, <1>2, <1>3, <1>4 DEF r

(* The holder gives the lock on, and is no longer in the queue.              *)
LEMMA QueueLeft ==
    ASSUME NEW q \in Seq(Connections), q # <<>>, Distinct(q)
    PROVE  /\ Tail(q) \in Seq(Connections)
           /\ Distinct(Tail(q))
           /\ \A d \in Connections : InQueue(d, Tail(q)) <=> InQueue(d, q) /\ d # Head(q)
  <1> DEFINE r == Tail(q)
  <1>1. /\ r \in Seq(Connections) /\ Len(q) \in Nat /\ Len(q) > 0
        /\ DOMAIN r = 1..Len(q) - 1 /\ DOMAIN q = 1..Len(q)
        /\ \A i \in 1..Len(q) - 1 : r[i] = q[i + 1]
        /\ Head(q) = q[1]
    OBVIOUS
  <1> HIDE DEF r
  <1>2. Distinct(r)
    BY <1>1, SMTT(40) DEF Distinct
  <1>3. \A d \in Connections : InQueue(d, r) <=> InQueue(d, q) /\ d # Head(q)
    <2> SUFFICES ASSUME NEW d \in Connections
                 PROVE  InQueue(d, r) <=> InQueue(d, q) /\ d # Head(q)
      OBVIOUS
    <2>1. ASSUME InQueue(d, r) PROVE InQueue(d, q) /\ d # Head(q)
      <3>1. PICK i \in 1..Len(q) - 1 : q[i + 1] = d
        BY <1>1, <2>1 DEF InQueue
      <3>2. i + 1 \in DOMAIN q /\ 1 \in DOMAIN q /\ i + 1 # 1
        BY <1>1
      <3> QED
        BY <1>1, <3>1, <3>2 DEF InQueue, Distinct
    <2>2. ASSUME InQueue(d, q), d # Head(q) PROVE InQueue(d, r)
      <3>1. PICK i \in 1..Len(q) : q[i] = d
        BY <1>1, <2>2 DEF InQueue
      <3>2. i - 1 \in 1..Len(q) - 1 /\ r[i - 1] = d
        BY <1>1, <2>2, <3>1
      <3> QED
        BY <1>1, <3>2 DEF InQueue
    <2> QED
      BY <2>1, <2>2
  <1> QED
    BY <1>1, <1>2, <1>3 DEF r

-----------------------------------------------------------------------------
LEMMA InitIInv == Init => IInv
  <1> SUFFICES ASSUME Init PROVE IInv
    OBVIOUS
  <1> USE DEF Init, Kinds
  <1>1. TypeOK
    <2>1. lockQ \in Seq(Connections)
      OBVIOUS
    <2>2. /\ kind \in [Connections -> Kinds \cup {"none"}]
          /\ handler \in [Connections ->
                 {"none", "reading", "locking", "refusing", "answering", "done"}]
          /\ answer \in [Connections -> {"none", "ok", "used", "invalid"}]
      OBVIOUS
    <2>3. accepting \in BOOLEAN /\ expected \in BOOLEAN /\ expired \in BOOLEAN
      OBVIOUS
    <2> QED
      BY <2>1, <2>2, <2>3 DEF TypeOK
  <1>2. RedirectOK
    BY DEF RedirectOK, OneAccepted, GenuineIsRecognised, ArmedFirst, OpenWhileRunning
  <1>3. LockOK
    BY DEF LockOK, LockIsWanted, RefuserHolds
  <1> QED
    BY <1>1, <1>2, <1>3 DEF IInv

(* The sign-in's own steps touch no connection.                              *)
LEMMA FlowKeepsIInv == IInv /\ (FlowStep \/ GivenUp \/ DeadlinePasses) => IInv'
  <1> SUFFICES ASSUME IInv, FlowStep \/ GivenUp \/ DeadlinePasses PROVE IInv'
    OBVIOUS
  <1> USE DEF FlowStep, Start, Initiated, Opened, OpenedTooLate, WaitReturns, WaitTimesOut,
              GivenUp, Closed, DeadlinePasses, Ends, connVars, IInv
  <1>1. UNCHANGED <<accepted, connVars, lockQ>>
    OBVIOUS
  <1>2. TypeOK'
    BY <1>1 DEF TypeOK
  <1>3. OneAccepted' /\ GenuineIsRecognised'
    BY <1>1 DEF RedirectOK, OneAccepted, GenuineIsRecognised
  <1>4. ArmedFirst'
    BY <1>1 DEF RedirectOK, ArmedFirst, TypeOK
  <1>5. OpenWhileRunning'
    BY DEF RedirectOK, OpenWhileRunning
  <1>6. LockOK'
    BY <1>1 DEF LockOK, LockIsWanted, RefuserHolds
  <1> QED
    BY <1>2, <1>3, <1>4, <1>5, <1>6 DEF RedirectOK

(* What a step at c does to the queue: nothing, join it or leave it.         *)
LEMMA ConnectionKeepsLock ==
    ASSUME NEW c \in Connections, TypeOK, LockOK, TypeOK',
           \A d \in Connections \ {c} : handler'[d] = handler[d],
           \/ /\ lockQ' = lockQ
              /\ \/ handler[c] \notin {"locking", "refusing"} /\ handler'[c] \notin {"locking", "refusing"}
                 \/ Holds(c) /\ handler'[c] = "refusing"
           \/ /\ lockQ' = Append(lockQ, c)
              /\ handler[c] \notin {"locking", "refusing"} /\ handler'[c] = "locking"
           \/ /\ lockQ' = Tail(lockQ) /\ handler'[c] \notin {"locking", "refusing"}
              /\ Holds(c) \/ handler[c] = "refusing"
    PROVE  LockOK'
  <1>1. LockIsWanted' <=> /\ Distinct(lockQ')
                          /\ \A d \in Connections :
                                InQueue(d, lockQ') <=> handler'[d] \in {"locking", "refusing"}
    BY DEF LockIsWanted, Distinct, InQueue
  <1>2. CASE lockQ' = lockQ
    BY <1>1, <1>2, LockIsWantedIs DEF LockOK, Holds, RefuserHolds
  <1>3. CASE /\ lockQ' = Append(lockQ, c)
             /\ handler[c] \notin {"locking", "refusing"} /\ handler'[c] = "locking"
    <2>1. lockQ \in Seq(Connections) /\ Distinct(lockQ) /\ ~InQueue(c, lockQ)
      BY <1>3, LockIsWantedIs DEF LockOK, TypeOK
    <2> QED
      BY <1>1, <1>3, <2>1, QueueJoined, LockIsWantedIs DEF LockOK, RefuserHolds
  <1>4. CASE /\ lockQ' = Tail(lockQ) /\ handler'[c] \notin {"locking", "refusing"}
             /\ Holds(c) \/ handler[c] = "refusing"
    <2>1. /\ lockQ \in Seq(Connections) /\ Distinct(lockQ)
          /\ lockQ # <<>> /\ Head(lockQ) = c
      BY <1>4, LockIsWantedIs DEF LockOK, TypeOK, Holds, RefuserHolds
    <2> QED
      BY <1>1, <1>4, <2>1, QueueLeft, LockIsWantedIs DEF LockOK, RefuserHolds
  <1> QED
    BY <1>2, <1>3, <1>4

LEMMA ConnectKeepsIInv ==
    ASSUME NEW c \in Connections, NEW k \in Kinds, IInv, Connect(c, k)
    PROVE  IInv'
  <1> USE DEF IInv, Connect, Kinds, flowVars
  <1>1. TypeOK'
    BY DEF TypeOK
  <1>2. RedirectOK'
    BY DEF RedirectOK, TypeOK, OneAccepted, GenuineIsRecognised, ArmedFirst, OpenWhileRunning
  <1>3. LockOK'
    BY <1>1, ConnectionKeepsLock DEF TypeOK, RedirectOK, ArmedFirst
  <1> QED
    BY <1>1, <1>2, <1>3

(* A handler's steps leave the sign-in alone.                                *)
LEMMA HandlerKeepsIInv ==
    ASSUME NEW c \in Connections, IInv, HandlerStep(c)
    PROVE  IInv'
  <1> USE DEF IInv, flowVars
  <1>1. TypeOK'
    <2>1. /\ Append(lockQ, c) \in Seq(Connections)
          /\ lockQ # <<>> => Tail(lockQ) \in Seq(Connections)
      BY DEF TypeOK
    <2>2. handler[c] = "refusing" => lockQ # <<>>
      BY DEF LockOK, RefuserHolds
    <2> QED
      BY <2>1, <2>2, ZenonT(60) DEF HandlerStep, Malformed, RequestLine, AlreadyUsed, NotMatching, Accept,
                        Answered, Refused, Refuse, Holds, TypeOK
  <1>2. LockOK'
    BY <1>1, ConnectionKeepsLock
       DEF HandlerStep, Malformed, RequestLine, AlreadyUsed, NotMatching, Accept, Answered,
           Refused, Refuse, Holds, TypeOK
  <1>3. RedirectOK'
    <2> USE DEF RedirectOK, TypeOK, OneAccepted, GenuineIsRecognised, ArmedFirst, OpenWhileRunning
    <2>1. CASE Malformed(c)
      BY <2>1 DEF Malformed
    <2>2. CASE RequestLine(c)
      BY <2>2 DEF RequestLine
    <2>3. CASE AlreadyUsed(c)
      BY <2>3 DEF AlreadyUsed, Holds, Refuse
    <2>4. CASE NotMatching(c)
      BY <2>4 DEF NotMatching, Holds, Matches, Refuse
    <2>5. CASE Accept(c)
      BY <2>5, ListenerAssumption DEF Accept, Holds, Matches
    <2>6. CASE Answered(c)
      BY <2>6 DEF Answered
    <2>7. CASE Refused(c)
      BY <2>7 DEF Refused
    <2> QED
      BY <2>1, <2>2, <2>3, <2>4, <2>5, <2>6, <2>7 DEF HandlerStep
  <1> QED
    BY <1>1, <1>2, <1>3

LEMMA Invariance == Spec => []IInv
  <1>1. IInv /\ [Next]_vars => IInv'
    <2> SUFFICES ASSUME IInv, [Next]_vars PROVE IInv'
      OBVIOUS
    <2>1. CASE FlowStep \/ GivenUp \/ DeadlinePasses
      BY <2>1, FlowKeepsIInv
    <2>2. CASE \E c \in Connections : HandlerStep(c)
      BY <2>2, HandlerKeepsIInv
    <2>3. CASE \E c \in Connections, k \in Kinds : Connect(c, k)
      BY <2>3, ConnectKeepsIInv
    <2>4. CASE UNCHANGED vars
      BY <2>4 DEF vars, flowVars, connVars, IInv, TypeOK, RedirectOK, LockOK, OneAccepted,
                  GenuineIsRecognised, ArmedFirst, OpenWhileRunning, LockIsWanted, RefuserHolds
    <2> QED
      BY <2>1, <2>2, <2>3, <2>4 DEF Next
  <1> QED
    BY <1>1, InitIInv, PTL DEF Spec

-----------------------------------------------------------------------------
(* The results, for any set of connections.                                  *)

(* Every variable keeps its type.                                            *)
THEOREM TypeCorrect == Spec => []TypeOK
  BY Invariance, PTL DEF IInv

(* _handle_connection tells at most one connection that it was accepted.     *)
THEOREM AcceptsOne == Spec => []OneAccepted
  BY Invariance, PTL DEF IInv, RedirectOK

(* The flow arms the listener early enough for every redirect of its own.    *)
THEOREM RecognisesGenuine == Spec => []GenuineIsRecognised
  BY Invariance, PTL DEF IInv, RedirectOK

(* _accept_lock is never left with a handler that is done with it.           *)
THEOREM GivesLockOn == Spec => []LockIsWanted
  BY Invariance, PTL DEF IInv, LockOK

(* The listener and its sign-in implement OneShotRedirect.                   *)
THEOREM ImplementsOneShot == Spec => IsOneShot
  <1>1. Init => OneShot!Init
    BY DEF Init, OneShot!Init
  <1>2. IInv /\ [Next]_vars => [OneShot!Next]_(OneShot!vars)
    <2> SUFFICES ASSUME IInv, [Next]_vars PROVE [OneShot!Next]_(OneShot!vars)
      OBVIOUS
    <2> USE DEF OneShot!Next, OneShot!vars
    <2>1. CASE WaitReturns
      BY <2>1 DEF WaitReturns, Ends, OneShot!Deliver, IInv, RedirectOK, OpenWhileRunning
    <2>2. CASE OpenedTooLate \/ WaitTimesOut \/ GivenUp
      BY <2>2 DEF OpenedTooLate, WaitTimesOut, GivenUp, Ends, OneShot!Abandon, IInv, RedirectOK,
                  OpenWhileRunning
    <2>3. CASE Start \/ Initiated \/ Opened \/ Closed \/ DeadlinePasses
      BY <2>3 DEF Start, Initiated, Opened, Closed, DeadlinePasses
    <2>4. ASSUME NEW c \in Connections, Accept(c) PROVE OneShot!Take(c)
      BY <2>4 DEF Accept, OneShot!Take, flowVars
    <2>5. ASSUME NEW c \in Connections, HandlerStep(c), ~Accept(c)
          PROVE  UNCHANGED <<accepted, outcome>>
      BY <2>5 DEF HandlerStep, Malformed, RequestLine, AlreadyUsed, NotMatching, Refuse,
                  Answered, Refused, flowVars
    <2>6. ASSUME NEW c \in Connections, NEW k \in Kinds, Connect(c, k)
          PROVE  UNCHANGED <<accepted, outcome>>
      BY <2>6 DEF Connect, flowVars
    <2>7. CASE UNCHANGED vars
      BY <2>7 DEF vars, flowVars
    <2> QED
      BY <2>1, <2>2, <2>3, <2>4, <2>5, <2>6, <2>7 DEF Next, FlowStep
  <1> QED
    BY <1>1, <1>2, Invariance, PTL DEF Spec, IsOneShot, OneShot!Spec
=============================================================================
