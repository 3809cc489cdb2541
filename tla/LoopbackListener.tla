-------------------------- MODULE LoopbackListener --------------------------
(***************************************************************************)
(* LoopbackListener (auth_loopback.py) and the interactive flow that uses it *)
(* (AuthManager._run_interactive_auth_code_flow): one sign-in, the           *)
(* connections that reach its port, and the handler task of each.            *)
(*                                                                          *)
(* A matching connection carries the state of this sign-in; it exists once   *)
(* the browser has been asked to open, and may be repeated (a reload).       *)
(***************************************************************************)
EXTENDS Sequences, Integers

CONSTANTS Connections, NoConnection

ASSUME ListenerAssumption == NoConnection \notin Connections

VARIABLES
    flow,          \* where the sign-in is suspended
    outcome,       \* how its wait ended: "open" until it does
    accepting,     \* the server is listening
    expected,      \* self._expected_state is set
    expired,       \* the deadline counted from start() has passed
    accepted,      \* self._accepted_result, by its connection
    kind,          \* what a connection sends
    handler,       \* where its handler is suspended
    answer,        \* the page it was sent
    lockQ          \* self._accept_lock: its holder, then those waiting for it

flowVars == <<flow, outcome, accepting, expected, expired>>
connVars == <<kind, handler, answer>>
vars     == <<flowVars, accepted, connVars, lockQ>>

Kinds == {"matching", "stray", "malformed"}

Init ==
    /\ flow = "new" /\ outcome = "open" /\ accepting = FALSE
    /\ expected = FALSE /\ expired = FALSE
    /\ accepted = NoConnection
    /\ kind = [c \in Connections |-> "none"]
    /\ handler = [c \in Connections |-> "none"]
    /\ answer = [c \in Connections |-> "none"]
    /\ lockQ = <<>>

-----------------------------------------------------------------------------
(* The sign-in.                                                             *)

Start ==
    /\ flow = "new" /\ flow' = "initiating" /\ accepting' = TRUE
    /\ UNCHANGED <<outcome, expected, expired, accepted, connVars, lockQ>>

\* Mutant: the listener is armed by wait_for_redirect alone.
InitiatedUnarmed ==
    /\ flow = "initiating" /\ flow' = "opening"
    /\ UNCHANGED <<outcome, accepting, expected, expired, accepted, connVars, lockQ>>

\* The flow is initiated in a thread; the listener is armed before the browser opens.
Initiated ==
    /\ flow = "initiating" /\ flow' = "opening" /\ expected' = TRUE
    /\ UNCHANGED <<outcome, accepting, expired, accepted, connVars, lockQ>>

\* webbrowser.open has returned: wait_for_redirect.
Opened ==
    /\ flow = "opening" /\ ~expired /\ flow' = "waiting" /\ expected' = TRUE
    /\ UNCHANGED <<outcome, accepting, expired, accepted, connVars, lockQ>>

\* close() stops the server, in the finally clause of every way out.
Ends(how) ==
    /\ outcome' = how /\ flow' = "closing" /\ accepting' = FALSE
    /\ UNCHANGED <<expected, expired, accepted, connVars, lockQ>>

OpenedTooLate == flow = "opening" /\ expired /\ Ends("abandoned")

\* Mutant: the event is not awaited.
WaitReturnsAtOnce == flow = "waiting" /\ Ends("redirect")

WaitReturns == flow = "waiting" /\ accepted # NoConnection /\ Ends("redirect")

\* Mutant: the event is awaited without a timeout.
WaitsForEver == FALSE /\ Ends("abandoned")

\* The timeout may win over an event set in the same turn of the loop.
WaitTimesOut == flow = "waiting" /\ expired /\ Ends("abandoned")

\* An error out of a thread, or a CancelledError at an await.
GivenUp == flow \in {"initiating", "opening", "waiting"} /\ Ends("abandoned")

\* wait_closed() waits for the handlers (Python 3.12.1 on; before, it does not wait,
\* and nothing else depends on when it returns).
Closed ==
    /\ flow = "closing" /\ flow' = "done"
    /\ \A c \in Connections : handler[c] \in {"none", "done"}
    /\ UNCHANGED <<outcome, accepting, expected, expired, accepted, connVars, lockQ>>

DeadlinePasses ==
    /\ flow # "new" /\ ~expired /\ expired' = TRUE
    /\ UNCHANGED <<flow, outcome, accepting, expected, accepted, connVars, lockQ>>

-----------------------------------------------------------------------------
(* A connection and its handler.                                            *)

Connect(c, k) ==
    /\ accepting /\ kind[c] = "none"
    /\ k = "matching" => flow \in {"opening", "waiting"}
    /\ kind' = [kind EXCEPT ![c] = k]
    /\ handler' = [handler EXCEPT ![c] = "reading"]
    /\ UNCHANGED <<flowVars, accepted, answer, lockQ>>

\* Mutant: the request line is awaited without a timeout.
MalformedIsAwaited(c) ==
    /\ FALSE
    /\ UNCHANGED vars

\* A request line that cannot be parsed, or that does not come in time.
Malformed(c) ==
    /\ handler[c] = "reading" /\ kind[c] = "malformed"
    /\ handler' = [handler EXCEPT ![c] = "answering"]
    /\ answer' = [answer EXCEPT ![c] = "invalid"]
    /\ UNCHANGED <<flowVars, accepted, kind, lockQ>>

RequestLine(c) ==
    /\ handler[c] = "reading" /\ kind[c] # "malformed"
    /\ handler' = [handler EXCEPT ![c] = "locking"]
    /\ lockQ' = Append(lockQ, c)
    /\ UNCHANGED <<flowVars, accepted, kind, answer>>

Holds(c) == handler[c] = "locking" /\ lockQ # <<>> /\ Head(lockQ) = c

Matches(c) == expected /\ kind[c] = "matching"

\* A refusal is sent under the lock.
Refuse(c, page) ==
    /\ handler' = [handler EXCEPT ![c] = "refusing"]
    /\ answer' = [answer EXCEPT ![c] = page]
    /\ UNCHANGED <<flowVars, accepted, kind, lockQ>>

AlreadyUsed(c) == Holds(c) /\ accepted # NoConnection /\ Refuse(c, "used")

NotMatching(c) == Holds(c) /\ accepted = NoConnection /\ ~Matches(c) /\ Refuse(c, "invalid")

\* Mutant: whether a result was accepted before is not asked.
AcceptAgain(c) ==
    /\ Holds(c) /\ Matches(c)
    /\ accepted' = c
    /\ handler' = [handler EXCEPT ![c] = "answering"]
    /\ answer' = [answer EXCEPT ![c] = "ok"]
    /\ lockQ' = Tail(lockQ)
    /\ UNCHANGED <<flowVars, kind>>

\* Mutant: the query's state is stored, not the query.
AcceptState(c) ==
    /\ Holds(c) /\ accepted = NoConnection /\ Matches(c)
    /\ accepted' = kind[c]
    /\ handler' = [handler EXCEPT ![c] = "answering"]
    /\ answer' = [answer EXCEPT ![c] = "ok"]
    /\ lockQ' = Tail(lockQ)
    /\ UNCHANGED <<flowVars, kind>>

\* The result is committed, and the lock released, before the page is sent.
Accept(c) ==
    /\ Holds(c) /\ accepted = NoConnection /\ Matches(c)
    /\ accepted' = c
    /\ handler' = [handler EXCEPT ![c] = "answering"]
    /\ answer' = [answer EXCEPT ![c] = "ok"]
    /\ lockQ' = Tail(lockQ)
    /\ UNCHANGED <<flowVars, kind>>

Answered(c) ==
    /\ handler[c] = "answering"
    /\ handler' = [handler EXCEPT ![c] = "done"]
    /\ UNCHANGED <<flowVars, accepted, kind, answer, lockQ>>

\* Mutant: the lock stays with a handler whose client went away.
RefusedLeavesLock(c) ==
    /\ handler[c] = "refusing"
    /\ handler' = [handler EXCEPT ![c] = "done"]
    /\ UNCHANGED <<flowVars, accepted, kind, answer, lockQ>>

Refused(c) ==
    /\ handler[c] = "refusing"
    /\ handler' = [handler EXCEPT ![c] = "done"]
    /\ lockQ' = Tail(lockQ)
    /\ UNCHANGED <<flowVars, accepted, kind, answer>>

FlowStep ==
    \/ Start \/ Initiated \/ Opened \/ OpenedTooLate \/ WaitReturns \/ WaitTimesOut \/ Closed

HandlerStep(c) ==
    \/ Malformed(c) \/ RequestLine(c)
    \/ AlreadyUsed(c) \/ NotMatching(c) \/ Accept(c)
    \/ Answered(c) \/ Refused(c)

Next ==
    \/ FlowStep \/ GivenUp \/ DeadlinePasses
    \/ \E c \in Connections : HandlerStep(c)
    \/ \E c \in Connections, k \in Kinds : Connect(c, k)

Spec == Init /\ [][Next]_vars

\* Threads return, time passes, and a client reads its page or goes away.
Fairness ==
    /\ WF_vars(FlowStep) /\ WF_vars(DeadlinePasses)
    /\ \A c \in Connections : WF_vars(HandlerStep(c))

FairSpec == Spec /\ Fairness

-----------------------------------------------------------------------------
(* The properties.                                                          *)

TypeOK ==
    /\ flow \in {"new", "initiating", "opening", "waiting", "closing", "done"}
    /\ outcome \in {"open", "redirect", "abandoned"}
    /\ accepting \in BOOLEAN /\ expected \in BOOLEAN /\ expired \in BOOLEAN
    /\ accepted \in Connections \cup {NoConnection}
    /\ kind \in [Connections -> Kinds \cup {"none"}]
    /\ handler \in [Connections -> {"none", "reading", "locking", "refusing", "answering", "done"}]
    /\ answer \in [Connections -> {"none", "ok", "used", "invalid"}]
    /\ lockQ \in Seq(Connections)

(* "Exactly one accepted response": however many connections race for the    *)
(* lock, only the one whose parameters were taken is told that it worked.    *)
OneAccepted == \A c \in Connections : answer[c] = "ok" => c = accepted

(* The redirect of this sign-in is never turned away as not matching,        *)
(* however fast the browser is: the listener is armed before it opens.       *)
GenuineIsRecognised ==
    \A c \in Connections : kind[c] = "matching" => answer[c] # "invalid"

(* The lock is held by the handler that refuses somebody and given on by     *)
(* everyone who has had it: those in the queue all still want it.            *)
LockIsWanted ==
    /\ \A i, j \in DOMAIN lockQ : lockQ[i] = lockQ[j] => i = j
    /\ \A c \in Connections :
          (\E i \in DOMAIN lockQ : lockQ[i] = c) <=> handler[c] \in {"locking", "refusing"}

(* The listener keeps the promise of OneShotRedirect.                        *)
OneShot == INSTANCE OneShotRedirect WITH taken <- accepted

IsOneShot == OneShot!Spec

(* Every connection gets an answer, also while others are being refused.     *)
EveryoneIsAnswered == \A c \in Connections : handler[c] = "reading" ~> handler[c] = "done"

(* A sign-in ends: with its redirect, with the deadline, or given up.        *)
SignInEnds == flow = "initiating" ~> flow = "done"
=============================================================================
