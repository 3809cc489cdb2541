-------------------------- MODULE AccountAuthState --------------------------
(***************************************************************************)
(* One account's authentication state machine driven through its public     *)
(* methods, in any order a caller may choose: class AccountAuthState of     *)
(* auth_state.py.  What the class promises on its own, whoever calls it, is *)
(* stated here; AuthManager shows what the real callers make of it.         *)
(***************************************************************************)
EXTENDS AuthStates

CONSTANT RetryCap   \* bound of the runs on the retry counter, which the code lets grow

ASSUME RetryCapAssumption ==
    RetryCap \in Nat /\ RetryCap > MAX_CLAIMS_CHALLENGE_RETRIES

VARIABLES
    rec,        \* the account's record
    rounds      \* history: challenges sent to the browser in the series under way

vars == <<rec, rounds>>

Init == rec = New /\ rounds = 0

\* A series of challenges is over when the account is signed in, signed out, or
\* told to sign in again.
SeriesOver(r) == r.state \in {"ACTIVE", "SIGNED_OUT", "REAUTH_REQUIRED"}

Set(r) ==
    /\ rec' = r
    /\ rounds' = IF SeriesOver(r) THEN 0 ELSE rounds

begin_interactive == ~Blocked(rec) /\ Set(BeginInteractive(rec))

mark_active == Set(MarkActive(rec))

begin_silent_refresh ==
    /\ rec.state \in {"ACTIVE", "OFFLINE", "DEVICE_CA_BLOCKED"}
    /\ Set(BeginSilentRefresh(rec))

mark_offline == Set(MarkOffline(rec))

sign_out == Set(SignOut(rec))

\* A challenge that leaves the account in INTERACTIVE_AUTH opens one more
\* round of the browser; every other category only rewrites the record.
apply_challenge(c) ==
    /\ rec.state # "SIGNED_OUT"
    /\ rec.retry < RetryCap
    /\ rec' = ApplyError(rec, "CLAIMS_CHALLENGE", c, FALSE)
    /\ rounds' = IF ~Blocked(rec) /\ rec'.state = "INTERACTIVE_AUTH"
                 THEN rounds + 1 ELSE rounds

apply_error(category, url) ==
    /\ rec.state # "SIGNED_OUT"
    /\ category # "CLAIMS_CHALLENGE"
    /\ Set(ApplyError(rec, category, NoClaims, url))

Next ==
    \/ begin_interactive
    \/ mark_active
    \/ begin_silent_refresh
    \/ mark_offline
    \/ sign_out
    \/ \E c \in Claims : apply_challenge(c)
    \/ \E category \in MsalErrorCategory, url \in BOOLEAN : apply_error(category, url)

Spec == Init /\ [][Next]_vars

-----------------------------------------------------------------------------
\* The record keeps its shape and the counters stay numbers.
TypeOK == rec \in Record /\ rounds \in Nat

(* DEVICE_CA_BLOCKED is terminal for the session against every mutator      *)
(* (auth_state.py, mark_active and apply_error): whatever sequence of calls *)
(* follows, only sign_out moves the account, and it leaves nothing behind.  *)
BlockedIsTerminal == [][Blocked(rec) /\ ~Blocked(rec') => rec' = New]_vars

(* A series of claims challenges is bounded (FR-4-AC-4): between two        *)
(* outcomes that settle the account, at most MAX_CLAIMS_CHALLENGE_RETRIES   *)
(* challenges open the browser, whatever offline spells, silent attempts or *)
(* restarted sign-ins come between them.                                    *)
ClaimsRoundsBounded == rounds <= MAX_CLAIMS_CHALLENGE_RETRIES

(* The claims a later interactive request would carry are never left over   *)
(* from a series that is finished: they are pending only while the counter  *)
(* says a series is open and within its bound.                              *)
PendingClaimsAreCurrent ==
    rec.claims # NoClaims => rec.retry \in 1..MAX_CLAIMS_CHALLENGE_RETRIES

(* A transient failure discards nothing (FR-4-AC-5): going offline, or      *)
(* trying again silently or in the browser, keeps the pending claims, the   *)
(* recorded consent and the count of challenges.                            *)
ProgressSurvivesRetry ==
    [][rec'.state \in {"OFFLINE", "SILENT_REFRESH"}
        => rec' = [rec EXCEPT !.state = rec'.state] \/ rec.state = rec'.state]_vars
=============================================================================
