----------------------- MODULE AccountAuthStateProofs -----------------------
(***************************************************************************)
(* What AccountAuthState promises for every set of claims strings and       *)
(* every number of calls.                                                   *)
(***************************************************************************)
EXTENDS AccountAuthState, TLAPS

\* A well-formed record: claims are pending only while a series is open.
Good(r) ==
    /\ r \in Record
    /\ r.claims # NoClaims => r.retry \in 1..MAX_CLAIMS_CHALLENGE_RETRIES

\* What every method but the claims handler does to a record: it keeps the
\* counter, or settles the account.
Keeps(r, s) == Good(s) /\ (s.retry = r.retry \/ SeriesOver(s))

LEMMA NewGood == Good(New)
  BY DEF Good, New, Record, AuthState

\* Changing the state alone keeps a record well formed.
LEMMA StateChangeKeeps ==
    ASSUME NEW r, Good(r), NEW st \in AuthState
    PROVE  Keeps(r, [r EXCEPT !.state = st])
  BY DEF Keeps, Good, Record

LEMMA ClearedKeeps ==
    ASSUME NEW r, Good(r), NEW st \in {"ACTIVE", "REAUTH_REQUIRED"}
    PROVE  Keeps(r, [New EXCEPT !.state = st])
  BY DEF Keeps, Good, Record, New, SeriesOver, AuthState

\* The methods other than apply_error.
LEMMA MethodsKeep ==
    ASSUME NEW r, Good(r)
    PROVE  /\ Keeps(r, BeginInteractive(r))
           /\ Keeps(r, MarkActive(r))
           /\ Keeps(r, BeginSilentRefresh(r))
           /\ Keeps(r, MarkOffline(r))
           /\ Keeps(r, SignOut(r))
  <1>1. Keeps(r, r)  BY DEF Keeps
  <1>2. Keeps(r, New)  BY NewGood DEF Keeps, New, SeriesOver
  <1>3. {"INTERACTIVE_AUTH", "ACTIVE", "SILENT_REFRESH", "OFFLINE"} \subseteq AuthState
    BY DEF AuthState
  <1> QED
    BY <1>1, <1>2, <1>3, StateChangeKeeps, ClearedKeeps
       DEF BeginInteractive, MarkActive, BeginSilentRefresh, MarkOffline, SignOut

\* apply_error, for every category but a claims challenge.
LEMMA ErrorKeeps ==
    ASSUME NEW r, Good(r), NEW category \in MsalErrorCategory, category # "CLAIMS_CHALLENGE",
           NEW c, NEW url \in BOOLEAN
    PROVE  Keeps(r, ApplyError(r, category, c, url))
  <1>1. CASE Blocked(r)
    BY <1>1 DEF ApplyError, Keeps
  <1>2. CASE ~Blocked(r) /\ category = "NETWORK_ERROR"
    BY <1>2, StateChangeKeeps DEF ApplyError, OnNetworkError, AuthState
  <1>3. CASE ~Blocked(r) /\ category = "DEVICE_CA_BLOCKED"
    BY <1>3, StateChangeKeeps DEF ApplyError, OnDeviceCaBlocked, AuthState
  <1>4. CASE ~Blocked(r) /\ category = "CONSENT_REQUIRED"
    <2>1. ApplyError(r, category, c, url) = [r EXCEPT !.consent = url]
      BY <1>4 DEF ApplyError, OnConsentRequired
    <2> QED BY <2>1 DEF Keeps, Good, Record
  <1>5. CASE ~Blocked(r) /\ category \in {"INVALID_GRANT", "UNKNOWN"}
    BY <1>5, ClearedKeeps DEF ApplyError, OnInvalidGrant, AuthState
  <1> QED BY <1>1, <1>2, <1>3, <1>4, <1>5 DEF MsalErrorCategory

(* A claims challenge on a record that is not blocked counts one more and    *)
(* ends in INTERACTIVE_AUTH only within the bound.                           *)
LEMMA ChallengeCounts ==
    ASSUME NEW r, Good(r), ~Blocked(r), NEW c \in Claims, NEW url,
           NEW s, s = ApplyError(r, "CLAIMS_CHALLENGE", c, url)
    PROVE  /\ Good(s)
           /\ s.retry = r.retry + 1
           /\ s.state = "INTERACTIVE_AUTH" => s.retry <= MAX_CLAIMS_CHALLENGE_RETRIES
  <1>1. s = OnClaimsChallenge(r, c)
    BY DEF ApplyError
  <1>2. r.retry \in Nat /\ r.consent \in BOOLEAN
    BY DEF Good, Record
  <1>3. CASE r.retry + 1 > MAX_CLAIMS_CHALLENGE_RETRIES
    <2>1. s = [state |-> "REAUTH_REQUIRED", claims |-> NoClaims, consent |-> r.consent,
               retry |-> r.retry + 1]
      BY <1>1, <1>2, <1>3 DEF OnClaimsChallenge, MAX_CLAIMS_CHALLENGE_RETRIES
    <2>2. s \in Record
      BY <2>1, <1>2 DEF Record, AuthState
    <2>3. s.retry = r.retry + 1 /\ s.claims = NoClaims /\ s.state = "REAUTH_REQUIRED"
      BY <2>1
    <2> QED BY <2>2, <2>3 DEF Good
  <1>4. CASE r.retry + 1 <= MAX_CLAIMS_CHALLENGE_RETRIES
    <2>1. s = [state |-> "INTERACTIVE_AUTH", claims |-> c, consent |-> r.consent,
               retry |-> r.retry + 1]
      BY <1>1, <1>4 DEF OnClaimsChallenge
    <2>2. s \in Record
      BY <2>1, <1>2 DEF Record, AuthState
    <2>3. s.retry = r.retry + 1
      BY <2>1
    <2>4. s.retry \in 1..MAX_CLAIMS_CHALLENGE_RETRIES
      BY <2>3, <1>2, <1>4 DEF MAX_CLAIMS_CHALLENGE_RETRIES
    <2> QED BY <2>2, <2>3, <2>4 DEF Good, MAX_CLAIMS_CHALLENGE_RETRIES
  <1> QED BY <1>2, <1>3, <1>4 DEF MAX_CLAIMS_CHALLENGE_RETRIES

-----------------------------------------------------------------------------
(* The strengthening: the record is well formed, and the history of rounds   *)
(* never runs ahead of the counter, which is what bounds it.                 *)
IInv ==
    /\ Good(rec)
    /\ rounds \in Nat
    /\ rounds <= rec.retry
    /\ rounds <= MAX_CLAIMS_CHALLENGE_RETRIES

LEMMA InitIInv == Init => IInv
  BY NewGood DEF Init, IInv, New, MAX_CLAIMS_CHALLENGE_RETRIES

LEMMA NextIInv == IInv /\ [Next]_vars => IInv'
  <1> SUFFICES ASSUME IInv, [Next]_vars PROVE IInv'
    OBVIOUS
  <1> USE DEF IInv
  \* A method that keeps the counter or settles the account keeps the invariant.
  <1>0. ASSUME NEW r, Keeps(rec, r), Set(r) PROVE IInv'
    <2>1. rec' = r /\ rounds' = IF SeriesOver(r) THEN 0 ELSE rounds
      BY <1>0 DEF Set
    <2>2. Good(r) /\ (r.retry = rec.retry \/ SeriesOver(r))
      BY <1>0 DEF Keeps
    <2>3. r.retry \in Nat
      BY <2>2 DEF Good, Record
    <2> QED BY <2>1, <2>2, <2>3 DEF MAX_CLAIMS_CHALLENGE_RETRIES
  <1>1. CASE begin_interactive
    BY <1>0, <1>1, MethodsKeep DEF begin_interactive
  <1>2. CASE mark_active
    BY <1>0, <1>2, MethodsKeep DEF mark_active
  <1>3. CASE begin_silent_refresh
    BY <1>0, <1>3, MethodsKeep DEF begin_silent_refresh
  <1>4. CASE mark_offline
    BY <1>0, <1>4, MethodsKeep DEF mark_offline
  <1>5. CASE sign_out
    BY <1>0, <1>5, MethodsKeep DEF sign_out
  <1>6. ASSUME NEW c \in Claims, apply_challenge(c) PROVE IInv'
    <2> DEFINE s == ApplyError(rec, "CLAIMS_CHALLENGE", c, FALSE)
    <2>1. rec' = s /\ rounds' = IF ~Blocked(rec) /\ s.state = "INTERACTIVE_AUTH"
                                THEN rounds + 1 ELSE rounds
      BY <1>6 DEF apply_challenge
    <2>2. CASE Blocked(rec)
      <3>1. s = rec  BY <2>2 DEF ApplyError
      <3> QED BY <3>1, <2>1, <2>2
    <2>3. CASE ~Blocked(rec)
      <3> HIDE DEF s
      <3>1. Good(s) /\ s.retry = rec.retry + 1
            /\ (s.state = "INTERACTIVE_AUTH" => s.retry <= MAX_CLAIMS_CHALLENGE_RETRIES)
        BY <2>3, ChallengeCounts DEF s
      <3>2. rec.retry \in Nat  BY DEF Good, Record
      <3> QED BY <3>1, <3>2, <2>1, <2>3 DEF MAX_CLAIMS_CHALLENGE_RETRIES
    <2> QED BY <2>2, <2>3
  <1>7. ASSUME NEW category \in MsalErrorCategory, NEW url \in BOOLEAN,
               apply_error(category, url)
        PROVE IInv'
    BY <1>0, <1>7, ErrorKeeps DEF apply_error
  <1>8. CASE UNCHANGED vars
    BY <1>8 DEF vars
  <1> QED BY <1>1, <1>2, <1>3, <1>4, <1>5, <1>6, <1>7, <1>8 DEF Next

\* The inductive invariant holds of every behaviour.
THEOREM Inductive == Spec => []IInv
  <1>1. Init => IInv                  BY InitIInv
  <1>2. IInv /\ [Next]_vars => IInv'  BY NextIInv
  <1> QED BY <1>1, <1>2, PTL DEF Spec

\* Type correctness of the account record.
THEOREM TypeCorrect == Spec => []TypeOK
  <1>1. IInv => TypeOK  BY DEF IInv, TypeOK, Good
  <1> QED BY <1>1, Inductive, PTL

(* A series of claims challenges opens the browser at most                   *)
(* MAX_CLAIMS_CHALLENGE_RETRIES times, for any number of calls in any order. *)
THEOREM RoundsBounded == Spec => []ClaimsRoundsBounded
  <1>1. IInv => ClaimsRoundsBounded  BY DEF IInv, ClaimsRoundsBounded
  <1> QED BY <1>1, Inductive, PTL

\* Claims are pending only while their series is open.
THEOREM PendingCurrent == Spec => []PendingClaimsAreCurrent
  <1>1. IInv => PendingClaimsAreCurrent  BY DEF IInv, Good, PendingClaimsAreCurrent
  <1> QED BY <1>1, Inductive, PTL

(* DEVICE_CA_BLOCKED is left by sign_out alone, against every mutator.       *)
THEOREM BlockedTerminal == Spec => BlockedIsTerminal
  <1>1. IInv /\ [Next]_vars => [Blocked(rec) /\ ~Blocked(rec') => rec' = New]_vars
    <2> SUFFICES ASSUME IInv, Next, Blocked(rec), ~Blocked(rec') PROVE rec' = New
      BY DEF vars
    <2> USE DEF Blocked, Set
    <2>1. CASE begin_interactive     BY <2>1 DEF begin_interactive
    <2>2. CASE mark_active           BY <2>2 DEF mark_active, MarkActive
    <2>3. CASE begin_silent_refresh  BY <2>3 DEF begin_silent_refresh, BeginSilentRefresh
    <2>4. CASE mark_offline          BY <2>4 DEF mark_offline, MarkOffline
    <2>5. CASE sign_out              BY <2>5 DEF sign_out, SignOut
    <2>6. ASSUME NEW c \in Claims, apply_challenge(c) PROVE rec' = New
      BY <2>6 DEF apply_challenge, ApplyError
    <2>7. ASSUME NEW category \in MsalErrorCategory, NEW url \in BOOLEAN,
                 apply_error(category, url)
          PROVE rec' = New
      BY <2>7 DEF apply_error, ApplyError
    <2> QED BY <2>1, <2>2, <2>3, <2>4, <2>5, <2>6, <2>7 DEF Next
  <1> QED BY <1>1, Inductive, PTL DEF Spec, BlockedIsTerminal

(* Going offline, or trying again silently, keeps the pending claims, the    *)
(* recorded consent and the count of challenges, whoever does it.            *)
THEOREM ProgressSurvives == Spec => ProgressSurvivesRetry
  <1> DEFINE Only == rec' = [rec EXCEPT !.state = rec'.state] \/ rec.state = rec'.state
  <1>1. IInv /\ [Next]_vars => [rec'.state \in {"OFFLINE", "SILENT_REFRESH"} => Only]_vars
    <2> SUFFICES ASSUME IInv, Next, rec'.state \in {"OFFLINE", "SILENT_REFRESH"} PROVE Only
      BY DEF vars
    <2>0. rec \in Record
      BY DEF IInv, Good
    <2>1. CASE begin_silent_refresh
      BY <2>0, <2>1 DEF begin_silent_refresh, BeginSilentRefresh, Set, Record
    <2>2. CASE mark_offline
      BY <2>0, <2>2 DEF mark_offline, MarkOffline, Set, Record
    <2>3. CASE begin_interactive \/ mark_active \/ sign_out
      BY <2>0, <2>3 DEF begin_interactive, BeginInteractive, mark_active, MarkActive, sign_out, SignOut, New, Set,
                        Record
    <2>4. ASSUME NEW c \in Claims, apply_challenge(c) PROVE Only
      BY <2>4 DEF apply_challenge, ApplyError, OnClaimsChallenge
    <2>5. ASSUME NEW category \in MsalErrorCategory, NEW url \in BOOLEAN, apply_error(category, url) PROVE Only
      <3>1. rec' = ApplyError(rec, category, NoClaims, url)
        BY <2>5 DEF apply_error, Set
      <3>2. CASE Blocked(rec)
        BY <3>1, <3>2 DEF ApplyError
      <3>3. CASE ~Blocked(rec) /\ category = "NETWORK_ERROR"
        BY <2>0, <3>1, <3>3 DEF ApplyError, OnNetworkError, Record
      <3>4. CASE ~Blocked(rec) /\ category = "DEVICE_CA_BLOCKED"
        BY <2>0, <3>1, <3>4 DEF ApplyError, OnDeviceCaBlocked, Record
      <3>5. CASE ~Blocked(rec) /\ category = "CONSENT_REQUIRED"
        BY <2>0, <3>1, <3>5 DEF ApplyError, OnConsentRequired, Record
      <3>6. CASE ~Blocked(rec) /\ category \in {"INVALID_GRANT", "UNKNOWN"}
        BY <2>0, <3>1, <3>6 DEF ApplyError, OnInvalidGrant, New
      <3> QED
        BY <2>5, <3>2, <3>3, <3>4, <3>5, <3>6 DEF apply_error, MsalErrorCategory
    <2> QED
      BY <2>1, <2>2, <2>3, <2>4, <2>5 DEF Next
  <1> QED BY <1>1, Inductive, PTL DEF Spec, ProgressSurvivesRetry
=============================================================================
