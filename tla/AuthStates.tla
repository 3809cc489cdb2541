----------------------------- MODULE AuthStates -----------------------------
(***************************************************************************)
(* The per-account authentication record of auth_state.py and the methods  *)
(* that rewrite it, as operators from a record to a record.  A method that  *)
(* refuses to act on a blocked account returns its argument unchanged.      *)
(* AccountAuthState runs these methods alone; AuthManager calls them from   *)
(* the handlers that own an account.                                        *)
(***************************************************************************)
EXTENDS Integers

CONSTANTS
    Claims,        \* the claims strings a challenge may carry, opaque
    NoClaims       \* pending_claims is None

ASSUME ClaimsAssumption == NoClaims \notin Claims

MAX_CLAIMS_CHALLENGE_RETRIES == 3

AuthState == {"SIGNED_OUT", "INTERACTIVE_AUTH", "ACTIVE", "SILENT_REFRESH",
              "REAUTH_REQUIRED", "OFFLINE", "DEVICE_CA_BLOCKED"}

MsalErrorCategory == {"INVALID_GRANT", "CLAIMS_CHALLENGE", "NETWORK_ERROR",
                      "DEVICE_CA_BLOCKED", "CONSENT_REQUIRED", "UNKNOWN"}

\* consent: an admin-consent URL is recorded; the login hint is display data.
Record == [state   : AuthState,
           claims  : Claims \cup {NoClaims},
           consent : BOOLEAN,
           retry   : Nat]

New == [state |-> "SIGNED_OUT", claims |-> NoClaims, consent |-> FALSE, retry |-> 0]

Blocked(r) == r.state = "DEVICE_CA_BLOCKED"

-----------------------------------------------------------------------------
(* The handlers of the transition table.  c is the challenge's claims       *)
(* string, which only the claims handler reads.                             *)

OnInvalidGrant(r) == [New EXCEPT !.state = "REAUTH_REQUIRED"]

\* Mutant: one challenge too many.
OnClaimsChallengeLate(r, c) ==
    LET more == r.retry <= MAX_CLAIMS_CHALLENGE_RETRIES IN
    [state   |-> IF more THEN "INTERACTIVE_AUTH" ELSE "REAUTH_REQUIRED",
     claims  |-> IF more THEN c ELSE NoClaims,
     consent |-> r.consent,
     retry   |-> r.retry + 1]

\* Mutant: giving up forgets to drop the pending claims.
OnClaimsChallengeKeepsClaims(r, c) ==
    [r EXCEPT !.retry = @ + 1, !.claims = c,
              !.state = IF r.retry + 1 <= MAX_CLAIMS_CHALLENGE_RETRIES
                        THEN "INTERACTIVE_AUTH" ELSE "REAUTH_REQUIRED"]

OnClaimsChallenge(r, c) ==
    LET more == r.retry + 1 <= MAX_CLAIMS_CHALLENGE_RETRIES IN
    [state   |-> IF more THEN "INTERACTIVE_AUTH" ELSE "REAUTH_REQUIRED",
     claims  |-> IF more THEN c ELSE NoClaims,
     consent |-> r.consent,
     retry   |-> r.retry + 1]

OnNetworkError(r) == [r EXCEPT !.state = "OFFLINE"]

OnDeviceCaBlocked(r) == [r EXCEPT !.state = "DEVICE_CA_BLOCKED"]

OnConsentRequired(r, url) == [r EXCEPT !.consent = url]

\* An unknown category fails safe: it is handled as an invalid grant.
ApplyError(r, category, c, url) ==
    CASE Blocked(r)                      -> r
      [] ~Blocked(r) /\ category = "CLAIMS_CHALLENGE"  -> OnClaimsChallenge(r, c)
      [] ~Blocked(r) /\ category = "NETWORK_ERROR"     -> OnNetworkError(r)
      [] ~Blocked(r) /\ category = "DEVICE_CA_BLOCKED" -> OnDeviceCaBlocked(r)
      [] ~Blocked(r) /\ category = "CONSENT_REQUIRED"  -> OnConsentRequired(r, url)
      [] OTHER                           -> OnInvalidGrant(r)

\* The caller checks Blocked first: the method raises there.
BeginInteractive(r) == [r EXCEPT !.state = "INTERACTIVE_AUTH"]

\* Mutant: a success counts a challenge down instead of clearing the record.
MarkActiveCountsDown(r) ==
    IF Blocked(r) THEN r ELSE [r EXCEPT !.state = "ACTIVE", !.retry = @ - 1]

\* Mutant: a success does not ask whether the account is blocked.
MarkActiveUnguarded(r) == [New EXCEPT !.state = "ACTIVE", !.consent = r.consent]

MarkActive(r) == IF Blocked(r) THEN r ELSE [New EXCEPT !.state = "ACTIVE"]

BeginSilentRefresh(r) == IF Blocked(r) THEN r ELSE [r EXCEPT !.state = "SILENT_REFRESH"]

\* Mutant: going offline starts the account afresh.
MarkOfflineAfresh(r) == IF Blocked(r) THEN r ELSE [New EXCEPT !.state = "OFFLINE"]

MarkOffline(r) == IF Blocked(r) THEN r ELSE [r EXCEPT !.state = "OFFLINE"]

SignOut(r) == New
=============================================================================
