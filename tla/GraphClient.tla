----------------------------- MODULE GraphClient -----------------------------
(***************************************************************************)
(* The retry loop of graph_client.py (_request_json): what one request keeps *)
(* between its attempts, and how an answer changes it.                       *)
(***************************************************************************)
EXTENDS Integers

CONSTANTS
    BackoffInitial,
    BackoffCap,
    RetryAfterCap,
    NoSeconds      \* no number: the header is absent or is not an integer

ASSUME GraphAssumption ==
    /\ BackoffInitial \in Nat /\ BackoffCap \in Nat /\ RetryAfterCap \in Nat
    /\ BackoffInitial <= BackoffCap
    /\ NoSeconds \notin Int

\* 429, and 502, 503 or 504.
Transient == {"throttled", "unavailable"}

\* What ends a request: 204, a 200 with and without JSON, 404, 403, another 4xx, another
\* status, and the two classes requests' exceptions are sorted into.
Final == {"no_content", "json", "not_json", "not_found", "forbidden", "client_error",
          "server_error", "proxy", "network"}

\* A request that may be repeated budget times; sent counts its HTTP calls.
Request(budget) ==
    [attempt |-> 0, budget |-> budget, backoff |-> NoSeconds, after |-> NoSeconds,
     sleep |-> 0, sent |-> 0]

Doubled(previous) ==
    IF 2 * previous > BackoffCap THEN BackoffCap ELSE 2 * previous

NextBackoff(previous) == IF previous = NoSeconds THEN BackoffInitial ELSE Doubled(previous)

Clamped(seconds) == IF seconds > RetryAfterCap THEN RetryAfterCap ELSE seconds

\* Mutant: the header is honoured as it is.
RefusedUnclamped(r, header) ==
    IF header = NoSeconds
    THEN [attempt |-> r.attempt + 1, budget |-> r.budget, backoff |-> NextBackoff(r.backoff),
          after |-> r.after, sleep |-> NextBackoff(r.backoff), sent |-> r.sent]
    ELSE [attempt |-> r.attempt + 1, budget |-> r.budget, backoff |-> r.backoff,
          after |-> header, sleep |-> header, sent |-> r.sent]

\* After a transient failure with this Retry-After.
Refused(r, header) ==
    IF header = NoSeconds
    THEN [attempt |-> r.attempt + 1, budget |-> r.budget, backoff |-> NextBackoff(r.backoff),
          after |-> r.after, sleep |-> NextBackoff(r.backoff), sent |-> r.sent]
    ELSE [attempt |-> r.attempt + 1, budget |-> r.budget, backoff |-> r.backoff,
          after |-> Clamped(header), sleep |-> Clamped(header), sent |-> r.sent]

GivesUp(r) == r.attempt > r.budget

Sent(r) ==
    [attempt |-> r.attempt, budget |-> r.budget, backoff |-> r.backoff, after |-> r.after,
     sleep |-> r.sleep, sent |-> r.sent + 1]

-----------------------------------------------------------------------------
\* What never grows past its cap, whatever the server sends.
SecondsCapped(r) ==
    /\ r.backoff # NoSeconds => r.backoff \in 0..BackoffCap
    /\ r.after # NoSeconds => r.after \in Int /\ r.after <= RetryAfterCap
    /\ r.sleep \in Int /\ (r.sleep <= BackoffCap \/ r.sleep <= RetryAfterCap)
=============================================================================
