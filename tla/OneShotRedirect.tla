--------------------------- MODULE OneShotRedirect ---------------------------
(***************************************************************************)
(* What LoopbackListener promises to a sign-in: it takes at most one         *)
(* redirect, and the sign-in ends once, with that redirect or without one.   *)
(***************************************************************************)
CONSTANTS Connections, NoConnection

VARIABLES
    taken,         \* the redirect the listener took
    outcome        \* how the sign-in's wait ended: "open" until it does

vars == <<taken, outcome>>

Init == taken = NoConnection /\ outcome = "open"

Take(c) ==
    /\ taken = NoConnection /\ taken' = c
    /\ UNCHANGED outcome

Deliver ==
    /\ outcome = "open" /\ taken # NoConnection
    /\ outcome' = "redirect"
    /\ UNCHANGED taken

Abandon ==
    /\ outcome = "open" /\ outcome' = "abandoned"
    /\ UNCHANGED taken

Next == (\E c \in Connections : Take(c)) \/ Deliver \/ Abandon

Spec == Init /\ [][Next]_vars
=============================================================================
