--------------------------- MODULE AtomicDocument ---------------------------
(***************************************************************************)
(* What a state store promises of its one file (state_store.py:12-15): a    *)
(* reader finds a whole document, either the one that was in place or one   *)
(* that some save offered, however many threads save at once and wherever   *)
(* they are killed.  After a power failure it is one that had been in place *)
(* (the rename is not forced to disk, so it need not be the last one).      *)
(***************************************************************************)
CONSTANTS
    Writers,      \* threads inside save()
    Documents,    \* whole documents
    NoDocument

VARIABLES
    doc,          \* the document in place
    kept,         \* the one a power failure would leave in place
    offered       \* what each writer is about to put in place

vars == <<doc, kept, offered>>

Init ==
    /\ doc \in Documents
    /\ kept = doc
    /\ offered = [w \in Writers |-> NoDocument]

Offer(w) ==
    /\ offered[w] = NoDocument
    /\ UNCHANGED <<doc, kept>>
    /\ offered'[w] \in Documents
    /\ offered' = [offered EXCEPT ![w] = offered'[w]]

Replace(w) ==
    /\ offered[w] # NoDocument
    /\ doc' = offered[w]
    /\ offered' = [offered EXCEPT ![w] = NoDocument]
    /\ UNCHANGED kept

\* The save raises: the document in place stays.
GiveUp(w) ==
    /\ offered' = [offered EXCEPT ![w] = NoDocument]
    /\ UNCHANGED <<doc, kept>>

WriteBack ==
    /\ kept' = doc
    /\ UNCHANGED <<doc, offered>>

\* The process ends, with the machine or without it.
End ==
    /\ doc' \in {doc, kept}
    /\ offered' = [w \in Writers |-> NoDocument]
    /\ UNCHANGED kept

Next ==
    \/ \E w \in Writers : Offer(w) \/ Replace(w) \/ GiveUp(w)
    \/ WriteBack
    \/ End

Spec == Init /\ [][Next]_vars
=============================================================================
