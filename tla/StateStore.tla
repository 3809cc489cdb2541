----------------------------- MODULE StateStore -----------------------------
(***************************************************************************)
(* StateStore (state_store.py): one JSON file, loaded by version and saved  *)
(* through a temporary file, fsync and os.replace.  The steps of save() are *)
(* those between which another thread may run or the process may die; the   *)
(* module that calls them says when they are taken.                         *)
(***************************************************************************)
CONSTANTS
    Writers,      \* the threads that may be inside save()
    Bodies,       \* what a caller saves
    Defaults      \* the body load() gives when it has none to give

VARIABLES
    file,         \* the inode <name>.json names
    durable,      \* the document it names after a power failure
    temp,         \* the temporary file of each thread in _write_atomic
    stage         \* where each thread is in save()

storeVars == <<file, durable, temp, stage>>

\* No file; not JSON, or not an object; schemaVersion missing or too low; this
\* build's; too high.
Formats == {"absent", "unreadable", "older", "current", "newer"}

Document == [format : Formats, body : Bodies]

Alien(format) == [format |-> format, body |-> Defaults]

Current(body) == [format |-> "current", body |-> body]

\* A file that was not fsynced may be empty, or half written, after a failure.
Torn == Alien("unreadable")

Inode == [doc : Document, synced : BOOLEAN]

\* mkstemp: an empty file (the value stands for no file too).
Blank == [doc |-> Torn, synced |-> FALSE]

Stages == {"idle", "scan", "dump", "sync", "replace"}

StoreTypeOK ==
    /\ file \in Inode
    /\ durable \in Document
    /\ temp \in [Writers -> Inode]
    /\ stage \in [Writers -> Stages]

Saving(w) == stage[w] # "idle"

StoreInit(documents) ==
    /\ \E d \in documents : file = [doc |-> d, synced |-> TRUE] /\ durable = d
    /\ temp = [w \in Writers |-> Blank]
    /\ stage = [w \in Writers |-> "idle"]

-----------------------------------------------------------------------------
(* load: it leaves the file alone.  No store of the program registers a     *)
(* migration, so an older document makes _migrate raise KeyError and the    *)
(* rewrite of a migrated one is never reached.                              *)

LoadRaises(d) == d.format = "older"

Understood(d) == IF d.format = "current" THEN d.body ELSE Defaults

-----------------------------------------------------------------------------
(* save: _find_secret, then _write_atomic.                                  *)

SaveStarts(w) ==
    /\ stage[w] = "idle"
    /\ stage' = [stage EXCEPT ![w] = "scan"]
    /\ UNCHANGED <<file, durable, temp>>

\* The scan finds nothing; mkstemp.
ScanPasses(w) ==
    /\ stage[w] = "scan"
    /\ stage' = [stage EXCEPT ![w] = "dump"]
    /\ UNCHANGED <<file, durable, temp>>

\* SecretValueRejected, or the scan itself failed: nothing was written.
ScanRaises(w) ==
    /\ stage[w] = "scan"
    /\ stage' = [stage EXCEPT ![w] = "idle"]
    /\ UNCHANGED <<file, durable, temp>>

\* Mutant: no fsync.
DumpUnsynced(w, body) ==
    /\ stage[w] = "dump"
    /\ stage' = [stage EXCEPT ![w] = "replace"]
    /\ temp' = [temp EXCEPT ![w] = [doc |-> Current(body), synced |-> FALSE]]
    /\ UNCHANGED <<file, durable>>

\* json.dump and flush.  The dump is one look at the dictionary: two changes
\* that fall inside one dump may be seen the other way round.
Dump(w, body) ==
    /\ stage[w] = "dump"
    /\ stage' = [stage EXCEPT ![w] = "sync"]
    /\ temp' = [temp EXCEPT ![w] = [doc |-> Current(body), synced |-> FALSE]]
    /\ UNCHANGED <<file, durable>>

Sync(w) ==
    /\ stage[w] = "sync"
    /\ stage' = [stage EXCEPT ![w] = "replace"]
    /\ temp' = [temp EXCEPT ![w].synced = TRUE]
    /\ UNCHANGED <<file, durable>>

Replace(w) ==
    /\ stage[w] = "replace"
    /\ stage' = [stage EXCEPT ![w] = "idle"]
    /\ file' = temp[w]
    /\ temp' = [temp EXCEPT ![w] = Blank]
    /\ UNCHANGED durable

\* mkstemp, the write, the fsync or the replace fails: unlink and raise.
WriteRaises(w) ==
    /\ stage[w] \in {"dump", "sync", "replace"}
    /\ stage' = [stage EXCEPT ![w] = "idle"]
    /\ temp' = [temp EXCEPT ![w] = Blank]
    /\ UNCHANGED <<file, durable>>

-----------------------------------------------------------------------------
(* The disk and the process.                                                *)

\* The directory is never fsynced: the kernel writes it back when it likes.
WriteBack ==
    /\ durable' = IF file.synced THEN file.doc ELSE Torn
    /\ UNCHANGED <<file, temp, stage>>

\* Threads end where they stand; a temporary file left behind is never read.
ProcessEnds ==
    /\ temp' = [w \in Writers |-> Blank]
    /\ stage' = [w \in Writers |-> "idle"]
    /\ UNCHANGED <<file, durable>>

PowerFails ==
    /\ file' = [doc |-> durable, synced |-> TRUE]
    /\ temp' = [w \in Writers |-> Blank]
    /\ stage' = [w \in Writers |-> "idle"]
    /\ UNCHANGED durable

-----------------------------------------------------------------------------
(* What a caller may do with the store.                                     *)

StoreNext ==
    \/ \E w \in Writers :
          \/ SaveStarts(w) \/ ScanPasses(w) \/ ScanRaises(w)
          \/ \E body \in Bodies : Dump(w, body)
          \/ Sync(w) \/ Replace(w) \/ WriteRaises(w)
    \/ WriteBack \/ ProcessEnds \/ PowerFails
=============================================================================
