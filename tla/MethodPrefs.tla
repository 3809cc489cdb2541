----------------------------- MODULE MethodPrefs -----------------------------
(***************************************************************************)
(* MethodPreferenceStore (method_prefs.py) under the window that uses it    *)
(* (ui_shell.py), over the file of StateStore, through start, quit, kill    *)
(* and power failure (Bridge).                                              *)
(*                                                                          *)
(* One dictionary is shared without a lock: record_use runs on the loop's   *)
(* thread and blocks it until its save is over, load and forget_account     *)
(* run in executor threads.  A step is what a thread does between two       *)
(* points where the others' steps make a difference.                        *)
(***************************************************************************)
EXTENDS StateStore, Bridge, Naturals, FiniteSets

CONSTANTS
    Accounts, Resources, Methods,
    Keys,                \* whose resource is which
    SecretShaped,        \* the keys _find_secret takes for a secret's
    Loader,              \* the one of load, made when the window is built
    UI,                  \* the loop's thread
    NoAccount, NoMethod

Preferences == [Keys -> Methods \cup {NoMethod}]

NoPreferences == [k \in Keys |-> NoMethod]

\* The constants of StateStore: who saves, and what.
ASSUME StoreAssumption ==
    /\ Loader \in Calls /\ UI \notin Calls
    /\ Writers = Calls \cup {UI}
    /\ Bodies = Preferences /\ Defaults = NoPreferences

ASSUME MethodPrefsAssumption ==
    /\ NoAccount \notin Accounts
    /\ NoMethod \notin Methods
    /\ Keys \subseteq Accounts \X Resources
    /\ SecretShaped \subseteq Keys
    /\ Writers \cap {"off", "loading", "unknown", "memory"} = {}

VARIABLES
    prefs,      \* self._preferences
    given,      \* the dictionary a save was given, where its scan began
    work,       \* what a call does: load or forget_account of an account
    reading,    \* load(): what was read, the accounts still to be filled in
    used,       \* what the record_use in progress records
    signedIn,   \* the accounts of the auth manager
    trust,      \* history: why the file should hold what the dictionary holds
    expected,   \* history: what the user should find after a restart
    lost        \* history: something happened that the code does not guard against

prefsVars == <<prefs, given, work, reading, used>>
history == <<trust, expected, lost>>
vars == <<storeVars, bridgeVars, prefsVars, signedIn, history>>

-----------------------------------------------------------------------------
(* Locals.                                                                  *)

\* Both levels of the dictionary; no account in it is without an entry.
KeysIn(body) == {k \in Keys : body[k] # NoMethod}

AccountsIn(body) == {k[1] : k \in KeysIn(body)}

Without(body, a) == [k \in Keys |-> IF k[1] = a THEN NoMethod ELSE body[k]]

NoWork == [kind |-> "none", account |-> NoAccount]

NotGiven == [replaced |-> FALSE, body |-> NoPreferences, keys |-> {}]

NotReading == [at |-> "none", data |-> NoPreferences, left |-> {}]

NoUse == [key |-> <<NoAccount, NoAccount>>, method |-> NoMethod]

LoopFree == phase = "up" /\ ~Saving(UI)

Loading == \E c \in Calls : work[c].kind = "load"

\* A sign-out that went through and whose forget_account has not returned.
Owed(c) == work[c].kind = "forget" /\ call[c].at \in {"queued", "running"}

\* The dictionary save() holds: load() puts another in place of it.
Dictionary(w) == IF given[w].replaced THEN given[w].body ELSE prefs

-----------------------------------------------------------------------------
(* History.  The file should hold the dictionary once a save that met no    *)
(* other ends; "unknown" until then, and never before the load is over.     *)

Trust(t) ==
    /\ trust' = t
    /\ lost' = (lost \/ t = "unknown")

\* What the user expects is only followed while nothing has been lost.
Expect(e) == expected' = IF lost' THEN NoPreferences ELSE e

SaveTrusted(w) ==
    Trust(IF Loading \/ trust = "loading" \/ \E v \in Writers \ {w} : Saving(v) THEN "unknown" ELSE w)

-----------------------------------------------------------------------------
(* load (method_prefs.py 51-69), scheduled by the window at start.          *)

\* A new process: the window is built and its loads are scheduled.
Start ==
    /\ Installed
    /\ call' = [call EXCEPT ![Loader] = [at |-> "loop", awaited |-> TRUE]]
    /\ work' = [work EXCEPT ![Loader] = [kind |-> "load", account |-> NoAccount]]
    /\ trust' = "loading"
    /\ UNCHANGED <<storeVars, prefs, given, reading, used, signedIn, expected, lost>>

BookmarksLoaded(c) ==
    /\ LoopFree /\ work[c].kind = "load"
    /\ Submitted(c)
    /\ UNCHANGED <<storeVars, prefsVars, signedIn, history>>

\* One try block holds both loads: the preferences are not loaded at all.
BookmarksRaise(c) ==
    /\ LoopFree /\ work[c].kind = "load" /\ call[c].at = "loop"
    /\ Ended(c)
    /\ work' = [work EXCEPT ![c] = NoWork]
    /\ Trust("unknown") /\ Expect(expected)
    /\ UNCHANGED <<storeVars, prefs, given, reading, used, signedIn>>

LoadReads(c) ==
    /\ work[c].kind = "load" /\ phase \in {"up", "settle"}
    /\ ~LoadRaises(file.doc)
    /\ Taken(c)
    /\ LET data == Understood(file.doc) IN
          reading' = [at |-> "read", data |-> data, left |-> AccountsIn(data)]
    /\ UNCHANGED <<storeVars, prefs, given, work, used, signedIn, history>>

\* KeyError: the dictionary stays as it is.
LoadReadsOlder(c) ==
    /\ work[c].kind = "load" /\ phase \in {"up", "settle"}
    /\ call[c].at = "queued" /\ LoadRaises(file.doc)
    /\ Ended(c)
    /\ work' = [work EXCEPT ![c] = NoWork]
    /\ Trust(IF trust = "loading" THEN "memory" ELSE "unknown") /\ Expect(expected)
    /\ UNCHANGED <<storeVars, prefs, given, reading, used, signedIn>>

\* self._preferences = {}; a save in progress keeps the dictionary it was given.
LoadResets(c) ==
    /\ work[c].kind = "load" /\ Running(c) /\ reading.at = "read"
    /\ reading' = [reading EXCEPT !.at = "fill"]
    /\ prefs' = NoPreferences
    /\ given' = [w \in Writers |->
                    IF stage[w] \in {"scan", "dump"} /\ ~given[w].replaced
                    THEN [given[w] EXCEPT !.replaced = TRUE, !.body = prefs]
                    ELSE given[w]]
    /\ UNCHANGED <<storeVars, bridgeVars, work, used, signedIn, history>>

LoadFills(c, a) ==
    /\ work[c].kind = "load" /\ Running(c) /\ reading.at = "fill" /\ a \in reading.left
    /\ prefs' = [k \in Keys |-> IF k[1] = a THEN reading.data[k] ELSE prefs[k]]
    /\ reading' = [reading EXCEPT !.left = @ \ {a}]
    /\ UNCHANGED <<storeVars, bridgeVars, given, work, used, signedIn, history>>

LoadReturns(c) ==
    /\ work[c].kind = "load" /\ Running(c) /\ reading.at = "fill" /\ reading.left = {}
    /\ Ended(c)
    /\ work' = [work EXCEPT ![c] = NoWork]
    /\ reading' = NotReading
    /\ Trust(IF trust = "loading" THEN "memory" ELSE trust) /\ Expect(expected)
    /\ UNCHANGED <<storeVars, prefs, given, used, signedIn>>

-----------------------------------------------------------------------------
(* The user.                                                                *)

\* Sign-in, and a switch: AuthManager models both.
SignIn(a) ==
    /\ LoopFree /\ a \notin signedIn
    /\ signedIn' = signedIn \cup {a}
    /\ UNCHANGED <<storeVars, bridgeVars, prefsVars, history>>

\* Mutant: the resource is recorded as its method.
RecordUseSwapped(k, m) ==
    /\ LoopFree /\ k[1] \in signedIn
    /\ prefs' = [prefs EXCEPT ![k] = k[2]]
    /\ used' = [key |-> k, method |-> m]
    /\ given' = [given EXCEPT ![UI] = [NotGiven EXCEPT !.keys = KeysIn(prefs')]]
    /\ SaveStarts(UI)
    /\ SaveTrusted(UI) /\ Expect(expected)
    /\ UNCHANGED <<bridgeVars, work, reading, signedIn>>

\* Mutant: the other entries are dropped.
RecordUseAlone(k, m) ==
    /\ LoopFree /\ k[1] \in signedIn
    /\ prefs' = [NoPreferences EXCEPT ![k] = m]
    /\ used' = [key |-> k, method |-> m]
    /\ given' = [given EXCEPT ![UI] = [NotGiven EXCEPT !.keys = KeysIn(prefs')]]
    /\ SaveStarts(UI)
    /\ SaveTrusted(UI) /\ Expect(expected)
    /\ UNCHANGED <<bridgeVars, work, reading, signedIn>>

\* _launch and _start_web_launch up to record_use: the entry is set, and the
\* save begins on the loop's thread.
RecordUse(k, m) ==
    /\ LoopFree /\ k[1] \in signedIn
    /\ prefs' = [prefs EXCEPT ![k] = m]
    /\ used' = [key |-> k, method |-> m]
    /\ given' = [given EXCEPT ![UI] = [NotGiven EXCEPT !.keys = KeysIn(prefs')]]
    /\ SaveStarts(UI)
    /\ SaveTrusted(UI) /\ Expect(expected)
    /\ UNCHANGED <<bridgeVars, work, reading, signedIn>>

SignOut(a) ==
    /\ LoopFree /\ a \in signedIn
    /\ \E c \in Calls \ {Loader} :
          /\ TaskCreated(c)
          /\ work' = [work EXCEPT ![c] = [kind |-> "forget", account |-> a]]
    /\ UNCHANGED <<storeVars, prefs, given, reading, used, signedIn, history>>

\* The manager has removed the account, and made another one active.
SignedOut(c) ==
    /\ LoopFree /\ work[c].kind = "forget"
    /\ LET a == work[c].account IN
          /\ signedIn' = signedIn \ {a}
          /\ Submitted(c)
          /\ expected' = Without(expected, a)
    /\ UNCHANGED <<storeVars, prefsVars, trust, lost>>

\* The manager's sign_out raises: the handler's toast, and nothing else.
SignOutRaises(c) ==
    /\ LoopFree /\ work[c].kind = "forget" /\ call[c].at = "loop"
    /\ Ended(c)
    /\ work' = [work EXCEPT ![c] = NoWork]
    /\ UNCHANGED <<storeVars, prefs, given, reading, used, signedIn, history>>

-----------------------------------------------------------------------------
(* forget_account (86-90), in a thread.                                     *)

ForgetPops(c) ==
    LET a == work[c].account IN
    /\ work[c].kind = "forget" /\ phase \in {"up", "settle"}
    /\ a \in AccountsIn(prefs)
    /\ Taken(c)
    /\ prefs' = Without(prefs, a)
    /\ given' = [given EXCEPT ![c] = [NotGiven EXCEPT !.keys = KeysIn(prefs')]]
    /\ SaveStarts(c)
    \* Signed in again meanwhile: what it recorded since goes too.
    /\ IF a \in signedIn THEN Trust("unknown") ELSE SaveTrusted(c)
    /\ Expect(expected)
    /\ UNCHANGED <<work, reading, used, signedIn>>

\* Mutant: the removal is not persisted.
ForgetDoesNotSave(c) ==
    /\ work[c].kind = "forget" /\ phase \in {"up", "settle"}
    /\ call[c].at = "queued"
    /\ Ended(c)
    /\ prefs' = Without(prefs, work[c].account)
    /\ work' = [work EXCEPT ![c] = NoWork]
    /\ Trust(IF trust = "loading" THEN "unknown" ELSE trust) /\ Expect(expected)
    /\ UNCHANGED <<storeVars, given, reading, used, signedIn>>

\* Nothing to pop, nothing to save.
ForgetFindsNothing(c) ==
    /\ work[c].kind = "forget" /\ phase \in {"up", "settle"}
    /\ call[c].at = "queued" /\ work[c].account \notin AccountsIn(prefs)
    /\ Ended(c)
    /\ work' = [work EXCEPT ![c] = NoWork]
    /\ Trust(IF trust = "loading" THEN "unknown" ELSE trust) /\ Expect(expected)
    /\ UNCHANGED <<storeVars, prefs, given, reading, used, signedIn>>

-----------------------------------------------------------------------------
(* save, in the thread that called it.                                      *)

Scanned(w) ==
    /\ ScanPasses(w)
    /\ \A k \in given[w].keys : k \notin SecretShaped
    /\ LET began == {k[1] : k \in given[w].keys}
       IN  Cardinality(AccountsIn(Dictionary(w))) = Cardinality(began)
    /\ given' = [given EXCEPT ![w].keys = {}]
    /\ UNCHANGED <<bridgeVars, prefs, work, reading, used, signedIn, history>>

Dumped(w) ==
    /\ Dump(w, Dictionary(w))
    /\ given' = [given EXCEPT ![w] = NotGiven]
    /\ UNCHANGED <<bridgeVars, prefs, work, reading, used, signedIn, history>>

Synced(w) ==
    /\ Sync(w)
    /\ UNCHANGED <<bridgeVars, prefsVars, signedIn, history>>

\* save() returns, and so does what called it.
Saved(w) ==
    /\ Replace(w)
    /\ Trust(IF trust = w THEN "memory" ELSE "unknown")
    /\ IF w = UI
       THEN /\ used' = NoUse
            /\ Expect([expected EXCEPT ![used.key] = used.method])
            /\ UNCHANGED <<bridgeVars, work>>
       ELSE /\ Ended(w)
            /\ work' = [work EXCEPT ![w] = NoWork]
            /\ Expect(expected)
            /\ UNCHANGED used
    /\ UNCHANGED <<prefs, given, reading, signedIn>>

\* save() raises.  A launch is not started; a sign-out shows its toast.
Raised(w) ==
    /\ Trust("unknown") /\ Expect(expected)
    /\ given' = [given EXCEPT ![w] = NotGiven]
    /\ IF w = UI
       THEN used' = NoUse /\ UNCHANGED <<bridgeVars, work>>
       ELSE Ended(w) /\ work' = [work EXCEPT ![w] = NoWork] /\ UNCHANGED used
    /\ UNCHANGED <<prefs, reading, signedIn>>

\* SecretValueRejected, or the dictionary changed size during iteration.
ScanFails(w) ==
    /\ ScanRaises(w)
    /\ \/ \E k \in given[w].keys \cup KeysIn(Dictionary(w)) : k \in SecretShaped
       \/ KeysIn(Dictionary(w)) # given[w].keys
    /\ Raised(w)

WriteFails(w) == WriteRaises(w) /\ Raised(w)

Save(w) == Scanned(w) \/ Dumped(w) \/ Synced(w) \/ Saved(w) \/ ScanFails(w) \/ WriteFails(w)

-----------------------------------------------------------------------------
(* The way down.                                                            *)

Quits ==
    /\ LoopFree /\ Quit
    /\ UNCHANGED <<storeVars, prefsVars, signedIn, history>>

\* A forget_account dropped from the queue leaves the preferences behind.
Settles(c) ==
    /\ TaskSettles(c)
    /\ work' = IF Running(c) THEN work ELSE [work EXCEPT ![c] = NoWork]
    /\ IF Owed(c) /\ ~Running(c) THEN Trust("unknown") ELSE Trust(trust)
    /\ Expect(expected)
    /\ UNCHANGED <<storeVars, prefs, given, reading, used, signedIn>>

SettledAll ==
    /\ Settled
    /\ Trust(IF \E c \in Calls : Owed(c) /\ ~Running(c) THEN "unknown" ELSE trust)
    /\ Expect(expected)
    /\ UNCHANGED <<storeVars, prefsVars, signedIn>>

JoinedAll ==
    /\ Joined
    /\ UNCHANGED <<storeVars, prefsVars, signedIn, history>>

DeadlinePassed ==
    /\ DeadlinePasses
    /\ UNCHANGED <<storeVars, prefsVars, signedIn, history>>

\* What every end of the process does to it.
Ends ==
    /\ Gone
    /\ prefs' = NoPreferences
    /\ given' = [w \in Writers |-> NotGiven]
    /\ work' = [c \in Calls |-> NoWork]
    /\ reading' = NotReading
    /\ used' = NoUse
    /\ trust' = "off"
    /\ Expect(expected)
    /\ UNCHANGED signedIn

\* Daemon threads end with the interpreter, wherever they are.
Exits ==
    /\ phase = "exit"
    /\ lost' = (lost \/ \E c \in Calls : Owed(c))
    /\ ProcessEnds /\ Ends

Killed ==
    /\ phase # "off"
    /\ lost' = (lost \/ \E c \in Calls : Owed(c))
    /\ ProcessEnds /\ Ends

PowerFailure ==
    /\ lost' = (lost \/ durable # file.doc \/ \E c \in Calls : Owed(c))
    /\ PowerFails /\ Ends

WrittenBack ==
    /\ WriteBack
    /\ UNCHANGED <<bridgeVars, prefsVars, signedIn, history>>

-----------------------------------------------------------------------------

\* Any file an earlier build, or a user's editor, may have left.
Init ==
    /\ StoreInit({Current(p) : p \in {q \in Preferences : KeysIn(q) \cap SecretShaped = {}}}
                     \cup {Alien(f) : f \in Formats})
    /\ BridgeInit
    /\ prefs = NoPreferences
    /\ given = [w \in Writers |-> NotGiven]
    /\ work = [c \in Calls |-> NoWork]
    /\ reading = NotReading
    /\ used = NoUse
    /\ signedIn \in SUBSET Accounts
    /\ trust = "off"
    /\ expected = Understood(file.doc)
    /\ lost = FALSE

Load(c) ==
    \/ BookmarksLoaded(c) \/ BookmarksRaise(c)
    \/ LoadReads(c) \/ LoadReadsOlder(c) \/ LoadResets(c) \/ LoadReturns(c)
    \/ \E a \in Accounts : LoadFills(c, a)

Forget(c) ==
    \/ SignedOut(c) \/ SignOutRaises(c)
    \/ ForgetPops(c) \/ ForgetFindsNothing(c)

Next ==
    \/ \E c \in Calls : Load(c) \/ Forget(c) \/ Settles(c)
    \/ \E a \in Accounts : SignIn(a) \/ SignOut(a)
    \/ \E k \in Keys, m \in Methods : RecordUse(k, m)
    \/ \E w \in Writers : Save(w)
    \/ Start \/ Quits \/ SettledAll \/ JoinedAll \/ DeadlinePassed \/ Exits \/ Killed
    \/ PowerFailure \/ WrittenBack

Spec == Init /\ [][Next]_vars

\* The loop's thread pumps on, the clock passes the deadline and the interpreter
\* ends.  Nothing is assumed of other threads, of other tasks or of the disk.
Fairness == WF_vars(DeadlinePassed \/ (late /\ (SettledAll \/ JoinedAll)) \/ Exits)

FairSpec == Spec /\ Fairness

-----------------------------------------------------------------------------
(* Properties.                                                              *)

PrefsTypeOK ==
    /\ prefs \in Preferences
    /\ given \in [Writers -> [replaced : BOOLEAN, body : Preferences, keys : SUBSET Keys]]
    /\ work \in [Calls -> [kind : {"none", "load", "forget"}, account : Accounts \cup {NoAccount}]]
    /\ reading \in [at : {"none", "read", "fill"}, data : Preferences, left : SUBSET Accounts]
    /\ used \in [key : Keys, method : Methods] \cup {NoUse}
    /\ signedIn \subseteq Accounts
    /\ trust \in {"off", "loading", "unknown", "memory"} \cup Writers
    /\ expected \in Preferences
    /\ lost \in BOOLEAN

\* Every variable has its type: no step of a save, a load or a shutdown is
\* taken from a place that does not lead to it.
TypeOK == StoreTypeOK /\ BridgeTypeOK /\ PrefsTypeOK

Idle == (\A w \in Writers : ~Saving(w)) /\ (\A c \in Calls : call[c] = NoCall)

\* When no call is in progress and the last save met no other, the file holds
\* what the dictionary holds: what preferred_method answers is what the next
\* start of the application will read, whatever steps of record_use,
\* forget_account and load came between.
QuietFileIsMemory == Idle /\ trust = "memory" => Understood(file.doc) = prefs

\* FR-2-AC-2: after a launch was recorded or an account forgotten, the file
\* holds exactly what every launch and every sign-out so far leave behind,
\* through quits, kills and power failures, until one of the named losses.
NothingIsLost == Idle /\ ~lost => Understood(file.doc) = expected

\* shutdown() leaves its two stages early only when their work is done: before
\* the deadline no cancelled task is left without its cleanup and no executor
\* thread is left inside a save.
QuitWaits ==
    /\ phase \in {"join", "exit"} /\ ~late => Unsettled = {}
    /\ phase = "exit" /\ ~late => \A w \in Writers : ~Saving(w)

NoDoc == Alien("none")

Doc == INSTANCE AtomicDocument WITH
    Documents <- Document,
    NoDocument <- NoDoc,
    doc <- file.doc,
    kept <- durable,
    offered <- [w \in Writers |-> IF stage[w] \in {"sync", "replace"} THEN temp[w].doc ELSE NoDoc]

\* state_store.py:12-15: whoever is killed where, and however many saves
\* overlap, the file is one whole document that was in place or was offered;
\* mkstemp, fsync and os.replace implement one atomic replacement.
IsAtomicDocument == Doc!Spec

\* Quitting ends, whatever the tasks, the threads and the disk do: shutdown is
\* bounded by its one deadline and daemon threads do not hold the interpreter.
QuitEnds == phase = "settle" ~> phase = "off"
=============================================================================
