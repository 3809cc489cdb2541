-------------------------- MODULE MethodPrefsProofs --------------------------
(***************************************************************************)
(* Theorems of MethodPrefs.                                                 *)
(***************************************************************************)
EXTENDS MethodPrefs, TLAPS

\* What is replaced was fsynced, so the file always is.
FileIsSynced ==
    /\ file.synced
    /\ \A w \in Writers : stage[w] = "replace" => temp[w].synced

\* A save is under way in a thread that forgets an account, or on the loop's
\* thread while the application is up.
SavesAreHeld ==
    /\ Saving(UI) => phase = "up"
    /\ \A c \in Calls : Saving(c) <=> Running(c) /\ work[c].kind = "forget"

\* One load, in one thread; no forget of the process before.
OneLoader ==
    /\ \A c \in Calls : work[c].kind = "load" => c = Loader
    /\ reading.at # "none" => work[Loader].kind = "load" /\ Running(Loader)
    /\ phase = "off" <=> trust = "off"
    /\ phase = "off" => \A c \in Calls : call[c] = NoCall /\ work[c] = NoWork

\* The load gives what the file holds.
LoadIsTrue ==
    /\ trust = "off" => prefs = NoPreferences
    /\ trust = "loading" =>
        /\ \A w \in Writers : ~Saving(w)
        /\ reading.at \in {"none", "read"} => prefs = NoPreferences
        /\ reading.at # "none" => reading.data = Understood(file.doc)
        /\ reading.at = "read" => reading.left = AccountsIn(reading.data)
        /\ reading.at = "fill" =>
              prefs = [k \in Keys |-> IF k[1] \in reading.left THEN NoMethod ELSE reading.data[k]]

\* The save that is trusted puts the dictionary in the file.
SaveIsTrue ==
    \A w \in Writers : trust = w =>
        /\ ~Loading
        /\ \A v \in Writers : Saving(v) <=> v = w
        /\ ~given[w].replaced
        /\ stage[w] \in {"sync", "replace"} => temp[w].doc = Current(prefs)

MemoryIsTrue ==
    trust = "memory" =>
        /\ ~Loading
        /\ \A w \in Writers : ~Saving(w)
        /\ Understood(file.doc) = prefs

-----------------------------------------------------------------------------
(* Types.                                                                   *)

LEMMA NoPreferencesType == NoPreferences \in Preferences
  BY DEF NoPreferences, Preferences

LEMMA WithoutType ==
  ASSUME NEW p \in Preferences, NEW a
  PROVE  Without(p, a) \in Preferences
  BY DEF Without, Preferences

LEMMA UnderstoodType ==
  ASSUME NEW d \in Document
  PROVE  Understood(d) \in Preferences
  BY NoPreferencesType, StoreAssumption DEF Understood, Document

LEMMA StoreType == StoreTypeOK /\ [StoreNext]_storeVars => StoreTypeOK'
  <1> SUFFICES ASSUME StoreTypeOK, [StoreNext]_storeVars PROVE StoreTypeOK'
    OBVIOUS
  <1>0. Torn \in Document /\ Blank \in Inode
    BY NoPreferencesType, StoreAssumption DEF Torn, Blank, Alien, Document, Inode, Formats
  <1>1. ASSUME NEW w \in Writers, SaveStarts(w) \/ ScanPasses(w) \/ ScanRaises(w) PROVE StoreTypeOK'
    BY <1>1 DEF StoreTypeOK, SaveStarts, ScanPasses, ScanRaises, Stages
  <1>2. ASSUME NEW w \in Writers, NEW b \in Bodies, Dump(w, b) PROVE StoreTypeOK'
    BY <1>2 DEF StoreTypeOK, Dump, Stages, Inode, Document, Current, Formats
  <1>3. ASSUME NEW w \in Writers, Sync(w) PROVE StoreTypeOK'
    BY <1>3 DEF StoreTypeOK, Sync, Stages, Inode
  <1>4. ASSUME NEW w \in Writers, Replace(w) \/ WriteRaises(w) PROVE StoreTypeOK'
    BY <1>0, <1>4 DEF StoreTypeOK, Replace, WriteRaises, Stages
  <1>5. CASE WriteBack \/ ProcessEnds \/ PowerFails
    <2>1. temp' \in [Writers -> Inode] /\ stage' \in [Writers -> Stages]
      BY <1>0, <1>5 DEF StoreTypeOK, WriteBack, ProcessEnds, PowerFails, Stages
    <2>2. file.doc \in Document /\ [doc |-> durable, synced |-> TRUE] \in Inode
      BY DEF StoreTypeOK, Inode
    <2>3. file' \in Inode /\ durable' \in Document
      BY <1>0, <1>5, <2>2 DEF StoreTypeOK, WriteBack, ProcessEnds, PowerFails
    <2> QED
      BY <2>1, <2>3 DEF StoreTypeOK
  <1>6. CASE UNCHANGED storeVars
    BY <1>6 DEF StoreTypeOK, storeVars
  <1> QED
    BY <1>1, <1>2, <1>3, <1>4, <1>5, <1>6 DEF StoreNext

\* Every step of the application is one of the store, or leaves it alone.
LEMMA StoreSteps == TypeOK /\ [Next]_vars => [StoreNext]_storeVars
  <1> SUFFICES ASSUME TypeOK, [Next]_vars PROVE [StoreNext]_storeVars
    OBVIOUS
  <1>1. ASSUME NEW k \in Keys, NEW m \in Methods, RecordUse(k, m) PROVE StoreNext
    BY <1>1, StoreAssumption DEF RecordUse, StoreNext
  <1>2. ASSUME NEW c \in Calls, ForgetPops(c) PROVE StoreNext
    BY <1>2, StoreAssumption DEF ForgetPops, StoreNext
  <1>3. ASSUME NEW w \in Writers, Save(w) PROVE StoreNext
    <2>1. Dictionary(w) \in Bodies
      BY StoreAssumption DEF TypeOK, PrefsTypeOK, Dictionary
    <2> QED
      BY <1>3, <2>1 DEF Save, Scanned, Dumped, Synced, Saved, ScanFails, WriteFails, StoreNext
  <1>4. CASE Exits \/ Killed \/ PowerFailure \/ WrittenBack
    BY <1>4 DEF Exits, Killed, PowerFailure, WrittenBack, StoreNext
  <1>5. ASSUME NEW c \in Calls, Load(c) \/ SignedOut(c) \/ SignOutRaises(c) \/ ForgetFindsNothing(c) \/ Settles(c)
        PROVE  UNCHANGED storeVars
    BY <1>5 DEF Load, SignedOut, SignOutRaises, ForgetFindsNothing, Settles, BookmarksLoaded, BookmarksRaise,
                LoadReads, LoadReadsOlder, LoadResets, LoadFills, LoadReturns, storeVars
  <1>6. ASSUME NEW a \in Accounts, SignIn(a) \/ SignOut(a) PROVE UNCHANGED storeVars
    BY <1>6 DEF SignIn, SignOut, storeVars
  <1>7. CASE Start \/ Quits \/ SettledAll \/ JoinedAll \/ DeadlinePassed \/ UNCHANGED vars
    BY <1>7 DEF Start, Quits, SettledAll, JoinedAll, DeadlinePassed, vars, storeVars
  <1> QED
    BY <1>1, <1>2, <1>3, <1>4, <1>5, <1>6, <1>7 DEF Next, Forget

LEMMA NoCallType == NoCall \in [at : Places, awaited : BOOLEAN]
  BY DEF NoCall, Places

LEMMA CallType ==
  ASSUME BridgeTypeOK, NEW c \in Calls,
         TaskCreated(c) \/ Submitted(c) \/ Taken(c) \/ Ended(c) \/ TaskSettles(c)
  PROVE  BridgeTypeOK'
  <1>1. CASE TaskCreated(c)
    BY <1>1 DEF BridgeTypeOK, TaskCreated, Places
  <1>2. CASE Submitted(c) \/ Taken(c)
    BY <1>2 DEF BridgeTypeOK, Submitted, Taken, Places
  <1>3. CASE Ended(c)
    BY <1>3, NoCallType DEF BridgeTypeOK, Ended
  <1>4. CASE TaskSettles(c)
    BY <1>4, NoCallType DEF BridgeTypeOK, TaskSettles, Places
  <1> QED
    BY <1>1, <1>2, <1>3, <1>4

LEMMA PhaseType ==
  ASSUME BridgeTypeOK, Quit \/ DeadlinePasses \/ Settled \/ Joined \/ Gone
  PROVE  BridgeTypeOK'
  <1>1. CASE Quit \/ DeadlinePasses \/ Joined
    BY <1>1 DEF BridgeTypeOK, Quit, DeadlinePasses, Joined, Phases
  <1>2. CASE Settled
    BY <1>2 DEF BridgeTypeOK, Settled, Phases, Places
  <1>3. CASE Gone
    BY <1>3, NoCallType DEF BridgeTypeOK, Gone, Phases
  <1> QED
    BY <1>1, <1>2, <1>3

LEMMA HistoryType ==
  ASSUME NEW t, NEW e \in Preferences, Trust(t), Expect(e), lost \in BOOLEAN,
         t \in {"off", "loading", "unknown", "memory"} \cup Writers
  PROVE  /\ trust' \in {"off", "loading", "unknown", "memory"} \cup Writers
         /\ expected' \in Preferences
         /\ lost' \in BOOLEAN
  BY NoPreferencesType DEF Trust, Expect

LEMMA BlankTypes ==
    /\ NotGiven \in [replaced : BOOLEAN, body : Preferences, keys : SUBSET Keys]
    /\ NoWork \in [kind : {"none", "load", "forget"}, account : Accounts \cup {NoAccount}]
    /\ NotReading \in [at : {"none", "read", "fill"}, data : Preferences, left : SUBSET Accounts]
  BY NoPreferencesType DEF NotGiven, NoWork, NotReading

LEMMA TypeInit == Init => TypeOK
  <1> SUFFICES ASSUME Init PROVE TypeOK
    OBVIOUS
  <1>1. file \in Inode /\ durable \in Document
    <2>1. \A p \in Preferences : Current(p) \in Document
      BY StoreAssumption DEF Current, Document, Formats
    <2>2. \A f \in Formats : Alien(f) \in Document
      BY StoreAssumption, NoPreferencesType DEF Alien, Document
    <2>3. PICK d : d \in Document /\ file = [doc |-> d, synced |-> TRUE] /\ durable = d
      BY <2>1, <2>2 DEF Init, StoreInit
    <2> QED
      BY <2>3 DEF Inode
  <1>2. StoreTypeOK
    <2>1. Blank \in Inode
      BY NoPreferencesType, StoreAssumption DEF Blank, Torn, Alien, Document, Inode, Formats
    <2> QED
      BY <1>1, <2>1 DEF Init, StoreInit, StoreTypeOK, Stages
  <1>3. BridgeTypeOK
    BY NoCallType DEF Init, BridgeInit, BridgeTypeOK, Phases
  <1>4. expected \in Preferences
    BY <1>1, UnderstoodType DEF Init, Inode
  <1> QED
    BY <1>2, <1>3, <1>4, NoPreferencesType, BlankTypes DEF Init, TypeOK, PrefsTypeOK

LEMMA LoadType ==
  ASSUME TypeOK, NEW c \in Calls, Load(c)
  PROVE  BridgeTypeOK' /\ PrefsTypeOK'
  <1> USE DEF TypeOK, PrefsTypeOK
  <1>1. CASE BookmarksLoaded(c)
    BY <1>1, CallType DEF BookmarksLoaded, prefsVars, history
  <1>2. CASE BookmarksRaise(c)
    BY <1>2, CallType, HistoryType, BlankTypes DEF BookmarksRaise
  <1>3. CASE LoadReads(c)
    <2>1. /\ Understood(file.doc) \in Preferences
          /\ AccountsIn(Understood(file.doc)) \subseteq Accounts
      BY UnderstoodType, MethodPrefsAssumption DEF StoreTypeOK, Inode, AccountsIn, KeysIn
    <2> QED
      BY <1>3, <2>1, CallType DEF LoadReads, history
  <1>4. CASE LoadReadsOlder(c)
    BY <1>4, CallType, HistoryType, BlankTypes DEF LoadReadsOlder
  <1>5. CASE LoadResets(c)
    BY <1>5, NoPreferencesType, ZenonT(60) DEF LoadResets, bridgeVars, BridgeTypeOK, history
  <1>6. ASSUME NEW a \in Accounts, LoadFills(c, a) PROVE BridgeTypeOK' /\ PrefsTypeOK'
    BY <1>6 DEF LoadFills, bridgeVars, BridgeTypeOK, history, Preferences
  <1>7. CASE LoadReturns(c)
    BY <1>7, CallType, HistoryType, BlankTypes DEF LoadReturns
  <1> QED
    BY <1>1, <1>2, <1>3, <1>4, <1>5, <1>6, <1>7 DEF Load

LEMMA ForgetType ==
  ASSUME TypeOK, NEW c \in Calls, Forget(c)
  PROVE  BridgeTypeOK' /\ PrefsTypeOK'
  <1> USE DEF TypeOK, PrefsTypeOK
  <1>1. CASE SignedOut(c)
    BY <1>1, CallType, WithoutType DEF SignedOut, prefsVars
  <1>2. CASE SignOutRaises(c)
    BY <1>2, CallType, BlankTypes DEF SignOutRaises, history
  <1>3. CASE ForgetPops(c)
    <2>1. prefs' \in Preferences
      BY <1>3, WithoutType DEF ForgetPops
    <2>2. given' \in [Writers -> [replaced : BOOLEAN, body : Preferences, keys : SUBSET Keys]]
      BY <1>3, BlankTypes DEF ForgetPops, KeysIn
    <2>3. \E t \in {"unknown", c} : Trust(t)
      BY <1>3 DEF ForgetPops, SaveTrusted
    <2>4. c \in Writers
      BY StoreAssumption
    <2> QED
      BY <1>3, <2>1, <2>2, <2>3, <2>4, CallType, HistoryType DEF ForgetPops
  <1>4. CASE ForgetFindsNothing(c)
    BY <1>4, CallType, HistoryType, BlankTypes DEF ForgetFindsNothing
  <1> QED
    BY <1>1, <1>2, <1>3, <1>4 DEF Forget

LEMMA SignType ==
  ASSUME TypeOK, NEW a \in Accounts, SignIn(a) \/ SignOut(a)
  PROVE  BridgeTypeOK' /\ PrefsTypeOK'
  <1> USE DEF TypeOK, PrefsTypeOK
  <1>1. CASE SignIn(a)
    BY <1>1 DEF SignIn, bridgeVars, BridgeTypeOK, prefsVars, history
  <1>2. CASE SignOut(a)
    BY <1>2, CallType DEF SignOut, history
  <1> QED
    BY <1>1, <1>2

LEMMA RecordType ==
  ASSUME TypeOK, NEW k \in Keys, NEW m \in Methods, RecordUse(k, m)
  PROVE  BridgeTypeOK' /\ PrefsTypeOK'
  <1> USE DEF TypeOK, PrefsTypeOK
  <1>1. prefs' \in Preferences
    BY DEF RecordUse, Preferences
  <1>2. given' \in [Writers -> [replaced : BOOLEAN, body : Preferences, keys : SUBSET Keys]]
    BY BlankTypes DEF RecordUse, KeysIn
  <1>3. \E t \in {"unknown", UI} : Trust(t)
    BY DEF RecordUse, SaveTrusted
  <1>4. UI \in Writers
    BY StoreAssumption
  <1> QED
    BY <1>1, <1>2, <1>3, <1>4, HistoryType DEF RecordUse, bridgeVars, BridgeTypeOK

LEMMA SaveType ==
  ASSUME TypeOK, NEW w \in Writers, Save(w)
  PROVE  BridgeTypeOK' /\ PrefsTypeOK'
  <1> USE DEF TypeOK, PrefsTypeOK
  <1>0. w # UI => w \in Calls
    BY StoreAssumption
  <1>1. CASE Scanned(w)
    BY <1>1 DEF Scanned, bridgeVars, BridgeTypeOK, history
  <1>2. CASE Dumped(w)
    BY <1>2, BlankTypes DEF Dumped, bridgeVars, BridgeTypeOK, history
  <1>3. CASE Synced(w)
    BY <1>3 DEF Synced, bridgeVars, BridgeTypeOK, prefsVars, history
  <1>4. CASE Saved(w)
    <2>1. [expected EXCEPT ![used.key] = used.method] \in Preferences
      <3>1. used.method \in Methods \cup {NoMethod}
        BY DEF NoUse
      <3> QED
        BY <3>1 DEF Preferences
    <2> QED
      BY <1>0, <1>4, <2>1, CallType, HistoryType, BlankTypes DEF Saved, bridgeVars, BridgeTypeOK
  <1>5. CASE ScanFails(w) \/ WriteFails(w)
    <2>1. Raised(w)
      BY <1>5 DEF ScanFails, WriteFails
    <2>2. trust' \in {"off", "loading", "unknown", "memory"} \cup Writers /\ expected' \in Preferences /\ lost' \in BOOLEAN
      BY <2>1, HistoryType DEF Raised
    <2>3. BridgeTypeOK'
      BY <1>0, <2>1, CallType DEF Raised, bridgeVars, BridgeTypeOK
    <2>4. given' \in [Writers -> [replaced : BOOLEAN, body : Preferences, keys : SUBSET Keys]]
      BY <2>1, BlankTypes DEF Raised
    <2>5. work' \in [Calls -> [kind : {"none", "load", "forget"}, account : Accounts \cup {NoAccount}]]
      BY <2>1, BlankTypes DEF Raised
    <2> QED
      BY <2>1, <2>2, <2>3, <2>4, <2>5 DEF Raised
  <1> QED
    BY <1>1, <1>2, <1>3, <1>4, <1>5 DEF Save

LEMMA StartType ==
  ASSUME TypeOK, Start
  PROVE  BridgeTypeOK' /\ PrefsTypeOK'
  <1>1. [at |-> "loop", awaited |-> TRUE] \in [at : Places, awaited : BOOLEAN]
    BY DEF Places
  <1>2. BridgeTypeOK'
    BY <1>1 DEF TypeOK, Start, Installed, BridgeTypeOK, Phases
  <1>3. PrefsTypeOK'
    BY DEF TypeOK, PrefsTypeOK, Start
  <1> QED
    BY <1>2, <1>3

LEMMA QuitType ==
  ASSUME TypeOK, Quits \/ SettledAll \/ JoinedAll \/ DeadlinePassed
  PROVE  BridgeTypeOK' /\ PrefsTypeOK'
  BY PhaseType, HistoryType DEF TypeOK, PrefsTypeOK, Quits, SettledAll, JoinedAll, DeadlinePassed, prefsVars, history

LEMMA EndType ==
  ASSUME TypeOK, Exits \/ Killed \/ PowerFailure
  PROVE  BridgeTypeOK' /\ PrefsTypeOK'
  <1>1. Ends
    BY DEF Exits, Killed, PowerFailure
  <1>2. lost' \in BOOLEAN
    BY DEF TypeOK, PrefsTypeOK, Exits, Killed, PowerFailure
  <1>3. BridgeTypeOK'
    BY <1>1, PhaseType DEF TypeOK, Ends
  <1> QED
    BY <1>1, <1>2, <1>3, BlankTypes, NoPreferencesType DEF TypeOK, PrefsTypeOK, Ends, Expect

LEMMA TypeStep == TypeOK /\ [Next]_vars => TypeOK'
  <1> SUFFICES ASSUME TypeOK, [Next]_vars PROVE TypeOK'
    OBVIOUS
  <1>1. StoreTypeOK'
    BY StoreSteps, StoreType DEF TypeOK
  <1>2. ASSUME NEW c \in Calls, Settles(c) PROVE BridgeTypeOK' /\ PrefsTypeOK'
    <2>1. trust' \in {"off", "loading", "unknown", "memory"} \cup Writers /\ expected' \in Preferences /\ lost' \in BOOLEAN
      BY <1>2, HistoryType DEF Settles, TypeOK, PrefsTypeOK
    <2>2. BridgeTypeOK'
      BY <1>2, CallType DEF Settles, TypeOK
    <2>3. work' \in [Calls -> [kind : {"none", "load", "forget"}, account : Accounts \cup {NoAccount}]]
      BY <1>2, BlankTypes DEF Settles, TypeOK, PrefsTypeOK
    <2> QED
      BY <1>2, <2>1, <2>2, <2>3 DEF Settles, TypeOK, PrefsTypeOK
  <1>3. CASE WrittenBack \/ UNCHANGED vars
    BY <1>1, <1>3 DEF TypeOK, PrefsTypeOK, BridgeTypeOK, WrittenBack, vars, bridgeVars, prefsVars, history
  <1>4. CASE \E c \in Calls : Load(c) \/ Forget(c) \/ Settles(c)
    BY <1>1, <1>2, <1>4, LoadType, ForgetType DEF TypeOK
  <1>5. CASE \/ \E a \in Accounts : SignIn(a) \/ SignOut(a)
             \/ \E k \in Keys, m \in Methods : RecordUse(k, m)
    BY <1>1, <1>5, SignType, RecordType DEF TypeOK
  <1>6. CASE \E w \in Writers : Save(w)
    BY <1>1, <1>6, SaveType DEF TypeOK
  <1>7. CASE Start \/ Quits \/ SettledAll \/ JoinedAll \/ DeadlinePassed \/ Exits \/ Killed \/ PowerFailure
    BY <1>1, <1>7, StartType, QuitType, EndType DEF TypeOK
  <1> QED
    BY <1>3, <1>4, <1>5, <1>6, <1>7 DEF Next

\* Every variable of the application and of its file has its type.
THEOREM TypeCorrect == Spec => []TypeOK
  BY TypeInit, TypeStep, PTL DEF Spec

-----------------------------------------------------------------------------
(* The store implements AtomicDocument.                                     *)

LEMMA SyncedStep == StoreTypeOK /\ FileIsSynced /\ [StoreNext]_storeVars => FileIsSynced'
  <1> SUFFICES ASSUME StoreTypeOK, FileIsSynced, [StoreNext]_storeVars PROVE FileIsSynced'
    OBVIOUS
  <1> USE DEF StoreTypeOK, FileIsSynced
  <1>1. ASSUME NEW w \in Writers, SaveStarts(w) \/ ScanPasses(w) \/ ScanRaises(w) PROVE FileIsSynced'
    BY <1>1 DEF SaveStarts, ScanPasses, ScanRaises
  <1>2. ASSUME NEW w \in Writers, NEW b \in Bodies, Dump(w, b) PROVE FileIsSynced'
    BY <1>2 DEF Dump
  <1>3. ASSUME NEW w \in Writers, Sync(w) PROVE FileIsSynced'
    BY <1>3 DEF Sync, Inode
  <1>4. ASSUME NEW w \in Writers, Replace(w) \/ WriteRaises(w) PROVE FileIsSynced'
    BY <1>4 DEF Replace, WriteRaises
  <1>5. CASE WriteBack \/ ProcessEnds \/ PowerFails \/ UNCHANGED storeVars
    BY <1>5 DEF WriteBack, ProcessEnds, PowerFails, storeVars
  <1> QED
    BY <1>1, <1>2, <1>3, <1>4, <1>5 DEF StoreNext

\* What a writer offers: its dump, until it has replaced the file.
Offered == [w \in Writers |-> IF stage[w] \in {"sync", "replace"} THEN temp[w].doc ELSE NoDoc]

LEMMA NoDocIsNone == NoDoc \notin Document
  BY DEF NoDoc, Alien, Document, Formats

LEMMA StepIsAtomic ==
  StoreTypeOK /\ FileIsSynced /\ [StoreNext]_storeVars => [Doc!Next]_(Doc!vars)
  <1> SUFFICES ASSUME StoreTypeOK, FileIsSynced, [StoreNext]_storeVars
               PROVE  Doc!Next \/ UNCHANGED <<file.doc, durable, Offered>>
    BY DEF Doc!vars, Offered
  <1> USE DEF StoreTypeOK, Offered
  <1>1. ASSUME NEW w \in Writers, SaveStarts(w) \/ ScanPasses(w) \/ ScanRaises(w)
        PROVE  UNCHANGED <<file.doc, durable, Offered>>
    BY <1>1 DEF SaveStarts, ScanPasses, ScanRaises
  <1>2. ASSUME NEW w \in Writers, NEW b \in Bodies, Dump(w, b) PROVE Doc!Offer(w)
    <2>1. Current(b) \in Document
      BY DEF Current, Document, Formats
    <2>2. Offered[w] = NoDoc /\ Offered' = [Offered EXCEPT ![w] = Current(b)]
      BY <1>2 DEF Dump
    <2> QED
      BY <1>2, <2>1, <2>2 DEF Doc!Offer, Dump
  <1>3. ASSUME NEW w \in Writers, Sync(w) PROVE UNCHANGED <<file.doc, durable, Offered>>
    BY <1>3 DEF Sync, Inode
  <1>4. ASSUME NEW w \in Writers, Replace(w) PROVE Doc!Replace(w)
    <2>1. Offered[w] = temp[w].doc /\ Offered[w] # NoDoc
      BY <1>4, NoDocIsNone DEF Replace, Inode
    <2>2. Offered' = [Offered EXCEPT ![w] = NoDoc]
      BY <1>4 DEF Replace
    <2> QED
      BY <1>4, <2>1, <2>2 DEF Doc!Replace, Replace
  <1>5. ASSUME NEW w \in Writers, WriteRaises(w) PROVE Doc!GiveUp(w)
    BY <1>5 DEF Doc!GiveUp, WriteRaises
  <1>6. CASE WriteBack
    BY <1>6 DEF Doc!Next, Doc!WriteBack, WriteBack, FileIsSynced
  <1>7. CASE ProcessEnds \/ PowerFails
    BY <1>7 DEF Doc!Next, Doc!End, ProcessEnds, PowerFails
  <1>8. CASE UNCHANGED storeVars
    BY <1>8 DEF storeVars
  <1> QED
    BY <1>1, <1>2, <1>3, <1>4, <1>5, <1>6, <1>7, <1>8 DEF StoreNext, Doc!Next

LEMMA InitIsAtomic == Init => Doc!Init /\ FileIsSynced
  <1> SUFFICES ASSUME Init PROVE Doc!Init /\ FileIsSynced
    OBVIOUS
  <1>1. TypeOK
    BY TypeInit
  <1> QED
    BY <1>1 DEF Init, StoreInit, Doc!Init, FileIsSynced, TypeOK, StoreTypeOK

\* Whoever is killed where, and however many saves overlap: the file is always
\* a whole document, the one that was in place or one that a save offered.
THEOREM ImplementsAtomicDocument == Spec => IsAtomicDocument
  <1>1. TypeOK /\ FileIsSynced /\ [Next]_vars => FileIsSynced' /\ [Doc!Next]_(Doc!vars)
    BY StoreSteps, SyncedStep, StepIsAtomic DEF TypeOK
  <1> QED
    BY <1>1, InitIsAtomic, TypeCorrect, PTL DEF Spec, IsAtomicDocument, Doc!Spec

-----------------------------------------------------------------------------
(* Who is inside a save, and where the load is.                             *)

Held == TypeOK /\ SavesAreHeld /\ OneLoader

LEMMA HeldInit == Init => Held
  <1> SUFFICES ASSUME Init PROVE Held
    OBVIOUS
  <1>1. stage = [w \in Writers |-> "idle"]
    BY DEF Init, StoreInit
  <1>2. /\ phase = "off" /\ trust = "off" /\ reading.at = "none"
        /\ call = [c \in Calls |-> NoCall] /\ work = [c \in Calls |-> NoWork]
    BY DEF Init, BridgeInit, NotReading
  <1> QED
    BY <1>1, <1>2, TypeInit, StoreAssumption DEF Held, SavesAreHeld, OneLoader, Saving, Running, NoCall, NoWork

LEMMA HeldLoad ==
  ASSUME Held, NEW c \in Calls, Load(c)
  PROVE  SavesAreHeld' /\ OneLoader'
  <1> USE StoreAssumption DEF Held, TypeOK, StoreTypeOK, BridgeTypeOK, PrefsTypeOK, SavesAreHeld, OneLoader, Saving, Running, storeVars, bridgeVars
  <1>1. CASE BookmarksLoaded(c)
    BY <1>1 DEF BookmarksLoaded, Submitted, LoopFree, prefsVars, history
  <1>2. CASE BookmarksRaise(c)
    BY <1>2 DEF BookmarksRaise, Ended, NoCall, NoWork, Trust, LoopFree
  <1>3. CASE LoadReads(c)
    BY <1>3 DEF LoadReads, Taken, history
  <1>4. CASE LoadReadsOlder(c)
    BY <1>4 DEF LoadReadsOlder, Ended, NoCall, NoWork, Trust
  <1>5. CASE LoadResets(c)
    BY <1>5 DEF LoadResets, history
  <1>6. ASSUME NEW a \in Accounts, LoadFills(c, a) PROVE SavesAreHeld' /\ OneLoader'
    BY <1>6 DEF LoadFills, history
  <1>7. CASE LoadReturns(c)
    BY <1>7 DEF LoadReturns, Ended, NoCall, NoWork, NotReading, Trust
  <1> QED
    BY <1>1, <1>2, <1>3, <1>4, <1>5, <1>6, <1>7 DEF Load

LEMMA HeldForget ==
  ASSUME Held, NEW c \in Calls, Forget(c)
  PROVE  SavesAreHeld' /\ OneLoader'
  <1> USE StoreAssumption DEF Held, TypeOK, StoreTypeOK, BridgeTypeOK, PrefsTypeOK, SavesAreHeld, OneLoader, Saving, Running, storeVars
  <1>1. CASE SignedOut(c)
    BY <1>1 DEF SignedOut, Submitted, LoopFree, prefsVars
  <1>2. CASE SignOutRaises(c)
    BY <1>2 DEF SignOutRaises, Ended, NoCall, NoWork, LoopFree, history
  <1>3. CASE ForgetPops(c)
    <2>1. trust' \in {"unknown", c}
      BY <1>3 DEF ForgetPops, SaveTrusted, Trust
    <2> QED
      BY <1>3, <2>1, MethodPrefsAssumption DEF ForgetPops, SaveStarts, Taken
  <1>4. CASE ForgetFindsNothing(c)
    BY <1>4 DEF ForgetFindsNothing, Ended, NoCall, NoWork, Trust
  <1> QED
    BY <1>1, <1>2, <1>3, <1>4 DEF Forget

LEMMA HeldSave ==
  ASSUME Held, NEW w \in Writers, Save(w)
  PROVE  SavesAreHeld' /\ OneLoader'
  <1> USE StoreAssumption DEF Held, TypeOK, StoreTypeOK, BridgeTypeOK, PrefsTypeOK, SavesAreHeld, OneLoader, Saving, Running, storeVars, bridgeVars
  <1>1. CASE Scanned(w)
    BY <1>1 DEF Scanned, ScanPasses, history
  <1>2. CASE Dumped(w)
    BY <1>2 DEF Dumped, Dump, history
  <1>3. CASE Synced(w)
    BY <1>3 DEF Synced, Sync, prefsVars, history
  <1>4. CASE Saved(w)
    <2>1. stage[w] # "idle" /\ stage' = [stage EXCEPT ![w] = "idle"] /\ trust' \in {"memory", "unknown"}
          /\ UNCHANGED <<phase, reading>>
      BY <1>4 DEF Saved, Replace, Trust, Ended
    <2>2. CASE w = UI
      BY <1>4, <2>1, <2>2 DEF Saved
    <2>3. CASE w # UI
      BY <1>4, <2>1, <2>3 DEF Saved, Ended, NoCall, NoWork
    <2> QED
      BY <2>2, <2>3
  <1>5. CASE ScanFails(w) \/ WriteFails(w)
    <2>1. stage[w] # "idle" /\ stage' = [stage EXCEPT ![w] = "idle"] /\ trust' = "unknown" /\ Raised(w)
          /\ UNCHANGED <<phase, reading>>
      BY <1>5 DEF ScanFails, ScanRaises, WriteFails, WriteRaises, Raised, Trust, Ended
    <2>2. CASE w = UI
      <3>1. UNCHANGED <<call, work, phase>> /\ phase = "up"
        BY <2>1, <2>2 DEF Raised
      <3>2. stage'[UI] = "idle" /\ \A c \in Calls : stage'[c] = stage[c]
        BY <2>1, <2>2
      <3> QED
        BY <2>1, <3>1, <3>2
    <2>3. CASE w # UI
      <3>1. /\ w \in Calls /\ Running(w) /\ work[w].kind = "forget"
            /\ call' = [call EXCEPT ![w] = NoCall] /\ work' = [work EXCEPT ![w] = NoWork]
        BY <2>1, <2>3 DEF Raised, Ended
      <3>2. phase # "off"
        BY <3>1 DEF NoCall
      <3>3. SavesAreHeld'
        BY <2>1, <3>1 DEF NoCall
      <3>4. OneLoader'
        BY <2>1, <3>1, <3>2 DEF NoWork
      <3> QED
        BY <3>3, <3>4
    <2> QED
      BY <2>2, <2>3
  <1> QED
    BY <1>1, <1>2, <1>3, <1>4, <1>5 DEF Save

LEMMA HeldSign ==
  ASSUME Held, NEW a \in Accounts, SignIn(a) \/ SignOut(a)
  PROVE  SavesAreHeld' /\ OneLoader'
  <1> USE StoreAssumption DEF Held, TypeOK, StoreTypeOK, BridgeTypeOK, PrefsTypeOK, SavesAreHeld, OneLoader, Saving, Running, storeVars, bridgeVars
  <1>1. CASE SignIn(a)
    BY <1>1 DEF SignIn, prefsVars, history
  <1>2. CASE SignOut(a)
    BY <1>2 DEF SignOut, TaskCreated, NoCall, LoopFree, history
  <1> QED
    BY <1>1, <1>2

LEMMA HeldRecord ==
  ASSUME Held, NEW k \in Keys, NEW m \in Methods, RecordUse(k, m)
  PROVE  SavesAreHeld' /\ OneLoader'
  <1>1. trust' \in {"unknown", UI} /\ trust' # "off"
    BY StoreAssumption, MethodPrefsAssumption DEF RecordUse, SaveTrusted, Trust
  <1> QED
    BY <1>1, StoreAssumption DEF Held, TypeOK, StoreTypeOK, SavesAreHeld, OneLoader, Saving, Running,
        RecordUse, SaveStarts, LoopFree, bridgeVars

LEMMA HeldProcess ==
  ASSUME Held,
         \/ Start \/ Quits \/ SettledAll \/ JoinedAll \/ DeadlinePassed \/ Exits \/ Killed \/ PowerFailure \/ WrittenBack
         \/ \E c \in Calls : Settles(c)
  PROVE  SavesAreHeld' /\ OneLoader'
  <1> USE StoreAssumption DEF Held, TypeOK, StoreTypeOK, BridgeTypeOK, PrefsTypeOK, SavesAreHeld, OneLoader, Saving, Running, storeVars, bridgeVars
  <1>1. CASE Start
    BY <1>1 DEF Start, Installed, NoCall, NoWork
  <1>2. CASE Quits \/ JoinedAll \/ DeadlinePassed
    BY <1>2 DEF Quits, Quit, JoinedAll, Joined, DeadlinePassed, DeadlinePasses, LoopFree, prefsVars, history
  <1>3. CASE SettledAll
    BY <1>3 DEF SettledAll, Settled, Trust, prefsVars
  <1>4. ASSUME NEW c \in Calls, Settles(c) PROVE SavesAreHeld' /\ OneLoader'
    BY <1>4 DEF Settles, TaskSettles, Trust, NoCall, NoWork
  <1>5. CASE Exits \/ Killed \/ PowerFailure
    <2>1. stage' = [w \in Writers |-> "idle"] /\ Ends
      BY <1>5 DEF Exits, Killed, PowerFailure, ProcessEnds, PowerFails
    <2>2. /\ phase' = "off" /\ trust' = "off" /\ reading'.at = "none"
          /\ call' = [c \in Calls |-> NoCall] /\ work' = [c \in Calls |-> NoWork]
      BY <2>1 DEF Ends, Gone, NotReading
    <2> QED
      BY <2>1, <2>2 DEF NoCall, NoWork
  <1>6. CASE WrittenBack
    BY <1>6 DEF WrittenBack, WriteBack, prefsVars, history
  <1> QED
    BY <1>1, <1>2, <1>3, <1>4, <1>5, <1>6

LEMMA HeldStep == Held /\ [Next]_vars => Held'
  <1> SUFFICES ASSUME Held, [Next]_vars PROVE Held'
    OBVIOUS
  <1>1. TypeOK'
    BY TypeStep DEF Held
  <1>2. CASE \E c \in Calls : Load(c) \/ Forget(c) \/ Settles(c)
    BY <1>1, <1>2, HeldLoad, HeldForget, HeldProcess DEF Held
  <1>3. CASE \E a \in Accounts : SignIn(a) \/ SignOut(a)
    BY <1>1, <1>3, HeldSign DEF Held
  <1>4. CASE \E k \in Keys, m \in Methods : RecordUse(k, m)
    BY <1>1, <1>4, HeldRecord DEF Held
  <1>5. CASE \E w \in Writers : Save(w)
    BY <1>1, <1>5, HeldSave DEF Held
  <1>6. CASE \/ Start \/ Quits \/ SettledAll \/ JoinedAll \/ DeadlinePassed \/ Exits \/ Killed
             \/ PowerFailure \/ WrittenBack
    BY <1>1, <1>6, HeldProcess DEF Held
  <1>7. CASE UNCHANGED vars
    BY <1>1, <1>7 DEF Held, SavesAreHeld, OneLoader, Saving, Running, vars, storeVars, bridgeVars, prefsVars, history
  <1> QED
    BY <1>2, <1>3, <1>4, <1>5, <1>6, <1>7 DEF Next

-----------------------------------------------------------------------------
(* The way down.                                                            *)

WaitsInv ==
    /\ phase \in {"join", "exit"} /\ ~late => Unsettled = {}
    /\ phase = "exit" /\ ~late => \A c \in Calls : ~Running(c)

LEMMA WaitsStep == Held /\ WaitsInv /\ [Next]_vars => WaitsInv'
  <1> SUFFICES ASSUME Held, WaitsInv, [Next]_vars PROVE WaitsInv'
    OBVIOUS
  <1> USE DEF Held, TypeOK, BridgeTypeOK, WaitsInv, Unsettled, Running
  \* A call that is there, or one of a process that has not begun to end.
  <1>1. ASSUME NEW c \in Calls, Ended(c) PROVE WaitsInv'
    BY <1>1 DEF Ended, NoCall
  <1>2. ASSUME NEW c \in Calls, phase \in {"up", "settle"}, TaskCreated(c) \/ Submitted(c) \/ Taken(c) \/ TaskSettles(c)
        PROVE  WaitsInv'
    BY <1>2 DEF TaskCreated, Submitted, Taken, TaskSettles
  <1>3. CASE UNCHANGED bridgeVars
    BY <1>3 DEF bridgeVars
  <1>4. CASE Start \/ Quits \/ DeadlinePassed
    BY <1>4 DEF Start, Installed, Quits, Quit, DeadlinePassed, DeadlinePasses
  <1>5. CASE SettledAll
    BY <1>5 DEF SettledAll, Settled
  <1>6. CASE JoinedAll
    BY <1>6 DEF JoinedAll, Joined
  <1>7. CASE Exits \/ Killed \/ PowerFailure
    BY <1>7 DEF Exits, Killed, PowerFailure, Ends, Gone
  <1>8. ASSUME NEW c \in Calls, Load(c) \/ Forget(c) \/ Settles(c) PROVE WaitsInv'
    <2>1. CASE Load(c)
      BY <1>1, <1>2, <1>3, <2>1 DEF Load, BookmarksLoaded, BookmarksRaise, LoadReads, LoadReadsOlder, LoadResets,
          LoadFills, LoadReturns, LoopFree
    <2>2. CASE Forget(c)
      BY <1>1, <1>2, <2>2 DEF Forget, SignedOut, SignOutRaises, ForgetPops, ForgetFindsNothing, LoopFree
    <2>3. CASE Settles(c)
      BY <1>2, <2>3 DEF Settles, TaskSettles
    <2> QED
      BY <1>8, <2>1, <2>2, <2>3
  <1>9. CASE \E a \in Accounts : SignIn(a) \/ SignOut(a)
    BY <1>2, <1>3, <1>9 DEF SignIn, SignOut, LoopFree
  <1>10. CASE WrittenBack \/ \E k \in Keys, m \in Methods : RecordUse(k, m)
    BY <1>3, <1>10 DEF WrittenBack, RecordUse
  <1>11. ASSUME NEW w \in Writers, Save(w) PROVE WaitsInv'
    <2>1. w # UI => w \in Calls
      BY StoreAssumption
    <2> QED
      BY <1>1, <1>3, <1>11, <2>1 DEF Save, Scanned, Dumped, Synced, Saved, ScanFails, WriteFails, Raised
  <1>12. CASE UNCHANGED vars
    BY <1>3, <1>12 DEF vars
  <1> QED
    BY <1>4, <1>5, <1>6, <1>7, <1>8, <1>9, <1>10, <1>11, <1>12 DEF Next

\* Before its deadline shutdown() leaves neither a task without its cleanup nor
\* a thread inside a save behind.
THEOREM ShutdownWaits == Spec => []QuitWaits
  <1>1. Init => WaitsInv
    BY DEF Init, BridgeInit, WaitsInv
  <1>2. Held /\ WaitsInv => QuitWaits
    BY StoreAssumption DEF Held, SavesAreHeld, WaitsInv, QuitWaits
  <1> QED
    BY <1>1, <1>2, HeldInit, HeldStep, WaitsStep, PTL DEF Spec

-----------------------------------------------------------------------------
(* The dictionary and the file.                                             *)

True == LoadIsTrue /\ SaveIsTrue /\ MemoryIsTrue

LEMMA TrustsNoString ==
  ASSUME NEW w \in Writers
  PROVE  w \notin {"off", "loading", "unknown", "memory"}
  BY MethodPrefsAssumption

LEMMA UnknownIsTrue ==
  ASSUME \/ trust' = "unknown"
         \/ trust' = "off" /\ prefs' = NoPreferences
  PROVE  True'
  BY TrustsNoString DEF True, LoadIsTrue, SaveIsTrue, MemoryIsTrue

LEMMA NothingMoves ==
  ASSUME True, UNCHANGED <<file, temp, stage, prefs, given, reading, trust>>,
         ~Loading => ~Loading'
  PROVE  True'
  BY DEF True, LoadIsTrue, SaveIsTrue, MemoryIsTrue, Saving

\* A call that has no more, or other, work: it does not begin to load.
LEMMA LoadsNoMore ==
  ASSUME TypeOK, NEW c \in Calls, NEW x, x.kind # "load", work' = [work EXCEPT ![c] = x]
  PROVE  ~Loading => ~Loading'
  BY DEF Loading, TypeOK, PrefsTypeOK

LEMMA TrueInit == Init => True
  BY TrustsNoString DEF Init, True, LoadIsTrue, SaveIsTrue, MemoryIsTrue

LEMMA TrueLoad ==
  ASSUME Held, True, NEW c \in Calls, Load(c)
  PROVE  True'
  <1>0. /\ work[c].kind = "load" /\ c = Loader /\ Loading /\ trust \in {"loading", "unknown", "off"}
    <2>1. work[c].kind = "load"
      BY DEF Load, BookmarksLoaded, BookmarksRaise, LoadReads, LoadReadsOlder, LoadResets, LoadFills, LoadReturns
    <2>2. Loading
      BY <2>1 DEF Loading
    <2> QED
      BY <2>1, <2>2 DEF Held, OneLoader, True, SaveIsTrue, MemoryIsTrue, TypeOK, PrefsTypeOK
  <1>1. CASE BookmarksLoaded(c)
    BY <1>1, NothingMoves DEF BookmarksLoaded, Loading, storeVars, prefsVars, history
  <1>2. CASE BookmarksRaise(c)
    BY <1>2, UnknownIsTrue DEF BookmarksRaise, Trust
  <1>3. CASE LoadReads(c)
    <2>1. reading.at = "none"
      BY <1>0, <1>3 DEF LoadReads, Taken, Held, OneLoader, Running
    <2>2. /\ UNCHANGED <<file, stage, prefs, trust>>
          /\ reading' = [at |-> "read", data |-> Understood(file.doc), left |-> AccountsIn(Understood(file.doc))]
      BY <1>3 DEF LoadReads, storeVars, history
    <2> QED
      BY <1>0, <2>1, <2>2, TrustsNoString DEF True, LoadIsTrue, SaveIsTrue, MemoryIsTrue, Saving
  <1>4. CASE LoadReadsOlder(c)
    <2>1. CASE trust # "loading"
      BY <1>4, <2>1, UnknownIsTrue DEF LoadReadsOlder, Trust
    <2>2. CASE trust = "loading"
      <3>1. reading.at = "none" /\ prefs = NoPreferences /\ \A w \in Writers : ~Saving(w)
        BY <1>0, <1>4, <2>2 DEF LoadReadsOlder, Held, OneLoader, Running, True, LoadIsTrue
      <3>2. Understood(file.doc) = NoPreferences
        BY <1>4, StoreAssumption DEF LoadReadsOlder, LoadRaises, Understood
      <3>3. UNCHANGED <<file, stage, prefs>> /\ trust' = "memory"
        BY <1>4, <2>2 DEF LoadReadsOlder, storeVars, Trust
      <3>4. ~Loading'
        BY <1>0, <1>4 DEF LoadReadsOlder, Loading, NoWork, Held, OneLoader, TypeOK, PrefsTypeOK
      <3> QED
        BY <3>1, <3>2, <3>3, <3>4, TrustsNoString DEF True, LoadIsTrue, SaveIsTrue, MemoryIsTrue, Saving
    <2> QED
      BY <2>1, <2>2
  <1>5. CASE LoadResets(c)
    <2>1. /\ UNCHANGED <<file, stage, trust>> /\ prefs' = NoPreferences
          /\ reading' = [reading EXCEPT !.at = "fill"] /\ reading.at = "read"
      BY <1>5 DEF LoadResets, storeVars, history
    <2>2. reading.left = AccountsIn(reading.data) =>
            NoPreferences = [k \in Keys |-> IF k[1] \in reading.left THEN NoMethod ELSE reading.data[k]]
      BY DEF AccountsIn, KeysIn, NoPreferences
    <2> QED
      BY <1>0, <2>1, <2>2, TrustsNoString
      DEF True, LoadIsTrue, SaveIsTrue, MemoryIsTrue, Saving, Held, TypeOK, PrefsTypeOK
  <1>6. ASSUME NEW a \in Accounts, LoadFills(c, a) PROVE True'
    <2>1. /\ UNCHANGED <<file, stage, trust>> /\ reading.at = "fill"
          /\ prefs' = [k \in Keys |-> IF k[1] = a THEN reading.data[k] ELSE prefs[k]]
          /\ reading' = [reading EXCEPT !.left = @ \ {a}]
      BY <1>6 DEF LoadFills, storeVars, history
    <2>2. /\ reading'.at = "fill" /\ reading'.data = reading.data
          /\ reading'.left = reading.left \ {a}
      BY <2>1 DEF Held, TypeOK, PrefsTypeOK
    <2>3. trust = "loading" =>
            prefs' = [k \in Keys |-> IF k[1] \in reading'.left THEN NoMethod ELSE reading'.data[k]]
      BY <2>1, <2>2 DEF True, LoadIsTrue
    <2>4. trust # "off"
      BY <1>6 DEF LoadFills, Running, NoCall, Held, OneLoader
    <2> QED
      BY <1>0, <2>1, <2>2, <2>3, <2>4, TrustsNoString DEF True, LoadIsTrue, SaveIsTrue, MemoryIsTrue, Saving
  <1>7. CASE LoadReturns(c)
    <2>0. trust # "off"
      BY <1>7 DEF LoadReturns, Running, NoCall, Held, OneLoader
    <2>1. CASE trust = "unknown"
      BY <1>7, <2>1, UnknownIsTrue DEF LoadReturns, Trust
    <2>2. CASE trust = "loading"
      <3>1. /\ UNCHANGED <<file, stage, prefs>> /\ trust' = "memory"
            /\ reading.at = "fill" /\ reading.left = {}
        BY <1>7, <2>2 DEF LoadReturns, storeVars, Trust
      <3>2. prefs = Understood(file.doc)
        <4>1. reading.data \in Preferences
          BY DEF Held, TypeOK, PrefsTypeOK
        <4> QED
          BY <2>2, <3>1, <4>1 DEF True, LoadIsTrue, Preferences
      <3>3. ~Loading'
        BY <1>0, <1>7 DEF LoadReturns, Loading, NoWork, Held, OneLoader, TypeOK, PrefsTypeOK
      <3> QED
        BY <2>2, <3>1, <3>2, <3>3, TrustsNoString DEF True, LoadIsTrue, SaveIsTrue, MemoryIsTrue, Saving
    <2> QED
      BY <1>0, <2>0, <2>1, <2>2
  <1> QED
    BY <1>1, <1>2, <1>3, <1>4, <1>5, <1>6, <1>7 DEF Load

\* A save that meets neither the load nor another save is the trusted one.
LEMMA TrueStarts ==
  ASSUME Held, NEW w \in Writers, SaveStarts(w), SaveTrusted(w), UNCHANGED work,
         given' = [given EXCEPT ![w] = [NotGiven EXCEPT !.keys = KeysIn(prefs')]]
  PROVE  True'
  <1>1. CASE trust' = "unknown"
    BY <1>1, UnknownIsTrue
  <1>2. CASE trust' # "unknown"
    <2>1. trust' = w /\ ~Loading /\ \A v \in Writers \ {w} : ~Saving(v)
      BY <1>2 DEF SaveTrusted, Trust
    <2>2. ~given'[w].replaced
      BY DEF NotGiven, Held, TypeOK, PrefsTypeOK
    <2>3. stage'[w] = "scan" /\ \A v \in Writers \ {w} : stage'[v] = stage[v]
      BY DEF SaveStarts, Held, TypeOK, StoreTypeOK
    <2> QED
      BY <2>1, <2>2, <2>3, TrustsNoString DEF True, LoadIsTrue, SaveIsTrue, MemoryIsTrue, Saving, Loading
  <1> QED
    BY <1>1, <1>2

LEMMA TrueForget ==
  ASSUME Held, True, NEW c \in Calls, Forget(c)
  PROVE  True'
  <1>0. NoWork.kind # "load"
    BY DEF NoWork
  <1>1. CASE SignedOut(c)
    BY <1>1, NothingMoves DEF SignedOut, Loading, storeVars, prefsVars
  <1>2. CASE SignOutRaises(c)
    BY <1>0, <1>2, LoadsNoMore, NothingMoves DEF SignOutRaises, storeVars, history, Held
  <1>3. CASE ForgetPops(c)
    <2>1. c \in Writers
      BY StoreAssumption
    <2>2. CASE trust' = "unknown"
      BY <2>2, UnknownIsTrue
    <2>3. CASE trust' # "unknown"
      BY <1>3, <2>1, <2>3, TrueStarts DEF ForgetPops, Trust
    <2> QED
      BY <2>2, <2>3
  <1>4. CASE ForgetFindsNothing(c)
    <2>1. CASE trust' = "unknown"
      BY <2>1, UnknownIsTrue
    <2>2. CASE trust' # "unknown"
      BY <1>0, <1>4, <2>2, LoadsNoMore, NothingMoves DEF ForgetFindsNothing, Trust, storeVars, Held
    <2> QED
      BY <2>1, <2>2
  <1> QED
    BY <1>1, <1>2, <1>3, <1>4 DEF Forget

LEMMA TrueSave ==
  ASSUME Held, True, NEW w \in Writers, Save(w)
  PROVE  True'
  <1>0. Saving(w)
    BY DEF Save, Scanned, ScanPasses, Dumped, Dump, Synced, Sync, Saved, Replace, ScanFails, ScanRaises,
       WriteFails, WriteRaises, Saving
  <1>1. trust \in {"unknown", w}
    <2>1. trust # "off"
      <3>1. ASSUME phase = "off" PROVE FALSE
        <4>1. w = UI \/ w \in Calls
          BY StoreAssumption
        <4> QED
          BY <1>0, <3>1, <4>1 DEF Held, SavesAreHeld, OneLoader, Running, NoCall
      <3> QED
        BY <3>1 DEF Held, OneLoader
    <2> QED
      BY <1>0, <2>1 DEF True, LoadIsTrue, SaveIsTrue, MemoryIsTrue, Held, TypeOK, PrefsTypeOK
  <1> USE DEF Held, TypeOK, StoreTypeOK, PrefsTypeOK
  <1>2. ASSUME UNCHANGED <<prefs, work, trust>>, stage'[w] # "idle", \A v \in Writers \ {w} : stage'[v] = stage[v],
               trust = w => /\ ~given'[w].replaced
                            /\ stage'[w] \in {"sync", "replace"} => temp'[w].doc = Current(prefs)
        PROVE  True'
    BY <1>1, <1>2, TrustsNoString DEF True, LoadIsTrue, SaveIsTrue, MemoryIsTrue, Saving, Loading
  <1>3. CASE Scanned(w)
    BY <1>2, <1>3 DEF Scanned, ScanPasses, history, True, SaveIsTrue
  <1>4. CASE Dumped(w)
    BY <1>2, <1>4 DEF Dumped, Dump, Dictionary, NotGiven, history, True, SaveIsTrue
  <1>5. CASE Synced(w)
    BY <1>2, <1>5 DEF Synced, Sync, Inode, prefsVars, history, True, SaveIsTrue
  <1>6. CASE Saved(w)
    <2>1. CASE trust # w
      BY <1>6, <2>1, UnknownIsTrue DEF Saved, Trust
    <2>2. CASE trust = w
      <3>1. /\ trust' = "memory" /\ UNCHANGED prefs /\ file' = temp[w]
            /\ \A v \in Writers : stage'[v] = "idle"
        BY <1>6, <2>2 DEF Saved, Replace, Trust, True, SaveIsTrue, Saving
      <3>2. Understood(file'.doc) = prefs
        BY <1>6, <2>2, <3>1 DEF Saved, Replace, True, SaveIsTrue, Current, Understood
      <3>3. ~Loading'
        BY <1>6, <2>2, LoadsNoMore, StoreAssumption DEF Saved, NoWork, True, SaveIsTrue, Loading
      <3> QED
        BY <3>1, <3>2, <3>3, TrustsNoString DEF True, LoadIsTrue, SaveIsTrue, MemoryIsTrue, Saving
    <2> QED
      BY <2>1, <2>2
  <1>7. CASE ScanFails(w) \/ WriteFails(w)
    BY <1>7, UnknownIsTrue DEF ScanFails, WriteFails, Raised, Trust
  <1> QED
    BY <1>3, <1>4, <1>5, <1>6, <1>7 DEF Save

LEMMA TrueStep == Held /\ True /\ [Next]_vars => True'
  <1> SUFFICES ASSUME Held, True, [Next]_vars PROVE True'
    OBVIOUS
  <1>1. CASE Start
    <2>1. phase = "off" /\ trust = "off"
      BY <1>1 DEF Start, Installed, Held, OneLoader
    <2>2. (\A w \in Writers : ~Saving(w)) /\ reading.at = "none" /\ prefs = NoPreferences
      BY <2>1, StoreAssumption DEF Held, SavesAreHeld, OneLoader, Running, NoCall, True, LoadIsTrue
    <2> QED
      BY <1>1, <2>2, TrustsNoString DEF Start, True, LoadIsTrue, SaveIsTrue, MemoryIsTrue, Saving, storeVars
  <1>2. ASSUME NEW a \in Accounts, SignIn(a) \/ SignOut(a) PROVE True'
    <2>1. CASE SignIn(a)
      BY <2>1, NothingMoves DEF SignIn, storeVars, prefsVars, history, Loading
    <2>2. CASE SignOut(a)
      BY <2>2, NothingMoves, LoadsNoMore DEF SignOut, storeVars, history, Held
    <2> QED
      BY <1>2, <2>1, <2>2
  <1>3. ASSUME NEW k \in Keys, NEW m \in Methods, RecordUse(k, m) PROVE True'
    BY <1>3, TrueStarts, StoreAssumption DEF RecordUse
  <1>4. CASE Quits \/ JoinedAll \/ DeadlinePassed \/ WrittenBack \/ UNCHANGED vars
    BY <1>4, NothingMoves DEF Quits, JoinedAll, DeadlinePassed, WrittenBack, WriteBack, Loading, vars, storeVars, prefsVars, history
  <1>5. CASE SettledAll
    <2>1. CASE trust' = "unknown"
      BY <2>1, UnknownIsTrue
    <2>2. CASE trust' # "unknown"
      BY <1>5, <2>2, NothingMoves DEF SettledAll, Trust, Loading, storeVars, prefsVars
    <2> QED
      BY <2>1, <2>2
  <1>6. ASSUME NEW c \in Calls, Settles(c) PROVE True'
    <2>1. CASE trust' = "unknown"
      BY <2>1, UnknownIsTrue
    <2>2. CASE trust' # "unknown"
      <3>1. ~Loading => ~Loading'
        BY <1>6, LoadsNoMore DEF Settles, NoWork, Loading, Held
      <3> QED
        BY <1>6, <2>2, <3>1, NothingMoves DEF Settles, Trust, storeVars
    <2> QED
      BY <2>1, <2>2
  <1>7. CASE Exits \/ Killed \/ PowerFailure
    BY <1>7, UnknownIsTrue DEF Exits, Killed, PowerFailure, Ends
  <1> QED
    BY <1>1, <1>2, <1>3, <1>4, <1>5, <1>6, <1>7, TrueLoad, TrueForget, TrueSave DEF Next

\* Once a save that met no other has ended, the file holds the dictionary: what
\* preferred_method answers is what the next start will read.
THEOREM QuietIsTrue == Spec => []QuietFileIsMemory
  <1>1. Held /\ True => QuietFileIsMemory
    BY DEF True, MemoryIsTrue, QuietFileIsMemory
  <1> QED
    BY <1>1, HeldInit, HeldStep, TrueInit, TrueStep, PTL DEF Spec

-----------------------------------------------------------------------------
(* What every launch and every sign-out leave behind.                       *)

\* The accounts to be forgotten that no thread has taken up ...
Waiting == {work[c].account : c \in {d \in Calls : work[d].kind = "forget" /\ call[d].at = "queued"}}

\* ... and those whose entries are popped, but not saved.
Popped == {work[c].account : c \in {d \in Calls : work[d].kind = "forget" /\ call[d].at = "running"}}

UseIsRecorded ==
    trust = UI => /\ used \in [key : Keys, method : Methods] /\ used.key[1] \in signedIn
                  /\ prefs[used.key] = used.method

\* What is expected is in the file, but for what is still to be forgotten ...
FileIsExpected ==
    \A k \in Keys : k[1] \notin Waiting \cup Popped => Understood(file.doc)[k] = expected[k]

\* ... and in the dictionary, but for the use that is being recorded.
MemoryIsExpected ==
    trust \in Writers \cup {"memory"} =>
        \A k \in Keys : ~(trust = UI /\ k = used.key) =>
            /\ k[1] \notin Waiting => expected[k] = prefs[k]
            /\ k[1] \in Waiting => expected[k] \in {NoMethod, prefs[k]}
            /\ k[1] \in Waiting /\ k[1] \notin signedIn => expected[k] = NoMethod

\* A save that is trusted adds one change to the file.
OneChange ==
    trust \in Writers =>
        \A k \in Keys : k[1] \in Popped \/ (trust = UI /\ k = used.key) \/ Understood(file.doc)[k] = prefs[k]

LoadIsExpected ==
    trust = "loading" => \A k \in Keys : k[1] \in Waiting \cup Popped => expected[k] = NoMethod

Recorded == UseIsRecorded /\ FileIsExpected /\ MemoryIsExpected /\ OneChange /\ LoadIsExpected

Kept == ~lost => trust # "unknown" /\ Recorded

\* Nothing that is to be forgotten moves.
LEMMA SameForgets ==
  ASSUME \A d \in Calls : Owed(d) \/ Owed(d)' => work'[d] = work[d] /\ call'[d].at = call[d].at
  PROVE  UNCHANGED <<Waiting, Popped>>
  BY DEF Owed, Waiting, Popped

LEMMA SameRecords ==
  ASSUME Recorded, UNCHANGED <<file, prefs, used, signedIn, trust, expected, Waiting, Popped>>
  PROVE  Recorded'
  BY DEF Recorded, UseIsRecorded, FileIsExpected, MemoryIsExpected, OneChange, LoadIsExpected

LEMMA NotLost ==
  ASSUME NEW t, NEW e, Trust(t), Expect(e), ~lost'
  PROVE  ~lost /\ t # "unknown" /\ trust' = t /\ expected' = e
  BY DEF Trust, Expect

\* A loss is never taken back.
LEMMA LostStays == [Next]_vars /\ lost => lost'
  <1> SUFFICES ASSUME [Next]_vars, lost PROVE lost'
    OBVIOUS
  <1>1. ASSUME NEW t, Trust(t) PROVE lost'
    BY <1>1 DEF Trust
  <1>2. ASSUME NEW w, SaveTrusted(w) PROVE lost'
    BY <1>1, <1>2 DEF SaveTrusted
  <1>3. ASSUME NEW c \in Calls, Load(c) PROVE lost'
    BY <1>1, <1>3, Zenon DEF Load, BookmarksLoaded, BookmarksRaise, LoadReads, LoadReadsOlder, LoadResets, LoadFills,
       LoadReturns, history
  <1>4. ASSUME NEW c \in Calls, Forget(c) PROVE lost'
    BY <1>1, <1>2, <1>4, Zenon DEF Forget, SignedOut, SignOutRaises, ForgetPops, ForgetFindsNothing, history
  <1>5. ASSUME NEW w \in Writers, Save(w) PROVE lost'
    BY <1>1, <1>5, Zenon DEF Save, Scanned, Dumped, Synced, Saved, ScanFails, WriteFails, Raised, history
  <1>6. ASSUME NEW a \in Accounts, SignIn(a) \/ SignOut(a) PROVE lost'
    BY <1>6, Zenon DEF SignIn, SignOut, history
  <1>7. ASSUME NEW k \in Keys, NEW m \in Methods, RecordUse(k, m) PROVE lost'
    BY <1>2, <1>7, Zenon DEF RecordUse
  <1>8. ASSUME NEW c \in Calls, Settles(c) PROVE lost'
    BY <1>1, <1>8, Zenon DEF Settles
  <1>9. CASE Start \/ Quits \/ JoinedAll \/ DeadlinePassed \/ WrittenBack \/ UNCHANGED vars
    BY <1>9, Zenon DEF Start, Quits, JoinedAll, DeadlinePassed, WrittenBack, vars, history
  <1>10. CASE SettledAll
    BY <1>1, <1>10, Zenon DEF SettledAll
  <1>11. CASE Exits \/ Killed \/ PowerFailure
    BY <1>11, Zenon DEF Exits, Killed, PowerFailure
  <1> QED
    BY <1>3, <1>4, <1>5, <1>6, <1>7, <1>8, <1>9, <1>10, <1>11 DEF Next

\* A save that will be trusted begins with the file as the dictionary was.
LEMMA TrustedStart ==
  ASSUME Held, True, NEW w \in Writers, ~Saving(w), phase # "off", SaveTrusted(w), trust # "unknown", ~lost'
  PROVE  trust = "memory" /\ trust' = w /\ Understood(file.doc) = prefs
  <1>1. trust' = w /\ trust # "loading" /\ \A v \in Writers \ {w} : ~Saving(v)
    BY DEF SaveTrusted, Trust
  <1>2. trust = "memory"
    BY <1>1 DEF Held, OneLoader, True, SaveIsTrue, TypeOK, PrefsTypeOK
  <1> QED
    BY <1>1, <1>2 DEF True, MemoryIsTrue

LEMMA KeptInit == Init => Kept
  <1> SUFFICES ASSUME Init PROVE Kept
    OBVIOUS
  <1>1. trust = "off" /\ expected = Understood(file.doc)
    BY DEF Init
  <1> QED
    BY <1>1, TrustsNoString, StoreAssumption
    DEF Kept, Recorded, UseIsRecorded, FileIsExpected, MemoryIsExpected, OneChange, LoadIsExpected

LEMMA KeptLoad ==
  ASSUME Held, True, Kept, NEW c \in Calls, Load(c)
  PROVE  Kept'
  <1> SUFFICES ASSUME ~lost' PROVE trust' # "unknown" /\ Recorded'
    BY DEF Kept
  <1>0. /\ work[c].kind = "load" /\ ~lost /\ trust = "loading" /\ Recorded
    <2>1. work[c].kind = "load" /\ call[c].at # "none"
      <3>1. work[c].kind = "load" /\ (Submitted(c) \/ call[c].at \in {"loop", "queued", "running"})
        BY DEF Load, BookmarksLoaded, BookmarksRaise, LoadReads, LoadReadsOlder, LoadResets, LoadFills, LoadReturns,
               Taken, Running
      <3> QED
        BY <3>1 DEF Submitted
    <2>2. ~lost
      BY LostStays DEF Next
    <2>3. Loading /\ trust # "off"
      BY <2>1 DEF Loading, Held, OneLoader, NoCall
    <2> QED
      BY <2>1, <2>2, <2>3 DEF Kept, Held, TypeOK, PrefsTypeOK, True, SaveIsTrue, MemoryIsTrue
  <1>1. UNCHANGED <<Waiting, Popped>>
    <2>1. \A d \in Calls \ {c} : work'[d] = work[d] /\ call'[d] = call[d]
      BY DEF Load, BookmarksLoaded, BookmarksRaise, LoadReads, LoadReadsOlder, LoadResets, LoadFills, LoadReturns,
             Submitted, Taken, Ended, prefsVars, bridgeVars, Held, TypeOK, PrefsTypeOK, BridgeTypeOK
    <2>2. ~Owed(c) /\ ~Owed(c)'
      <3>1. work' = work \/ work' = [work EXCEPT ![c] = NoWork]
        BY DEF Load, BookmarksLoaded, BookmarksRaise, LoadReads, LoadReadsOlder, LoadResets, LoadFills,
               LoadReturns, prefsVars
      <3> QED
        BY <1>0, <3>1 DEF Owed, NoWork, Held, TypeOK, PrefsTypeOK
    <2> QED
      BY <2>1, <2>2, SameForgets
  <1>2. UNCHANGED <<file, signedIn, expected>>
    BY DEF Load, BookmarksLoaded, BookmarksRaise, LoadReads, LoadReadsOlder, LoadResets, LoadFills, LoadReturns,
           Expect, storeVars, history
  <1>3. CASE trust' = "loading"
    BY <1>0, <1>1, <1>2, <1>3, TrustsNoString, StoreAssumption
    DEF Recorded, UseIsRecorded, FileIsExpected, MemoryIsExpected, OneChange, LoadIsExpected
  <1>4. CASE trust' = "memory" /\ Understood(file.doc) = prefs' /\ Popped = {}
    <2>1. \A k \in Keys : /\ k[1] \notin Waiting => expected[k] = prefs'[k]
                          /\ k[1] \in Waiting => expected[k] = NoMethod
      BY <1>0, <1>4 DEF Recorded, FileIsExpected, LoadIsExpected
    <2> QED
      BY <1>0, <1>1, <1>2, <1>4, <2>1, TrustsNoString, StoreAssumption
      DEF Recorded, UseIsRecorded, FileIsExpected, MemoryIsExpected, OneChange, LoadIsExpected
  <1>5. Popped = {}
    BY <1>0, StoreAssumption DEF Popped, True, LoadIsTrue, Held, SavesAreHeld, Running
  <1>6. trust' = "loading" \/ (trust' = "memory" /\ MemoryIsTrue')
    BY <1>0, TrueLoad DEF True, Load, BookmarksLoaded, BookmarksRaise, LoadReads, LoadReadsOlder, LoadResets,
       LoadFills, LoadReturns, history, Trust
  <1> QED
    BY <1>2, <1>3, <1>4, <1>5, <1>6 DEF MemoryIsTrue

LEMMA KeptForget ==
  ASSUME Held, True, Kept, NEW c \in Calls, Forget(c)
  PROVE  Kept'
  <1> SUFFICES ASSUME ~lost' PROVE trust' # "unknown" /\ Recorded'
    BY DEF Kept
  <1> DEFINE a == work[c].account
  <1>0. ~lost /\ trust # "unknown" /\ Recorded
    BY LostStays DEF Next, Kept
  <1>1. CASE SignedOut(c)
    <2>1. /\ UNCHANGED <<file, prefs, used, trust, work>> /\ expected' = Without(expected, a)
          /\ signedIn' = signedIn \ {a} /\ Submitted(c)
      BY <1>1 DEF SignedOut, storeVars, prefsVars
    <2>2. Waiting' = Waiting \cup {a} /\ Popped' = Popped
      <3>1. call[c].at = "loop" /\ call' = [call EXCEPT ![c].at = "queued"]
        BY <2>1 DEF Submitted
      <3>2. call'[c].at = "queued" /\ \A d \in Calls \ {c} : call'[d] = call[d]
        BY <3>1 DEF Held, TypeOK, BridgeTypeOK
      <3> QED
        BY <1>1, <2>1, <3>1, <3>2 DEF SignedOut, Waiting, Popped
    <2>3. trust # UI
      BY <1>1, StoreAssumption DEF SignedOut, LoopFree, True, SaveIsTrue
    <2>4. \A k \in Keys : expected'[k] = IF k[1] = a THEN NoMethod ELSE expected[k]
      BY <2>1 DEF Without
    <2> QED
      BY <1>0, <2>1, <2>2, <2>3, <2>4
      DEF Recorded, UseIsRecorded, FileIsExpected, MemoryIsExpected, OneChange, LoadIsExpected
  <1>2. CASE SignOutRaises(c)
    <2>1. UNCHANGED <<Waiting, Popped>>
      BY <1>2, SameForgets DEF SignOutRaises, Ended, Owed, NoCall, Held, TypeOK, BridgeTypeOK, PrefsTypeOK
    <2> QED
      BY <1>0, <1>2, <2>1, SameRecords DEF SignOutRaises, storeVars, history
  <1>3. CASE ForgetPops(c)
    <2>1. /\ UNCHANGED <<file, used, work, signedIn>> /\ prefs' = Without(prefs, a)
          /\ work[c].kind = "forget" /\ Taken(c) /\ SaveStarts(c) /\ phase # "off"
      BY <1>3 DEF ForgetPops, SaveStarts
    <2>2. a \notin signedIn /\ SaveTrusted(c) /\ expected' = expected
      BY <1>3 DEF ForgetPops, Trust, Expect
    <2>3. trust = "memory" /\ trust' = c /\ Understood(file.doc) = prefs
      BY <1>0, <2>1, <2>2, TrustedStart, StoreAssumption DEF SaveStarts, Saving
    <2>4. /\ a \in Waiting /\ Waiting' \subseteq Waiting /\ Waiting \subseteq Waiting' \cup {a}
          /\ Popped' = Popped \cup {a}
      <3>1. call[c].at = "queued" /\ call'[c].at = "running" /\ \A d \in Calls \ {c} : call'[d] = call[d]
        BY <2>1 DEF Taken, Held, TypeOK, BridgeTypeOK
      <3> QED
        BY <2>1, <3>1 DEF Waiting, Popped
    <2>5. \A k \in Keys : prefs'[k] = IF k[1] = a THEN NoMethod ELSE prefs[k]
      BY <2>1 DEF Without
    <2>6. \A k \in Keys : k[1] = a => expected[k] = NoMethod
      BY <1>0, <2>2, <2>3, <2>4, TrustsNoString, StoreAssumption DEF Recorded, MemoryIsExpected
    <2>7. c # UI /\ trust' \notin {"loading", "memory", "unknown"}
      BY <2>3, TrustsNoString, StoreAssumption
    <2>8. MemoryIsExpected'
      BY <1>0, <2>1, <2>2, <2>3, <2>4, <2>5, <2>6, <2>7, TrustsNoString, StoreAssumption
      DEF Recorded, MemoryIsExpected
    <2>9. FileIsExpected' /\ OneChange'
      BY <1>0, <2>1, <2>2, <2>3, <2>4, <2>5, <2>7 DEF Recorded, FileIsExpected, OneChange
    <2> QED
      BY <2>3, <2>7, <2>8, <2>9 DEF Recorded, UseIsRecorded, LoadIsExpected
  <1>4. CASE ForgetFindsNothing(c)
    <2>1. /\ UNCHANGED <<file, prefs, used, signedIn>> /\ a \notin AccountsIn(prefs)
          /\ work[c].kind = "forget" /\ call[c].at = "queued" /\ Ended(c) /\ work' = [work EXCEPT ![c] = NoWork]
      BY <1>4 DEF ForgetFindsNothing, storeVars
    <2>2. trust # "loading" /\ trust' = trust /\ expected' = expected
      BY <1>4 DEF ForgetFindsNothing, Trust, Expect
    <2>3. trust # "off"
      BY <2>1 DEF Held, OneLoader, NoCall
    <2>4. trust \in Writers \cup {"memory"}
      BY <1>0, <2>2, <2>3 DEF Held, TypeOK, PrefsTypeOK
    <2>5. /\ a \in Waiting /\ Waiting' \subseteq Waiting /\ Waiting \subseteq Waiting' \cup {a}
          /\ Popped' = Popped
      <3>1. /\ call'[c].at = "none" /\ work'[c].kind = "none"
            /\ \A d \in Calls \ {c} : call'[d] = call[d] /\ work'[d] = work[d]
        BY <2>1 DEF Ended, NoCall, NoWork, Held, TypeOK, BridgeTypeOK, PrefsTypeOK
      <3> QED
        BY <2>1, <3>1 DEF Waiting, Popped
    <2>6. ASSUME NEW k \in Keys, k[1] = a PROVE prefs[k] = NoMethod /\ ~(trust = UI /\ k = used.key)
      <3>1. prefs[k] = NoMethod
        BY <2>1, <2>6 DEF AccountsIn, KeysIn
      <3> QED
        BY <1>0, <3>1, MethodPrefsAssumption DEF Recorded, UseIsRecorded
    <2>7. ASSUME NEW k \in Keys, k[1] = a PROVE expected[k] = NoMethod
      BY <1>0, <2>4, <2>5, <2>6, <2>7 DEF Recorded, MemoryIsExpected
    <2>8. ASSUME NEW k \in Keys, k[1] = a, a \notin Popped PROVE Understood(file.doc)[k] = NoMethod
      <3>1. CASE trust = "memory"
        BY <2>6, <2>8, <3>1 DEF True, MemoryIsTrue
      <3>2. CASE trust \in Writers
        BY <1>0, <2>6, <2>8, <3>2 DEF Recorded, OneChange
      <3> QED
        BY <2>4, <3>1, <3>2
    <2>9. FileIsExpected'
      BY <1>0, <2>1, <2>2, <2>5, <2>7, <2>8 DEF Recorded, FileIsExpected
    <2>10. MemoryIsExpected'
      BY <1>0, <2>1, <2>2, <2>5, <2>6, <2>7 DEF Recorded, MemoryIsExpected
    <2> QED
      BY <1>0, <2>1, <2>2, <2>5, <2>9, <2>10 DEF Recorded, UseIsRecorded, OneChange, LoadIsExpected
  <1> QED
    BY <1>1, <1>2, <1>3, <1>4 DEF Forget

LEMMA KeptSave ==
  ASSUME Held, True, Kept, NEW w \in Writers, Save(w)
  PROVE  Kept'
  <1> SUFFICES ASSUME ~lost' PROVE trust' # "unknown" /\ Recorded'
    BY DEF Kept
  <1>0. ~lost /\ trust # "unknown" /\ Recorded
    BY LostStays DEF Next, Kept
  <1>1. CASE Scanned(w) \/ Dumped(w) \/ Synced(w)
    <2>1. UNCHANGED <<file, prefs, used, signedIn, trust, expected, work, call>>
      BY <1>1 DEF Scanned, ScanPasses, Dumped, Dump, Synced, Sync, prefsVars, bridgeVars, history
    <2> QED
      BY <1>0, <2>1, SameRecords DEF Waiting, Popped
  <1>2. CASE Saved(w)
    <2>1. trust = w /\ trust' = "memory" /\ UNCHANGED <<prefs, signedIn>>
      BY <1>2 DEF Saved, Trust
    <2>2. Understood(file'.doc) = prefs
      BY <1>2, <2>1, StoreAssumption DEF Saved, Replace, True, SaveIsTrue, Current, Understood
    <2>3. CASE w = UI
      <3>1. /\ UNCHANGED <<work, call>> /\ expected' = [expected EXCEPT ![used.key] = used.method]
        BY <1>2, <2>3 DEF Saved, Expect, bridgeVars
      <3>2. UNCHANGED <<Waiting, Popped>>
        BY <3>1 DEF Waiting, Popped
      <3>3. /\ used.key \in Keys /\ used.key[1] \in signedIn /\ expected'[used.key] = prefs[used.key]
            /\ \A k \in Keys : k # used.key => expected'[k] = expected[k]
        BY <1>0, <2>1, <2>3, <3>1 DEF Recorded, UseIsRecorded, Held, TypeOK, PrefsTypeOK, Preferences
      <3>4. /\ \A k \in Keys : k[1] \notin Waiting => expected'[k] = prefs[k]
            /\ \A k \in Keys : k[1] \in Waiting => expected'[k] \in {NoMethod, prefs[k]}
            /\ \A k \in Keys : k[1] \in Waiting /\ k[1] \notin signedIn => expected'[k] = NoMethod
        BY <1>0, <2>1, <2>3, <3>3 DEF Recorded, MemoryIsExpected
      <3> QED
        BY <2>1, <2>2, <3>2, <3>4, TrustsNoString, StoreAssumption
        DEF Recorded, UseIsRecorded, FileIsExpected, MemoryIsExpected, OneChange, LoadIsExpected
    <2>4. CASE w # UI
      <3>1. /\ Ended(w) /\ work' = [work EXCEPT ![w] = NoWork] /\ UNCHANGED <<used, expected>> /\ w \in Calls
            /\ Running(w)
        BY <1>2, <2>1, <2>4, StoreAssumption DEF Saved, Expect, True, SaveIsTrue, Held, SavesAreHeld
      <3>2. /\ call'[w].at = "none" /\ work'[w].kind = "none"
            /\ \A d \in Calls \ {w} : call'[d] = call[d] /\ work'[d] = work[d]
        BY <3>1 DEF Ended, NoCall, NoWork, Held, TypeOK, BridgeTypeOK, PrefsTypeOK
      <3>3. Waiting' = Waiting
        BY <3>1, <3>2 DEF Waiting, Running
      <3>4. MemoryIsExpected'
        BY <1>0, <2>1, <2>4, <3>1, <3>3, TrustsNoString, StoreAssumption DEF Recorded, MemoryIsExpected
      <3>5. FileIsExpected'
        BY <1>0, <2>1, <2>2, <2>4, <3>1, <3>3 DEF Recorded, MemoryIsExpected, FileIsExpected
      <3> QED
        BY <2>1, <3>4, <3>5, TrustsNoString, StoreAssumption DEF Recorded, UseIsRecorded, OneChange, LoadIsExpected
    <2> QED
      BY <2>3, <2>4
  <1>3. ~ScanFails(w) /\ ~WriteFails(w)
    BY DEF ScanFails, WriteFails, Raised, Trust
  <1> QED
    BY <1>1, <1>2, <1>3, <1>0, TrustsNoString DEF Save, Saved, Trust, Scanned, Dumped, Synced, history

LEMMA KeptUser ==
  ASSUME Held, True, Kept,
         (\E a \in Accounts : SignIn(a) \/ SignOut(a)) \/ \E k \in Keys, m \in Methods : RecordUse(k, m)
  PROVE  Kept'
  <1> SUFFICES ASSUME ~lost' PROVE trust' # "unknown" /\ Recorded'
    BY DEF Kept
  <1>0. ~lost /\ trust # "unknown" /\ Recorded
    BY LostStays DEF Next, Kept
  <1>1. ASSUME NEW a \in Accounts, SignIn(a) PROVE trust' # "unknown" /\ Recorded'
    <2>1. UNCHANGED <<file, prefs, used, trust, expected, Waiting, Popped>> /\ signedIn \subseteq signedIn'
      BY <1>1 DEF SignIn, storeVars, bridgeVars, prefsVars, history, Waiting, Popped
    <2> QED
      BY <1>0, <2>1 DEF Recorded, UseIsRecorded, FileIsExpected, MemoryIsExpected, OneChange, LoadIsExpected
  <1>2. ASSUME NEW a \in Accounts, SignOut(a) PROVE trust' # "unknown" /\ Recorded'
    <2>1. UNCHANGED <<Waiting, Popped>>
      BY <1>2, SameForgets DEF SignOut, TaskCreated, Owed, NoCall, Held, TypeOK, BridgeTypeOK, PrefsTypeOK
    <2> QED
      BY <1>0, <1>2, <2>1, SameRecords DEF SignOut, storeVars, history
  <1>3. ASSUME NEW k \in Keys, NEW m \in Methods, RecordUse(k, m) PROVE trust' # "unknown" /\ Recorded'
    <2>1. /\ UNCHANGED <<file, signedIn, Waiting, Popped>> /\ prefs' = [prefs EXCEPT ![k] = m]
          /\ used' = [key |-> k, method |-> m] /\ k[1] \in signedIn /\ LoopFree /\ SaveTrusted(UI)
      BY <1>3 DEF RecordUse, SaveStarts, bridgeVars, Waiting, Popped
    <2>2. trust = "memory" /\ trust' = UI /\ Understood(file.doc) = prefs
      BY <1>0, <2>1, TrustedStart, StoreAssumption DEF LoopFree
    <2>3. expected' = expected
      BY <1>3 DEF RecordUse, Expect
    <2>4. prefs'[k] = m /\ used'.key = k /\ used'.method = m /\ \A j \in Keys : j # k => prefs'[j] = prefs[j]
      BY <2>1 DEF Held, TypeOK, PrefsTypeOK, Preferences
    <2>5. MemoryIsExpected'
      BY <1>0, <2>1, <2>2, <2>3, <2>4, TrustsNoString, StoreAssumption DEF Recorded, MemoryIsExpected
    <2>6. FileIsExpected' /\ OneChange' /\ UseIsRecorded'
      BY <1>0, <2>1, <2>2, <2>3, <2>4 DEF Recorded, FileIsExpected, OneChange, UseIsRecorded
    <2> QED
      BY <2>2, <2>5, <2>6, TrustsNoString, StoreAssumption DEF Recorded, LoadIsExpected
  <1> QED
    BY <1>1, <1>2, <1>3

LEMMA KeptProcess ==
  ASSUME Held, True, Kept,
         \/ Start \/ Quits \/ SettledAll \/ JoinedAll \/ DeadlinePassed \/ Exits \/ Killed
         \/ PowerFailure \/ WrittenBack \/ UNCHANGED vars \/ \E c \in Calls : Settles(c)
  PROVE  Kept'
  <1> SUFFICES ASSUME ~lost' PROVE trust' # "unknown" /\ Recorded'
    BY DEF Kept
  <1>0. ~lost /\ trust # "unknown" /\ Recorded
    BY LostStays DEF Next, Kept
  <1>1. CASE Start
    <2>1. /\ UNCHANGED <<file, expected>> /\ trust' = "loading" /\ phase = "off"
      BY <1>1 DEF Start, Installed, storeVars
    <2>2. Waiting = {} /\ Popped = {}
      BY <2>1 DEF Held, OneLoader, Waiting, Popped, NoWork
    <2>3. UNCHANGED <<Waiting, Popped>>
      <3>1. \A d \in Calls : ~Owed(d) /\ ~Owed(d)'
        BY <1>1, <2>1 DEF Start, Owed, NoWork, Held, OneLoader, TypeOK, PrefsTypeOK
      <3> QED
        BY <3>1, SameForgets
    <2> QED
      BY <1>0, <2>1, <2>2, <2>3, TrustsNoString, StoreAssumption
      DEF Recorded, UseIsRecorded, FileIsExpected, MemoryIsExpected, OneChange, LoadIsExpected
  <1>2. CASE Quits \/ JoinedAll \/ DeadlinePassed \/ WrittenBack \/ UNCHANGED vars
    <2>1. UNCHANGED <<file, prefs, used, signedIn, trust, expected, work, call>>
      BY <1>2 DEF Quits, Quit, JoinedAll, Joined, DeadlinePassed, DeadlinePasses, WrittenBack, WriteBack, vars,
                  storeVars, bridgeVars, prefsVars, history
    <2> QED
      BY <1>0, <2>1, SameRecords DEF Waiting, Popped
  <1>3. CASE SettledAll
    <2>1. \A c \in Calls : Owed(c) => Running(c)
      BY <1>3 DEF SettledAll, Trust
    <2>2. /\ UNCHANGED <<file, prefs, used, signedIn, trust, expected, work>>
          /\ call' = [c \in Calls |-> IF call[c].at = "queued" THEN [call[c] EXCEPT !.at = "none"] ELSE call[c]]
      BY <1>3, <2>1 DEF SettledAll, Settled, Trust, Expect, storeVars, prefsVars
    <2>3. UNCHANGED <<Waiting, Popped>>
      BY <2>1, <2>2, SameForgets DEF Owed, Running, Held, TypeOK, BridgeTypeOK
    <2> QED
      BY <1>0, <2>2, <2>3, SameRecords
  <1>4. ASSUME NEW c \in Calls, Settles(c) PROVE trust' # "unknown" /\ Recorded'
    <2>1. Owed(c) => Running(c)
      BY <1>4 DEF Settles, Trust
    <2>2. /\ UNCHANGED <<file, prefs, used, signedIn, trust, expected>>
          /\ TaskSettles(c) /\ work' = IF Running(c) THEN work ELSE [work EXCEPT ![c] = NoWork]
      BY <1>4, <2>1 DEF Settles, Trust, Expect, storeVars
    <2>3. UNCHANGED <<Waiting, Popped>>
      <3>1. \A d \in Calls \ {c} : work'[d] = work[d] /\ call'[d] = call[d]
        BY <2>2 DEF TaskSettles, Held, TypeOK, BridgeTypeOK, PrefsTypeOK
      <3>2. Running(c) => work'[c] = work[c] /\ call'[c].at = call[c].at
        BY <2>2 DEF TaskSettles, Running, Held, TypeOK, BridgeTypeOK
      <3>3. ~Running(c) => ~Owed(c) /\ ~Owed(c)'
        BY <2>1, <2>2 DEF TaskSettles, Owed, NoCall, Held, TypeOK, BridgeTypeOK
      <3> QED
        BY <3>1, <3>2, <3>3, SameForgets
    <2> QED
      BY <1>0, <2>2, <2>3, SameRecords
  <1>5. CASE Exits \/ Killed \/ PowerFailure
    <2>1. /\ \A c \in Calls : ~Owed(c)
          /\ file'.doc = file.doc /\ trust' = "off" /\ work' = [c \in Calls |-> NoWork] /\ expected' = expected
      <3>1. CASE Exits \/ Killed
        <4>1. \A c \in Calls : ~Owed(c)
          BY <3>1, Zenon DEF Exits, Killed
        <4> QED
          BY <3>1, <4>1 DEF Exits, Killed, ProcessEnds, Ends, Expect
      <3>2. CASE PowerFailure
        <4>1. durable = file.doc /\ \A c \in Calls : ~Owed(c)
          BY <3>2, Zenon DEF PowerFailure
        <4> QED
          BY <3>2, <4>1 DEF PowerFailure, PowerFails, Ends, Expect
      <3> QED
        BY <1>5, <3>1, <3>2
    <2>2. UNCHANGED <<Waiting, Popped>> /\ Waiting = {} /\ Popped = {}
      <3>1. \A c \in Calls : ~Owed(c)'
        BY <2>1 DEF Owed, NoWork
      <3>2. Waiting = {} /\ Popped = {}
        BY <2>1 DEF Waiting, Popped, Owed
      <3> QED
        BY <2>1, <3>1, <3>2, SameForgets
    <2>3. Understood(file'.doc) = Understood(file.doc)
      BY <2>1 DEF Understood
    <2> QED
      BY <1>0, <2>1, <2>2, <2>3, TrustsNoString, StoreAssumption
      DEF Recorded, UseIsRecorded, FileIsExpected, MemoryIsExpected, OneChange, LoadIsExpected
  <1> QED
    BY <1>1, <1>2, <1>3, <1>4, <1>5

LEMMA KeptStep == Held /\ True /\ Kept /\ [Next]_vars => Kept'
  BY KeptLoad, KeptForget, KeptSave, KeptUser, KeptProcess DEF Next

\* Until one of the named losses, the file of an application that is doing
\* nothing holds exactly what every launch and every sign-out leave behind,
\* however many times it was quit, killed or without power.
THEOREM NothingLost == Spec => []NothingIsLost
  <1>1. Held /\ Kept => NothingIsLost
    <2> SUFFICES ASSUME Held, Kept, Idle, ~lost PROVE Understood(file.doc) = expected
      BY DEF NothingIsLost
    <2>1. Waiting = {} /\ Popped = {}
      BY DEF Idle, NoCall, Waiting, Popped
    <2>2. \A k \in Keys : Understood(file.doc)[k] = expected[k]
      BY <2>1 DEF Kept, Recorded, FileIsExpected
    <2>3. Understood(file.doc) \in Preferences /\ expected \in Preferences
      BY UnderstoodType DEF Held, TypeOK, StoreTypeOK, PrefsTypeOK, Inode
    <2> QED
      BY <2>2, <2>3 DEF Preferences
  <1> QED
    BY <1>1, HeldInit, HeldStep, TrueInit, TrueStep, KeptInit, KeptStep, PTL DEF Spec

=============================================================================
