---------------------------- MODULE MCMethodPrefs ----------------------------
(* Values for the constants MethodPrefs shares with StateStore.             *)
EXTENDS MethodPrefs, TLC

CONSTANTS a1, a2, r1, r2

\* The first account lists two resources, one under a name like "PasswordVault".
MCKeys == {<<a1, r1>>, <<a1, r2>>, <<a2, r1>>}

MCSecretShaped == {<<a1, r2>>}

MCWriters == Calls \cup {UI}

MCBodies == Preferences

MCDefaults == NoPreferences

\* Bound: after a loss the user waits for the end of one job, and the disk for
\* its last file, before the next job.
Patience ==
    lost /\ (~Idle \/ durable # file.doc) =>
        /\ stage[UI] = "idle" => stage'[UI] = "idle"
        /\ \A c \in Calls : call[c] = NoCall => call'[c] = NoCall
=============================================================================
