SPECIFICATION FairSpec
CONSTANTS
    Accounts = {a1, a2}
    Resources = {r1, r2}
    Methods = {web}
    SecretShaped <- MCSecretShaped
    Keys <- MCKeys
    a1 = a1
    a2 = a2
    r1 = r1
    r2 = r2
    Calls = {load, e1}
    Loader = load
    UI = UI
    Writers <- MCWriters
    Bodies <- MCBodies
    Defaults <- MCDefaults
    NoAccount = NoAccount
    NoMethod = NoMethod
INVARIANTS TypeOK QuietFileIsMemory  QuitWaits
ACTION_CONSTRAINT Patience
PROPERTIES IsAtomicDocument QuitEnds
