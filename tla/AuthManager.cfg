SPECIFICATION Spec
CONSTANTS
    Claims = {c1}
    NoClaims = NoClaims
    Accounts = {a1, a2}
    Scopes = {read}
    ReadScope = read
    Tasks = {t1, t2, t3, t4}
    Ops <- StartedOps
    Errors = {"INVALID_GRANT"}
    RetryCap = 5
    NoAccount = NoAccount
    NoTask = NoTask
ACTION_CONSTRAINT KeepsJobMix
SYMMETRY AccountSymmetry
INVARIANTS
    TypeOK OneCacheWriter ListedAccountsAreCached
      RegisteredIsLed 
