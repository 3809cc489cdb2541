SPECIFICATION FairSpec
CONSTANTS
    Claims = {c1}
    NoClaims = NoClaims
    Scopes = {read}
    ReadScope = read
    Tasks = {t1, t2, t3}
    RetryCap = 4
    NoAccount = NoAccount
    NoTask = NoTask
    Accounts = {a1, a2}
    Ops <- ColdOps
    Errors = {"CLAIMS_CHALLENGE"}
INVARIANT ActiveIsListed
 
