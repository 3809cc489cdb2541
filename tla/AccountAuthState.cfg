SPECIFICATION Spec
CONSTANTS
    Claims = {c1, c2, c3}
    NoClaims = NoClaims
    RetryCap = 8
INVARIANTS TypeOK ClaimsRoundsBounded PendingClaimsAreCurrent
PROPERTIES BlockedIsTerminal 
