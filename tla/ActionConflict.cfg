SPECIFICATION Spec
CONSTANTS
    Accounts = {a1, a2}
    NoAccount = NoAccount
    Tasks = {t1, t2, t3, t4, t5}
    NoTask = NoTask
    BackoffInitial = 1
    BackoffCap = 30
    RetryAfterCap = 300
    NoSeconds = NoSeconds
    MaxRetries = 2
    RetryAfters = {NoSeconds, 301}
    Clicks = {"restart", "reprovision", "switch", "refresh"}
    SpareSlots = 2
SYMMETRY AccountSymmetry
VIEW ActionsView
INVARIANT NoConflictingActions
