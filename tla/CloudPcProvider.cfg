SPECIFICATION Spec
CONSTANTS
    Accounts = {a1, a2}
    NoAccount = NoAccount
    Tasks = {t1, t2, t3, t4, t5}
    NoTask = NoTask
    Clicks = {"add", "switch", "sign_out", "refresh"}
    SpareSlots = 3
SYMMETRY AccountSymmetry
VIEW ProviderView
INVARIANTS OnePollLoop FailureKeepsList  
PROPERTIES OnlyActiveIsWritten
CONSTRAINTS OneExcepted OneFares
