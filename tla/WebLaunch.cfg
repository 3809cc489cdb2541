SPECIFICATION Spec
CONSTANTS
    Accounts = {a1, a2}
    NoAccount = NoAccount
    Tasks = {t1, t2, t3}
    NoTask = NoTask
    ws = ws
    Rows = {app1, app2}
    RemoteApps = {app1, app2}
    WorkspaceOf <- MCWorkspaceOf
    NoRow = NoRow
    Clicks = {"add", "switch", "sign_out"}
    MaxCalls = 1
SYMMETRY LaunchSymmetry
VIEW LaunchView
INVARIANTS LaunchesFollowActive SpinnersEnd OpenedAreTracked
