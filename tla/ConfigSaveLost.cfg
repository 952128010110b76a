\* Two threads of the mobile library: one hides a group, the other saves a vault.
SPECIFICATION Spec
CONSTANTS
    v1 = v1
    v2 = v2
    g1 = g1
    g2 = g2
    odd = odd
    t1 = t1
    t2 = t2
    None = None
    Vaults = {v1, v2}
    GroupIds = {g1, g2}
    HandIds = {odd}
    Threads = {t1, t2}
    Requests <- HideAndSave
    Files <- OneFile
    Folders <- OneFolder
    Kept = {{}}
    Seconds = {1}
    Faults = {}
    MaxCalls = 2
    MaxMishaps = 0
PROPERTIES
    SavesAreKept
