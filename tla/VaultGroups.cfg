\* The mobile library: any RPC on either thread.
SPECIFICATION Spec
CONSTANTS
    v1 = v1
    v2 = v2
    g1 = g1
    g2 = g2
    odd = odd
    t1 = t1
    t2 = t2
    None = None
    Vaults = {v1, v2}
    GroupIds = {g1, g2}
    HandIds = {odd}
    Threads = {t1, t2}
    Requests <- SomeRequests
    Files <- SomeFiles
    Folders <- SomeFolders
    Kept <- NoneOrOne
    Seconds = {1, 2}
    Faults = {"io", "revert", "exit", "rmdir"}
    MaxCalls = 2
    MaxMishaps = 1
SYMMETRY ThreadSymmetry
INVARIANTS
    TypeOK
    HiddenGroupsHideMembers
    FailedLeavesNoTrace
    BackupsAccumulate
PROPERTIES
    ImplementsRegistry
