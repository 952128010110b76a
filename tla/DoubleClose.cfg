\* The mobile library: two closes of one vault.
SPECIFICATION Spec
CONSTANTS
    Roots = {r1}
    Ids = {v1}
    Threads = {t1, t2}
    HeavyThreads = {t1, t2}
    LightThreads = {t1, t2}
    NoThread = NoThread
    Configs <- TwoModes
    Faults = {}
    MaxCalls = 3
    MaxBoots = 0
INVARIANTS
    ClosingCoversFlush
