\* The desktop daemon: one worker thread, one stdin thread, two roots.
SPECIFICATION FairSpec
CONSTANTS
    Roots = {r1, r2}
    Ids = {v1}
    Threads = {worker, stdin}
    HeavyThreads = {worker}
    LightThreads = {stdin}
    NoThread = NoThread
    Configs <- ThreeConfigs
    Faults = {"io"}
    MaxCalls = 4
    MaxBoots = 0
INVARIANTS
    TypeOK
    ClosingCoversFlush
    CreateAllOrNothing
    SessionHasVault
    ProbeSeesOlderSessions
PROPERTIES
    Answered
