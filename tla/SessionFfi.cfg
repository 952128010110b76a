\* The mobile library: every thread takes every RPC.
SPECIFICATION Spec
CONSTANTS
    Roots = {r1}
    Ids = {v1}
    Threads = {t1, t2, t3}
    HeavyThreads = {t1, t2, t3}
    LightThreads = {t1, t2, t3}
    NoThread = NoThread
    Configs <- TwoModes
    Faults = {"io", "cleanup", "panic", "exit"}
    MaxCalls = 4
    MaxBoots = 1
SYMMETRY ThreadSymmetry
INVARIANTS
    OneArgon2
    NoStaleMark
    SealedStaysSealed
PROPERTIES
    PoisonFailsClosed
    RefinesLifecycle
