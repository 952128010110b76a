\* The daemon again: an unlock on the worker while stdin saves the config.
SPECIFICATION Spec
CONSTANTS
    Roots = {r1, r2}
    Ids = {v1}
    Threads = {worker, stdin}
    HeavyThreads = {worker}
    LightThreads = {stdin}
    NoThread = NoThread
    Configs <- TwoModes
    Faults = {"io"}
    MaxCalls = 2
    MaxBoots = 0
PROPERTIES
    QuietFieldsFixedWhileBusy
