\* Three RPCs of the user interface; either process may die by itself.
SPECIFICATION FairSpec
CONSTANTS
    MaxCalls = 3
    Faults = {"crash", "kill"}
INVARIANTS
    TypeOK
    AnsweredIsDone
    NoPromiseOnDeadConnection
    InOrderPerThread
PROPERTIES
    SettledOnce
    EverySettled
    NoOrphanDaemon
