\* Two vaults, three wrong passwords in three ticks, time for two blocks in a row.
SPECIFICATION Spec
CONSTANTS
    Vaults = {v1, v2}
    NoVault = NoVault
    Window = 3
    Block = 3
    Limit = 3
    MaxTime = 6
INVARIANTS
    TypeOK
    AtMostLimit
    BlockedOnlyAfterBurst
