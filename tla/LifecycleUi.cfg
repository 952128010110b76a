\* The vault list of the desktop: two vaults, one of which may have to be created, or
\* one and two list fetches.
SPECIFICATION FairSpec
CONSTANTS
    Vaults <- MCVaults
    v1 = v1
    v2 = v2
    None = None
    Fetches <- MCFetches
    f1 = f1
    f2 = f2
    Starts <- MCStarts
INVARIANTS
    TypeOK
    FolderSwitchIsSafe
    NoPasswordAtRest
    PromptModeForgets
    PasswordReachesCore
    QueueIsServed
    HoldMeansClosing
    CreatedRows
PROPERTIES
    JobsEnd
