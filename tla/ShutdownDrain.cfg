\* A vault_create under way when the app quits, no crash.
SPECIFICATION Spec
CONSTANTS
    MaxCalls = 1
    Faults = {}
PROPERTIES
    DrainsBeforeExit
