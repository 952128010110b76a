\* The log files of a vault root, written by two threads.
SPECIFICATION Spec
CONSTANTS
    Threads = {light, heavy}
    Settings <- MCSettings
    MaxLines = 3
    MaxLoggers = 2
    MaxSecond = 1
    MaxUpsets = 2
SYMMETRY MCSymmetry
INVARIANTS
    TypeOK
    LinesKept
    FilesInAgeOrder
    ActiveFileKnown
    
CHECK_DEADLOCK FALSE
