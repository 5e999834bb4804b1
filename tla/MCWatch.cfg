CONSTANTS
    mkv = mkv
    text = text
    note = note
    sub = sub
    root = root
    task = task
    theTask = task
    Key <- MCKey
    Task <- MCTask
    TaskOf <- MCTaskOf
    File <- MCFile
    Instant <- MCInstant
    DirOf <- MCDirOf
    MaxEdits = 2
    MaxCalls = 1
    MaxFaults = 1

SPECIFICATION Spec

INVARIANT NoChangeIsLost

PROPERTY ChangesAreSynced

\* a task whose initialisation failed may be left alone
CHECK_DEADLOCK FALSE
