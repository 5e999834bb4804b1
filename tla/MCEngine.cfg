\* two tasks; bootstrap, reloads of everything and a handler's calls overlap freely
CONSTANTS
    t1 = 1
    t2 = 2
    h1 = h1
    h2 = h2
    MaxRunner = 4
    Task <- TwoTasks
    Key <- OneTask
    TaskOf <- MCTaskOf
    Handler <- OneHandler
    RunnerId <- MCRunnerId
    boot = boot
    NoTask = NoTask
    NoRunner = NoRunner
    MaxCalls = 2

SPECIFICATION Spec

INVARIANTS
    NoStrayLoops
    RegisteredIsWatched
    CancelHitsOwnJob

PROPERTY StoppedFallsSilent

\* after shutdown nothing need happen
CHECK_DEADLOCK FALSE
