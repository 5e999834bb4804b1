\* two tasks, three keys, two producers, triggers watch and manual
CONSTANTS
    upKey = upKey
    downKey = downKey
    otherKey = otherKey
    task = task
    other = other
    p1 = p1
    p2 = p2
    Key <- MCKey
    Task <- MCTask
    TaskOf <- MCTaskOf
    Producer <- MCProducer
    UsedTrigger <- MCTrigger

SPECIFICATION QueueSpec

INVARIANTS
    NoLostWakeup
    HighestTriggerKept

PROPERTIES
    ImplementsJobLine
    QueuedJobIsServed
    ShutdownEndsWorker

\* after shutdown the worker is gone and nothing need happen
CHECK_DEADLOCK FALSE
