\* Two tasks, one restart, one failed commit; the daemon is fair.
CONSTANTS
    t1 = t1
    t2 = t2
    Tasks <- MCTasks
    MaxCrashes = 1
    MaxFailures = 1
SPECIFICATION Spec
INVARIANTS TypeOK MarkedOnlyIfCommitted DuplicateOnlyAfterInterruption
PROPERTIES EveryTaskPublished
