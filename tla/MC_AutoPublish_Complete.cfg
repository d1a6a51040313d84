\* The generator writes tests/ after the daemon collected the task.
CONSTANTS
    t1 = t1
    t2 = t2
    Tasks <- MCTasks
    MaxCrashes = 1
    MaxFailures = 1
SPECIFICATION Spec
INVARIANTS MarkedMeansComplete
