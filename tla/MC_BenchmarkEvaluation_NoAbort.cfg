\* Checks NoAbort alone; TLC is expected to find it violated.
CONSTANTS
    Difficulties <- MCDifficulties
    Null = Null
    Durations = {1}
    MaxCycles = 2
SPECIFICATION Spec
INVARIANT NoAbort
\* The cycle is run MaxCycles times and then stops.
CHECK_DEADLOCK FALSE
