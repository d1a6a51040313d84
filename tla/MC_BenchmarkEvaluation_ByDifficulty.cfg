\* Checks ByDifficultyOrderFree alone; TLC is expected to find it violated.
CONSTANTS
    Difficulties <- MCDifficulties
    Null = Null
    Durations = {1, 2}
    MaxCycles = 2
SPECIFICATION Spec
INVARIANT ByDifficultyOrderFree
\* The cycle is run MaxCycles times and then stops.
CHECK_DEADLOCK FALSE
