\* Two runs of the calibration cycle over a persistent output directory.
CONSTANTS
    Difficulties <- MCDifficulties
    Null = Null
    Durations = {1}
    MaxCycles = 2
SPECIFICATION Spec
INVARIANT TypeOK
INVARIANT RecommendationsOrderFree
\* The cycle is run MaxCycles times and then stops.
CHECK_DEADLOCK FALSE
