\* Repeated verifier runs over every small solution directory: the type
\* invariant, the per-check semantics and the end-to-end verdict.
CONSTANTS
    Paths <- MCPaths
    ResultsFile = "res"
    Outside <- MCOutside
    Words <- MCWords
    ContentWords <- MCContentWords
    LowerOf <- MCLowerOf
    RegexMatch <- MCRegexMatch
    StderrText = {"N"}
    CanaryLen = 25
    Tasks <- MCTasks
    MaxRuns = 2
    Absent = Absent
    NoFile = NoFile
    NoCanary = NoCanary
    NonString = NonString
    Malformed = Malformed
SPECIFICATION Spec
INVARIANT TypeOK
INVARIANT CheckSound
INVARIANT VerdictSound
\* The CLI exits after its last run.
CHECK_DEADLOCK FALSE
