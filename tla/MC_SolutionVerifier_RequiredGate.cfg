\* Checks RequiredGate alone; TLC is expected to find it violated.
CONSTANTS
    Paths <- MCPaths
    ResultsFile = "res"
    Outside <- MCOutside
    Words <- MCWords
    ContentWords <- MCContentWords
    LowerOf <- MCLowerOf
    RegexMatch <- MCRegexMatch
    StderrText = {"N"}
    CanaryLen = 25
    Tasks <- MCTasks
    MaxRuns = 2
    Absent = Absent
    NoFile = NoFile
    NoCanary = NoCanary
    NonString = NonString
    Malformed = Malformed
SPECIFICATION Spec
INVARIANT RequiredGate
CHECK_DEADLOCK FALSE
