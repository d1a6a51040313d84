\* Checks SkipExcluded alone; TLC is expected to find it violated.
CONSTANT Absent = Absent
SPECIFICATION Spec
INVARIANT SkipExcluded
CHECK_DEADLOCK FALSE
