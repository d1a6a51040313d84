\* Every combination of present, absent, vulnerable and fixed source files
\* under the real audit profile: the exit code and the report.
CONSTANT Absent = Absent
SPECIFICATION Spec
INVARIANT TypeOK
INVARIANT ExitMeansAllFixed
INVARIANT ReportOrdered
\* main() exits after printing the report.
CHECK_DEADLOCK FALSE
