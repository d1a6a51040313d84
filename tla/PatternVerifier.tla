-------------------------- MODULE PatternVerifier --------------------------
(***************************************************************************)
(* The security-fix verifier of the workspace-python-api task              *)
(* (verification/verify_fixes.py): seven regex checks over four source    *)
(* files, each classified PASS, FAIL or SKIP; the points score; the        *)
(* severity-ordered report; and the exit code of main().                   *)
(*                                                                         *)
(* The content of a file is abstracted to the set of patterns of the       *)
(* profile that re.search finds in it: [check |-> i, kind |-> "vuln"] when *)
(* check i's vulnerable_pattern matches, and likewise "fix".  A file that  *)
(* cannot be read (FileNotFoundError, IOError) is Absent.                  *)
(***************************************************************************)
EXTENDS Integers, Sequences, SequencesExt, Functions

CONSTANT Absent   \* _read_file returned None

(* _define_checks: the static audit profile, in its list order.  The      *)
(* regexes themselves are abstracted to the check they belong to.         *)
SecurityChecks ==
    << [id |-> "SQL-001",    severity |-> "critical", file |-> "users.py",  fixed |-> TRUE, points |-> 15],
       [id |-> "SQL-002",    severity |-> "high",     file |-> "users.py",  fixed |-> TRUE, points |-> 10],
       [id |-> "CRYPTO-001", severity |-> "critical", file |-> "crypto.py", fixed |-> TRUE, points |-> 20],
       [id |-> "CONFIG-001", severity |-> "high",     file |-> "config.py", fixed |-> TRUE, points |-> 15],
       [id |-> "AUTH-001",   severity |-> "critical", file |-> "auth.py",   fixed |-> TRUE, points |-> 15],
       [id |-> "PATH-001",   severity |-> "high",     file |-> "users.py",  fixed |-> TRUE, points |-> 10],
       [id |-> "DESER-001",  severity |-> "critical", file |-> "auth.py",   fixed |-> TRUE, points |-> 15] >>

N == Len(SecurityChecks)
CheckIdx == 1..N
Files == {SecurityChecks[i].file : i \in CheckIdx}

(* Mutant: generate_report walking HIGH before CRITICAL.                  *)
SwappedSeverityOrder == <<"high", "critical", "medium", "low">>

(* Severity enum and the order generate_report walks it in.               *)
SeverityOrder == <<"critical", "high", "medium", "low">>

Results == {"pass", "fail", "skip"}
NotExited == -1

(* The patterns of the profile that can occur in file f.                  *)
Pattern(i, kind) == [check |-> i, kind |-> kind]
PatternsOf(f) ==
    {Pattern(i, kind) : i \in {j \in CheckIdx : SecurityChecks[j].file = f},
                        kind \in {"vuln", "fix"}}

(* What a read of file f can return.                                     *)
FileStates(f) == (SUBSET PatternsOf(f)) \cup {Absent}

VARIABLES
    fs,        \* content of each file under base_path
    outcomes,  \* self.outcomes, one result per check
    score,     \* calculate_score() as printed in the report
    report,    \* the per-check entries of generate_report(), in order
    exit,      \* process exit code
    pc         \* the step of main()

vars == <<fs, outcomes, score, report, exit, pc>>

-----------------------------------------------------------------------------
(* _read_file and _check_pattern.                                         *)

ReadFile(f) == fs[f]

CheckPattern(content, i, kind) == Pattern(i, kind) \in content

(* Mutant: the both-patterns row of the decision table taken as PASS.     *)
RunCheckTrustFix(i) ==
    LET content == ReadFile(SecurityChecks[i].file)
        hasVuln == CheckPattern(content, i, "vuln")
        hasFix  == SecurityChecks[i].fixed /\ CheckPattern(content, i, "fix")
    IN  IF content = Absent THEN "skip"
        ELSE IF hasVuln /\ ~hasFix THEN "fail" ELSE "pass"

(* Mutant: the final else of run_check missing, so the both-patterns     *)
(* case falls off the end and returns None.                              *)
RunCheckNoElse(i) ==
    LET content == ReadFile(SecurityChecks[i].file)
        hasVuln == CheckPattern(content, i, "vuln")
        hasFix  == SecurityChecks[i].fixed /\ CheckPattern(content, i, "fix")
    IN  IF content = Absent THEN "skip"
        ELSE CASE hasVuln /\ ~hasFix -> "fail"
               [] hasFix /\ ~hasVuln -> "pass"
               [] ~hasVuln           -> "pass"
               [] OTHER              -> "none"

(* run_check: a missing file is SKIP; otherwise the four-way table.       *)
RunCheck(i) ==
    LET content == ReadFile(SecurityChecks[i].file)
        hasVuln == CheckPattern(content, i, "vuln")
        hasFix  == SecurityChecks[i].fixed /\ CheckPattern(content, i, "fix")
    IN  IF content = Absent THEN "skip"
        ELSE CASE hasVuln /\ ~hasFix -> "fail"
               [] hasFix /\ ~hasVuln -> "pass"
               [] ~hasVuln           -> "pass"
               [] OTHER              -> "fail"

-----------------------------------------------------------------------------
(* calculate_score.                                                       *)

PointsOf == [i \in CheckIdx |-> SecurityChecks[i].points]
Earned(os) == SumFunctionOnSet(PointsOf, {i \in DOMAIN os : os[i] = "pass"})

(* Mutant: skipped checks left out of points_total.                       *)
TotalPointsNoSkips(os) ==
    SumFunctionOnSet(PointsOf, {i \in DOMAIN os : os[i] # "skip"})

(* points_total sums the points of every check of the profile.            *)
TotalPoints(os) == SumFunction(PointsOf)

(* round(earned / total * 100, 1) >= 100, i.e. the ratio is at least     *)
(* 0.9995 (0 when total = 0).                                             *)
RoundsToHundred(e, t) == t > 0 /\ 2000 * e >= 1999 * t

CalculateScore(os) ==
    [earned |-> Earned(os), total |-> TotalPoints(os)]

-----------------------------------------------------------------------------
(* generate_report: for each severity in order, the outcomes of that     *)
(* severity in list order.                                               *)

Entry(os, i) ==
    [check |-> i, result |-> os[i],
     earned |-> IF os[i] = "pass" THEN PointsOf[i] ELSE 0]

GenerateReportEntries(os, order) ==
    LET idx == [i \in DOMAIN os |-> i]
        group(s) == SelectSeq(idx, LAMBDA i : SecurityChecks[i].severity = s)
        listed == FlattenSeq([s \in 1..Len(order) |-> group(order[s])])
    IN  [p \in DOMAIN listed |-> Entry(os, listed[p])]

-----------------------------------------------------------------------------
(* Actions: the steps of main().                                          *)

Init ==
    /\ \E users \in FileStates("users.py"), crypto \in FileStates("crypto.py"),
          config \in FileStates("config.py"), auth \in FileStates("auth.py") :
          fs = ("users.py" :> users) @@ ("crypto.py" :> crypto)
                 @@ ("config.py" :> config) @@ ("auth.py" :> auth)
    /\ outcomes = <<>>
    /\ score = [earned |-> 0, total |-> 0]
    /\ report = <<>>
    /\ exit = NotExited
    /\ pc = "start"

(* verifier.run_all_checks()                                              *)
RunAllChecks ==
    /\ pc = "start"
    /\ outcomes' = [i \in CheckIdx |-> RunCheck(i)]
    /\ pc' = "checked"
    /\ UNCHANGED <<fs, score, report, exit>>

(* report = verifier.generate_report(); print(report)                     *)
GenerateReport ==
    /\ pc = "checked"
    /\ report' = GenerateReportEntries(outcomes, SeverityOrder)
    /\ score' = CalculateScore(outcomes)
    /\ pc' = "reported"
    /\ UNCHANGED <<fs, outcomes, exit>>

(* score = verifier.calculate_score(); exit 1 if percentage < 100.        *)
Exit ==
    /\ pc = "reported"
    /\ LET s == CalculateScore(outcomes)
       IN  exit' = IF RoundsToHundred(s.earned, s.total) THEN 0 ELSE 1
    /\ pc' = "done"
    /\ UNCHANGED <<fs, outcomes, score, report>>

Next == RunAllChecks \/ GenerateReport \/ Exit

Spec == Init /\ [][Next]_vars


-----------------------------------------------------------------------------
(* Properties.                                                            *)

TypeOK ==
    /\ \A f \in Files : fs[f] \in FileStates(f)
    /\ outcomes \in Seq(Results)
    /\ score \in [earned : Nat, total : Nat]
    /\ report \in Seq([check : CheckIdx, result : Results, earned : Nat])
    /\ exit \in {NotExited, 0, 1}
    /\ pc \in {"start", "checked", "reported", "done"}

(* A check is fixed when its file is there and its vulnerable pattern is  *)
(* no longer found in it.                                                 *)
Fixed(i) ==
    LET content == fs[SecurityChecks[i].file]
    IN  content # Absent /\ ~CheckPattern(content, i, "vuln")

(* Spec 4.4: main() exits 0 exactly when the percentage is 100, that is  *)
(* when every vulnerability of the profile is fixed; a remaining          *)
(* vulnerable pattern, or one next to its fix, makes it exit 1, through   *)
(* the decision table of run_check, the points sum of calculate_score and *)
(* the rounding of the percentage.  A missing file also makes it exit 1:  *)
(* that is what the code does, since points_total keeps the points of a   *)
(* SKIP (line 193); spec 3 says a skip does not count against the         *)
(* denominator, and SkipExcluded states that rule.                        *)
ExitMeansAllFixed ==
    pc = "done" => (exit = 0 <=> \A i \in CheckIdx : Fixed(i))

(* The rank of a severity in the declaration order of the Severity enum. *)
SeverityRank == [s \in {"critical", "high", "medium", "low"} |->
                    CASE s = "critical" -> 1 [] s = "high" -> 2
                      [] s = "medium" -> 3   [] s = "low" -> 4]
ListedBefore(i, j) ==
    LET ri == SeverityRank[SecurityChecks[i].severity]
        rj == SeverityRank[SecurityChecks[j].severity]
    IN  ri < rj \/ (ri = rj /\ i < j)

(* Spec 4.4: generate_report lists every outcome exactly once, with the   *)
(* status and points of that outcome, grouped critical to low and in      *)
(* profile order within a severity.                                       *)
ReportOrdered ==
    pc \in {"reported", "done"} =>
        /\ Len(report) = N
        /\ {report[p].check : p \in DOMAIN report} = CheckIdx
        /\ \A p \in DOMAIN report : report[p] = Entry(outcomes, report[p].check)
        /\ \A p, q \in DOMAIN report :
              p < q => ListedBefore(report[p].check, report[q].check)

(* Spec 3: a SKIP (file absent) must not count against the denominator:  *)
(* points_total is the sum over the checks that were not skipped.         *)
SkipExcluded ==
    pc \in {"reported", "done"} =>
        score.total = SumFunctionOnSet(PointsOf, {i \in CheckIdx : outcomes[i] # "skip"})

=============================================================================
