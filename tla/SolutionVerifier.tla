-------------------------- MODULE SolutionVerifier --------------------------
(***************************************************************************)
(* The solution verifier CLI of src/generated-datasets/verify_solution.py, *)
(* run repeatedly over one solution directory.                             *)
(*                                                                         *)
(* One run is main() -> SolutionVerifier.verify() -> save: the header      *)
(* reads the task descriptor, the canary scan walks the whole solution     *)
(* tree, each automated check is executed in turn (never raising, except   *)
(* before its try block), the score is computed, and the summary is saved  *)
(* as verification_results.json INSIDE the solution directory, where the   *)
(* next run's canary scan and checks can read it.                          *)
(*                                                                         *)
(* Data is abstracted: a file's content is the set of words it contains,   *)
(* substring containment is membership, case folding is the function       *)
(* LowerOf, a regular expression is the set of words it matches.           *)
(***************************************************************************)
EXTENDS Integers, Sequences, FiniteSets

CONSTANTS
    Paths,          \* names of the files of the solution directory
    ResultsFile,    \* verification_results.json, one of Paths
    Outside,        \* files outside the solution dir named by absolute paths
    Words,          \* every string a descriptor or a file may hold
    ContentWords,   \* the words a file's content can contain
    LowerOf,        \* str.lower() on words
    RegexMatch,     \* the content words a pattern matches, or Malformed
    StderrText,     \* the words of a shell's "No such file" error message
    CanaryLen,      \* length of the canary token string
    Tasks,          \* the task descriptors (task.yaml) a run may be given
    MaxRuns,        \* bound on the number of verifier runs
    Absent,         \* a file that does not exist
    NoFile,         \* a target string that names no file
    NoCanary,       \* anti_memorization.canary_token missing or empty
    NonString,      \* a YAML target that is not a string (null, a number)
    Malformed       \* a pattern that re.search rejects

Contents == SUBSET ContentWords

ASSUME ConstantsAssumption ==
    /\ ResultsFile \in Paths
    /\ Outside \in [DOMAIN Outside -> Contents \cup {Absent}]
    /\ DOMAIN Outside \cap Paths = {}
    /\ ContentWords \subseteq Words
    /\ LowerOf \in [Words -> Words]
    /\ RegexMatch \in [Words -> Contents \cup {Malformed}]
    /\ StderrText \in Contents /\ StderrText # {}
    /\ CanaryLen \in Nat
    /\ MaxRuns \in Nat
    /\ NoFile \notin Paths \cup DOMAIN Outside
    /\ \A c \in Contents : c # Absent

CheckTypes == {"file_exists", "output_contains", "content_contains",
               "regex_match", "unknown"}

(* A target string as the code reads it: shell is the sniff of line 153,  *)
(* path the file the string names when taken as a path (after pathlib's   *)
(* join, which keeps absolute paths), reads the file a "cat" command      *)
(* prints.                                                                *)
Locations == Paths \cup DOMAIN Outside \cup {NoFile}
Targets == [shell : BOOLEAN, path : Locations, reads : Locations]

Checks == [type : CheckTypes, target : Targets \cup {NonString},
           expected : Words, required : BOOLEAN]

TaskSet == [difficulty : {"map", "string", "absent"},
            canary : ContentWords \cup {NoCanary},
            checks : Seq(Checks)]

ASSUME TasksAssumption == Tasks \subseteq TaskSet

(* A target sniffed as a shell expression ("cat /workspace/...") does not *)
(* also name an existing file: spec 9 leaves such a path unspecified.     *)
ShellTargetsNameNoFile ==
    \A t \in Tasks : \A j \in DOMAIN t.checks :
        t.checks[j].target # NonString /\ t.checks[j].target.shell =>
            t.checks[j].target.path = NoFile

(* One entry of self.results: name is the check's index, or CanaryName   *)
(* for the 'canary_token' entry.                                          *)
(* echo holds the content words its message and description repeat,      *)
(* which json.dump writes to the results file.                            *)
Outcome == [name : Nat, passed : BOOLEAN,
            required : BOOLEAN, echo : Contents]

CanaryName == 0

CmdOutcomes == {"ok", "timeout", "oserror"}

(* The exit code before the process has exited. *)
NotExited == -1

VARIABLES
    fs,         \* the solution directory: file -> content or Absent
    task,       \* the task.yaml of this verification (never changes)
    pc,         \* "idle", "canary", "checks", "save"
    k,          \* index of the next automated check
    results,    \* self.results of the current run
    summary,    \* overall_status of the current run, or "none"
    exit,       \* the process exit code of the last run, or NotExited
    runs        \* number of runs started

vars == <<fs, task, pc, k, results, summary, exit, runs>>

-----------------------------------------------------------------------------
(* Reading files and running commands.                                    *)

FileContent(loc) ==
    IF loc \in Paths THEN fs[loc]
    ELSE IF loc \in DOMAIN Outside THEN Outside[loc]
    ELSE Absent

Resolve(t) == t.path

(* expected.lower() in content.lower() *)
LowerContains(content, w) == LowerOf[w] \in {LowerOf[x] : x \in content}

(* proc.stdout + proc.stderr of a command that ran: cat prints the file,  *)
(* or the shell prints an error when there is none.                       *)
CmdOutput(t) ==
    IF FileContent(t.reads) # Absent THEN FileContent(t.reads) ELSE StderrText

(* Results of a check: passed and the words its message repeats.          *)
Res(p, e) == [passed |-> p, echo |-> e]

FileExists(c) ==
    LET exists == FileContent(Resolve(c.target)) # Absent
        shown  == IF exists THEN "true" ELSE "false"
    IN  Res(shown = LowerOf[c.expected], {})

(* Lines 148-183: run the target when it looks like a shell expression;   *)
(* with no content from it (timeout, OSError) read it as a path; pass iff *)
(* the content is non-empty and holds expected, case-insensitively.       *)
OutputContains(c, o) ==
    LET t == c.target
        fromCmd == IF t.shell /\ o = "ok" THEN CmdOutput(t) ELSE Absent
        content == IF fromCmd # Absent THEN fromCmd
                   ELSE FileContent(Resolve(t))
    IN  IF content \notin {Absent, {}}
        THEN Res(LowerContains(content, c.expected),
                 {c.expected} \cap ContentWords)
        ELSE Res(FALSE, {})

(* Mutant: content_contains folding case like output_contains.            *)
ContentContainsAnyCase(c) ==
    LET content == FileContent(Resolve(c.target))
    IN  IF content # Absent
        THEN Res(LowerContains(content, c.expected),
                 {c.expected} \cap ContentWords)
        ELSE Res(FALSE, {})

(* Lines 185-196: case-sensitive containment in an existing file.         *)
ContentContains(c) ==
    LET content == FileContent(Resolve(c.target))
    IN  IF content # Absent
        THEN Res(c.expected \in content, {c.expected} \cap ContentWords)
        ELSE Res(FALSE, {})

(* Lines 198-209: re.search in an existing file; a malformed pattern      *)
(* raises re.error, caught at line 214 as a failed check.                 *)
RegexMatchCheck(c) ==
    LET content == FileContent(Resolve(c.target))
        re == RegexMatch[c.expected]
    IN  CASE content = Absent -> Res(FALSE, {})
          [] content # Absent /\ re = Malformed -> Res(FALSE, {})
          [] OTHER -> Res(re \cap content # {}, {c.expected} \cap ContentWords)

(* _execute_check: dispatch on check_type; an unknown type fails.         *)
Execute(i, c, o) ==
    LET r == CASE c.type = "file_exists"      -> FileExists(c)
               [] c.type = "output_contains"  -> OutputContains(c, o)
               [] c.type = "content_contains" -> ContentContains(c)
               [] c.type = "regex_match"      -> RegexMatchCheck(c)
               [] OTHER                       -> Res(FALSE, {})
    IN  [name |-> i, passed |-> r.passed, required |-> FALSE, echo |-> r.echo]

(* The command outcomes a check can meet: only a shell-like              *)
(* output_contains target runs a subprocess.                              *)
OutcomesFor(c) ==
    IF c.type = "output_contains" /\ c.target.shell
    THEN CmdOutcomes ELSE {"ok"}

-----------------------------------------------------------------------------
(* Scoring, _calculate_score.                                             *)

PassedIdx(rs) == {i \in DOMAIN rs : rs[i].passed}
RequiredIdx(rs) == {i \in DOMAIN rs : rs[i].required}

(* Mutant: the total > 0 guard of auto_score is dropped.                  *)
VerdictNoEmptyGuard(rs) ==
    LET total == Len(rs)
        passed == Cardinality(PassedIdx(rs))
        allRequired == RequiredIdx(rs) \subseteq PassedIdx(rs)
    IN  IF 100 * passed >= 70 * total /\ allRequired THEN "PASS" ELSE "FAIL"

(* auto_score = passed / total * 100 (0 when total = 0); PASS iff         *)
(* auto_score >= 70 and required_passed = required_total.                  *)
Verdict(rs) ==
    LET total == Len(rs)
        passed == Cardinality(PassedIdx(rs))
        autoOK == total > 0 /\ 100 * passed >= 70 * total
        allRequired == RequiredIdx(rs) \subseteq PassedIdx(rs)
    IN  IF autoOK /\ allRequired THEN "PASS" ELSE "FAIL"

(* The words json.dump writes to verification_results.json.               *)
ResultsText(rs) == UNION {rs[i].echo : i \in DOMAIN rs}

-----------------------------------------------------------------------------
(* Actions.                                                               *)

Init ==
    /\ fs \in [Paths -> Contents \cup {Absent}]
    /\ fs[ResultsFile] = Absent
    /\ task \in Tasks
    /\ pc = "idle"
    /\ k = 1
    /\ results = <<>>
    /\ summary = "none"
    /\ exit = NotExited
    /\ runs = 0

(* Mutant: a verifier object reused across runs keeps its results.        *)
StartRunKeepResults ==
    /\ pc = "idle"
    /\ runs < MaxRuns
    /\ runs' = runs + 1
    /\ summary' = "none"
    /\ k' = 1
    /\ IF task.difficulty = "string"
       THEN pc' = "idle" /\ exit' = 1
       ELSE pc' = "canary" /\ exit' = NotExited
    /\ UNCHANGED <<fs, task, results>>

(* main() lines 306-320, __init__, and the header of verify() (lines      *)
(* 57-63): difficulty.get('level') raises on a string difficulty, which   *)
(* main() catches at line 338 and exits 1 with no result.                 *)
StartRun ==
    /\ pc = "idle"
    /\ runs < MaxRuns
    /\ runs' = runs + 1
    /\ results' = <<>>
    /\ summary' = "none"
    /\ k' = 1
    /\ IF task.difficulty = "string"
       THEN pc' = "idle" /\ exit' = 1
       ELSE pc' = "canary" /\ exit' = NotExited
    /\ UNCHANGED <<fs, task>>

(* _check_canary_token: every file of the tree is searched for the token; *)
(* the message repeats canary[:30].                                       *)
CheckCanary ==
    /\ pc = "canary"
    /\ IF task.canary = NoCanary
       THEN UNCHANGED results
       ELSE LET found == \E p \in Paths : fs[p] # Absent /\ task.canary \in fs[p]
            IN  results' = Append(results,
                    [name |-> CanaryName, passed |-> found, required |-> TRUE,
                     echo |-> IF CanaryLen <= 30 THEN {task.canary} ELSE {}])
    /\ pc' = "checks"
    /\ UNCHANGED <<fs, task, k, summary, exit, runs>>

(* One iteration of _run_automated_checks.  A target that is not a string *)
(* raises at target[:20] (line 129), before the try block: the exception  *)
(* leaves verify() and main() exits 1 with no result.                     *)
RunCheck ==
    /\ pc = "checks"
    /\ k <= Len(task.checks)
    /\ LET c == task.checks[k] IN
       IF c.target = NonString
       THEN /\ pc' = "idle"
            /\ exit' = 1
            /\ UNCHANGED <<fs, task, k, results, summary, runs>>
       ELSE /\ \E o \in OutcomesFor(c) :
                 results' = Append(results, Execute(k, c, o))
            /\ k' = k + 1
            /\ UNCHANGED <<fs, task, pc, summary, exit, runs>>

(* After the last check: _check_success_criteria only prints;             *)
(* _calculate_score computes the summary.                                 *)
Score ==
    /\ pc = "checks"
    /\ k > Len(task.checks)
    /\ summary' = Verdict(results)
    /\ pc' = "save"
    /\ UNCHANGED <<fs, task, k, results, exit, runs>>

(* main() lines 322-333: the summary is written into the solution         *)
(* directory (an OSError is caught and reported), then the exit code.     *)
Save ==
    /\ pc = "save"
    /\ \/ fs' = [fs EXCEPT ![ResultsFile] = ResultsText(results)]
       \/ UNCHANGED fs
    /\ exit' = IF summary = "PASS" THEN 0 ELSE 1
    /\ pc' = "idle"
    /\ UNCHANGED <<task, k, results, summary, runs>>

Next == StartRun \/ CheckCanary \/ RunCheck \/ Score \/ Save

Spec == Init /\ [][Next]_vars

-----------------------------------------------------------------------------
(* Properties.                                                            *)

TypeOK ==
    /\ fs \in [Paths -> Contents \cup {Absent}]
    /\ task \in Tasks
    /\ pc \in {"idle", "canary", "checks", "save"}
    /\ k \in 1..(Len(task.checks) + 1)
    /\ results \in Seq(Outcome)
    /\ Len(results) <= Len(task.checks) + 1
    /\ summary \in {"none", "PASS", "FAIL"}
    /\ exit \in {NotExited, 0, 1}
    /\ runs \in 0..MaxRuns

(* The outcomes of automated check j in the current run.                  *)
OutcomesOf(j) == {i \in DOMAIN results : results[i].name = j}
CheckPassed(j) == \E i \in OutcomesOf(j) : results[i].passed
CanaryDeclared == task.canary # NoCanary
CanaryInTree(files) ==
    \E p \in files : fs[p] # Absent /\ task.canary \in fs[p]

(* What each check type asserts of the solution (spec 4.1 and 8):         *)
(* file_exists passes iff existence equals expected.lower() = "true" (and *)
(* never when expected is neither "true" nor "false");                    *)
(* content_contains and regex_match pass iff the file exists and holds    *)
(* expected (case-sensitively, as a match); output_contains on a path     *)
(* passes iff the file holds expected case-insensitively, and on a shell  *)
(* expression only if what the command printed holds it; an unknown type  *)
(* never passes.                                                          *)
Asserted(c, passed) ==
    LET content == FileContent(c.target.path)
        exists  == content # Absent
    IN  CASE c.type = "file_exists" /\ LowerOf[c.expected] \in {"true", "false"} ->
                passed <=> (exists = (LowerOf[c.expected] = "true"))
          [] c.type = "content_contains" ->
                passed <=> (exists /\ c.expected \in content)
          [] c.type = "regex_match" ->
                passed <=> (exists /\ RegexMatch[c.expected] # Malformed
                                /\ RegexMatch[c.expected] \cap content # {})
          [] c.type = "output_contains" /\ ~c.target.shell ->
                passed <=> (exists /\ LowerContains(content, c.expected))
          [] c.type = "output_contains" /\ c.target.shell ->
                passed => LowerContains(CmdOutput(c.target), c.expected)
          [] OTHER -> ~passed

(* Every automated check outcome of the running verification says what    *)
(* the check asserts about the files as they are: _execute_check's        *)
(* command/path dispatch, fallbacks and case handling agree with the      *)
(* declared semantics of each check type.                                 *)
CheckSound ==
    pc \in {"checks", "save"} =>
        \A i \in DOMAIN results :
            results[i].name # CanaryName =>
                Asserted(task.checks[results[i].name], results[i].passed)

(* When the score is computed, the verdict is PASS exactly when the       *)
(* declared assertions were each evaluated once, at least one was         *)
(* declared, 70% of them hold, and the canary (if declared) is somewhere  *)
(* in the solution tree: results are neither lost, duplicated nor carried *)
(* over from an earlier run, and an empty check set never passes.         *)
VerdictSound ==
    pc = "save" =>
        LET n == Len(task.checks)
            declared == n + (IF CanaryDeclared THEN 1 ELSE 0)
            canaryOK == CanaryDeclared => CanaryInTree(Paths)
            npassed == Cardinality({j \in 1..n : CheckPassed(j)})
                       + (IF CanaryDeclared /\ canaryOK THEN 1 ELSE 0)
        IN  /\ \A j \in 1..n : Cardinality(OutcomesOf(j)) = 1
            /\ (summary = "PASS") =
                  (declared > 0 /\ 100 * npassed >= 70 * declared /\ canaryOK)

(* The inductive strengthening of TypeOK and CheckSound: results hold at  *)
(* most one entry per check run so far plus the canary, the canary phase  *)
(* starts from nothing, and every automated outcome is the outcome of     *)
(* check name, whose target is a string.                                  *)
IInv ==
    /\ TypeOK
    /\ Len(results) <= k
    /\ pc = "canary" => results = <<>> /\ k = 1
    /\ pc \in {"checks", "save"} =>
          \A i \in DOMAIN results :
              results[i].name # CanaryName =>
                  /\ results[i].name \in 1..Len(task.checks)
                  /\ task.checks[results[i].name].target # NonString
                  /\ Asserted(task.checks[results[i].name], results[i].passed)

(* Spec 4.3: the canary check passes only when the token occurs in the    *)
(* solution itself, i.e. in a file other than the verifier's own output.  *)
CanarySound ==
    (pc = "save" /\ \E i \in DOMAIN results :
                        results[i].name = CanaryName /\ results[i].passed)
        => CanaryInTree(Paths \ {ResultsFile})

(* Spec 3 and 4.2: a check declared required forces FAIL when it fails.   *)
RequiredGate ==
    (pc = "save" /\ summary = "PASS") =>
        \A j \in 1..Len(task.checks) :
            task.checks[j].required => CheckPassed(j)

(* Spec 4.1 and 7: verification always ends with a result object; no      *)
(* exception escapes and aborts the run.                                  *)
ResultProduced == exit # NotExited => summary # "none"

=============================================================================
