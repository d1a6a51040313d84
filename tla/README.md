# Formal models of the dataforge verification pipeline

This directory holds TLA+ models of the parts of dataforge that decide
whether a solution to a generated task passes, together with TLC
configurations that model-check them and TLAPS proofs of their main
invariants. `spec.md` describes the pipeline; every definition here is
translated from the code under `src/`, and `PROJECT.json` maps each
definition to the lines it models.

## 1. The system

| Part (spec.md name) | Code | What it does |
|---|---|---|
| CheckExecutor, CanaryAuditor, ScoreAggregator | `src/generated-datasets/verify_solution.py` | Runs the automated checks of a `task.yaml` against a solution directory, scans the tree for the canary token, computes a verdict, writes `verification_results.json` and exits 0 (PASS) or 1. |
| PatternVerifier | `src/generated-datasets/workspace-python-api/verification/verify_fixes.py` | Seven regex checks of a security-fix task. Each check has a vulnerable and a fixed pattern and gives PASS, FAIL or SKIP. The result is a severity-weighted score and report. |
| EvaluationOrchestrator, Calibrator | `src/scripts/benchmark_evaluation.py` | Drives the external generator and agent processes over categories and batch directories. It buckets the results by difficulty and prints recommendations. |
| (publishing) | `src/auto_publish.py` | Uploads finished task directories to a dataset repository. It marks each uploaded directory with a marker file. |
| TaskGenerator (external) | `src/generated-datasets/create_verifiable_task.py` | Writes `task.yaml`, the prompt and the solution of one task. |

How the parts interact:

1. The generator writes the `task.yaml` that the verifier reads.
2. The verifier writes its results into the solution directory it verifies, and a later run of the verifier reads that directory again.
3. The orchestrator collects verdicts for the calibrator.

Each tool runs one process, and its steps happen in sequence. What makes the verifier hard to test is not threads. It is:

- the state it leaves on disk between runs;
- the three outcomes of a subprocess: output, timeout or OS error;
- exceptions that escape the per-check `try`;
- task descriptors whose shape differs from the one the code expects.

## 2. Modules

### SolutionVerifier (verify_solution.py): modelled

**State.**

| Variable | Meaning |
|---|---|
| `fs` | Content of each file of the solution directory, or `Absent`. |
| `task` | The loaded descriptor. |
| `pc` | Phase of `verify()`: idle, canary, checks or save. |
| `k` | Loop index of `_run_automated_checks`. |
| `results` | `self.results`. |
| `summary` | `overall_status`. |
| `exit` | Exit code; `NotExited` means the process has not exited yet. |
| `runs` | Number of runs started, bounded by `MaxRuns`. |

**Data abstraction.**

- The content of a file is a set of words, and "`w in content`" is membership.
- `LowerOf` is `str.lower` on words.
- `RegexMatch` gives the set of words a pattern matches, or `Malformed`, for a pattern on which `re.search` raises.
- A target is a record:
  - `shell` says whether line 153 sniffs it as a command;
  - `path` is the file it names as a path;
  - `reads` is the file that `cat` would print.
- A check's YAML `target` may be `NonString` (null), and `expected` is a word.

**Actions, each one a whole code step.**

| Action | Code it models |
|---|---|
| `StartRun` | `main()` and `__init__`, then the header of `verify()`. A string `difficulty` raises at line 62, so the run exits 1 with no result. |
| `CheckCanary` | `_check_canary_token`. Every file of the tree is searched, including an earlier run's `verification_results.json`. |
| `RunCheck` | One iteration of `_run_automated_checks`, including the whole of `_execute_check`. A shell-like `output_contains` target meets `ok`, `timeout` or `oserror`; the last two fall back to reading the target as a path. A null target raises at line 129, outside the `try`. |
| `Score` | `_check_success_criteria`, which only prints, followed by `_calculate_score`. |
| `Save` | Writes the results file into the solution directory (an `OSError` is caught, so the write may not happen), then exits. |

### PatternVerifier (verify_fixes.py): modelled

**Modelling choices.**

- The audit profile of `_define_checks` is a definition (`SecurityChecks`), because it is code, not configuration.
- A source file is `Absent` when it cannot be read. Otherwise its content is abstracted to the set of the profile's patterns that `re.search` finds in it: the vulnerable and the fixed pattern of each check on that file.
- `Init` enumerates every such state of the four files (27,625 in all).

**Actions.**

| Action | Code |
|---|---|
| `RunAllChecks` | `run_all_checks`, with the decision table of `run_check`. |
| `GenerateReport` | `generate_report`, including its call to `calculate_score`. |
| `Exit` | `main()`'s second `calculate_score` and the exit code. |

The percentage test `round(earned/total*100, 1) < 100` is modelled by what it computes: `2000*earned >= 1999*total`.

### BenchmarkEvaluation (scripts/benchmark_evaluation.py): modelled

**What is modelled.** Several runs of `main()` share the fixed output directory. Each batch directory is represented by:

- `exists`: whether the directory exists;
- `tasksIn`: the runs whose tasks it holds.

**The external collaborators** are chosen nondeterministically within their contracts:

- The generator may add this run's tasks, and may clear older ones, whatever status it reports.
- The evaluator reports one record per task in the directory, in any order.
- Either of them may exceed the 1800 s timeout of `run_command`.
- A record carries a `difficulty` (possibly null), a `success` and a `duration`. It also carries `origin`, the run that generated the task. `origin` is not a field of the JSON; it ties each record to a task of the directory.
- Two history variables serve the property `FailedBatchContributesNothing`. `genFailed` holds the batches whose `generate_tasks` returned False in the current run. `contributed` holds the batches whose records phase 2 appended. Both are reset when a run starts.

**Actions.**

| Action | Code |
|---|---|
| `StartCycle` | A run of the script. |
| `Generate` | One iteration of phase 1, with `generate_tasks`. |
| `EndGeneration` | The `tasks_generated == 0` exit. |
| `Evaluate` | One iteration of phase 2, with `evaluate_tasks`. |
| `EndEvaluation` | The "no results" return. |
| `Analyze` | `analyze_results`, followed by saving the report. |

`AnalyzeResults` keeps the insertion order of `by_difficulty` (first appearance). The recommendation list is built in the code's order. Rates are compared exactly: `5s > 4n` for "> 0.8".

`MC_BenchmarkEvaluation` considers two runs, the difficulties `easy`, `hard` and null, and one duration; the by_difficulty run uses two durations.

### AutoPublish (auto_publish.py): modelled

**What is modelled.** The daemon runs side by side with the task generator, which writes the same task directories.

**State.**

| Variable | Meaning |
|---|---|
| `local` | The files present in each task directory. `workspace.yaml` and `tests` stand for the whole tree. |
| `marker` | Whether `.hf_uploaded` exists. |
| `remote` | The (task, file) pairs in the dataset repository. |
| `commits` | Commits made per task. |
| `pc`, `pending`, `cur`, `pairs` | The daemon's position in `upload_tasks`: its `new_tasks` snapshot, the current task and the list `collect_files_for_upload` returned for it. |
| `crashes`, `failures` | Restarts so far, and calls that raised inside the per-task `try` (a `create_commit` or the marker's `touch()`), bounded by `MaxCrashes` and `MaxFailures`. |

**Actions.**

| Action | Code |
|---|---|
| `Write(t, f)` | The generator adds one file to a task directory, in any order. The generator is not in this repository. |
| `Scan` | Lines 53-67: `find_task_dirs` and the marker test. |
| `Collect` | Lines 69-97: the file list of the next new task. An empty list is skipped. |
| `CommitOk` | `create_commit` adds every listed file in one commit. |
| `CommitFail` | `create_commit` raises, before or after the commit was made (a response timeout). The handler at line 110 moves on to the next task without touching the marker. |
| `Touch` | Line 107. |
| `TouchFail` | `touch()` at line 107 raises (permission denied, the directory removed, a full or read-only disk). It is inside the `try` opened at line 70, so the handler at line 110 moves on. The task stays committed and unmarked, and the next cycle commits it again. |
| `EndCycle` | The end of `upload_tasks`, then `time.sleep`. |
| `Crash` | The process is killed and restarted, and `main()` starts over. |

**Fairness.** `Spec` assumes weak fairness of the daemon's own steps (`PublisherStep`).

- The justification is the `while True` loop of `main()`. It catches every exception from a cycle and sleeps for a bounded time, so the daemon keeps taking steps.
- Failures and crashes are not fair, and they are bounded.
- The generator is not fair: it may stop at any point.

### MC_SolutionVerifier

- **Files:** a two-file solution directory (`out` and the results file `res`) and one absolute path outside it.
- **Words:** four content words:
  - a word and its upper-case variant;
  - the canary;
  - the shell's "No such file" word.
- **Task shapes:**
  - `LogTask` has a canary, a required check, and all four check types.
  - `AuditTask` has no canary, an absolute target, a malformed regex and an unknown type.
  - `EmptyTask` has no checks.
  - `GeneratedTask` has the shape `create_verifiable_task.py` writes.
  - `NullTargetTask` has a null target.
- `MaxRuns = 2`, because the canary issue needs a second run. `CanaryLen = 25`, the length of `DATAFORGE_CANARY_` followed by 8 hex digits.
- `fs` starts as every content of the solution file. With this data TLC explores every combination of existence, case and canary presence for every check type.

## 3. Runs

| Run | Expect | What it shows |
|---|---|---|
| `sv_core` | pass | `TypeOK`; `CheckSound` (every check outcome says what its type asserts of the solution, for every command outcome); `VerdictSound` (PASS iff at least one assertion was declared, each check has exactly one outcome, 70% of them hold and the canary is in the tree). 1612 distinct states. |
| `sv_canary_self` | violation of `CanarySound` | Run 1 fails and writes the canary into `verification_results.json`. In run 2 the canary check passes on that file alone. |
| `sv_required` | violation of `RequiredGate` | A check declared `required: true` fails and the verdict is PASS, because `_execute_check` hard-codes `required: False`. |
| `sv_abort` | violation of `ResultProduced` | The `task.yaml` shape the repository's own generator writes (`difficulty: "easy"`) makes the verifier exit 1 with no result. |

Each property of `sv_core` is broken by a mutant of the code it is about:

| Property | Mutant |
|---|---|
| `TypeOK` | Results kept across runs (`StartRunKeepResults`). |
| `CheckSound` | `content_contains` folding case (`ContentContainsAnyCase`). |
| `VerdictSound` | The `total > 0` guard dropped (`VerdictNoEmptyGuard`). |

| Run | Expect | What it shows |
|---|---|---|
| `pv_core` | pass | `ExitMeansAllFixed`: `main()` exits 0 exactly when every check's file is present and its vulnerable pattern is gone. This goes through the decision table, the point sums and the rounding. `ReportOrdered`: the report lists every outcome once, with its own status and points, critical before high and in profile order within a severity. 110,500 states. |
| `pv_skip` | violation of `SkipExcluded` | `points_total` counts skipped checks, although the spec says a skip must not count against the denominator. |

The mutants of `pv_core`:

| Property | Mutant |
|---|---|
| `TypeOK` | `run_check` without its final `else` (`RunCheckNoElse`). |
| `ExitMeansAllFixed` | The both-patterns row taken as PASS (`RunCheckTrustFix`). |
| `ReportOrdered` | HIGH walked before CRITICAL (`SwappedSeverityOrder`). |

| Run | Expect | What it shows |
|---|---|---|
| `be_core` | pass | `RecommendationsOrderFree`: over every collaborator outcome in two runs, the recommendation set is the same for every permutation of the collected records. 72,730 states. The mutants are a bucket success counter assigned instead of incremented, and the phase 2 index not advanced (caught by `TypeOK`'s bound on `all_results`). |
| `be_bydiff` | violation of `ByDifficultyOrderFree` | The `durations` lists in `by_difficulty` follow input order. |
| `be_failed_batch` | violation of `FailedBatchContributesNothing` | Spec 7(c) says a non-zero exit of the generator makes its category contribute zero records. `generate_tasks` returns False (line 97) but leaves the batch directory as it is, and phase 2 evaluates every directory that exists (line 304). In TLC's trace the generator for batch 2 exits non-zero after writing a task, and that task's record is reported. Tasks an earlier run left at the fixed path `batch-{i+1}` (line 276) come through the same way. |
| `be_abort` | violation of `NoAbort` | A collaborator timeout (or a null difficulty) aborts the cycle. |

| Run | Expect | What it shows |
|---|---|---|
| `ap_core` | pass | Two tasks, one restart and one failed commit, with the generator writing concurrently. `MarkedOnlyIfCommitted`: a marked task has a commit holding its `workspace.yaml`. `DuplicateOnlyAfterInterruption`: no task gets more than 1 + crashes + failures commits, where a failure is a `create_commit` or a `touch()` that raised. `EveryTaskPublished`: every task given a `workspace.yaml` is eventually marked. 3,952 states. |
| `ap_complete` | violation of `MarkedMeansComplete` | `tests/` is written after the daemon listed the directory. The task is committed and marked without it, and is never looked at again. The module docstring says the whole tree is uploaded. |

The mutants of `ap_core`:

| Property | Mutant |
|---|---|
| `TypeOK` | `find_task_dirs` without `.parent` (`FindTaskDirsNoParent`). |
| `MarkedOnlyIfCommitted` | The marker touched before `create_commit` (`CollectMarkFirst`). |
| `DuplicateOnlyAfterInterruption` | No marker test (`ScanIgnoreMarker`). |
| `EveryTaskPublished` | The marker test with its `not` dropped (`ScanMarkedOnly`). |

**Fairness.**

- Only `AutoPublish` assumes fairness (see above), and its liveness property is checked only by TLC.
- The other models check safety properties only.
- Their programs are command-line tools that stop after their last step, so deadlock checking is off for them.

**Numeric edges.** The 70% threshold is compared exactly, as `100*passed >= 70*total`. For every total below 200 this agrees with the float test `passed/total*100 >= 70`.

## 4. Proofs

### SolutionVerifierProofs

**`TypeCorrect == Spec => []TypeOK`.**

- The inductive strengthening `TypeInv` adds two facts:
  - `Len(results) <= k`;
  - in the canary phase, `results` is empty and `k = 1`.
- Without them the bound `Len(results) <= Len(checks) + 1` is not preserved by `RunCheck`.
- The proof has one step per action. The step for `RunCheck` uses `AppendProperties` of SequenceTheorems and the lemma `ExecuteType`.

**`CheckSoundness`.**

- Statement: `ASSUME ShellTargetsNameNoFile PROVE Spec => []CheckSound`, where `ShellTargetsNameNoFile` says that a shell-sniffed target does not also name a file.
- The inductive invariant is `IInv`, which is `TypeInv /\ Sound`. `Sound` additionally records that every automated result names a check index whose target is a string.
- The key lemma is `ExecuteSound`: for every command outcome, `Execute` yields an outcome that satisfies `Asserted`.
- TLC checks `IInv` on the MC instance, and the MC module asserts the hypothesis as `MCShellTargetsNameNoFile`.

### AutoPublishProofs

**`MarkerSound == Spec => []MarkedOnlyIfCommitted`** and **`DuplicatesBounded == Spec => []DuplicateOnlyAfterInterruption`** hold for every set of tasks and every pair of bounds. They rest on one inductive invariant, `IInv` in `AutoPublish`. Besides the types, it records:

- while a task is being committed or touched, it has left `new_tasks` and is unmarked;
- a task committed but not yet touched has a commit holding its `workspace.yaml`;
- every pending task has a `workspace.yaml`, and no pending task is marked;
- `commits[t] <= Slack(t) + crashes + failures`. `Slack(t)` is 1 when the task is marked or is about to be marked, and 0 otherwise.

The last conjunct is what makes the bound inductive. A commit of an unmarked task uses up its free commit. A restart between the commit and the touch removes that free commit again, and the crash count pays for it. A `touch()` that raises (`TouchFailIInv`) removes it too, and the failure count pays for it. Without `TouchFail` the bound would be proved of a daemon whose marker never fails to be written, which is not the code. TLC checks `IInv` on `ap_core`'s instance. There is one lemma per action, and `NextIInv` combines them.

The liveness property `EveryTaskPublished` is only model-checked, because TLAPS does not handle fairness.

### Only model-checked

`VerdictSound` involves cardinalities of filtered index sets and is only model-checked so far. Liveness is not stated: nothing in the verifier waits.

## 5. Not modelled (yet) and the plan

Next steps:

1. Prove `VerdictSound` of `SolutionVerifier`. This needs lemmas on the cardinality of filtered index sets, from FiniteSetTheorems.
2. Prove `ExitMeansAllFixed` of `PatternVerifier` for the fixed profile.
3. Model `create_verifiable_task.py` as the producer of `task.yaml`, and compose it with `SolutionVerifier`.

Left out:

- **The vulnerable API fixture** (`workspace-python-api/app`). It is task material whose flaws are intended.
- **The tests of generated tasks** under `test-run`, `benchmark-output` and `validated-dataset`. They concern other repositories.
- **The start-up of `auto_publish.py`** (the `HF_TOKEN` check and repository creation). It is I/O before the loop, and it does not affect which tasks are uploaded.
- **Exceptions that end a run with exit 1 either way.** `PatternVerifier.ReadFile` catches only `FileNotFoundError` and `IOError`, as the code does. A `UnicodeDecodeError` escapes and crashes `main()`, which gives exit 1, the same code a failed audit gives. No property tells the two apart, so the crash is left out. The crash in `print_report` on a record whose `notes` is null is also left out.
- **The target text echoed in check names.** `ResultsText` keeps only the canary echo, the one text a later run's scan reads back.
- **Printing and formatting.** These are abstracted away, except the words a results message repeats, because the canary scan reads them back.
