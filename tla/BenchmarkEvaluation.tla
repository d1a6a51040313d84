------------------------ MODULE BenchmarkEvaluation ------------------------
(***************************************************************************)
(* The calibration cycle of scripts/benchmark_evaluation.py: main() asks  *)
(* the external generator for tasks of two categories into batch-1 and    *)
(* batch-2 of a fixed output directory, asks the external evaluator to    *)
(* run an agent on each batch directory that exists, and analyses the     *)
(* collected records (analyze_results).  The output directory persists    *)
(* from one run of the script to the next.                                *)
(*                                                                         *)
(* A batch directory holds tasks; a task is identified by the cycle that  *)
(* generated it.  What the external processes write and return is chosen *)
(* nondeterministically among what their contract allows.                 *)
(***************************************************************************)
EXTENDS Integers, Sequences, SequencesExt, FiniteSets, TLC

CONSTANTS
    Difficulties,  \* values of a record's "difficulty" field
    Null,          \* JSON null in that field
    Durations,     \* values of "duration_seconds"
    MaxCycles      \* runs of the script considered

ASSUME BenchmarkAssumption ==
    /\ Null \in Difficulties
    /\ Durations \subseteq Nat
    /\ MaxCycles \in Nat \ {0}

Batches == 1..2          \* categories[:2] and range(2)
TaskCount == 10
Cycles == 1..MaxCycles

(* One TaskResult as the evaluator reports it.  origin is not a field of  *)
(* the JSON: it records which cycle generated the task.                   *)
Record == [origin : Cycles, difficulty : Difficulties,
           success : BOOLEAN, duration : Durations]

(* The evaluator reports one record per task in the directory, in an      *)
(* order of its own.                                                      *)
RecordsFor(tasks) ==
    {s \in [1..Cardinality(tasks) -> Record] :
        {s[j].origin : j \in DOMAIN s} = tasks}

VARIABLES
    exists,     \* batch directory i exists
    tasksIn,    \* cycles whose tasks batch directory i holds
    cycle,      \* the current run of the script
    pc,         \* "idle", "gen", "eval", "analyze", or an end of a run
    i,          \* loop index of phase 1 and of phase 2
    generated,  \* tasks_generated
    results,    \* all_results
    report,     \* the EvaluationReport of this run, or <<>>
    genFailed,  \* history: batches whose generate_tasks returned False in this run
    contributed \* history: batches whose records phase 2 appended in this run

vars == <<exists, tasksIn, cycle, pc, i, generated, results, report,
          genFailed, contributed>>

Ended == {"done", "exit", "aborted"}

-----------------------------------------------------------------------------
(* analyze_results.                                                       *)

Successes(rs) == Cardinality({j \in DOMAIN rs : rs[j].success})

(* The keys of by_difficulty in insertion order: first appearance.        *)
FirstIndex(rs, d) == CHOOSE j \in DOMAIN rs :
                        rs[j].difficulty = d /\ \A m \in 1..(j - 1) : rs[m].difficulty # d
DifficultyKeys(rs) ==
    SetToSortSeq({rs[j].difficulty : j \in DOMAIN rs},
                 LAMBDA a, b : FirstIndex(rs, a) < FirstIndex(rs, b))

(* Mutant: the success counter of a bucket assigned instead of added to. *)
BucketLastSuccess(rs, d) ==
    LET sel == SelectSeq(rs, LAMBDA r : r.difficulty = d)
    IN  [total |-> Len(sel),
         success |-> IF sel[Len(sel)].success THEN 1 ELSE 0,
         durations |-> [k \in 1..Len(sel) |-> sel[k].duration]]

(* by_difficulty[d]: total, success and the list of durations in input    *)
(* order.                                                                 *)
Bucket(rs, d) ==
    LET sel == SelectSeq(rs, LAMBDA r : r.difficulty = d)
    IN  [total |-> Len(sel),
         success |-> Successes(sel),
         durations |-> [k \in 1..Len(sel) |-> sel[k].duration]]

(* The overall recommendation: success rate > 0.8, < 0.2, or between.     *)
Advice(flag) == [flag |-> flag, rate |-> <<>>]
OverallAdvice(s, n) ==
    IF 5 * s > 4 * n THEN <<Advice("too_easy"), Advice("add_traps")>>
    ELSE IF 5 * s < n THEN <<Advice("too_hard"), Advice("simplify")>>
    ELSE <<Advice("reasonable")>>

(* The flag of one bucket: easy below 0.7, hard above 0.5.  The message   *)
(* carries the bucket's rate.                                             *)
BucketAdvice(d, b) ==
    IF d = "easy" /\ 10 * b.success < 7 * b.total
    THEN <<[flag |-> "easy_too_hard", rate |-> <<b.success, b.total>>]>>
    ELSE IF d = "hard" /\ 2 * b.success > b.total
    THEN <<[flag |-> "hard_too_easy", rate |-> <<b.success, b.total>>]>>
    ELSE <<>>

AnalyzeResults(rs) ==
    LET n == Len(rs)
        s == Successes(rs)
        keys == DifficultyKeys(rs)
        byDifficulty == [d \in {rs[j].difficulty : j \in DOMAIN rs} |-> Bucket(rs, d)]
    IN  [total |-> n, successful |-> s, failed |-> n - s,
         byDifficulty |-> byDifficulty,
         recommendations |->
            OverallAdvice(s, n)
              \o FlattenSeq([k \in 1..Len(keys) |->
                                BucketAdvice(keys[k], byDifficulty[keys[k]])])]

-----------------------------------------------------------------------------
(* Actions.                                                               *)

Init ==
    /\ exists = [b \in Batches |-> FALSE]
    /\ tasksIn = [b \in Batches |-> {}]
    /\ cycle = 0
    /\ pc = "idle"
    /\ i = 1
    /\ generated = 0
    /\ results = <<>>
    /\ report = <<>>
    /\ genFailed = {}
    /\ contributed = {}

(* A run of main() with OPENROUTER_API_KEY set.                           *)
StartCycle ==
    /\ pc \in Ended \cup {"idle"}
    /\ cycle < MaxCycles
    /\ cycle' = cycle + 1
    /\ pc' = "gen"
    /\ i' = 1
    /\ generated' = 0
    /\ results' = <<>>
    /\ report' = <<>>
    /\ genFailed' = {}
    /\ contributed' = {}
    /\ UNCHANGED <<exists, tasksIn>>

(* generate_tasks for categories[i - 1]: the directory is created first;  *)
(* the generator may add this cycle's tasks (and may have cleared older   *)
(* ones) whether or not it reports success; TimeoutExpired escapes        *)
(* run_command and main().                                                *)
Generate ==
    /\ pc = "gen"
    /\ i \in Batches
    /\ exists' = [exists EXCEPT ![i] = TRUE]
    /\ \E kept \in {tasksIn[i], {}}, added \in {{}, {cycle}} :
          tasksIn' = [tasksIn EXCEPT ![i] = kept \cup added]
    /\ \/ /\ generated' = generated + TaskCount \div 2   \* status "success"
          /\ i' = i + 1
          /\ UNCHANGED <<pc, genFailed>>
       \/ /\ i' = i + 1                                  \* failure, logged
          /\ genFailed' = genFailed \cup {i}
          /\ UNCHANGED <<pc, generated>>
       \/ /\ pc' = "aborted"                             \* timeout
          /\ UNCHANGED <<i, generated, genFailed>>
    /\ UNCHANGED <<cycle, results, report, contributed>>

(* After phase 1: exit(1) when tasks_generated is 0.                      *)
EndGeneration ==
    /\ pc = "gen"
    /\ i \notin Batches
    /\ pc' = IF generated = 0 THEN "exit" ELSE "eval"
    /\ i' = 1
    /\ UNCHANGED <<exists, tasksIn, cycle, generated, results, report,
                   genFailed, contributed>>

(* Mutant: the loop index not advanced after a parsed batch.             *)
EvaluateNoAdvance ==
    /\ pc = "eval"
    /\ i \in Batches
    /\ IF ~exists[i]
       THEN /\ i' = i + 1
            /\ UNCHANGED <<pc, results, contributed>>
       ELSE \/ /\ \E rs \in RecordsFor(tasksIn[i]) :
                     /\ results' = results \o rs
                     /\ contributed' = IF rs = <<>> THEN contributed
                                                   ELSE contributed \cup {i}
               /\ UNCHANGED <<i, pc>>
            \/ /\ i' = i + 1
               /\ UNCHANGED <<pc, results, contributed>>
            \/ /\ pc' = "aborted"
               /\ UNCHANGED <<i, results, contributed>>
    /\ UNCHANGED <<exists, tasksIn, cycle, generated, report, genFailed>>

(* evaluate_tasks for batch i when its directory exists: parsed           *)
(* task_results are appended; unparsable output is skipped; a timeout     *)
(* escapes main().                                                        *)
Evaluate ==
    /\ pc = "eval"
    /\ i \in Batches
    /\ IF ~exists[i]
       THEN /\ i' = i + 1
            /\ UNCHANGED <<pc, results, contributed>>
       ELSE \/ /\ \E rs \in RecordsFor(tasksIn[i]) :
                     /\ results' = results \o rs
                     /\ contributed' = IF rs = <<>> THEN contributed
                                                   ELSE contributed \cup {i}
               /\ i' = i + 1
               /\ UNCHANGED pc
            \/ /\ i' = i + 1
               /\ UNCHANGED <<pc, results, contributed>>
            \/ /\ pc' = "aborted"
               /\ UNCHANGED <<i, results, contributed>>
    /\ UNCHANGED <<exists, tasksIn, cycle, generated, report, genFailed>>

(* After phase 2: return without a report when nothing was collected.     *)
EndEvaluation ==
    /\ pc = "eval"
    /\ i \notin Batches
    /\ pc' = IF results = <<>> THEN "exit" ELSE "analyze"
    /\ UNCHANGED <<exists, tasksIn, cycle, i, generated, results, report,
                   genFailed, contributed>>

(* Phase 3 and 4: analyze_results, print_report, save the report.  A     *)
(* null difficulty makes diff.lower() raise.                              *)
Analyze ==
    /\ pc = "analyze"
    /\ IF \E j \in DOMAIN results : results[j].difficulty = Null
       THEN /\ pc' = "aborted"
            /\ UNCHANGED report
       ELSE /\ report' = AnalyzeResults(results)
            /\ pc' = "done"
    /\ UNCHANGED <<exists, tasksIn, cycle, i, generated, results,
                   genFailed, contributed>>

Next == StartCycle \/ Generate \/ EndGeneration \/ Evaluate
        \/ EndEvaluation \/ Analyze

Spec == Init /\ [][Next]_vars


-----------------------------------------------------------------------------
(* Properties.                                                            *)

TypeOK ==
    /\ exists \in [Batches -> BOOLEAN]
    /\ tasksIn \in [Batches -> SUBSET Cycles]
    /\ cycle \in 0..MaxCycles
    /\ pc \in Ended \cup {"idle", "gen", "eval", "analyze"}
    /\ i \in 1..3
    /\ generated \in {0, 5, 10}
    /\ results \in Seq(Record)
    /\ Len(results) <= 2 * MaxCycles
    /\ genFailed \subseteq Batches
    /\ contributed \subseteq Batches

(* results reordered by a permutation of its indices.                     *)
Reordered(rs) == {[j \in DOMAIN rs |-> rs[p[j]]] : p \in Permutations(DOMAIN rs)}

(* Spec 4.6 and 8: the recommendation set is a function of the multiset   *)
(* of records: reordering the evaluator's records changes nothing in it,  *)
(* through the bucket counters, the rates and the per-bucket flags that   *)
(* follow the insertion order of by_difficulty.                           *)
RecommendationsOrderFree ==
    pc = "done" =>
        \A rs \in Reordered(results) :
            Range(AnalyzeResults(rs).recommendations) = Range(report.recommendations)

(* Spec 5 and 8: by_difficulty is identical for every order of the        *)
(* records.                                                               *)
ByDifficultyOrderFree ==
    pc = "done" =>
        \A rs \in Reordered(results) :
            AnalyzeResults(rs).byDifficulty = report.byDifficulty

(* Spec 7(c): a non-zero exit of the generator is recovered at the batch   *)
(* level, and that category contributes zero records: no batch whose      *)
(* generate_tasks returned False in this run has records in the report.  *)
(* Phase 2 evaluates every batch directory that exists (line 304), and    *)
(* the directory is created before the generator runs (line 75) at a     *)
(* fixed path (line 276) that earlier runs may have filled.              *)
FailedBatchContributesNothing ==
    pc = "done" => genFailed \cap contributed = {}

(* Spec 4.5 and 7: a failed or timed-out collaborator is recovered at the *)
(* batch level; the cycle never ends in an unhandled exception.           *)
NoAbort == pc # "aborted"

=============================================================================
