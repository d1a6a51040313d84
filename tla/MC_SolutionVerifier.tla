------------------------ MODULE MC_SolutionVerifier ------------------------
(***************************************************************************)
(* A small instance of SolutionVerifier: a solution directory with one     *)
(* answer file and the results file, one file outside it named by an      *)
(* absolute path, four content words, and task descriptors in the shapes  *)
(* the repository produces or documents.                                   *)
(***************************************************************************)
EXTENDS SolutionVerifier, TLC

MCPaths == {"out", "res"}
MCOutside == [a \in {"abs"} |-> {"e"}]

(* "E" and "e" differ only in case; "C" is the canary token; "N" is the   *)
(* word of the shell's "No such file" message; "[" is a malformed regex.  *)
MCContentWords == {"E", "e", "C", "N"}
MCWords == MCContentWords \cup {"c", "n", "true", "True", "false", "["}
MCLowerOf ==
    [w \in MCWords |->
        CASE w = "E" -> "e" [] w = "C" -> "c" [] w = "N" -> "n"
          [] w = "True" -> "true" [] OTHER -> w]
MCRegexMatch ==
    [w \in MCWords |-> IF w = "[" THEN Malformed
                       ELSE IF w \in MCContentWords THEN {w} ELSE {}]

(* Targets: the answer file by relative path, "cat out" as a shell        *)
(* expression, and an absolute path outside the solution directory.       *)
TOut == [shell |-> FALSE, path |-> "out", reads |-> NoFile]
TCat == [shell |-> TRUE, path |-> NoFile, reads |-> "out"]
TAbs == [shell |-> FALSE, path |-> "abs", reads |-> NoFile]

Chk(ty, t, e, req) == [type |-> ty, target |-> t, expected |-> e, required |-> req]

(* The log-analysis shape with a canary under anti_memorization and one   *)
(* check declared required.                                               *)
LogTask ==
    [difficulty |-> "map", canary |-> "C",
     checks |-> << Chk("file_exists", TOut, "true", FALSE),
                   Chk("output_contains", TCat, "E", FALSE),
                   Chk("content_contains", TOut, "E", TRUE),
                   Chk("regex_match", TOut, "e", FALSE) >>]

(* No canary; an absolute target, a malformed regex, an unknown type.     *)
AuditTask ==
    [difficulty |-> "absent", canary |-> NoCanary,
     checks |-> << Chk("output_contains", TOut, "e", FALSE),
                   Chk("file_exists", TAbs, "True", FALSE),
                   Chk("regex_match", TOut, "[", FALSE),
                   Chk("unknown", TOut, "e", FALSE) >>]

(* No canary and no automated checks.                                     *)
EmptyTask == [difficulty |-> "map", canary |-> NoCanary, checks |-> <<>>]

(* The shape create_verifiable_task.py writes: difficulty is a string and *)
(* canary_token sits at the top level, where the verifier does not look.  *)
GeneratedTask ==
    [difficulty |-> "string", canary |-> NoCanary,
     checks |-> << Chk("file_exists", TAbs, "true", FALSE) >>]

(* A check whose YAML target is null.                                     *)
NullTargetTask ==
    [difficulty |-> "map", canary |-> "C",
     checks |-> << Chk("file_exists", TOut, "false", FALSE),
                   Chk("file_exists", NonString, "true", FALSE) >>]

MCTasks == {LogTask, AuditTask, EmptyTask, GeneratedTask, NullTargetTask}

(* The hypothesis of theorem CheckSoundness holds of this instance.       *)
ASSUME MCShellTargetsNameNoFile == ShellTargetsNameNoFile

=============================================================================
