---------------------------- MODULE AutoPublish ----------------------------
(***************************************************************************)
(* auto_publish.py: a daemon that, every INTERVAL seconds, finds the task  *)
(* directories under OUTPUT_DIR that contain workspace.yaml and have no    *)
(* .hf_uploaded marker, uploads each one's files in one commit, and then   *)
(* touches the marker.  The task generator writes the same directories    *)
(* concurrently, one file at a time, in an order of its own.  The daemon  *)
(* may be killed and restarted at any point, and a commit may fail.       *)
(***************************************************************************)
EXTENDS Naturals, FiniteSets

CONSTANTS
    Tasks,        \* task directories the generator creates
    MaxCrashes,   \* restarts of the daemon considered
    MaxFailures   \* failed create_commit or touch() calls considered

ASSUME PublishAssumption ==
    /\ MaxCrashes \in Nat
    /\ MaxFailures \in Nat

(* The files of a task: workspace.yaml, which find_task_dirs looks for,   *)
(* and the tests/ tree.                                                   *)
WorkspaceFile == "workspace.yaml"
TaskFiles == {WorkspaceFile, "tests"}

VARIABLES
    local,      \* files present in each task directory
    marker,     \* .hf_uploaded exists in the task directory
    remote,     \* <<task, file>> pairs committed to the dataset repository
    commits,    \* create_commit calls that succeeded, per task
    pc,         \* "scan", "collect", "commit" or "touch"
    pending,    \* new_tasks not yet handled in this cycle
    cur,        \* the task being uploaded
    pairs,      \* the files collect_files_for_upload found for cur
    crashes,
    failures

publisher == <<pc, pending, cur, pairs>>
vars == <<local, marker, remote, commits, publisher, crashes, failures>>

-----------------------------------------------------------------------------

Init ==
    /\ local = [t \in Tasks |-> {}]
    /\ marker = [t \in Tasks |-> FALSE]
    /\ remote = {}
    /\ commits = [t \in Tasks |-> 0]
    /\ pc = "scan"
    /\ pending = {}
    /\ cur = CHOOSE t \in Tasks : TRUE
    /\ pairs = {}
    /\ crashes = 0
    /\ failures = 0

(* The generator writes one more file of a task.                          *)
Write(t, f) ==
    /\ f \notin local[t]
    /\ local' = [local EXCEPT ![t] = @ \cup {f}]
    /\ UNCHANGED <<marker, remote, commits, publisher, crashes, failures>>

(* Mutant: find_task_dirs returning the workspace.yaml paths, without    *)
(* .parent.                                                                *)
FindTaskDirsNoParent ==
    {<<t, WorkspaceFile>> : t \in {u \in Tasks : WorkspaceFile \in local[u]}}

(* find_task_dirs, lines 30-35: the directories holding workspace.yaml.  *)
FindTaskDirs == {t \in Tasks : WorkspaceFile \in local[t]}

(* The directories that hold the .hf_uploaded marker.                     *)
Uploaded == {t \in Tasks : marker[t]}

(* Mutant: new_tasks computed without the marker test.                   *)
ScanIgnoreMarker ==
    /\ pc = "scan"
    /\ pending' = FindTaskDirs
    /\ pc' = "collect"
    /\ UNCHANGED <<local, marker, remote, commits, cur, pairs, crashes, failures>>

(* Mutant: the marker test with its "not" dropped.                        *)
ScanMarkedOnly ==
    /\ pc = "scan"
    /\ pending' = FindTaskDirs \cap Uploaded
    /\ pc' = "collect"
    /\ UNCHANGED <<local, marker, remote, commits, cur, pairs, crashes, failures>>

(* upload_tasks, lines 53-67: the task directories (those holding        *)
(* workspace.yaml) without a marker.                                      *)
Scan ==
    /\ pc = "scan"
    /\ pending' = FindTaskDirs \ Uploaded
    /\ pc' = "collect"
    /\ UNCHANGED <<local, marker, remote, commits, cur, pairs, crashes, failures>>

(* Mutant: the marker touched before create_commit.                       *)
CollectMarkFirst ==
    /\ pc = "collect"
    /\ \E t \in pending :
          /\ cur' = t
          /\ pending' = pending \ {t}
          /\ pairs' = local[t]
          /\ marker' = [marker EXCEPT ![t] = TRUE]
          /\ pc' = IF local[t] = {} THEN "collect" ELSE "commit"
    /\ UNCHANGED <<local, remote, commits, crashes, failures>>

(* Lines 69-96: the next new task; its files as they are now; a task    *)
(* directory with no file is skipped (line 76).                           *)
Collect ==
    /\ pc = "collect"
    /\ \E t \in pending :
          /\ cur' = t
          /\ pending' = pending \ {t}
          /\ pairs' = local[t]
          /\ pc' = IF local[t] = {} THEN "collect" ELSE "commit"
    /\ UNCHANGED <<local, marker, remote, commits, crashes, failures>>

(* Lines 99-104: one commit adds every collected file.                    *)
CommitOk ==
    /\ pc = "commit"
    /\ remote' = remote \cup {<<cur, f>> : f \in pairs}
    /\ commits' = [commits EXCEPT ![cur] = @ + 1]
    /\ pc' = "touch"
    /\ UNCHANGED <<local, marker, pending, cur, pairs, crashes, failures>>

(* create_commit raises: logged at line 111, and the loop goes on to the  *)
(* next task without touching the marker.  The call may have failed      *)
(* before the commit was made, or after (a timeout on the response).     *)
CommitFail ==
    /\ pc = "commit"
    /\ failures < MaxFailures
    /\ failures' = failures + 1
    /\ \/ UNCHANGED <<remote, commits>>
       \/ /\ remote' = remote \cup {<<cur, f>> : f \in pairs}
          /\ commits' = [commits EXCEPT ![cur] = @ + 1]
    /\ pc' = "collect"
    /\ UNCHANGED <<local, marker, pending, cur, pairs, crashes>>

(* Line 107.                                                              *)
Touch ==
    /\ pc = "touch"
    /\ marker' = [marker EXCEPT ![cur] = TRUE]
    /\ pc' = "collect"
    /\ UNCHANGED <<local, remote, commits, pending, cur, pairs, crashes, failures>>

(* Line 107 raises (permission denied, the directory removed, a full or  *)
(* read-only disk); the handler at line 110 logs it and goes on with the  *)
(* next task.  The task stays committed and unmarked.                     *)
TouchFail ==
    /\ pc = "touch"
    /\ failures < MaxFailures
    /\ failures' = failures + 1
    /\ pc' = "collect"
    /\ UNCHANGED <<local, marker, remote, commits, pending, cur, pairs, crashes>>

(* The end of upload_tasks and time.sleep(INTERVAL) in main().            *)
EndCycle ==
    /\ pc = "collect"
    /\ pending = {}
    /\ pc' = "scan"
    /\ UNCHANGED <<local, marker, remote, commits, pending, cur, pairs, crashes, failures>>

(* The daemon is killed and restarted: main() begins again and loses its  *)
(* in-memory cycle.                                                       *)
Crash ==
    /\ crashes < MaxCrashes
    /\ crashes' = crashes + 1
    /\ pc' = "scan"
    /\ pending' = {}
    /\ UNCHANGED <<local, marker, remote, commits, cur, pairs, failures>>

PublisherStep == Scan \/ Collect \/ CommitOk \/ Touch \/ EndCycle

Next ==
    \/ \E t \in Tasks, f \in TaskFiles : Write(t, f)
    \/ PublisherStep
    \/ CommitFail
    \/ TouchFail
    \/ Crash

(* The daemon loop runs forever; a failed call or a crash is not fair,    *)
(* only the daemon's own steps are.                                       *)
Spec == Init /\ [][Next]_vars /\ WF_vars(PublisherStep)


-----------------------------------------------------------------------------
(* Properties.                                                            *)

TypeOK ==
    /\ local \in [Tasks -> SUBSET TaskFiles]
    /\ marker \in [Tasks -> BOOLEAN]
    /\ remote \subseteq Tasks \X TaskFiles
    /\ commits \in [Tasks -> Nat]
    /\ pc \in {"scan", "collect", "commit", "touch"}
    /\ pending \subseteq Tasks
    /\ cur \in Tasks
    /\ pairs \subseteq TaskFiles
    /\ crashes \in 0..MaxCrashes
    /\ failures \in 0..MaxFailures

(* The marker is the only record that a task was published: whenever a  *)
(* task directory carries .hf_uploaded, a commit of that task, holding   *)
(* its workspace.yaml, reached the repository, however create_commit      *)
(* failures and restarts of the daemon interleave with the loop.          *)
MarkedOnlyIfCommitted ==
    \A t \in Tasks : marker[t] => (commits[t] >= 1 /\ <<t, WorkspaceFile>> \in remote)

(* The marker keeps a published task from being committed again; only    *)
(* an interruption between the commit and the marker lets it through: a  *)
(* restart of the daemon, a create_commit that raised after the commit    *)
(* was made, or a touch() that raised (line 107, caught at 110).  No task *)
(* gets more commits than one plus the crashes and failed calls.          *)
DuplicateOnlyAfterInterruption ==
    \A t \in Tasks : commits[t] <= 1 + crashes + failures

(* Every task directory the generator gives a workspace.yaml is         *)
(* eventually marked as uploaded by the daemon loop.                      *)
EveryTaskPublished ==
    \A t \in Tasks : (WorkspaceFile \in local[t]) ~> marker[t]

(* The docstring of collect_files_for_upload: a task is uploaded with its *)
(* whole tree, tests/ included; so a marked task has every file of its     *)
(* directory in the repository.                                           *)
MarkedMeansComplete ==
    \A t \in Tasks : marker[t] => \A f \in local[t] : <<t, f>> \in remote


-----------------------------------------------------------------------------
(* The inductive invariant behind the two safety properties, proved in    *)
(* AutoPublishProofs.  Slack(t) is the one commit a task may have without *)
(* an interruption: the one it has once marked, or while its marker is    *)
(* about to be touched.                                                   *)

Slack(t) == IF marker[t] \/ (pc = "touch" /\ cur = t) THEN 1 ELSE 0

IInv ==
    /\ local \in [Tasks -> SUBSET TaskFiles]
    /\ marker \in [Tasks -> BOOLEAN]
    /\ commits \in [Tasks -> Nat]
    /\ pc \in {"scan", "collect", "commit", "touch"}
    /\ pending \subseteq Tasks
    /\ crashes \in Nat
    /\ failures \in Nat
    /\ pc \in {"commit", "touch"} => cur \in Tasks \ pending /\ ~marker[cur]
    /\ pc = "commit" => WorkspaceFile \in pairs
    /\ pc = "touch" => commits[cur] >= 1 /\ <<cur, WorkspaceFile>> \in remote
    /\ \A t \in pending : WorkspaceFile \in local[t]
    /\ pending \cap Uploaded = {}
    /\ MarkedOnlyIfCommitted
    /\ \A t \in Tasks : commits[t] <= Slack(t) + crashes + failures
=============================================================================
