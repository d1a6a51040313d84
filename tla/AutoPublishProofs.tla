-------------------------- MODULE AutoPublishProofs --------------------------
(***************************************************************************)
(* Proofs about AutoPublish for every set of tasks and every bound on      *)
(* restarts and failed calls: the marker is only ever touched on a       *)
(* committed task, and a task is committed again only after an            *)
(* interruption between its commit and its marker.                        *)
(***************************************************************************)
EXTENDS AutoPublish, TLAPS

(* The initial state, with no file written and nothing uploaded, satisfies IInv. *)
LEMMA InitIInv == Init => IInv
BY PublishAssumption DEF Init, IInv, Uploaded, MarkedOnlyIfCommitted, Slack

-----------------------------------------------------------------------------
(* One lemma per action: each preserves IInv.                             *)

(* A file the generator writes only grows a task directory.              *)
LEMMA WriteIInv ==
    ASSUME IInv, NEW t \in Tasks, NEW f \in TaskFiles, Write(t, f)
    PROVE  IInv'
BY DEF IInv, Write, publisher, Uploaded, MarkedOnlyIfCommitted, Slack

(* new_tasks holds only unmarked directories with a workspace.yaml.       *)
LEMMA ScanIInv ==
    ASSUME IInv, Scan
    PROVE  IInv'
BY DEF IInv, Scan, FindTaskDirs, Uploaded, MarkedOnlyIfCommitted, Slack

(* The task taken up leaves new_tasks, is unmarked, and lists its        *)
(* workspace.yaml.                                                        *)
LEMMA CollectIInv ==
    ASSUME IInv, Collect
    PROVE  IInv'
<1>1. PICK t \in pending : /\ cur' = t
                           /\ pending' = pending \ {t}
                           /\ pairs' = local[t]
                           /\ pc' = IF local[t] = {} THEN "collect" ELSE "commit"
  BY DEF Collect
<1>2. t \in Tasks /\ ~marker[t] /\ WorkspaceFile \in local[t]
  BY <1>1 DEF IInv, Uploaded
<1>. QED
  BY <1>1, <1>2 DEF IInv, Collect, Uploaded, MarkedOnlyIfCommitted, Slack

(* A commit of an unmarked task moves its one free commit to Slack.      *)
LEMMA CommitOkIInv ==
    ASSUME IInv, CommitOk
    PROVE  IInv'
<1>1. cur \in Tasks /\ ~marker[cur] /\ WorkspaceFile \in pairs
  BY DEF IInv, CommitOk
<1>2. commits[cur] <= crashes + failures
  BY <1>1 DEF IInv, CommitOk, Slack
<1>. QED
  BY <1>1, <1>2 DEF IInv, CommitOk, Uploaded, MarkedOnlyIfCommitted, Slack

(* A failed call that still committed is paid for by the failure count.  *)
LEMMA CommitFailIInv ==
    ASSUME IInv, CommitFail
    PROVE  IInv'
<1>1. cur \in Tasks /\ ~marker[cur]
  BY DEF IInv, CommitFail
<1>2. commits[cur] <= crashes + failures
  BY <1>1 DEF IInv, CommitFail, Slack
<1>. QED
  BY <1>1, <1>2 DEF IInv, CommitFail, Uploaded, MarkedOnlyIfCommitted, Slack

(* The marker is touched on a task that was committed.                    *)
LEMMA TouchIInv ==
    ASSUME IInv, Touch
    PROVE  IInv'
<1>1. /\ cur \in Tasks \ pending
      /\ commits[cur] >= 1 /\ <<cur, WorkspaceFile>> \in remote
  BY DEF IInv, Touch
<1>2. MarkedOnlyIfCommitted'
  BY <1>1 DEF IInv, Touch, MarkedOnlyIfCommitted
<1>3. \A t \in Tasks : commits'[t] <= Slack(t)' + crashes' + failures'
  BY <1>1 DEF IInv, Touch, Slack
<1>4. pending' \cap Uploaded' = {}
  BY <1>1 DEF IInv, Touch, Uploaded
<1>. QED
  BY <1>1, <1>2, <1>3, <1>4 DEF IInv, Touch

(* A touch() that raised leaves the task committed and unmarked: its    *)
(* Slack is lost, and the failure count pays for it.                      *)
LEMMA TouchFailIInv ==
    ASSUME IInv, TouchFail
    PROVE  IInv'
<1>1. cur \in Tasks /\ ~marker[cur]
  BY DEF IInv, TouchFail
<1>2. \A t \in Tasks : commits'[t] <= Slack(t)' + crashes' + failures'
  BY <1>1 DEF IInv, TouchFail, Slack
<1>. QED
  BY <1>1, <1>2 DEF IInv, TouchFail, Uploaded, MarkedOnlyIfCommitted

(* The end of a cycle changes nothing but the daemon's position.         *)
LEMMA EndCycleIInv ==
    ASSUME IInv, EndCycle
    PROVE  IInv'
BY DEF IInv, EndCycle, Uploaded, MarkedOnlyIfCommitted, Slack

(* A restart drops the Slack of the task being touched and pays for it   *)
(* with the crash count.                                                  *)
LEMMA CrashIInv ==
    ASSUME IInv, Crash
    PROVE  IInv'
BY DEF IInv, Crash, Uploaded, MarkedOnlyIfCommitted, Slack

(* Every step of the daemon, the generator or the environment keeps IInv. *)
LEMMA NextIInv == IInv /\ [Next]_vars => IInv'
<1> SUFFICES ASSUME IInv, [Next]_vars PROVE IInv'
  OBVIOUS
<1>1. CASE \E t \in Tasks, f \in TaskFiles : Write(t, f)
  BY <1>1, WriteIInv
<1>2. CASE Scan
  BY <1>2, ScanIInv
<1>3. CASE Collect
  BY <1>3, CollectIInv
<1>4. CASE CommitOk
  BY <1>4, CommitOkIInv
<1>5. CASE Touch
  BY <1>5, TouchIInv
<1>6. CASE EndCycle
  BY <1>6, EndCycleIInv
<1>7. CASE CommitFail
  BY <1>7, CommitFailIInv
<1>8. CASE Crash
  BY <1>8, CrashIInv
<1>9. CASE TouchFail
  BY <1>9, TouchFailIInv
<1>10. CASE UNCHANGED vars
  BY <1>10 DEF IInv, vars, publisher, Uploaded, MarkedOnlyIfCommitted, Slack
<1>. QED
  BY <1>1, <1>2, <1>3, <1>4, <1>5, <1>6, <1>7, <1>8, <1>9, <1>10
  DEF Next, PublisherStep

-----------------------------------------------------------------------------

(* Whatever the generator writes, however often create_commit fails and   *)
(* the daemon restarts, a task directory carries the upload marker only   *)
(* if a commit holding its workspace.yaml reached the repository.         *)
THEOREM MarkerSound == Spec => []MarkedOnlyIfCommitted
<1>1. Spec => []IInv
  BY InitIInv, NextIInv, PTL DEF Spec
<1>2. IInv => MarkedOnlyIfCommitted
  BY DEF IInv
<1>. QED
  BY <1>1, <1>2, PTL

(* The marker bounds re-uploads: a task is committed more than once only  *)
(* by as many restarts, failed create_commit calls and failed touch()     *)
(* calls as the daemon met.                                               *)
THEOREM DuplicatesBounded == Spec => []DuplicateOnlyAfterInterruption
<1>1. Spec => []IInv
  BY InitIInv, NextIInv, PTL DEF Spec
<1>2. IInv => DuplicateOnlyAfterInterruption
  BY DEF IInv, DuplicateOnlyAfterInterruption, Slack
<1>. QED
  BY <1>1, <1>2, PTL

=============================================================================
