----------------------- MODULE SolutionVerifierProofs -----------------------
(***************************************************************************)
(* Proofs about SolutionVerifier for every value of its constants: the     *)
(* type invariant, and the soundness of every automated check outcome.     *)
(***************************************************************************)
EXTENDS SolutionVerifier, SequenceTheorems, TLAPS

(* The inductive strengthening of TypeOK: results hold at most one entry   *)
(* per check run so far plus the canary, and the canary phase starts from  *)
(* an empty result list with the first check next.                         *)
TypeInv ==
    /\ TypeOK
    /\ Len(results) <= k
    /\ pc = "canary" => results = <<>> /\ k = 1

FsTyped == fs \in [Paths -> Contents \cup {Absent}]

-----------------------------------------------------------------------------
(* Lemmas about the operators of the check engine.                        *)

LEMMA TaskTyped ==
    ASSUME NEW t \in Tasks
    PROVE  /\ t.checks \in Seq(Checks)
           /\ t.canary \in ContentWords \cup {NoCanary}
           /\ t.difficulty \in {"map", "string", "absent"}
BY TasksAssumption DEF TaskSet

(* A file read returns a content or Absent.                               *)
LEMMA FileContentType ==
    ASSUME FsTyped, NEW loc
    PROVE  FileContent(loc) \in Contents \cup {Absent}
BY ConstantsAssumption DEF FsTyped, FileContent

(* What a command prints is a content, never Absent.                      *)
LEMMA CmdOutputType ==
    ASSUME FsTyped, NEW t
    PROVE  /\ CmdOutput(t) \in Contents
           /\ CmdOutput(t) # Absent
<1>1. CmdOutput(t) \in Contents
  BY FileContentType, ConstantsAssumption DEF CmdOutput
<1>2. QED
  BY <1>1, ConstantsAssumption

(* Every check execution yields a well-formed results entry.              *)
LEMMA ExecuteType ==
    ASSUME FsTyped, NEW i \in Nat, NEW c \in Checks, NEW o
    PROVE  Execute(i, c, o) \in Outcome
<1> DEFINE R == [passed : BOOLEAN, echo : Contents]
<1>1. FileExists(c) \in R
  BY DEF FileExists, Res, Contents
<1>2. OutputContains(c, o) \in R
  BY DEF OutputContains, Res, Contents, LowerContains
<1>3. ContentContains(c) \in R
  BY DEF ContentContains, Res, Contents
<1>4. RegexMatchCheck(c) \in R
  BY DEF RegexMatchCheck, Res, Contents
<1>5. Res(FALSE, {}) \in R
  BY DEF Res, Contents
<1>6. QED
  BY <1>1, <1>2, <1>3, <1>4, <1>5 DEF Execute, Outcome

(* Every check outcome says what its check type asserts (spec 4.1), for   *)
(* every command outcome, provided a shell target names no file.          *)
LEMMA ExecuteSound ==
    ASSUME FsTyped, NEW i, NEW c \in Checks, c.target \in Targets,
           c.target.shell => c.target.path = NoFile,
           NEW o \in OutcomesFor(c)
    PROVE  Asserted(c, Execute(i, c, o).passed)
<1> DEFINE t == c.target
           content == FileContent(t.path)
<1>0. /\ content \in Contents \cup {Absent}
      /\ CmdOutput(t) \in Contents /\ CmdOutput(t) # Absent
      /\ FileContent(NoFile) = Absent
  BY FileContentType, CmdOutputType, ConstantsAssumption DEF FileContent
<1>a. c.type = "output_contains" => Execute(i, c, o).passed = OutputContains(c, o).passed
  BY DEF Execute
<1>b. c.type = "content_contains" => Execute(i, c, o).passed = ContentContains(c).passed
  BY DEF Execute
<1>c. c.type = "regex_match" => Execute(i, c, o).passed = RegexMatchCheck(c).passed
  BY DEF Execute
<1>1. CASE c.type = "file_exists"
  BY <1>1 DEF Asserted, Execute, FileExists, Res, Resolve
<1>2. CASE c.type = "output_contains" /\ ~t.shell
  <2>1. OutputContains(c, o).passed <=>
          (content \notin {Absent, {}} /\ LowerContains(content, c.expected))
    BY <1>2 DEF OutputContains, Res, Resolve
  <2>2. QED
    BY <2>1, <1>a, <1>2, <1>0 DEF Asserted, LowerContains
<1>3. CASE c.type = "output_contains" /\ t.shell /\ o = "ok"
  <2>1. OutputContains(c, o).passed <=>
          (CmdOutput(t) # {} /\ LowerContains(CmdOutput(t), c.expected))
    BY <1>3, <1>0 DEF OutputContains, Res, Resolve
  <2>2. QED
    BY <2>1, <1>a, <1>3 DEF Asserted
<1>4. CASE c.type = "output_contains" /\ t.shell /\ o # "ok"
  <2>1. OutputContains(c, o).passed = FALSE
    BY <1>4, <1>0 DEF OutputContains, Res, Resolve
  <2>2. QED
    BY <2>1, <1>a, <1>4 DEF Asserted
<1>5. CASE c.type = "content_contains"
  <2>1. ContentContains(c).passed <=> (content # Absent /\ c.expected \in content)
    BY DEF ContentContains, Res, Resolve
  <2>2. QED
    BY <2>1, <1>b, <1>5 DEF Asserted
<1>6. CASE c.type = "regex_match"
  BY <1>6, <1>c DEF Asserted, RegexMatchCheck, Res, Resolve
<1>7. CASE c.type = "unknown"
  BY <1>7 DEF Asserted, Execute, Res
<1>8. QED
  BY <1>1, <1>2, <1>3, <1>4, <1>5, <1>6, <1>7 DEF Checks, CheckTypes

-----------------------------------------------------------------------------
(* The type invariant.                                                    *)

LEMMA InitTypeInv == Init => TypeInv
BY ConstantsAssumption DEF Init, TypeInv, TypeOK, NotExited

LEMMA NextTypeInv == TypeInv /\ [Next]_vars => TypeInv'
<1> SUFFICES ASSUME TypeInv, [Next]_vars PROVE TypeInv'
  OBVIOUS
<1>0. /\ FsTyped
      /\ task \in Tasks
      /\ task.checks \in Seq(Checks)
      /\ task.canary \in ContentWords \cup {NoCanary}
  BY TaskTyped DEF TypeInv, TypeOK, FsTyped
<1>1. CASE StartRun
  BY <1>1, <1>0, ConstantsAssumption DEF StartRun, TypeInv, TypeOK, NotExited
<1>2. CASE CheckCanary
  <2>1. /\ pc = "canary" /\ pc' = "checks"
        /\ results = <<>> /\ k = 1
        /\ UNCHANGED <<fs, task, k, summary, exit, runs>>
    BY <1>2 DEF CheckCanary, TypeInv
  <2>2. CASE task.canary = NoCanary
    BY <1>2, <2>1, <2>2 DEF CheckCanary, TypeInv, TypeOK
  <2>3. CASE task.canary # NoCanary
    <3> DEFINE found == \E p \in Paths : fs[p] # Absent /\ task.canary \in fs[p]
               entry == [name |-> CanaryName, passed |-> found, required |-> TRUE,
                         echo |-> IF CanaryLen <= 30 THEN {task.canary} ELSE {}]
    <3>1. entry \in Outcome
      BY <1>0, <2>3 DEF Outcome, Contents, CanaryName
    <3>2. results' = <<entry>>
      BY <1>2, <2>1, <2>3 DEF CheckCanary
    <3>3. QED
      BY <3>1, <3>2, <2>1 DEF TypeInv, TypeOK
  <2>4. QED
    BY <2>2, <2>3
<1>3. CASE RunCheck
  <2> DEFINE c == task.checks[k]
  <2>1. k \in 1..Len(task.checks) /\ c \in Checks
    BY <1>3, <1>0 DEF RunCheck, TypeInv, TypeOK
  <2>2. CASE c.target = NonString
    BY <1>3, <2>2 DEF RunCheck, TypeInv, TypeOK
  <2>3. CASE c.target # NonString
    <3>1. PICK o \in OutcomesFor(c) : results' = Append(results, Execute(k, c, o))
      BY <1>3, <2>3 DEF RunCheck
    <3>2. Execute(k, c, o) \in Outcome
      BY <2>1, <1>0, ExecuteType
    <3>3. /\ k' = k + 1
          /\ pc = "checks"
          /\ UNCHANGED <<fs, task, pc, summary, exit, runs>>
      BY <1>3, <2>3 DEF RunCheck
    <3>4. /\ results' \in Seq(Outcome)
          /\ Len(results') = Len(results) + 1
      BY <3>1, <3>2, AppendProperties DEF TypeInv, TypeOK
    <3>5. QED
      BY <3>3, <3>4, <2>1 DEF TypeInv, TypeOK
  <2>4. QED
    BY <2>2, <2>3
<1>4. CASE Score
  BY <1>4 DEF Score, TypeInv, TypeOK, Verdict
<1>5. CASE Save
  <2>0. \A i \in DOMAIN results : results[i].echo \subseteq ContentWords
    <3> SUFFICES ASSUME NEW i \in DOMAIN results
                 PROVE  results[i].echo \subseteq ContentWords
      OBVIOUS
    <3>1. results \in Seq(Outcome)
      BY DEF TypeInv, TypeOK
    <3>2. results[i] \in Outcome
      BY <3>1, ElementOfSeq
    <3>3. QED
      BY <3>2 DEF Outcome, Contents
  <2>1. ResultsText(results) \in Contents
    BY <2>0 DEF ResultsText, Contents
  <2>2. QED
    BY <1>5, <2>1, ConstantsAssumption DEF Save, TypeInv, TypeOK
<1>6. CASE UNCHANGED vars
  BY <1>6 DEF vars, TypeInv, TypeOK
<1>7. QED
  BY <1>1, <1>2, <1>3, <1>4, <1>5, <1>6 DEF Next

(* The verifier's state is always well-typed, and self.results never      *)
(* holds more than one entry per declared check plus the canary.          *)
THEOREM TypeCorrect == Spec => []TypeOK
<1>1. Init => TypeInv
  BY InitTypeInv
<1>2. TypeInv /\ [Next]_vars => TypeInv'
  BY NextTypeInv
<1>3. TypeInv => TypeOK
  BY DEF TypeInv
<1>4. QED
  BY <1>1, <1>2, <1>3, PTL DEF Spec


-----------------------------------------------------------------------------
(* Soundness of the check outcomes.                                        *)

(* The soundness conjunct of IInv, on its own.                            *)
Sound ==
    pc \in {"checks", "save"} =>
        \A i \in DOMAIN results :
            results[i].name # CanaryName =>
                /\ results[i].name \in 1..Len(task.checks)
                /\ task.checks[results[i].name].target # NonString
                /\ Asserted(task.checks[results[i].name], results[i].passed)

LEMMA IInvSplit == IInv <=> TypeInv /\ Sound
BY DEF IInv, TypeInv, Sound

LEMMA InitSound == Init => Sound
BY DEF Init, Sound

(* Sound is kept by a step that leaves the files, the task and the        *)
(* results alone and enters the checks or save phase only from one.       *)
LEMMA SoundUnchanged ==
    ASSUME Sound, UNCHANGED <<fs, task, results>>,
           pc' \in {"checks", "save"} => pc \in {"checks", "save"}
    PROVE  Sound'
<1> SUFFICES ASSUME pc' \in {"checks", "save"},
                    NEW i \in DOMAIN results', results'[i].name # CanaryName
             PROVE  (/\ results[i].name \in 1..Len(task.checks)
                     /\ task.checks[results[i].name].target # NonString
                     /\ Asserted(task.checks[results[i].name], results[i].passed))'
  BY DEF Sound
<1>1. /\ results[i].name \in 1..Len(task.checks)
      /\ task.checks[results[i].name].target # NonString
      /\ Asserted(task.checks[results[i].name], results[i].passed)
  BY DEF Sound
<1>2. QED
  BY <1>1 DEF Asserted, FileContent, CmdOutput, LowerContains

LEMMA NextSound ==
    ASSUME ShellTargetsNameNoFile, TypeInv, Sound, [Next]_vars
    PROVE  Sound'
<1>0. /\ FsTyped
      /\ task \in Tasks
      /\ task.checks \in Seq(Checks)
      /\ results \in Seq(Outcome)
  BY TaskTyped DEF TypeInv, TypeOK, FsTyped
<1>1. CASE StartRun
  BY <1>1 DEF StartRun, Sound
<1>2. CASE CheckCanary
  <2>1. /\ results = <<>>
        /\ \/ results' = <<>>
           \/ \E e : results' = <<e>> /\ e.name = CanaryName
    BY <1>2 DEF CheckCanary, TypeInv
  <2>2. \A i \in DOMAIN results' : results'[i].name = CanaryName
    BY <2>1
  <2>3. QED
    BY <2>2 DEF Sound
<1>3. CASE RunCheck
  <2> DEFINE c == task.checks[k]
  <2>1. /\ pc = "checks" /\ k \in 1..Len(task.checks) /\ c \in Checks
    BY <1>3, <1>0 DEF RunCheck, TypeInv, TypeOK
  <2>2. CASE c.target = NonString
    BY <1>3, <2>2 DEF RunCheck, Sound
  <2>3. CASE c.target # NonString
    <3>1. PICK o \in OutcomesFor(c) : results' = Append(results, Execute(k, c, o))
      BY <1>3, <2>3 DEF RunCheck
    <3>2. /\ k' = k + 1
          /\ UNCHANGED <<fs, task, pc>>
      BY <1>3, <2>3 DEF RunCheck
    <3> DEFINE new == Execute(k, c, o)
    <3>3. /\ new.name = k
          /\ new \in Outcome
      <4>1. new.name = k
        BY DEF Execute, new
      <4>2. new \in Outcome
        BY <2>1, <1>0, ExecuteType DEF new
      <4>3. QED
        BY <4>1, <4>2
    <3>4. Asserted(c, new.passed)
      <4>1. c.target \in Targets
        BY <2>1, <2>3 DEF Checks
      <4>2. c.target.shell => c.target.path = NoFile
        BY <2>1, <2>3, <1>0 DEF ShellTargetsNameNoFile
      <4>3. QED
        BY <4>1, <4>2, <3>1, <2>1, <1>0, ExecuteSound DEF new
    <3>5. /\ DOMAIN results' = 1..(Len(results) + 1)
          /\ \A i \in 1..Len(results) : results'[i] = results[i]
          /\ results'[Len(results) + 1] = new
      BY <3>1, <3>3, <1>0, AppendProperties
    <3> SUFFICES ASSUME NEW i \in DOMAIN results', results'[i].name # CanaryName
                 PROVE  (/\ results[i].name \in 1..Len(task.checks)
                         /\ task.checks[results[i].name].target # NonString
                         /\ Asserted(task.checks[results[i].name], results[i].passed))'
      BY DEF Sound
    <3>6. CASE i \in 1..Len(results)
      <4>1. i \in DOMAIN results
        BY <1>0, <3>6
      <4>2. /\ results[i].name \in 1..Len(task.checks)
            /\ task.checks[results[i].name].target # NonString
            /\ Asserted(task.checks[results[i].name], results[i].passed)
        BY <4>1, <3>5, <3>6, <2>1 DEF Sound
      <4>3. QED
        BY <4>2, <3>5, <3>6, <3>2 DEF Asserted, FileContent, CmdOutput, LowerContains
    <3>7. CASE i = Len(results) + 1
      BY <3>7, <3>5, <3>3, <3>4, <2>1, <2>3, <3>2 DEF Asserted, FileContent, CmdOutput, LowerContains
    <3>8. QED
      BY <3>5, <3>6, <3>7, <1>0
  <2>4. QED
    BY <2>2, <2>3
<1>4. CASE Score
  <2>1. /\ pc' = "save" /\ pc = "checks"
        /\ UNCHANGED <<fs, task, results>>
    BY <1>4 DEF Score
  <2>2. QED
    BY <2>1, SoundUnchanged
<1>5. CASE Save
  BY <1>5 DEF Save, Sound
<1>6. CASE UNCHANGED vars
  BY <1>6, SoundUnchanged DEF vars
<1>7. QED
  BY <1>1, <1>2, <1>3, <1>4, <1>5, <1>6 DEF Next

(* Every pass or fail that _execute_check records for an automated check  *)
(* is what its type asserts of the solution (spec 4.1): no outcome of     *)
(* another check, of an earlier run, or of a timed-out command that fell  *)
(* back to reading the target is misattributed.                           *)
THEOREM CheckSoundness ==
    ASSUME ShellTargetsNameNoFile
    PROVE  Spec => []CheckSound
<1>1. Init => IInv
  BY InitTypeInv, InitSound, IInvSplit
<1>2. IInv /\ [Next]_vars => IInv'
  <2> SUFFICES ASSUME IInv, [Next]_vars PROVE IInv'
    OBVIOUS
  <2>1. TypeInv /\ Sound
    BY DEF IInv, TypeInv, Sound
  <2>2. TypeInv' /\ Sound'
    BY <2>1, NextTypeInv, NextSound
  <2>3. QED
    BY <2>2 DEF IInv, TypeInv, Sound
<1>3. IInv => CheckSound
  BY DEF IInv, CheckSound
<1>4. QED
  BY <1>1, <1>2, <1>3, PTL DEF Spec

=============================================================================
