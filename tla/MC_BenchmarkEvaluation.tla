----------------------- MODULE MC_BenchmarkEvaluation -----------------------
(***************************************************************************)
(* Two runs of the script; records of easy and hard tasks, and a null     *)
(* difficulty; one or two distinct durations.                              *)
(***************************************************************************)
EXTENDS BenchmarkEvaluation

MCDifficulties == {"easy", "hard", Null}

=============================================================================
