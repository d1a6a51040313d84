--------------------------- MODULE MC_AutoPublish ---------------------------
(* Two task directories, as model values.                                 *)
EXTENDS AutoPublish

CONSTANTS t1, t2

MCTasks == {t1, t2}

=============================================================================
