----------------------------- MODULE MCHistory -----------------------------
(* Small instances of TaskHistory for TLC.                                 *)
EXTENDS MCTasks, TaskHistory
=============================================================================
