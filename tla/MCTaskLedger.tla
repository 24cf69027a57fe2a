---------------------------- MODULE MCTaskLedger ----------------------------
(* Small instances of TaskLedger: a thread with one or two background tasks. *)
EXTENDS TaskLedger, TLC

CONSTANTS a, b

Twins == Permutations(Tasks)
=============================================================================
