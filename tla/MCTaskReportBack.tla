-------------------------- MODULE MCTaskReportBack --------------------------
(* Small instances of TaskReportBack: one or two task runs of a thread.     *)
EXTENDS TaskReportBack, TLC

CONSTANTS r1, r2

Twins == Permutations(Runs)
=============================================================================
