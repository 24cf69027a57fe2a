---------------------------- MODULE MCWriterGuard ----------------------------
(* Small instances of WriterGuard: one or two runs of a thread, a subagent or *)
(* a workflow and its child, and mutations, on one or two connections.        *)
EXTENDS WriterGuard, TLC

CONSTANTS g1, g2, m1, m2, t1, w1, c1, c2

Swaps == Permutations(Conn)
=============================================================================
