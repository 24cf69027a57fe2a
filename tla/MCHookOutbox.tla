---------------------------- MODULE MCHookOutbox ----------------------------
(* Small instances of HookOutbox: a report_back and its compensation, with a *)
(* younger job on the chain it was enqueued on or on the one it belongs to.  *)
EXTENDS HookOutbox, TLC

CONSTANTS j1, j2, c1, k1, k2, d1, d2

Rivals == Permutations(Drainer)
Ids == [r \in Row |-> CASE r = c1 -> 1 [] r = j2 -> 2 [] r = j1 -> 3]
OneClear == [j \in ReportBack |-> c1]
OneChain == [j \in Job |-> k1]
Stale == [j \in Job |-> IF j = j1 THEN k2 ELSE k1]
HomeOne == [j \in ReportBack \cup WatchClear |-> k1]
=============================================================================
