----------------------------- MODULE MCRunLedger -----------------------------
(* Small instances of RunLedger: two to four requests, the third one a     *)
(* retransmit of the second under KeyPair, on one or two workers.            *)
EXTENDS RunLedger, TLC

CONSTANTS r1, r2, r3, r4, w1, w2, k1, k2, k3, k4

AllOwnKey == [r \in Run |-> IF r = r1 THEN k1 ELSE IF r = r2 THEN k2
                            ELSE IF r = r3 THEN k3 ELSE k4]
KeyPair == [r \in Run |-> IF r = r1 THEN k1 ELSE k2]
OneWorker == [r \in Run |-> w1]
Alternate == [r \in Run |-> IF r = r2 THEN w2 ELSE w1]
\* Requests with keys of their own, on one worker and treated alike (neither
\* or both in Ptc and in Stopped) can be swapped.
Twins == Permutations({r1, r3})
=============================================================================
