------------------------- MODULE MCOrderAttempts -------------------------
(* Two identical orders of one run, the first needing the user's approval  *)
(* and the wire able to repeat its frame.                                  *)
EXTENDS OrderAttempts, TLC

CONSTANTS f1, f2, f3

MCFrames == {f1, f2, f3}
MCAttemptOf == (f1 :> 1) @@ (f2 :> 1) @@ (f3 :> 2)
MCNeedsApproval == {1}
MCDuplicates == {f2}
=============================================================================
