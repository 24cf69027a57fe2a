----------------------------- MODULE RunContract -----------------------------
(* What a thread's run ledger promises its clients, without any of the      *)
(* machinery: no workers, locks, transactions or crashes.  RunLedger        *)
(* implements it.                                                           *)
CONSTANTS Run, Terminal   \* Terminal: the outcomes a settled run can have

VARIABLES
    phase,     \* "unborn", "live", an outcome, or "gone"
    stop,      \* the user asked to stop the run
    promised   \* runs whose user was told that the stop is recorded

contractVars == <<phase, stop, promised>>

Init ==
    /\ phase = [r \in Run |-> "unborn"]
    /\ stop = [r \in Run |-> FALSE]
    /\ promised = {}

\* A run starts when no run is live; a fork's start erases settled runs.
Start(r) ==
    /\ phase[r] = "unborn"
    /\ \A q \in Run : phase[q] # "live"
    /\ \E erased \in SUBSET {q \in Run : phase[q] \in Terminal} :
         /\ phase' = [q \in Run |-> IF q = r THEN "live"
                                    ELSE IF q \in erased THEN "gone" ELSE phase[q]]
         /\ stop' = [q \in Run |-> stop[q] /\ q \notin erased]
    /\ UNCHANGED promised

\* Requests are refused, withdrawn, or lost with the process that served them.
Withdraw ==
    /\ \E some \in SUBSET {r \in Run : phase[r] = "unborn"} :
         phase' = [r \in Run |-> IF r \in some THEN "gone" ELSE phase[r]]
    /\ UNCHANGED <<stop, promised>>

\* A run settles once; a stop that arrived first decides the outcome.
Settle(r) ==
    /\ phase[r] = "live"
    /\ \E outcome \in Terminal :
         /\ stop[r] => outcome = "cancelled"
         /\ phase' = [phase EXCEPT ![r] = outcome]
         /\ stop' = [stop EXCEPT ![r] = (outcome = "cancelled")]
    /\ UNCHANGED promised

\* The answer "recorded" is given only for a live run whose stop is recorded.
Promise(r) ==
    /\ phase[r] = "live"
    /\ stop' = [stop EXCEPT ![r] = TRUE]
    /\ promised' = promised \cup {r}
    /\ UNCHANGED phase

Next == Withdraw \/ \E r \in Run : Start(r) \/ Settle(r) \/ Promise(r)

Spec == Init /\ [][Next]_contractVars
=============================================================================
