---------------------------- MODULE FenceContract ----------------------------
(* What the writer fence promises: every checkpoint namespace has at most    *)
(* one owner, only the owner writes, and it keeps the namespace until its    *)
(* writes have landed, unless it dies, and its writes with it.  WriterGuard  *)
(* implements it.                                                            *)
CONSTANTS Writer, Ns, None

VARIABLES
    owner,     \* who owns each namespace
    pending    \* the writes each owner has under way

fenceVars == <<owner, pending>>

Init ==
    /\ owner = [n \in Ns |-> None]
    /\ pending = [w \in Writer |-> {}]

Take(w, n) ==
    /\ owner[n] = None
    /\ owner' = [owner EXCEPT ![n] = w]
    /\ UNCHANGED pending

\* A write begins in an owned namespace, and ends.
Begin(w, n) ==
    /\ owner[n] = w
    /\ pending' = [pending EXCEPT ![w] = @ \cup {n}]
    /\ UNCHANGED owner

Finish(w, n) ==
    /\ n \in pending[w]
    /\ pending' = [pending EXCEPT ![w] = @ \ {n}]
    /\ UNCHANGED owner

Drop(w) ==
    /\ \E some \in SUBSET {n \in Ns : owner[n] = w} :
         /\ some \cap pending[w] = {}
         /\ owner' = [n \in Ns |-> IF n \in some THEN None ELSE owner[n]]
    /\ UNCHANGED pending

Die(w) ==
    /\ owner' = [n \in Ns |-> IF owner[n] = w THEN None ELSE owner[n]]
    /\ pending' = [pending EXCEPT ![w] = {}]

Next ==
    \E w \in Writer :
        \/ Drop(w) \/ Die(w)
        \/ \E n \in Ns : Take(w, n) \/ Begin(w, n) \/ Finish(w, n)

Spec == Init /\ [][Next]_fenceVars
=============================================================================
