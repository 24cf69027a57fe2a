---------------------------- MODULE SpendContract ----------------------------
(* What becomes of the spend of a task run, without tasks, turns, collectors *)
(* or processes: it is recorded as the run ends, then billed in one usage    *)
(* row or lost with whoever had it, and either is final; and a run counts as *)
(* in flight until its spend is known.  TaskLedger implements it.            *)
EXTENDS Naturals

CONSTANT Run

VARIABLES
  place,   \* "unrecorded", "carried", "billed" or "lost"
  bills,   \* usage rows that have it
  stamp    \* runs that no longer count as in flight

contractVars == <<place, bills, stamp>>

At(where) == {k \in Run : place[k] \in where}
Known == At({"carried", "billed", "lost"})

Init ==
  /\ place = [k \in Run |-> "unrecorded"]
  /\ bills = [k \in Run |-> 0]
  /\ stamp = {}

Record(k) ==
  /\ place[k] = "unrecorded"
  /\ place' = [place EXCEPT ![k] = "carried"]
  /\ UNCHANGED <<bills, stamp>>

\* One usage row: it may stamp more than it bills, but nothing still unknown.
Bill ==
  /\ \E some \in SUBSET At({"carried"}) :
       /\ place' = [k \in Run |-> IF k \in some THEN "billed" ELSE place[k]]
       /\ bills' = [k \in Run |-> IF k \in some THEN bills[k] + 1 ELSE bills[k]]
  /\ \E some \in SUBSET Known : stamp' = stamp \cup some

Lose ==
  /\ \E some \in SUBSET At({"unrecorded", "carried"}) :
       place' = [k \in Run |-> IF k \in some THEN "lost" ELSE place[k]]
  /\ UNCHANGED <<bills, stamp>>

\* The sweep stamps what nobody billed; a truncation takes rows, stamps and all.
WriteOff ==
  /\ \E some \in SUBSET Known : stamp' = stamp \cup some
  /\ UNCHANGED <<place, bills>>
Truncate ==
  /\ \E some \in SUBSET stamp : stamp' = stamp \ some
  /\ UNCHANGED <<place, bills>>

Next == Bill \/ Lose \/ WriteOff \/ Truncate \/ \E k \in Run : Record(k)

Spec == Init /\ [][Next]_contractVars
=============================================================================
