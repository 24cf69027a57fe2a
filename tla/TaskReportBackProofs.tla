------------------------ MODULE TaskReportBackProofs ------------------------
(***************************************************************************)
(* Proofs about TaskReportBack, for any number of task runs, leases and    *)
(* turns.  Two lemmas say how a step may change the thread's turns; each   *)
(* conjunct of IInv, most of which say what a phase of an executor knows,  *)
(* is then shown to survive every step.                                    *)
(***************************************************************************)
EXTENDS TaskReportBack, FiniteSetTheorems, TLAPS

Status == {"in_progress", "ended", "interrupted", "cancelled"}
TurnRec == [status : Status, key : Runs \cup {User}, stop : BOOLEAN, saw : SUBSET Runs]
Phase == {"none", "look", "owed", "park", "reread", "post", "busy", "merge", "wait", "out", "lost"}

TurnsTyped == turns \in Seq(TurnRec)
RowsTyped ==
  /\ run \in [Runs -> {"none", "in_progress", "settled", "cancelled"}]
  /\ parent \in [Runs -> Nat] /\ delivered \subseteq Runs /\ born \in Seq(Runs)
  /\ trouble \in 0 .. MaxTrouble
JobsTyped ==
  /\ job \in [Runs -> {"none", "done", "dead"} \cup Open] /\ lease \in [Runs -> BOOLEAN]
  /\ attempts \in [Runs -> 0 .. MaxAttempts] /\ slipped \subseteq Runs
ExecTyped == exec \in [Runs -> [Token -> Phase]]
PtrTyped == ptr \in [Runs -> Nat] /\ knows \in [Runs -> [Token -> Nat]]

LEMMA Typed == TypeOK <=> TurnsTyped /\ RowsTyped /\ JobsTyped /\ ExecTyped /\ PtrTyped
  BY DEF TypeOK, TurnsTyped, RowsTyped, JobsTyped, ExecTyped, PtrTyped, TurnRec, Status, Phase

-----------------------------------------------------------------------------
(* The turns. *)

\* What a step may do to the turns: rewrite the live one, or append a turn.
TurnsMove ==
  /\ TurnsTyped'
  /\ \A i \in 1 .. Last : /\ turns'[i].key = turns[i].key
                          /\ turns[i].status # "in_progress" => turns'[i] = turns[i]
  /\ \A i \in 1 .. Last : i # Last => turns'[i] = turns[i]
  /\ \/ Last' = Last
     \/ /\ Last' = Last + 1 /\ ~Live
        /\ \/ turns'[Last + 1] = NewTurn(User)
           \/ \E r \in Runs, a \in Token : /\ exec[r][a] = "post" /\ TurnsOf(r) = {}
                                           /\ turns'[Last + 1] = NewTurn(r)

LEMMA Grows ==
  ASSUME TurnsTyped, NEW k \in Runs \cup {User}, turns' = Append(turns, NewTurn(k))
  PROVE  /\ TurnsTyped' /\ Last' = Last + 1 /\ turns'[Last + 1] = NewTurn(k)
         /\ \A i \in 1 .. Last : turns'[i] = turns[i]
<1>1. NewTurn(k) \in TurnRec
  BY DEF NewTurn, TurnRec, Status
<1> QED BY <1>1 DEF TurnsTyped, Last

LEMMA Rewrites ==
  ASSUME TurnsTyped, Live, NEW t \in TurnRec, t.key = turns[Last].key,
         turns' = [turns EXCEPT ![Last] = t]
  PROVE  TurnsMove
<1>1. Last \in 1 .. Len(turns) /\ Last = Len(turns) /\ turns[Last].status = "in_progress"
  BY DEF Live, Last, TurnsTyped
<1>2. turns' \in Seq(TurnRec) /\ Len(turns') = Len(turns)
  BY <1>1 DEF TurnsTyped
<1>3. \A i \in 1 .. Last : turns'[i] = IF i = Last THEN t ELSE turns[i]
  BY <1>1 DEF TurnsTyped
<1>4. TurnsTyped' /\ Last' = Last
  BY <1>1, <1>2 DEF TurnsTyped, Last
<1> QED BY <1>1, <1>3, <1>4 DEF TurnsMove

LEMMA TurnsStep == ASSUME TypeOK, [Next]_vars PROVE TurnsMove
<1>t. TurnsTyped /\ RowsTyped
  BY Typed
<1>1. CASE UserTurn
  <2>1. turns' = Append(turns, NewTurn(User)) /\ ~Live
    BY <1>1 DEF UserTurn
  <2> QED BY <1>t, <2>1, Grows DEF TurnsMove
<1>2. CASE Stop
  <2>1. turns[Last] \in TurnRec
    BY <1>t, <1>2 DEF Stop, Live, Last, TurnsTyped
  <2> DEFINE t == [turns[Last] EXCEPT !.stop = TRUE, !.saw = {r \in Runs : run[r] = "settled"}]
  <2>2. t \in TurnRec /\ t.key = turns[Last].key
    BY <2>1 DEF TurnRec
  <2>3. turns' = [turns EXCEPT ![Last] = t]
    BY <1>t, <1>2, <2>1 DEF Stop, Live, Last, TurnsTyped
  <2> QED BY <1>t, <1>2, <2>2, <2>3, Rewrites DEF Stop
<1>3. ASSUME NEW s \in {"ended", "interrupted"}, EndTurn(s) PROVE TurnsMove
  <2>1. turns[Last] \in TurnRec
    BY <1>t, <1>3 DEF EndTurn, Live, Last, TurnsTyped
  <2> DEFINE final == IF turns[Last].stop THEN "cancelled" ELSE s
             t == [turns[Last] EXCEPT !.status = final, !.stop = FALSE]
  <2>2. t \in TurnRec /\ t.key = turns[Last].key
    BY <2>1 DEF TurnRec, Status
  <2>3. turns' = [turns EXCEPT ![Last] = t]
    BY <1>t, <1>3, <2>1 DEF EndTurn, Live, Last, TurnsTyped
  <2> QED BY <1>t, <1>3, <2>2, <2>3, Rewrites DEF EndTurn
<1>4. ASSUME NEW r \in Runs, NEW a \in Token, Post(r, a), turns' # turns PROVE TurnsMove
  <2>1. turns' = Append(turns, NewTurn(r)) /\ ~Live /\ exec[r][a] = "post" /\ TurnsOf(r) = {}
    BY <1>4 DEF Post
  <2> QED BY <1>t, <2>1, Grows DEF TurnsMove
<1>5. CASE UNCHANGED turns
  BY <1>t, <1>5 DEF TurnsMove, TurnsTyped, Last
<1> QED
  <2>1. ASSUME NEW r \in Runs, Launch(r) \/ Deliver(r) \/ Claim(r) \/ Lapse(r) \/ ParkExhausted(r)
        PROVE  TurnsMove
    BY <1>5, <2>1 DEF Launch, Deliver, Claim, Lapse, ParkExhausted, turnVars
  <2>2. ASSUME NEW r \in Runs, NEW a \in Token, Executes(r, a) PROVE TurnsMove
    BY <1>4, <1>5, <2>2 DEF Executes, Look, ReadLatest, Park, Reread, Again, Cap, Merge, MergeFails,
       Await, AwaitTimesOut, Ack, Die, turnVars
  <2>3. ASSUME NEW r \in Runs, NEW s \in {"settled", "cancelled"}, Settle(r, s) PROVE TurnsMove
    BY <1>5, <2>3 DEF Settle
  <2> QED BY <1>1, <1>2, <1>3, <1>5, <2>1, <2>2, <2>3 DEF Next, vars, turnVars

-----------------------------------------------------------------------------
(* The types. *)

LEMMA RowsStep ==
  ASSUME RowsTyped, TurnsTyped, [Next]_vars
  PROVE  RowsTyped'
<1> USE DEF vars, turnVars, runVars, jobVars, execVars, RowsTyped
<1>1. ASSUME UserTurn PROVE RowsTyped'
  BY <1>1 DEF UserTurn, NewTurn, Live, Last
<1>2. ASSUME Stop PROVE RowsTyped'
  BY <1>2 DEF Stop, Live, Last
<1>3. ASSUME NEW s \in {"ended", "interrupted"}, EndTurn(s) PROVE RowsTyped'
  BY <1>3 DEF EndTurn, Live, Last, Released
<1>4. ASSUME NEW r \in Runs, Launch(r) PROVE RowsTyped'
  <2>1. Last \in Nat
    BY DEF Last, TurnsTyped
  <2> QED BY <1>4, <2>1 DEF Launch
<1>5. ASSUME NEW r \in Runs, Deliver(r) PROVE RowsTyped'
  BY <1>5 DEF Deliver
<1>6. ASSUME NEW r \in Runs, Claim(r) PROVE RowsTyped'
  BY <1>6 DEF Claim, Token
<1>7. ASSUME NEW r \in Runs, Lapse(r) PROVE RowsTyped'
  BY <1>7, BoundsAssumption DEF Lapse, Troubled
<1>8. ASSUME NEW r \in Runs, ParkExhausted(r) PROVE RowsTyped'
  BY <1>8 DEF ParkExhausted
<1>9. ASSUME NEW r \in Runs, NEW s \in {"settled", "cancelled"}, Settle(r, s) PROVE RowsTyped'
  <2>1. Append(born, r) \in Seq(Runs)
    OBVIOUS
  <2> QED BY <1>9, <2>1 DEF Settle
<1>10. ASSUME NEW r \in Runs, NEW a \in Token, Look(r, a) PROVE RowsTyped'
  BY <1>10 DEF Look, Becomes
<1>11. ASSUME NEW r \in Runs, NEW a \in Token, ReadLatest(r, a) PROVE RowsTyped'
  BY <1>11 DEF ReadLatest, Becomes
<1>12. ASSUME NEW r \in Runs, NEW a \in Token, Park(r, a) PROVE RowsTyped'
  BY <1>12 DEF Park, Defers, Leaves, Becomes, Current
<1>13. ASSUME NEW r \in Runs, NEW a \in Token, Reread(r, a) PROVE RowsTyped'
  BY <1>13 DEF Reread, Becomes, Released
<1>14. ASSUME NEW r \in Runs, NEW a \in Token, Post(r, a) PROVE RowsTyped'
  BY <1>14, BoundsAssumption DEF Post, NewTurn, TurnsOf, Live, Last, Becomes, Troubled
<1>15. ASSUME NEW r \in Runs, NEW a \in Token, Again(r, a) PROVE RowsTyped'
  BY <1>15 DEF Again, Becomes
<1>16. ASSUME NEW r \in Runs, NEW a \in Token, Cap(r, a) PROVE RowsTyped'
  BY <1>16 DEF Cap, Defers, Leaves, Becomes, Current
<1>17. ASSUME NEW r \in Runs, NEW a \in Token, Merge(r, a) PROVE RowsTyped'
  BY <1>17 DEF Merge, Becomes
<1>18. ASSUME NEW r \in Runs, NEW a \in Token, MergeFails(r, a) PROVE RowsTyped'
  BY <1>18, BoundsAssumption DEF MergeFails, Leaves, Becomes, Current, Troubled
<1>19. ASSUME NEW r \in Runs, NEW a \in Token, Await(r, a) PROVE RowsTyped'
  BY <1>19 DEF Await, Becomes
<1>20. ASSUME NEW r \in Runs, NEW a \in Token, AwaitTimesOut(r, a) PROVE RowsTyped'
  BY <1>20, BoundsAssumption DEF AwaitTimesOut, Becomes, Troubled
<1>21. ASSUME NEW r \in Runs, NEW a \in Token, Ack(r, a) PROVE RowsTyped'
  BY <1>21 DEF Ack, Leaves, Becomes, Current
<1>22. ASSUME NEW r \in Runs, NEW a \in Token, Die(r, a) PROVE RowsTyped'
  BY <1>22, BoundsAssumption DEF Die, Becomes, Troubled
<1>23. CASE UNCHANGED vars
  BY <1>23
<1> QED
  BY <1>1, <1>2, <1>3, <1>4, <1>5, <1>6, <1>7, <1>8, <1>9, <1>10, <1>11, <1>12,
     <1>13, <1>14, <1>15, <1>16, <1>17, <1>18, <1>19, <1>20, <1>21, <1>22, <1>23
  DEF Next, Executes

LEMMA JobsStep ==
  ASSUME JobsTyped, [Next]_vars
  PROVE  JobsTyped'
<1> USE DEF vars, turnVars, runVars, jobVars, execVars, JobsTyped, Open
<1>1. ASSUME UserTurn PROVE JobsTyped'
  BY <1>1 DEF UserTurn, NewTurn, Live, Last
<1>2. ASSUME Stop PROVE JobsTyped'
  BY <1>2 DEF Stop, Live, Last
<1>3. ASSUME NEW s \in {"ended", "interrupted"}, EndTurn(s) PROVE JobsTyped'
  BY <1>3 DEF EndTurn, Live, Last, Released
<1>4. ASSUME NEW r \in Runs, Launch(r) PROVE JobsTyped'
  BY <1>4 DEF Launch
<1>5. ASSUME NEW r \in Runs, Deliver(r) PROVE JobsTyped'
  BY <1>5 DEF Deliver
<1>6. ASSUME NEW r \in Runs, Claim(r) PROVE JobsTyped'
  BY <1>6 DEF Claim, Token
<1>7. ASSUME NEW r \in Runs, Lapse(r) PROVE JobsTyped'
  BY <1>7 DEF Lapse, Troubled
<1>8. ASSUME NEW r \in Runs, ParkExhausted(r) PROVE JobsTyped'
  BY <1>8 DEF ParkExhausted
<1>9. ASSUME NEW r \in Runs, NEW s \in {"settled", "cancelled"}, Settle(r, s) PROVE JobsTyped'
  BY <1>9 DEF Settle
<1>10. ASSUME NEW r \in Runs, NEW a \in Token, Look(r, a) PROVE JobsTyped'
  BY <1>10 DEF Look, Becomes
<1>11. ASSUME NEW r \in Runs, NEW a \in Token, ReadLatest(r, a) PROVE JobsTyped'
  BY <1>11 DEF ReadLatest, Becomes
<1>12. ASSUME NEW r \in Runs, NEW a \in Token, Park(r, a) PROVE JobsTyped'
  BY <1>12 DEF Park, Defers, Leaves, Becomes, Current
<1>13. ASSUME NEW r \in Runs, NEW a \in Token, Reread(r, a) PROVE JobsTyped'
  BY <1>13 DEF Reread, Becomes, Released
<1>14. ASSUME NEW r \in Runs, NEW a \in Token, Post(r, a) PROVE JobsTyped'
  BY <1>14 DEF Post, NewTurn, TurnsOf, Live, Last, Becomes, Troubled
<1>15. ASSUME NEW r \in Runs, NEW a \in Token, Again(r, a) PROVE JobsTyped'
  BY <1>15 DEF Again, Becomes
<1>16. ASSUME NEW r \in Runs, NEW a \in Token, Cap(r, a) PROVE JobsTyped'
  BY <1>16 DEF Cap, Defers, Leaves, Becomes, Current
<1>17. ASSUME NEW r \in Runs, NEW a \in Token, Merge(r, a) PROVE JobsTyped'
  BY <1>17 DEF Merge, Becomes
<1>18. ASSUME NEW r \in Runs, NEW a \in Token, MergeFails(r, a) PROVE JobsTyped'
  BY <1>18 DEF MergeFails, Leaves, Becomes, Current, Troubled
<1>19. ASSUME NEW r \in Runs, NEW a \in Token, Await(r, a) PROVE JobsTyped'
  BY <1>19 DEF Await, Becomes
<1>20. ASSUME NEW r \in Runs, NEW a \in Token, AwaitTimesOut(r, a) PROVE JobsTyped'
  BY <1>20 DEF AwaitTimesOut, Becomes, Troubled
<1>21. ASSUME NEW r \in Runs, NEW a \in Token, Ack(r, a) PROVE JobsTyped'
  BY <1>21 DEF Ack, Leaves, Becomes, Current
<1>22. ASSUME NEW r \in Runs, NEW a \in Token, Die(r, a) PROVE JobsTyped'
  BY <1>22 DEF Die, Becomes, Troubled
<1>23. CASE UNCHANGED vars
  BY <1>23
<1> QED
  BY <1>1, <1>2, <1>3, <1>4, <1>5, <1>6, <1>7, <1>8, <1>9, <1>10, <1>11, <1>12,
     <1>13, <1>14, <1>15, <1>16, <1>17, <1>18, <1>19, <1>20, <1>21, <1>22, <1>23
  DEF Next, Executes

LEMMA ExecStep ==
  ASSUME ExecTyped, JobsTyped, [Next]_vars
  PROVE  ExecTyped'
<1> USE DEF vars, turnVars, runVars, jobVars, execVars, ExecTyped, Phase
<1>1. ASSUME UserTurn PROVE ExecTyped'
  BY <1>1 DEF UserTurn, NewTurn, Live, Last
<1>2. ASSUME Stop PROVE ExecTyped'
  BY <1>2 DEF Stop, Live, Last
<1>3. ASSUME NEW s \in {"ended", "interrupted"}, EndTurn(s) PROVE ExecTyped'
  BY <1>3 DEF EndTurn, Live, Last, Released
<1>4. ASSUME NEW r \in Runs, Launch(r) PROVE ExecTyped'
  BY <1>4 DEF Launch
<1>5. ASSUME NEW r \in Runs, Deliver(r) PROVE ExecTyped'
  BY <1>5 DEF Deliver
<1>6. ASSUME NEW r \in Runs, Claim(r) PROVE ExecTyped'
  BY <1>6 DEF Claim, Token
<1>7. ASSUME NEW r \in Runs, Lapse(r) PROVE ExecTyped'
  BY <1>7 DEF Lapse, Troubled
<1>8. ASSUME NEW r \in Runs, ParkExhausted(r) PROVE ExecTyped'
  BY <1>8 DEF ParkExhausted
<1>9. ASSUME NEW r \in Runs, NEW s \in {"settled", "cancelled"}, Settle(r, s) PROVE ExecTyped'
  BY <1>9 DEF Settle
<1>10. ASSUME NEW r \in Runs, NEW a \in Token, Look(r, a) PROVE ExecTyped'
  BY <1>10 DEF Look, Becomes
<1>11. ASSUME NEW r \in Runs, NEW a \in Token, ReadLatest(r, a) PROVE ExecTyped'
  BY <1>11 DEF ReadLatest, Becomes
<1>12. ASSUME NEW r \in Runs, NEW a \in Token, Park(r, a) PROVE ExecTyped'
  BY <1>12 DEF Park, Defers, Leaves, Becomes, Current
<1>13. ASSUME NEW r \in Runs, NEW a \in Token, Reread(r, a) PROVE ExecTyped'
  BY <1>13 DEF Reread, Becomes, Released
<1>14. ASSUME NEW r \in Runs, NEW a \in Token, Post(r, a) PROVE ExecTyped'
  BY <1>14 DEF Post, NewTurn, TurnsOf, Live, Last, Becomes, Troubled
<1>15. ASSUME NEW r \in Runs, NEW a \in Token, Again(r, a) PROVE ExecTyped'
  BY <1>15 DEF Again, Becomes
<1>16. ASSUME NEW r \in Runs, NEW a \in Token, Cap(r, a) PROVE ExecTyped'
  BY <1>16 DEF Cap, Defers, Leaves, Becomes, Current
<1>17. ASSUME NEW r \in Runs, NEW a \in Token, Merge(r, a) PROVE ExecTyped'
  BY <1>17 DEF Merge, Becomes
<1>18. ASSUME NEW r \in Runs, NEW a \in Token, MergeFails(r, a) PROVE ExecTyped'
  BY <1>18 DEF MergeFails, Leaves, Becomes, Current, Troubled
<1>19. ASSUME NEW r \in Runs, NEW a \in Token, Await(r, a) PROVE ExecTyped'
  BY <1>19 DEF Await, Becomes
<1>20. ASSUME NEW r \in Runs, NEW a \in Token, AwaitTimesOut(r, a) PROVE ExecTyped'
  BY <1>20 DEF AwaitTimesOut, Becomes, Troubled
<1>21. ASSUME NEW r \in Runs, NEW a \in Token, Ack(r, a) PROVE ExecTyped'
  BY <1>21 DEF Ack, Leaves, Becomes, Current
<1>22. ASSUME NEW r \in Runs, NEW a \in Token, Die(r, a) PROVE ExecTyped'
  BY <1>22 DEF Die, Becomes, Troubled
<1>23. CASE UNCHANGED vars
  BY <1>23
<1> QED
  BY <1>1, <1>2, <1>3, <1>4, <1>5, <1>6, <1>7, <1>8, <1>9, <1>10, <1>11, <1>12,
     <1>13, <1>14, <1>15, <1>16, <1>17, <1>18, <1>19, <1>20, <1>21, <1>22, <1>23
  DEF Next, Executes

LEMMA PtrStep ==
  ASSUME PtrTyped, TurnsTyped, [Next]_vars
  PROVE  PtrTyped'
<1> USE DEF vars, turnVars, runVars, jobVars, execVars, PtrTyped, NoTurn
<1>1. ASSUME UserTurn PROVE PtrTyped'
  BY <1>1 DEF UserTurn, NewTurn, Live, Last
<1>2. ASSUME Stop PROVE PtrTyped'
  BY <1>2 DEF Stop, Live, Last
<1>3. ASSUME NEW s \in {"ended", "interrupted"}, EndTurn(s) PROVE PtrTyped'
  BY <1>3 DEF EndTurn, Live, Last, Released
<1>4. ASSUME NEW r \in Runs, Launch(r) PROVE PtrTyped'
  BY <1>4 DEF Launch
<1>5. ASSUME NEW r \in Runs, Deliver(r) PROVE PtrTyped'
  BY <1>5 DEF Deliver
<1>6. ASSUME NEW r \in Runs, Claim(r) PROVE PtrTyped'
  BY <1>6 DEF Claim, Token
<1>7. ASSUME NEW r \in Runs, Lapse(r) PROVE PtrTyped'
  BY <1>7 DEF Lapse, Troubled
<1>8. ASSUME NEW r \in Runs, ParkExhausted(r) PROVE PtrTyped'
  BY <1>8 DEF ParkExhausted
<1>9. ASSUME NEW r \in Runs, NEW s \in {"settled", "cancelled"}, Settle(r, s) PROVE PtrTyped'
  BY <1>9 DEF Settle
<1>10. ASSUME NEW r \in Runs, NEW a \in Token, Look(r, a) PROVE PtrTyped'
  BY <1>10 DEF Look, Becomes
<1>11. ASSUME NEW r \in Runs, NEW a \in Token, ReadLatest(r, a) PROVE PtrTyped'
  BY <1>11 DEF ReadLatest, Becomes
<1>12. ASSUME NEW r \in Runs, NEW a \in Token, Park(r, a) PROVE PtrTyped'
  BY <1>12 DEF Park, Defers, Leaves, Becomes, Current
<1>13. ASSUME NEW r \in Runs, NEW a \in Token, Reread(r, a) PROVE PtrTyped'
  BY <1>13 DEF Reread, Becomes, Released
<1>14. ASSUME NEW r \in Runs, NEW a \in Token, Post(r, a) PROVE PtrTyped'
  <2>1. \A i \in TurnsOf(r) : i \in Nat
    BY DEF TurnsOf, TurnsTyped
  <2>2. Last + 1 \in Nat
    BY DEF Last, TurnsTyped
  <2>3. TurnsOf(r) # {} => (CHOOSE i \in TurnsOf(r) : TRUE) \in TurnsOf(r)
    OBVIOUS
  <2>4. ptr' = ptr /\ \E n \in Nat : knows' = knows \/ knows' = [knows EXCEPT ![r][a] = n]
    BY <1>14, <2>1, <2>2, <2>3 DEF Post
  <2>5. knows' \in [Runs -> [Token -> Nat]]
    <3>1. CASE knows' = knows
      BY <3>1
    <3>2. ASSUME NEW n \in Nat, knows' = [knows EXCEPT ![r][a] = n]
          PROVE  knows' \in [Runs -> [Token -> Nat]]
      BY <3>2
    <3> QED BY <2>4, <3>1, <3>2
  <2> QED BY <2>4, <2>5
<1>15. ASSUME NEW r \in Runs, NEW a \in Token, Again(r, a) PROVE PtrTyped'
  BY <1>15 DEF Again, Becomes
<1>16. ASSUME NEW r \in Runs, NEW a \in Token, Cap(r, a) PROVE PtrTyped'
  BY <1>16 DEF Cap, Defers, Leaves, Becomes, Current
<1>17. ASSUME NEW r \in Runs, NEW a \in Token, Merge(r, a) PROVE PtrTyped'
  BY <1>17 DEF Merge, Becomes
<1>18. ASSUME NEW r \in Runs, NEW a \in Token, MergeFails(r, a) PROVE PtrTyped'
  BY <1>18 DEF MergeFails, Leaves, Becomes, Current, Troubled
<1>19. ASSUME NEW r \in Runs, NEW a \in Token, Await(r, a) PROVE PtrTyped'
  BY <1>19 DEF Await, Becomes
<1>20. ASSUME NEW r \in Runs, NEW a \in Token, AwaitTimesOut(r, a) PROVE PtrTyped'
  BY <1>20 DEF AwaitTimesOut, Becomes, Troubled
<1>21. ASSUME NEW r \in Runs, NEW a \in Token, Ack(r, a) PROVE PtrTyped'
  BY <1>21 DEF Ack, Leaves, Becomes, Current
<1>22. ASSUME NEW r \in Runs, NEW a \in Token, Die(r, a) PROVE PtrTyped'
  BY <1>22 DEF Die, Becomes, Troubled
<1>23. CASE UNCHANGED vars
  BY <1>23
<1> QED
  BY <1>1, <1>2, <1>3, <1>4, <1>5, <1>6, <1>7, <1>8, <1>9, <1>10, <1>11, <1>12,
     <1>13, <1>14, <1>15, <1>16, <1>17, <1>18, <1>19, <1>20, <1>21, <1>22, <1>23
  DEF Next, Executes

LEMMA TypeStep == ASSUME TypeOK, [Next]_vars PROVE TypeOK'
<1>1. TurnsTyped /\ RowsTyped /\ JobsTyped /\ ExecTyped /\ PtrTyped
  BY Typed
<1>2. TurnsTyped' /\ RowsTyped' /\ JobsTyped' /\ ExecTyped' /\ PtrTyped'
  BY <1>1, TurnsStep, RowsStep, JobsStep, ExecStep, PtrStep DEF TurnsMove
<1> QED BY <1>2 DEF TypeOK, TurnsTyped, RowsTyped, JobsTyped, ExecTyped, PtrTyped,
     TurnRec, Status, Phase

-----------------------------------------------------------------------------
(* The invariant. *)

Answer(r) ==
  \/ r \in delivered \/ TurnsOf(r) # {}
  \/ \E i \in DOMAIN turns :
       turns[i].status = "cancelled" /\ parent[r] = i /\ r \in turns[i].saw

\* A run has at most one turn.
UniqueTurns ==
  \A i, k \in 1 .. Last : turns[i].key = turns[k].key /\ turns[i].key \in Runs => i = k

\* A run was launched under a turn, a job reports a settled run, and an
\* executor works on a job under a token that was minted.
Launched == \A r \in Runs : run[r] # "none" => parent[r] \in 1 .. Last
Reported ==
  \A r \in Runs :
    /\ job[r] # "none" => run[r] = "settled"
    /\ \A a \in Token : exec[r][a] # "none" => job[r] # "none" /\ a <= attempts[r]

\* What an executor takes for the notification turn of its run is one.
Known ==
  \A r \in Runs :
    /\ ptr[r] # NoTurn => ptr[r] \in TurnsOf(r)
    /\ \A a \in Token :
         /\ knows[r][a] # NoTurn => knows[r][a] \in TurnsOf(r)
         /\ exec[r][a] \in {"merge", "wait"} => knows[r][a] # NoTurn

\* An executor that may post found the launching turn, if still the latest,
\* over and not stopped after its run settled.
Uncovered(r) ==
  parent[r] = Last => turns[Last].status \in {"ended", "cancelled"} /\ ~Covered(r, Last)
MayPost == \A r \in Runs, a \in Token : exec[r][a] \in {"post", "busy"} => Uncovered(r)

\* An executor that is through with a claimed job leaves an answer behind.
Closing == \A r \in Runs, a \in Token :
  exec[r][a] \in {"out", "reread"} /\ Current(r, a) => Answer(r)

IInv ==
  /\ TypeOK /\ UniqueTurns /\ Launched /\ Reported /\ Known /\ MayPost /\ Closing
  /\ DoneMeansAnswered /\ ParkedIsWatched

\* What a step may do to a task run.
RunMoves(q) ==
  /\ q \in delivered => q \in delivered'
  /\ run[q] # "none" => run'[q] # "none" /\ parent'[q] = parent[q]
  /\ run[q] = "none" => run'[q] = "none" \/ (parent'[q] = Last /\ Live /\ turns' = turns)
  /\ run[q] = "settled" => run'[q] = "settled"

RunsMove == \A q \in Runs : RunMoves(q)

LEMMA RunsStep ==
  ASSUME RowsTyped, TurnsTyped, [Next]_vars
  PROVE  RunsMove
<1> USE DEF vars, turnVars, runVars, jobVars, execVars, RowsTyped, RunsMove, RunMoves
<1>1. ASSUME UserTurn PROVE RunsMove
  BY <1>1 DEF UserTurn, NewTurn, Live, Last
<1>2. ASSUME Stop PROVE RunsMove
  BY <1>2 DEF Stop, Live, Last
<1>3. ASSUME NEW s \in {"ended", "interrupted"}, EndTurn(s) PROVE RunsMove
  BY <1>3 DEF EndTurn, Live, Last, Released
<1>4. ASSUME NEW r \in Runs, Launch(r) PROVE RunsMove
  BY <1>4 DEF Launch
<1>5. ASSUME NEW r \in Runs, Deliver(r) PROVE RunsMove
  BY <1>5 DEF Deliver
<1>6. ASSUME NEW r \in Runs, Claim(r) PROVE RunsMove
  BY <1>6 DEF Claim, Token
<1>7. ASSUME NEW r \in Runs, Lapse(r) PROVE RunsMove
  BY <1>7 DEF Lapse, Troubled
<1>8. ASSUME NEW r \in Runs, ParkExhausted(r) PROVE RunsMove
  BY <1>8 DEF ParkExhausted
<1>9. ASSUME NEW r \in Runs, NEW s \in {"settled", "cancelled"}, Settle(r, s) PROVE RunsMove
  BY <1>9 DEF Settle
<1>10. ASSUME NEW r \in Runs, NEW a \in Token, Look(r, a) PROVE RunsMove
  BY <1>10 DEF Look, Becomes
<1>11. ASSUME NEW r \in Runs, NEW a \in Token, ReadLatest(r, a) PROVE RunsMove
  BY <1>11 DEF ReadLatest, Becomes
<1>12. ASSUME NEW r \in Runs, NEW a \in Token, Park(r, a) PROVE RunsMove
  BY <1>12 DEF Park, Defers, Leaves, Becomes, Current
<1>13. ASSUME NEW r \in Runs, NEW a \in Token, Reread(r, a) PROVE RunsMove
  BY <1>13 DEF Reread, Becomes, Released
<1>14. ASSUME NEW r \in Runs, NEW a \in Token, Post(r, a) PROVE RunsMove
  BY <1>14 DEF Post, NewTurn, TurnsOf, Live, Last, Becomes, Troubled
<1>15. ASSUME NEW r \in Runs, NEW a \in Token, Again(r, a) PROVE RunsMove
  BY <1>15 DEF Again, Becomes
<1>16. ASSUME NEW r \in Runs, NEW a \in Token, Cap(r, a) PROVE RunsMove
  BY <1>16 DEF Cap, Defers, Leaves, Becomes, Current
<1>17. ASSUME NEW r \in Runs, NEW a \in Token, Merge(r, a) PROVE RunsMove
  BY <1>17 DEF Merge, Becomes
<1>18. ASSUME NEW r \in Runs, NEW a \in Token, MergeFails(r, a) PROVE RunsMove
  BY <1>18 DEF MergeFails, Leaves, Becomes, Current, Troubled
<1>19. ASSUME NEW r \in Runs, NEW a \in Token, Await(r, a) PROVE RunsMove
  BY <1>19 DEF Await, Becomes
<1>20. ASSUME NEW r \in Runs, NEW a \in Token, AwaitTimesOut(r, a) PROVE RunsMove
  BY <1>20 DEF AwaitTimesOut, Becomes, Troubled
<1>21. ASSUME NEW r \in Runs, NEW a \in Token, Ack(r, a) PROVE RunsMove
  BY <1>21 DEF Ack, Leaves, Becomes, Current
<1>22. ASSUME NEW r \in Runs, NEW a \in Token, Die(r, a) PROVE RunsMove
  BY <1>22 DEF Die, Becomes, Troubled
<1>23. CASE UNCHANGED vars
  BY <1>23
<1> QED
  BY <1>1, <1>2, <1>3, <1>4, <1>5, <1>6, <1>7, <1>8, <1>9, <1>10, <1>11, <1>12,
     <1>13, <1>14, <1>15, <1>16, <1>17, <1>18, <1>19, <1>20, <1>21, <1>22, <1>23
  DEF Next, Executes

\* Turns of a run and answers to it stay.
LEMMA TurnsOfStays ==
  ASSUME TurnsTyped, TurnsMove, NEW r \in Runs PROVE TurnsOf(r) \subseteq TurnsOf(r)'
<1>1. DOMAIN turns = 1 .. Last /\ DOMAIN turns' = 1 .. Last' /\ Last \in Nat
  BY DEF TurnsTyped, TurnsMove, Last
<1> QED BY <1>1 DEF TurnsMove, TurnsOf

LEMMA AnswerStays ==
  ASSUME TurnsTyped, TurnsMove, NEW r \in Runs, run[r] # "none", RunMoves(r), Answer(r)
  PROVE  Answer(r)'
<1>1. DOMAIN turns = 1 .. Last /\ DOMAIN turns' = 1 .. Last' /\ Last \in Nat
  BY DEF TurnsTyped, TurnsMove, Last
<1>2. TurnsOf(r) # {} => TurnsOf(r)' # {}
  BY TurnsOfStays
<1>3. ASSUME NEW i \in 1 .. Last, turns[i].status = "cancelled"
      PROVE  i \in 1 .. Last' /\ turns'[i] = turns[i]
    BY <1>1, <1>3 DEF TurnsMove
<1> QED BY <1>1, <1>2, <1>3 DEF Answer, RunMoves

LEMMA UniqueStep == ASSUME TypeOK, UniqueTurns, [Next]_vars PROVE UniqueTurns'
<1>t. TurnsTyped /\ TurnsMove /\ Last \in Nat
  BY Typed, TurnsStep DEF TurnsTyped, Last
<1> SUFFICES ASSUME NEW i \in 1 .. Last', NEW k \in 1 .. Last',
                    turns'[i].key = turns'[k].key, turns'[i].key \in Runs
             PROVE  i = k
  BY DEF UniqueTurns
<1>1. CASE Last' = Last
  BY <1>t, <1>1 DEF TurnsMove, UniqueTurns
<1>2. CASE Last' # Last
  <2>1. Last' = Last + 1 /\ User \notin Runs /\ DOMAIN turns = 1 .. Last
    BY <1>t, <1>2, BoundsAssumption DEF TurnsMove, User, TurnsTyped, Last
  <2>2. \A j \in 1 .. Last : turns'[Last + 1].key \in Runs => turns[j].key # turns'[Last + 1].key
    <3>1. \A r \in Runs : NewTurn(r).key = r /\ NewTurn(User).key = User
      BY DEF NewTurn
    <3>2. CASE turns'[Last + 1] = NewTurn(User)
      BY <2>1, <3>1, <3>2 DEF NewTurn
    <3>3. CASE turns'[Last + 1] # NewTurn(User)
      <4>1. PICK r \in Runs : TurnsOf(r) = {} /\ turns'[Last + 1] = NewTurn(r)
        BY <1>t, <1>2, <3>3 DEF TurnsMove
      <4> QED BY <2>1, <3>1, <4>1 DEF TurnsOf
    <3> QED BY <3>2, <3>3
  <2> QED BY <1>t, <2>1, <2>2 DEF TurnsMove, UniqueTurns
<1> QED BY <1>1, <1>2

LEMMA LaunchedStep == ASSUME TypeOK, Launched, [Next]_vars PROVE Launched'
<1>t. TurnsTyped /\ RowsTyped /\ TurnsMove /\ Last \in Nat
  BY Typed, TurnsStep DEF TurnsTyped, Last
<1>1. \A r \in Runs : RunMoves(r)
  BY <1>t, RunsStep DEF RunsMove
<1>2. Live /\ turns' = turns => Last \in 1 .. Last'
  BY <1>t DEF Live, Last
<1> QED BY <1>t, <1>1, <1>2 DEF Launched, RunMoves, TurnsMove

LEMMA ReportedStep ==
  ASSUME TypeOK, Reported, [Next]_vars
  PROVE  Reported'
<1>t. RowsTyped /\ JobsTyped /\ ExecTyped
  BY Typed
<1> USE DEF RowsTyped, JobsTyped, Phase,
            vars, turnVars, runVars, jobVars, execVars, Reported, Open, ExecTyped
<1>1. ASSUME UserTurn PROVE Reported'
  BY <1>1, <1>t DEF UserTurn, NewTurn, Live, Last
<1>2. ASSUME Stop PROVE Reported'
  BY <1>2, <1>t DEF Stop, Live, Last
<1>3. ASSUME NEW s \in {"ended", "interrupted"}, EndTurn(s) PROVE Reported'
  BY <1>3, <1>t DEF EndTurn, Live, Last, Released
<1>4. ASSUME NEW r \in Runs, Launch(r) PROVE Reported'
  BY <1>4, <1>t DEF Launch
<1>5. ASSUME NEW r \in Runs, Deliver(r) PROVE Reported'
  BY <1>5, <1>t DEF Deliver
<1>6. ASSUME NEW r \in Runs, Claim(r) PROVE Reported'
  BY <1>6, <1>t DEF Claim, Token
<1>7. ASSUME NEW r \in Runs, Lapse(r) PROVE Reported'
  BY <1>7, <1>t DEF Lapse, Troubled
<1>8. ASSUME NEW r \in Runs, ParkExhausted(r) PROVE Reported'
  BY <1>8, <1>t DEF ParkExhausted
<1>9. ASSUME NEW r \in Runs, NEW s \in {"settled", "cancelled"}, Settle(r, s) PROVE Reported'
  BY <1>9, <1>t DEF Settle
<1>10. ASSUME NEW r \in Runs, NEW a \in Token, Look(r, a) PROVE Reported'
  BY <1>10, <1>t DEF Look, Becomes
<1>11. ASSUME NEW r \in Runs, NEW a \in Token, ReadLatest(r, a) PROVE Reported'
  BY <1>11, <1>t DEF ReadLatest, Becomes
<1>12. ASSUME NEW r \in Runs, NEW a \in Token, Park(r, a) PROVE Reported'
  BY <1>12, <1>t DEF Park, Defers, Leaves, Becomes, Current
<1>13. ASSUME NEW r \in Runs, NEW a \in Token, Reread(r, a) PROVE Reported'
  BY <1>13, <1>t DEF Reread, Becomes, Released
<1>14. ASSUME NEW r \in Runs, NEW a \in Token, Post(r, a) PROVE Reported'
  <2>1. /\ exec[r][a] = "post" /\ UNCHANGED <<run, job, attempts>>
        /\ \E p \in {"merge", "busy"} : exec' = [exec EXCEPT ![r][a] = p]
    BY <1>14 DEF Post, Becomes
  <2>2. \A q \in Runs, b \in Token : exec'[q][b] # "none" => exec[q][b] # "none"
    BY <1>t, <2>1
  <2> QED BY <1>t, <2>1, <2>2
<1>15. ASSUME NEW r \in Runs, NEW a \in Token, Again(r, a) PROVE Reported'
  BY <1>15, <1>t DEF Again, Becomes
<1>16. ASSUME NEW r \in Runs, NEW a \in Token, Cap(r, a) PROVE Reported'
  BY <1>16, <1>t DEF Cap, Defers, Leaves, Becomes, Current
<1>17. ASSUME NEW r \in Runs, NEW a \in Token, Merge(r, a) PROVE Reported'
  BY <1>17, <1>t DEF Merge, Becomes
<1>18. ASSUME NEW r \in Runs, NEW a \in Token, MergeFails(r, a) PROVE Reported'
  BY <1>18, <1>t DEF MergeFails, Leaves, Becomes, Current, Troubled
<1>19. ASSUME NEW r \in Runs, NEW a \in Token, Await(r, a) PROVE Reported'
  BY <1>19, <1>t DEF Await, Becomes
<1>20. ASSUME NEW r \in Runs, NEW a \in Token, AwaitTimesOut(r, a) PROVE Reported'
  BY <1>20, <1>t DEF AwaitTimesOut, Becomes, Troubled
<1>21. ASSUME NEW r \in Runs, NEW a \in Token, Ack(r, a) PROVE Reported'
  BY <1>21, <1>t DEF Ack, Leaves, Becomes, Current
<1>22. ASSUME NEW r \in Runs, NEW a \in Token, Die(r, a) PROVE Reported'
  BY <1>22, <1>t DEF Die, Becomes, Troubled
<1>23. CASE UNCHANGED vars
  BY <1>23, <1>t
<1> QED
  BY <1>1, <1>2, <1>3, <1>4, <1>5, <1>6, <1>7, <1>8, <1>9, <1>10, <1>11, <1>12,
     <1>13, <1>14, <1>15, <1>16, <1>17, <1>18, <1>19, <1>20, <1>21, <1>22, <1>23
  DEF Next, Executes

LEMMA KnownStep ==
  ASSUME TypeOK, Known, [Next]_vars
  PROVE  Known'
<1>t. TurnsTyped /\ ExecTyped /\ PtrTyped
  BY Typed
<1>m. \A q \in Runs : TurnsOf(q) \subseteq TurnsOf(q)'
  BY <1>t, TurnsStep, TurnsOfStays
<1>p. TurnsTyped'
  BY TurnsStep DEF TurnsMove
<1> USE DEF vars, turnVars, runVars, jobVars, execVars, Known, PtrTyped, ExecTyped, NoTurn
<1>1. ASSUME UserTurn PROVE Known'
  BY <1>1, <1>t, <1>m DEF UserTurn, NewTurn, Live, Last
<1>2. ASSUME Stop PROVE Known'
  BY <1>2, <1>t, <1>m DEF Stop, Live, Last
<1>3. ASSUME NEW s \in {"ended", "interrupted"}, EndTurn(s) PROVE Known'
  BY <1>3, <1>t, <1>m DEF EndTurn, Live, Last, Released
<1>4. ASSUME NEW r \in Runs, Launch(r) PROVE Known'
  BY <1>4, <1>t, <1>m DEF Launch
<1>5. ASSUME NEW r \in Runs, Deliver(r) PROVE Known'
  BY <1>5, <1>t, <1>m DEF Deliver
<1>6. ASSUME NEW r \in Runs, Claim(r) PROVE Known'
  BY <1>6, <1>t, <1>m DEF Claim, Token
<1>7. ASSUME NEW r \in Runs, Lapse(r) PROVE Known'
  BY <1>7, <1>t, <1>m DEF Lapse, Troubled
<1>8. ASSUME NEW r \in Runs, ParkExhausted(r) PROVE Known'
  BY <1>8, <1>t, <1>m DEF ParkExhausted
<1>9. ASSUME NEW r \in Runs, NEW s \in {"settled", "cancelled"}, Settle(r, s) PROVE Known'
  BY <1>9, <1>t, <1>m DEF Settle
<1>10. ASSUME NEW r \in Runs, NEW a \in Token, Look(r, a) PROVE Known'
  BY <1>10, <1>t, <1>m DEF Look, Becomes
<1>11. ASSUME NEW r \in Runs, NEW a \in Token, ReadLatest(r, a) PROVE Known'
  BY <1>11, <1>t, <1>m DEF ReadLatest, Becomes
<1>12. ASSUME NEW r \in Runs, NEW a \in Token, Park(r, a) PROVE Known'
  BY <1>12, <1>t, <1>m DEF Park, Defers, Leaves, Becomes, Current
<1>13. ASSUME NEW r \in Runs, NEW a \in Token, Reread(r, a) PROVE Known'
  BY <1>13, <1>t, <1>m DEF Reread, Becomes, Released
<1>14. ASSUME NEW r \in Runs, NEW a \in Token, Post(r, a) PROVE Known'
  <2>1. /\ ptr' = ptr
        /\ \/ knows' = knows /\ exec' = [exec EXCEPT ![r][a] = "busy"]
           \/ \E n \in TurnsOf(r)' : /\ knows' = [knows EXCEPT ![r][a] = n]
                                     /\ exec' = [exec EXCEPT ![r][a] = "merge"]
    <3>1. CASE TurnsOf(r) # {}
      <4>1. PICK n \in TurnsOf(r) : knows' = [knows EXCEPT ![r][a] = n]
        BY <1>14, <3>1 DEF Post
      <4> QED BY <1>14, <1>m, <3>1, <4>1 DEF Post, Becomes
    <3>2. CASE TurnsOf(r) = {} /\ turns' = Append(turns, NewTurn(r))
      <4>1. Last + 1 \in TurnsOf(r)'
        <5>1. Last' = Last + 1 /\ turns'[Last + 1] = NewTurn(r) /\ TurnsTyped' /\ Last \in Nat
          BY <1>t, <3>2, Grows DEF TurnsTyped, Last
        <5> QED BY <5>1 DEF TurnsOf, NewTurn, TurnsTyped, Last
      <4> QED BY <1>14, <3>2, <4>1 DEF Post, Becomes
    <3>3. CASE TurnsOf(r) = {} /\ Live
      BY <1>14, <3>3 DEF Post, Becomes
    <3> QED BY <1>14, <3>1, <3>2, <3>3 DEF Post
  <2>2. \A n \in TurnsOf(r)' : n \in Nat \ {0}
    BY <1>p DEF TurnsOf, TurnsTyped
  <2>3. CASE knows' = knows /\ exec' = [exec EXCEPT ![r][a] = "busy"]
    BY <1>t, <1>m, <2>1, <2>3
  <2>4. ASSUME NEW n \in TurnsOf(r)', knows' = [knows EXCEPT ![r][a] = n],
               exec' = [exec EXCEPT ![r][a] = "merge"]
        PROVE  Known'
    BY <1>t, <1>m, <2>1, <2>2, <2>4
  <2> QED BY <2>1, <2>3, <2>4
<1>15. ASSUME NEW r \in Runs, NEW a \in Token, Again(r, a) PROVE Known'
  BY <1>15, <1>t, <1>m DEF Again, Becomes
<1>16. ASSUME NEW r \in Runs, NEW a \in Token, Cap(r, a) PROVE Known'
  BY <1>16, <1>t, <1>m DEF Cap, Defers, Leaves, Becomes, Current
<1>17. ASSUME NEW r \in Runs, NEW a \in Token, Merge(r, a) PROVE Known'
  BY <1>17, <1>t, <1>m DEF Merge, Becomes
<1>18. ASSUME NEW r \in Runs, NEW a \in Token, MergeFails(r, a) PROVE Known'
  BY <1>18, <1>t, <1>m DEF MergeFails, Leaves, Becomes, Current, Troubled
<1>19. ASSUME NEW r \in Runs, NEW a \in Token, Await(r, a) PROVE Known'
  BY <1>19, <1>t, <1>m DEF Await, Becomes
<1>20. ASSUME NEW r \in Runs, NEW a \in Token, AwaitTimesOut(r, a) PROVE Known'
  BY <1>20, <1>t, <1>m DEF AwaitTimesOut, Becomes, Troubled
<1>21. ASSUME NEW r \in Runs, NEW a \in Token, Ack(r, a) PROVE Known'
  BY <1>21, <1>t, <1>m DEF Ack, Leaves, Becomes, Current
<1>22. ASSUME NEW r \in Runs, NEW a \in Token, Die(r, a) PROVE Known'
  BY <1>22, <1>t, <1>m DEF Die, Becomes, Troubled
<1>23. CASE UNCHANGED vars
  BY <1>23, <1>t, <1>m
<1> QED
  BY <1>1, <1>2, <1>3, <1>4, <1>5, <1>6, <1>7, <1>8, <1>9, <1>10, <1>11, <1>12,
     <1>13, <1>14, <1>15, <1>16, <1>17, <1>18, <1>19, <1>20, <1>21, <1>22, <1>23
  DEF Next, Executes

-----------------------------------------------------------------------------
(* Posting. *)

LEMMA UncoveredStays ==
  ASSUME TurnsTyped, TurnsMove, NEW q \in Runs, run[q] # "none", parent[q] \in 1 .. Last,
         RunMoves(q), Uncovered(q)
  PROVE  Uncovered(q)'
<1>1. Last \in Nat /\ parent'[q] = parent[q]
  BY DEF TurnsTyped, Last, RunMoves
<1>2. CASE Last' = Last /\ parent[q] = Last
  <2>1. turns[Last].status # "in_progress" /\ Last \in 1 .. Last
    BY <1>1, <1>2 DEF Uncovered
  <2>2. turns'[Last] = turns[Last]
    BY <2>1 DEF TurnsMove
  <2> QED BY <1>1, <1>2, <2>2 DEF Uncovered, Covered
<1>3. CASE Last' = Last /\ parent[q] # Last
  BY <1>1, <1>3 DEF Uncovered
<1>4. CASE Last' = Last + 1
  BY <1>1, <1>4 DEF Uncovered
<1> QED BY <1>2, <1>3, <1>4 DEF TurnsMove

\* Only a read of the latest turn lets an executor post.
OnlyReadersPost ==
  \A q \in Runs, b \in Token : exec'[q][b] \in {"post", "busy"} =>
      run[q] # "none" /\ (exec[q][b] \in {"post", "busy"} \/ Uncovered(q))

LEMMA PostPhase ==
  ASSUME TypeOK, Launched, Reported, [Next]_vars
  PROVE  OnlyReadersPost
<1>t. ExecTyped
  BY Typed
<1> USE DEF vars, turnVars, runVars, jobVars, execVars, OnlyReadersPost, ExecTyped,
           Reported
<1>1. ASSUME UserTurn PROVE OnlyReadersPost
  BY <1>1, <1>t DEF UserTurn, NewTurn, Live, Last
<1>2. ASSUME Stop PROVE OnlyReadersPost
  BY <1>2, <1>t DEF Stop, Live, Last
<1>3. ASSUME NEW s \in {"ended", "interrupted"}, EndTurn(s) PROVE OnlyReadersPost
  BY <1>3, <1>t DEF EndTurn, Live, Last, Released
<1>4. ASSUME NEW r \in Runs, Launch(r) PROVE OnlyReadersPost
  BY <1>4, <1>t DEF Launch
<1>5. ASSUME NEW r \in Runs, Deliver(r) PROVE OnlyReadersPost
  BY <1>5, <1>t DEF Deliver
<1>6. ASSUME NEW r \in Runs, Claim(r) PROVE OnlyReadersPost
  BY <1>6, <1>t DEF Claim, Token
<1>7. ASSUME NEW r \in Runs, Lapse(r) PROVE OnlyReadersPost
  BY <1>7, <1>t DEF Lapse, Troubled
<1>8. ASSUME NEW r \in Runs, ParkExhausted(r) PROVE OnlyReadersPost
  BY <1>8, <1>t DEF ParkExhausted
<1>9. ASSUME NEW r \in Runs, NEW s \in {"settled", "cancelled"}, Settle(r, s) PROVE OnlyReadersPost
  BY <1>9, <1>t DEF Settle
<1>10. ASSUME NEW r \in Runs, NEW a \in Token, Look(r, a) PROVE OnlyReadersPost
  BY <1>10, <1>t DEF Look, Becomes
<1>11. ASSUME NEW r \in Runs, NEW a \in Token, ReadLatest(r, a) PROVE OnlyReadersPost
  <2>1. run[r] # "none" /\ parent[r] \in 1 .. Last /\ DOMAIN turns = 1 .. Last /\ TurnsTyped
    BY <1>11, Typed DEF ReadLatest, Reported, Launched, TurnsTyped, Last
  <2>2. ASSUME ~Holds, ~Covered(r, Last), parent[r] = Last PROVE Uncovered(r)
    <3>1. Last \in 1 .. Last /\ Last > 0
      BY <2>1, <2>2 DEF TurnsTyped, Last
    <3>2. turns[Last] \in TurnRec
      BY <2>1, <3>1 DEF TurnsTyped, Last
    <3>3. turns[Last].status \in Status
      BY <3>2 DEF TurnRec
    <3> QED BY <2>2, <3>1, <3>3 DEF Holds, Uncovered, Status
  <2>3. parent[r] # Last => Uncovered(r)
    BY DEF Uncovered
  <2>4. Uncovered(r) \/ \E p \in {"park", "out"} : exec' = [exec EXCEPT ![r][a] = p]
    BY <1>11, <2>2, <2>3 DEF ReadLatest, Becomes
  <2> QED BY <1>11, <2>1, <1>t, <2>4 DEF ReadLatest, Becomes
<1>12. ASSUME NEW r \in Runs, NEW a \in Token, Park(r, a) PROVE OnlyReadersPost
  BY <1>12, <1>t DEF Park, Defers, Leaves, Becomes, Current
<1>13. ASSUME NEW r \in Runs, NEW a \in Token, Reread(r, a) PROVE OnlyReadersPost
  BY <1>13, <1>t DEF Reread, Becomes, Released
<1>14. ASSUME NEW r \in Runs, NEW a \in Token, Post(r, a) PROVE OnlyReadersPost
  BY <1>14, <1>t DEF Post, Becomes
<1>15. ASSUME NEW r \in Runs, NEW a \in Token, Again(r, a) PROVE OnlyReadersPost
  BY <1>15, <1>t DEF Again, Becomes
<1>16. ASSUME NEW r \in Runs, NEW a \in Token, Cap(r, a) PROVE OnlyReadersPost
  BY <1>16, <1>t DEF Cap, Defers, Leaves, Becomes, Current
<1>17. ASSUME NEW r \in Runs, NEW a \in Token, Merge(r, a) PROVE OnlyReadersPost
  BY <1>17, <1>t DEF Merge, Becomes
<1>18. ASSUME NEW r \in Runs, NEW a \in Token, MergeFails(r, a) PROVE OnlyReadersPost
  BY <1>18, <1>t DEF MergeFails, Leaves, Becomes, Current, Troubled
<1>19. ASSUME NEW r \in Runs, NEW a \in Token, Await(r, a) PROVE OnlyReadersPost
  BY <1>19, <1>t DEF Await, Becomes
<1>20. ASSUME NEW r \in Runs, NEW a \in Token, AwaitTimesOut(r, a) PROVE OnlyReadersPost
  BY <1>20, <1>t DEF AwaitTimesOut, Becomes, Troubled
<1>21. ASSUME NEW r \in Runs, NEW a \in Token, Ack(r, a) PROVE OnlyReadersPost
  BY <1>21, <1>t DEF Ack, Leaves, Becomes, Current
<1>22. ASSUME NEW r \in Runs, NEW a \in Token, Die(r, a) PROVE OnlyReadersPost
  BY <1>22, <1>t DEF Die, Becomes, Troubled
<1>23. CASE UNCHANGED vars
  BY <1>23, <1>t
<1> QED
  BY <1>1, <1>2, <1>3, <1>4, <1>5, <1>6, <1>7, <1>8, <1>9, <1>10, <1>11, <1>12,
     <1>13, <1>14, <1>15, <1>16, <1>17, <1>18, <1>19, <1>20, <1>21, <1>22, <1>23
  DEF Next, Executes

LEMMA MayPostStep == ASSUME TypeOK, Launched, Reported, MayPost, [Next]_vars PROVE MayPost'
<1>t. TurnsTyped /\ RowsTyped /\ TurnsMove
  BY Typed, TurnsStep
<1> SUFFICES ASSUME NEW q \in Runs, NEW b \in Token, exec'[q][b] \in {"post", "busy"}
             PROVE  Uncovered(q)'
  BY DEF MayPost
<1>1. Uncovered(q) /\ RunMoves(q)
  BY <1>t, PostPhase, RunsStep DEF MayPost, OnlyReadersPost, RunsMove
<1>2. run[q] # "none"
  BY PostPhase DEF OnlyReadersPost
<1> QED BY <1>t, <1>1, <1>2, UncoveredStays DEF Launched

-----------------------------------------------------------------------------
(* Closing a job. *)

\* An executor is through with a job it still has, only if it saw an answer.
OnlyAnsweredClose ==
  \A q \in Runs, b \in Token :
      exec'[q][b] \in {"out", "reread"} /\ Current(q, b)' =>
        run[q] # "none" /\ (Answer(q) \/ (exec[q][b] \in {"out", "reread"} /\ Current(q, b)))

LEMMA ClosePhase ==
  ASSUME TypeOK, Launched, Reported, Known, [Next]_vars
  PROVE  OnlyAnsweredClose
<1>t. ExecTyped /\ JobsTyped /\ Token = 1 .. MaxAttempts /\ MaxAttempts \in Nat
  BY Typed, BoundsAssumption DEF Token
<1> USE DEF vars, turnVars, runVars, jobVars, execVars, OnlyAnsweredClose,
           ExecTyped, JobsTyped, Reported, Current, Open
<1>1. ASSUME UserTurn PROVE OnlyAnsweredClose
  BY <1>1, <1>t DEF UserTurn, NewTurn, Live, Last
<1>2. ASSUME Stop PROVE OnlyAnsweredClose
  BY <1>2, <1>t DEF Stop, Live, Last
<1>3. ASSUME NEW s \in {"ended", "interrupted"}, EndTurn(s) PROVE OnlyAnsweredClose
  BY <1>3, <1>t DEF EndTurn, Live, Last, Released
<1>4. ASSUME NEW r \in Runs, Launch(r) PROVE OnlyAnsweredClose
  BY <1>4, <1>t DEF Launch
<1>5. ASSUME NEW r \in Runs, Deliver(r) PROVE OnlyAnsweredClose
  BY <1>5, <1>t DEF Deliver
<1>6. ASSUME NEW r \in Runs, Claim(r) PROVE OnlyAnsweredClose
  BY <1>6, <1>t DEF Claim, Token
<1>7. ASSUME NEW r \in Runs, Lapse(r) PROVE OnlyAnsweredClose
  BY <1>7, <1>t DEF Lapse, Troubled
<1>8. ASSUME NEW r \in Runs, ParkExhausted(r) PROVE OnlyAnsweredClose
  BY <1>8, <1>t DEF ParkExhausted
<1>9. ASSUME NEW r \in Runs, NEW s \in {"settled", "cancelled"}, Settle(r, s) PROVE OnlyAnsweredClose
  BY <1>9, <1>t DEF Settle
<1>10. ASSUME NEW r \in Runs, NEW a \in Token, Look(r, a) PROVE OnlyAnsweredClose
  BY <1>10, <1>t DEF Look, Becomes, Answer
<1>11. ASSUME NEW r \in Runs, NEW a \in Token, ReadLatest(r, a) PROVE OnlyAnsweredClose
  <2>1. Covered(r, Last) => Answer(r)
    <3>1. Last > 0 => Last \in DOMAIN turns
      BY Typed DEF Last, TurnsTyped
    <3> QED BY <3>1 DEF Covered, Answer
  <2> QED BY <1>11, <1>t, <2>1 DEF ReadLatest, Becomes
<1>12. ASSUME NEW r \in Runs, NEW a \in Token, Park(r, a) PROVE OnlyAnsweredClose
  BY <1>12, <1>t DEF Park, Defers, Leaves, Becomes, Current
<1>13. ASSUME NEW r \in Runs, NEW a \in Token, Reread(r, a) PROVE OnlyAnsweredClose
  BY <1>13, <1>t DEF Reread, Becomes, Released
<1>14. ASSUME NEW r \in Runs, NEW a \in Token, Post(r, a) PROVE OnlyAnsweredClose
  <2>1. /\ exec[r][a] = "post" /\ UNCHANGED <<run, job, attempts>>
        /\ \E p \in {"merge", "busy"} : exec' = [exec EXCEPT ![r][a] = p]
    BY <1>14 DEF Post, Becomes
  <2> QED BY <1>14, <1>t, <2>1
<1>15. ASSUME NEW r \in Runs, NEW a \in Token, Again(r, a) PROVE OnlyAnsweredClose
  BY <1>15, <1>t DEF Again, Becomes
<1>16. ASSUME NEW r \in Runs, NEW a \in Token, Cap(r, a) PROVE OnlyAnsweredClose
  BY <1>16, <1>t DEF Cap, Defers, Leaves, Becomes, Current
<1>17. ASSUME NEW r \in Runs, NEW a \in Token, Merge(r, a) PROVE OnlyAnsweredClose
  BY <1>17, <1>t DEF Merge, Becomes
<1>18. ASSUME NEW r \in Runs, NEW a \in Token, MergeFails(r, a) PROVE OnlyAnsweredClose
  BY <1>18, <1>t DEF MergeFails, Leaves, Becomes, Current, Troubled
<1>19. ASSUME NEW r \in Runs, NEW a \in Token, Await(r, a) PROVE OnlyAnsweredClose
  BY <1>19, <1>t DEF Await, Becomes, Answer, Known
<1>20. ASSUME NEW r \in Runs, NEW a \in Token, AwaitTimesOut(r, a) PROVE OnlyAnsweredClose
  BY <1>20, <1>t DEF AwaitTimesOut, Becomes, Answer, Known, Troubled
<1>21. ASSUME NEW r \in Runs, NEW a \in Token, Ack(r, a) PROVE OnlyAnsweredClose
  BY <1>21, <1>t DEF Ack, Leaves, Becomes, Current
<1>22. ASSUME NEW r \in Runs, NEW a \in Token, Die(r, a) PROVE OnlyAnsweredClose
  BY <1>22, <1>t DEF Die, Becomes, Troubled
<1>23. CASE UNCHANGED vars
  BY <1>23, <1>t
<1> QED
  BY <1>1, <1>2, <1>3, <1>4, <1>5, <1>6, <1>7, <1>8, <1>9, <1>10, <1>11, <1>12,
     <1>13, <1>14, <1>15, <1>16, <1>17, <1>18, <1>19, <1>20, <1>21, <1>22, <1>23
  DEF Next, Executes

LEMMA ClosingStep == ASSUME TypeOK, Launched, Reported, Known, Closing, [Next]_vars PROVE Closing'
<1>t. TurnsTyped /\ RowsTyped /\ TurnsMove
  BY Typed, TurnsStep
<1> SUFFICES ASSUME NEW q \in Runs, NEW b \in Token, exec'[q][b] \in {"out", "reread"}, Current(q, b)'
             PROVE  Answer(q)'
  BY DEF Closing
<1>1. run[q] # "none" /\ Answer(q)
  BY ClosePhase DEF Closing, OnlyAnsweredClose
<1> QED BY <1>t, <1>1, RunsStep, AnswerStays DEF RunsMove

\* A job is done over an answer, or by an executor that had lost it.
OnlyAnsweredDone ==
  \A q \in Runs : job'[q] = "done" =>
      run[q] # "none" /\ (Answer(q) \/ q \in slipped' \/ (job[q] = "done" /\ q \notin slipped))

LEMMA DonePhase ==
  ASSUME TypeOK, Reported, Closing, [Next]_vars
  PROVE  OnlyAnsweredDone
<1>t. JobsTyped
  BY Typed
<1> USE DEF vars, turnVars, runVars, jobVars, execVars, OnlyAnsweredDone, JobsTyped,
           Reported, Current, Open
<1>1. ASSUME UserTurn PROVE OnlyAnsweredDone
  BY <1>1, <1>t DEF UserTurn, NewTurn, Live, Last
<1>2. ASSUME Stop PROVE OnlyAnsweredDone
  BY <1>2, <1>t DEF Stop, Live, Last
<1>3. ASSUME NEW s \in {"ended", "interrupted"}, EndTurn(s) PROVE OnlyAnsweredDone
  BY <1>3, <1>t DEF EndTurn, Live, Last, Released
<1>4. ASSUME NEW r \in Runs, Launch(r) PROVE OnlyAnsweredDone
  BY <1>4, <1>t DEF Launch
<1>5. ASSUME NEW r \in Runs, Deliver(r) PROVE OnlyAnsweredDone
  BY <1>5, <1>t DEF Deliver
<1>6. ASSUME NEW r \in Runs, Claim(r) PROVE OnlyAnsweredDone
  BY <1>6, <1>t DEF Claim, Token
<1>7. ASSUME NEW r \in Runs, Lapse(r) PROVE OnlyAnsweredDone
  BY <1>7, <1>t DEF Lapse, Troubled
<1>8. ASSUME NEW r \in Runs, ParkExhausted(r) PROVE OnlyAnsweredDone
  BY <1>8, <1>t DEF ParkExhausted
<1>9. ASSUME NEW r \in Runs, NEW s \in {"settled", "cancelled"}, Settle(r, s) PROVE OnlyAnsweredDone
  BY <1>9, <1>t DEF Settle
<1>10. ASSUME NEW r \in Runs, NEW a \in Token, Look(r, a) PROVE OnlyAnsweredDone
  BY <1>10, <1>t DEF Look, Becomes
<1>11. ASSUME NEW r \in Runs, NEW a \in Token, ReadLatest(r, a) PROVE OnlyAnsweredDone
  BY <1>11, <1>t DEF ReadLatest, Becomes
<1>12. ASSUME NEW r \in Runs, NEW a \in Token, Park(r, a) PROVE OnlyAnsweredDone
  BY <1>12, <1>t DEF Park, Defers, Leaves, Becomes, Current
<1>13. ASSUME NEW r \in Runs, NEW a \in Token, Reread(r, a) PROVE OnlyAnsweredDone
  BY <1>13, <1>t DEF Reread, Becomes, Released
<1>14. ASSUME NEW r \in Runs, NEW a \in Token, Post(r, a) PROVE OnlyAnsweredDone
  BY <1>14, <1>t DEF Post, Becomes
<1>15. ASSUME NEW r \in Runs, NEW a \in Token, Again(r, a) PROVE OnlyAnsweredDone
  BY <1>15, <1>t DEF Again, Becomes
<1>16. ASSUME NEW r \in Runs, NEW a \in Token, Cap(r, a) PROVE OnlyAnsweredDone
  BY <1>16, <1>t DEF Cap, Defers, Leaves, Becomes, Current
<1>17. ASSUME NEW r \in Runs, NEW a \in Token, Merge(r, a) PROVE OnlyAnsweredDone
  BY <1>17, <1>t DEF Merge, Becomes
<1>18. ASSUME NEW r \in Runs, NEW a \in Token, MergeFails(r, a) PROVE OnlyAnsweredDone
  BY <1>18, <1>t DEF MergeFails, Leaves, Becomes, Current, Troubled
<1>19. ASSUME NEW r \in Runs, NEW a \in Token, Await(r, a) PROVE OnlyAnsweredDone
  BY <1>19, <1>t DEF Await, Becomes
<1>20. ASSUME NEW r \in Runs, NEW a \in Token, AwaitTimesOut(r, a) PROVE OnlyAnsweredDone
  BY <1>20, <1>t DEF AwaitTimesOut, Becomes, Troubled
<1>21. ASSUME NEW r \in Runs, NEW a \in Token, Ack(r, a) PROVE OnlyAnsweredDone
  BY <1>21, <1>t DEF Ack, Becomes, Leaves, Closing
<1>22. ASSUME NEW r \in Runs, NEW a \in Token, Die(r, a) PROVE OnlyAnsweredDone
  BY <1>22, <1>t DEF Die, Becomes, Troubled
<1>23. CASE UNCHANGED vars
  BY <1>23, <1>t
<1> QED
  BY <1>1, <1>2, <1>3, <1>4, <1>5, <1>6, <1>7, <1>8, <1>9, <1>10, <1>11, <1>12,
     <1>13, <1>14, <1>15, <1>16, <1>17, <1>18, <1>19, <1>20, <1>21, <1>22, <1>23
  DEF Next, Executes

LEMMA DoneStep ==
  ASSUME TypeOK, Launched, Reported, Closing, DoneMeansAnswered, [Next]_vars
  PROVE  DoneMeansAnswered'
<1>t. TurnsTyped /\ RowsTyped /\ TurnsMove
  BY Typed, TurnsStep
<1> SUFFICES ASSUME NEW q \in Runs, job'[q] = "done" PROVE Answer(q)' \/ q \in slipped'
  BY DEF DoneMeansAnswered, Answer
<1>1. run[q] # "none" /\ (Answer(q) \/ q \in slipped')
  BY DonePhase DEF DoneMeansAnswered, Answer, OnlyAnsweredDone
<1> QED BY <1>t, <1>1, RunsStep, AnswerStays DEF RunsMove

-----------------------------------------------------------------------------
(* Parked jobs. *)

\* No parked job is left, or the thread is held, or a parked job was watched
\* already and whoever was about to read again still is.
KeepsWatch ==
  \/ \A q \in Runs : job'[q] = "deferred" => q \in slipped'
  \/ Holds'
  \/ /\ \A q \in Runs : job'[q] = "deferred" =>
          \/ job[q] = "deferred" /\ (q \in slipped => q \in slipped')
          \/ q \in slipped'
          \/ \E b \in Token : exec'[q][b] = "reread"
     /\ Holds => Holds'
     /\ \A q \in Runs, b \in Token : exec[q][b] = "reread" => exec'[q][b] = "reread"

LEMMA KeepsWatchStep ==
  ASSUME TypeOK, Reported, [Next]_vars
  PROVE  KeepsWatch
<1>t. JobsTyped /\ ExecTyped
  BY Typed
<1>u. TurnsTyped /\ Len(turns) \in Nat
  BY Typed DEF TurnsTyped
<1> USE DEF vars, turnVars, runVars, jobVars, execVars, JobsTyped, ExecTyped,
           KeepsWatch, Holds, Last
<1>1. ASSUME UserTurn PROVE KeepsWatch
  <2>1. Holds'
    BY <1>1, <1>u, Grows DEF UserTurn, NewTurn
  <2> QED BY <2>1
<1>2. ASSUME Stop PROVE KeepsWatch
  <2>1. Len(turns') = Len(turns) /\ turns'[Last].status = turns[Last].status
    BY <1>2, <1>u DEF Stop, Live, TurnsTyped, TurnRec
  <2> QED BY <1>2, <1>t, <2>1 DEF Stop
<1>3. ASSUME NEW s \in {"ended", "interrupted"}, EndTurn(s) PROVE KeepsWatch
  <2>1. CASE job' = Released
    BY <1>t, <2>1 DEF Released
  <2>2. CASE job' # Released
    <3>1. Len(turns') = Len(turns) /\ turns'[Last].status = "interrupted"
      BY <1>3, <1>u, <2>2 DEF EndTurn, Live, TurnsTyped, TurnRec
    <3> QED BY <1>3, <3>1, <1>u DEF EndTurn, Live
  <2> QED BY <2>1, <2>2
<1>4. ASSUME NEW r \in Runs, Launch(r) PROVE KeepsWatch
  BY <1>4, <1>t DEF Launch
<1>5. ASSUME NEW r \in Runs, Deliver(r) PROVE KeepsWatch
  BY <1>5, <1>t DEF Deliver
<1>6. ASSUME NEW r \in Runs, Claim(r) PROVE KeepsWatch
  <2>1. exec[r][attempts[r] + 1] = "none"
    BY <1>6, <1>t DEF Claim, Reported, Token
  <2> QED BY <1>6, <1>t, <2>1 DEF Claim
<1>7. ASSUME NEW r \in Runs, Lapse(r) PROVE KeepsWatch
  BY <1>7, <1>t DEF Lapse, Troubled
<1>8. ASSUME NEW r \in Runs, ParkExhausted(r) PROVE KeepsWatch
  BY <1>8, <1>t DEF ParkExhausted
<1>9. ASSUME NEW r \in Runs, NEW s \in {"settled", "cancelled"}, Settle(r, s) PROVE KeepsWatch
  BY <1>9, <1>t DEF Settle
<1>10. ASSUME NEW r \in Runs, NEW a \in Token, Look(r, a) PROVE KeepsWatch
  BY <1>10, <1>t DEF Look, Becomes
<1>11. ASSUME NEW r \in Runs, NEW a \in Token, ReadLatest(r, a) PROVE KeepsWatch
  BY <1>11, <1>t DEF ReadLatest, Becomes
<1>12. ASSUME NEW r \in Runs, NEW a \in Token, Park(r, a) PROVE KeepsWatch
  <2>1. CASE job'[r] = "deferred" /\ Current(r, a)
    BY <1>12, <1>t, <2>1 DEF Park, Defers, Leaves, Becomes
  <2>2. CASE ~(job'[r] = "deferred" /\ Current(r, a))
    BY <1>12, <1>t, <2>2 DEF Park, Defers, Leaves, Becomes
  <2> QED BY <2>1, <2>2
<1>13. ASSUME NEW r \in Runs, NEW a \in Token, Reread(r, a) PROVE KeepsWatch
  <2>1. CASE job' = Released
    BY <1>t, <2>1 DEF Released
  <2>2. CASE job' # Released
    BY <1>13, <2>2 DEF Reread
  <2> QED BY <2>1, <2>2
<1>14. ASSUME NEW r \in Runs, NEW a \in Token, Post(r, a) PROVE KeepsWatch
  <2>1. /\ exec[r][a] = "post" /\ UNCHANGED <<job, slipped>>
        /\ \E p \in {"merge", "busy"} : exec' = [exec EXCEPT ![r][a] = p]
    BY <1>14 DEF Post, Becomes
  <2>2. Holds' \/ turns' = turns
    BY <1>14, <1>u, Grows DEF Post, NewTurn
  <2> QED BY <1>t, <2>1, <2>2
<1>15. ASSUME NEW r \in Runs, NEW a \in Token, Again(r, a) PROVE KeepsWatch
  BY <1>15, <1>t DEF Again, Becomes
<1>16. ASSUME NEW r \in Runs, NEW a \in Token, Cap(r, a) PROVE KeepsWatch
  BY <1>16, <1>t DEF Cap, Defers, Leaves, Becomes, Current
<1>17. ASSUME NEW r \in Runs, NEW a \in Token, Merge(r, a) PROVE KeepsWatch
  BY <1>17, <1>t DEF Merge, Becomes
<1>18. ASSUME NEW r \in Runs, NEW a \in Token, MergeFails(r, a) PROVE KeepsWatch
  BY <1>18, <1>t DEF MergeFails, Leaves, Becomes, Current, Troubled
<1>19. ASSUME NEW r \in Runs, NEW a \in Token, Await(r, a) PROVE KeepsWatch
  BY <1>19, <1>t DEF Await, Becomes
<1>20. ASSUME NEW r \in Runs, NEW a \in Token, AwaitTimesOut(r, a) PROVE KeepsWatch
  BY <1>20, <1>t DEF AwaitTimesOut, Becomes, Troubled
<1>21. ASSUME NEW r \in Runs, NEW a \in Token, Ack(r, a) PROVE KeepsWatch
  BY <1>21, <1>t DEF Ack, Leaves, Becomes, Current
<1>22. ASSUME NEW r \in Runs, NEW a \in Token, Die(r, a) PROVE KeepsWatch
  BY <1>22, <1>t DEF Die, Becomes, Troubled
<1>23. CASE UNCHANGED vars
  BY <1>23, <1>t
<1> QED
  BY <1>1, <1>2, <1>3, <1>4, <1>5, <1>6, <1>7, <1>8, <1>9, <1>10, <1>11, <1>12,
     <1>13, <1>14, <1>15, <1>16, <1>17, <1>18, <1>19, <1>20, <1>21, <1>22, <1>23
  DEF Next, Executes

LEMMA WatchedStep == ASSUME TypeOK, Reported, ParkedIsWatched, [Next]_vars PROVE ParkedIsWatched'
  BY KeepsWatchStep DEF ParkedIsWatched, Watched, KeepsWatch

-----------------------------------------------------------------------------
(* The theorems. *)

LEMMA InitIInv == Init => IInv
<1> SUFFICES ASSUME Init PROVE IInv
  OBVIOUS
<1>1. TypeOK
  BY BoundsAssumption DEF Init, TypeOK, NoTurn
<1>2. Last = 0
  BY DEF Init, Last
<1> QED BY <1>1, <1>2 DEF Init, IInv, UniqueTurns, Launched, Reported, Known, MayPost, Closing,
     DoneMeansAnswered, ParkedIsWatched, Watched, NoTurn

LEMMA NextIInv == IInv /\ [Next]_vars => IInv'
  BY TypeStep, UniqueStep, LaunchedStep, ReportedStep, KnownStep, MayPostStep, ClosingStep,
     DoneStep, WatchedStep DEF IInv

\* The inductive invariant holds of every state.
THEOREM IInvHolds == Spec => []IInv
  BY InitIInv, NextIInv, PTL DEF Spec

\* Every state is well typed.
THEOREM TypeCorrect == Spec => []TypeOK
  BY IInvHolds, PTL DEF IInv

\* A settled run opens at most one notification turn, however many answers are
\* lost and however many executors work on its job (request_key dedup).
THEOREM OneTurnTheorem == Spec => []OneTurnPerRun
<1>1. IInv => OneTurnPerRun
  <2> SUFFICES ASSUME IInv, NEW r \in Runs PROVE Cardinality(TurnsOf(r)) <= 1
    BY DEF OneTurnPerRun
  <2>1. \A i, k \in TurnsOf(r) : i = k
    BY Typed DEF IInv, UniqueTurns, TurnsOf, TurnsTyped, Last
  <2>2. CASE TurnsOf(r) = {}
    BY <2>2, FS_EmptySet
  <2>3. CASE TurnsOf(r) # {}
    <3>1. PICK i : TurnsOf(r) = {i}
      BY <2>1, <2>3
    <3> QED BY <3>1, FS_Singleton
  <2> QED BY <2>2, <2>3
<1> QED BY <1>1, IInvHolds, PTL

\* A job is closed only over an answer, or by an executor that had lost it.
THEOREM AnswerTheorem == Spec => []DoneMeansAnswered
  BY IInvHolds, PTL DEF IInv

\* Only the busy-wait cap and a crash leave a parked job alone.
THEOREM WatchTheorem == Spec => []ParkedIsWatched
  BY IInvHolds, PTL DEF IInv

\* A stop is the last word on what had settled under the stopped turn, however
\* long an executor waited between its read of that turn and its POST.
THEOREM StopTheorem == Spec => StopOpensNothing
<1>1. ASSUME IInv, [Next]_vars, NEW r \in Runs, TurnsOf(r)' # TurnsOf(r)
      PROVE  ~(Last > 0 /\ turns[Last].status = "cancelled" /\ parent[r] = Last
                 /\ r \in turns[Last].saw)
  <2>1. TurnsMove /\ TurnsTyped /\ Last \in Nat /\ MayPost
    BY <1>1, TurnsStep, Typed DEF IInv, TurnsTyped, Last
  <2>2. \E a \in Token : exec[r][a] = "post"
    <3>1. CASE Last' = Last
      BY <1>1, <2>1, <3>1 DEF TurnsMove, TurnsOf, TurnsTyped, Last
    <3>2. CASE Last' = Last + 1 /\ turns'[Last + 1].key # r
      BY <1>1, <2>1, <3>2 DEF TurnsMove, TurnsOf, TurnsTyped, Last
    <3>3. CASE Last' = Last + 1 /\ turns'[Last + 1].key = r
      <4>1. turns'[Last + 1] # NewTurn(User)
        BY <3>3, BoundsAssumption DEF NewTurn, User
      <4>2. PICK q \in Runs, a \in Token : exec[q][a] = "post" /\ turns'[Last + 1] = NewTurn(q)
        BY <2>1, <3>3, <4>1 DEF TurnsMove
      <4> QED BY <3>3, <4>2 DEF NewTurn
    <3> QED BY <2>1, <3>1, <3>2, <3>3 DEF TurnsMove
  <2> QED BY <2>1, <2>2 DEF MayPost, Uncovered, Covered
<1>2. IInv /\ [Next]_vars => \A r \in Runs : TurnsOf(r)' # TurnsOf(r) =>
        ~(Last > 0 /\ turns[Last].status = "cancelled" /\ parent[r] = Last
            /\ r \in turns[Last].saw)
  BY <1>1
<1> QED BY <1>2, IInvHolds, PTL DEF Spec, StopOpensNothing

=============================================================================
