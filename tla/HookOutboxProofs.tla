-------------------------- MODULE HookOutboxProofs --------------------------
(* Proofs about HookOutbox, for any number of jobs, keys and drainers.  The  *)
(* first lemmas say what a claim and a transition out of a claim do to the   *)
(* rows; then each conjunct of IInv is shown to survive every step.          *)
(****************************************************************************)
EXTENDS HookOutbox, TLAPS

\* The steps by which an executor ends with its claim.
Ends(r, a) == Ack(r, a) \/ Nack(r, a) \/ Defer(r, a) \/ Requeue(r, a)

RowsTyped ==
    /\ st \in [Row -> Waiting \cup Closed \cup {"absent", "txn", "claimed"}]
    /\ live \in [Row -> BOOLEAN]
    /\ attempts \in [Row -> 0 .. Ceiling]
    /\ key \in [Row -> Key \cup {None}]
    /\ pos \in [Row -> Nat] /\ now \in Nat

\* What every transition out of a claim does: r gives its lease up, and at
\* most one compensation appears beside it, on any chain.
Released(r) ==
    /\ RowsTyped'
    /\ st'[r] \in Waiting \cup Closed /\ ~live'[r]
    /\ st'[r] \in Waiting => attempts[r] < MaxAttempts
    /\ attempts' = attempts
    /\ \A q \in Row \ {r} :
         /\ live'[q] = live[q]
         /\ \/ st'[q] = st[q] /\ key'[q] = key[q]
            \/ q \in Clear /\ st[q] = "absent" /\ st'[q] = "pending"

\* A transition out of a claim by way of Leaves releases the row.
LEMMA LeavesReleases ==
    ASSUME RowsTyped, NEW r \in Row, NEW s \in Waiting \cup Closed, Leaves(r, s),
           s \in Waiting => attempts[r] < MaxAttempts, attempts' = attempts
    PROVE  Released(r)
<1>1. CASE s = "dead" /\ r \in ReportBack /\ st[ClearOf[r]] = "absent"
  <2>1. ClearOf[r] \in Clear /\ ClearOf[r] \in Row /\ ClearOf[r] # r
    BY <1>1, JobAssumption, ClearAssumption DEF Row
  <2> QED BY <1>1, <2>1 DEF RowsTyped, Released, Leaves, Waiting, Closed
<1>2. CASE ~(s = "dead" /\ r \in ReportBack /\ st[ClearOf[r]] = "absent")
    BY <1>2 DEF RowsTyped, Released, Leaves, Waiting, Closed
<1> QED BY <1>1, <1>2

\* A fenced job belongs to a chain.
LEMMA ChainTyped == ASSUME NEW r \in Fenced PROVE Chain(r) \in Key
<1>1. CASE r \in Clear
  <2>1. \E j \in ReportBack : ClearOf[j] = r
    BY <1>1, ClearAssumption
  <2> QED BY <1>1, <2>1, KeyAssumption DEF Chain
<1>2. CASE r \notin Clear
    BY <1>2, KeyAssumption DEF Chain, Fenced, Cleanup
<1> QED BY <1>1, <1>2

\* So does a requeue onto the row's own chain.
LEMMA RequeueReleases ==
    ASSUME RowsTyped, NEW r \in Row, NEW a \in Token, Requeue(r, a), Current(r, a)
    PROVE  Released(r)
<1> DEFINE dies == attempts[r] >= MaxAttempts
           owes == dies /\ r \in ReportBack /\ st[ClearOf[r]] = "absent"
<1>1. Chain(r) \in Key
    BY ChainTyped DEF Requeue
<1>2. owes => ClearOf[r] \in Clear /\ ClearOf[r] # r
    BY JobAssumption, ClearAssumption
<1>3. /\ live' = [live EXCEPT ![r] = FALSE]
      /\ st' = [q \in Row |-> IF q = r THEN IF dies THEN "dead" ELSE "pending"
                              ELSE IF owes /\ q = ClearOf[r] THEN "pending" ELSE st[q]]
      /\ key' = [q \in Row |-> IF q = r \/ (owes /\ q = ClearOf[r]) THEN Chain(r)
                                                                   ELSE key[q]]
      /\ pos' = [q \in Row |-> IF q = r \/ (owes /\ q = ClearOf[r]) THEN now + 1
                                                                   ELSE pos[q]]
      /\ now' = now + 1 /\ attempts' = attempts
    BY DEF Requeue
<1>4. attempts[r] \in Nat /\ MaxAttempts \in Nat
    BY LimitAssumption DEF RowsTyped
<1>5. RowsTyped'
  <2>1. st' \in [Row -> Waiting \cup Closed \cup {"absent", "txn", "claimed"}]
    BY <1>3 DEF RowsTyped, Waiting, Closed
  <2>2. pos' \in [Row -> Nat] /\ now' \in Nat
    BY <1>3 DEF RowsTyped
  <2>3. key' \in [Row -> Key \cup {None}]
    BY <1>1, <1>3 DEF RowsTyped
  <2> QED BY <1>3, <2>1, <2>2, <2>3 DEF RowsTyped
<1>6. st'[r] \in Waiting \cup Closed /\ (st'[r] \in Waiting => attempts[r] < MaxAttempts)
    BY <1>3, <1>4 DEF Waiting, Closed
<1>7. ASSUME NEW q \in Row \ {r}
      PROVE  /\ live'[q] = live[q]
             /\ \/ st'[q] = st[q] /\ key'[q] = key[q]
                \/ q \in Clear /\ st[q] = "absent" /\ st'[q] = "pending"
    BY <1>2, <1>3 DEF RowsTyped
<1>8. ~live'[r]
    BY <1>3 DEF RowsTyped
<1> QED BY <1>3, <1>5, <1>6, <1>7, <1>8 DEF Released

\* How an executor ends: the row is released if the token is current.
LEMMA EndStep ==
    ASSUME TypeOK, NEW r \in Row, NEW a \in Token, Ends(r, a)
    PROVE  /\ (Current(r, a) /\ Released(r)) \/ UNCHANGED rowVars
           /\ UNCHANGED <<lock, cand, effected>>
           /\ exec[r][a] \notin {"none", "guard"}
           /\ \E p \in {"none", "out"} : exec' = [exec EXCEPT ![r][a] = p]
<1>1. RowsTyped /\ attempts[r] \in Nat /\ MaxAttempts \in Nat
    BY LimitAssumption DEF RowsTyped, TypeOK
<1>2. CASE Ack(r, a)
    BY <1>1, <1>2, LeavesReleases DEF Ack, Becomes, Waiting, Closed
<1>3. CASE Nack(r, a)
    BY <1>1, <1>3, LeavesReleases DEF Nack, Becomes, Waiting, Closed
<1>4. CASE Defer(r, a)
    BY <1>1, <1>4, LeavesReleases DEF Defer, Becomes, Waiting, Closed
<1>5. CASE Requeue(r, a)
  <2>1. Current(r, a) => Released(r)
    BY <1>1, <1>5, RequeueReleases
  <2> QED BY <1>5, <2>1 DEF Requeue, Becomes
<1> QED BY <1>2, <1>3, <1>4, <1>5 DEF Ends

\* Parking releases a row that no guard is on.
LEMMA ParkStep ==
    ASSUME TypeOK, NEW r \in Row, Park(r)
    PROVE  Lapsed(r) /\ ~InGuard(r) /\ Released(r) /\ UNCHANGED <<lock, cand, exec, effected>>
<1>1. RowsTyped
    BY DEF RowsTyped, TypeOK
<1> QED BY <1>1, LeavesReleases DEF Park, Waiting, Closed

\* A claim leases rows of keys the drainer holds, none behind an open sibling.
LEMMA ClaimStep ==
    ASSUME TypeOK, NEW d \in Drainer, Claim(d)
    PROVE  \E some \in SUBSET Offered(d) :
             /\ st' = [r \in Row |-> IF r \in some THEN "claimed" ELSE st[r]]
             /\ live' = [r \in Row |-> r \in some \/ live[r]]
             /\ attempts' = [r \in Row |-> IF r \in some THEN attempts[r] + 1
                                                          ELSE attempts[r]]
             /\ exec' = [r \in Row |-> IF r \in some
                           THEN [exec[r] EXCEPT ![attempts[r] + 1] = "run"] ELSE exec[r]]
             /\ lock' = [k \in Key |-> IF lock[k] = d THEN None ELSE lock[k]]
             /\ cand' = [cand EXCEPT ![d] = {None}]
             /\ UNCHANGED <<key, pos, now, effected>>
    BY DEF Claim

\* A row offered to a claim has a lease left, and mints a token of Token.
LEMMA OfferedStep ==
    ASSUME TypeOK, LeaseBudget, LeaseLeft, NEW d \in Drainer, NEW r \in Offered(d)
    PROVE  /\ r \in Row /\ Claimable(r) /\ ~InGuard(r)
           /\ attempts[r] < Budget(r) /\ Budget(r) <= Ceiling
           /\ attempts[r] \in Nat /\ attempts[r] + 1 \in Token
<1>1. r \in Row /\ Claimable(r) /\ Due(r) /\ ~InGuard(r)
    BY DEF Offered, Claimable
<1>2. attempts[r] \in Nat /\ Budget(r) \in Nat
      /\ MaxAttempts <= Budget(r) /\ Budget(r) <= Ceiling
    BY <1>1, LimitAssumption DEF TypeOK, Budget
<1>3. attempts[r] < Budget(r)
    BY <1>1, <1>2, LimitAssumption DEF Due, LeaseLeft, Waiting
<1> QED BY <1>1, <1>2, <1>3, LimitAssumption DEF Token

\* Every step keeps the types.
LEMMA TypeStep ==
    ASSUME TypeOK, LeaseBudget, LeaseLeft, [Next]_vars
    PROVE  TypeOK'
<1>1. ASSUME NEW j \in Job, BeginFinalize(j) PROVE TypeOK'
    BY <1>1 DEF TypeOK, BeginFinalize, Waiting, Closed, Row
<1>2. ASSUME NEW j \in Job, CommitFinalize(j) PROVE TypeOK'
    BY <1>2 DEF TypeOK, CommitFinalize, Waiting, Closed, Row
<1>3. ASSUME Release PROVE TypeOK'
    BY <1>3 DEF TypeOK, Release, Waiting, Closed
<1>4. ASSUME NEW r \in Row, BackoffEnds(r) PROVE TypeOK'
    BY <1>4 DEF TypeOK, BackoffEnds, Waiting, Closed
<1>5. ASSUME NEW r \in Row, LeaseLapses(r) PROVE TypeOK'
    BY <1>5 DEF TypeOK, LeaseLapses
<1>6. ASSUME NEW r \in Row, Park(r) PROVE TypeOK'
    BY <1>6, ParkStep DEF TypeOK, Released, RowsTyped
<1>7. ASSUME NEW r \in Row, Revive(r) PROVE TypeOK'
    BY <1>7 DEF TypeOK, Revive, Waiting, Closed
<1>8. ASSUME NEW d \in Drainer, Discover(d) PROVE TypeOK'
    BY <1>8 DEF TypeOK, Discover, rowVars
<1>9. ASSUME NEW d \in Drainer, NEW k \in Key, TryKey(d, k) PROVE TypeOK'
    BY <1>9 DEF TypeOK, TryKey, rowVars
<1>10. ASSUME NEW d \in Drainer, Claim(d) PROVE TypeOK'
  <2>1. PICK some \in SUBSET Offered(d) :
             /\ st' = [r \in Row |-> IF r \in some THEN "claimed" ELSE st[r]]
             /\ live' = [r \in Row |-> r \in some \/ live[r]]
             /\ attempts' = [r \in Row |-> IF r \in some THEN attempts[r] + 1
                                                          ELSE attempts[r]]
             /\ exec' = [r \in Row |-> IF r \in some
                           THEN [exec[r] EXCEPT ![attempts[r] + 1] = "run"] ELSE exec[r]]
             /\ lock' = [k \in Key |-> IF lock[k] = d THEN None ELSE lock[k]]
             /\ cand' = [cand EXCEPT ![d] = {None}]
             /\ UNCHANGED <<key, pos, now, effected>>
    BY <1>10, ClaimStep
  <2>2. \A q \in some : /\ q \in Row /\ Claimable(q) /\ ~InGuard(q)
                       /\ attempts[q] < Budget(q) /\ Budget(q) <= Ceiling
                       /\ attempts[q] \in Nat /\ attempts[q] + 1 \in Token
    BY <2>1, OfferedStep
  <2>3. attempts' \in [Row -> 0 .. Ceiling]
    BY <2>1, <2>2, LimitAssumption DEF TypeOK, Token
  <2>4. exec' \in [Row -> [Token -> {"none", "run", "guard", "fail", "did", "out"}]]
    BY <2>1, <2>2 DEF TypeOK
  <2>5. st' \in [Row -> Waiting \cup Closed \cup {"absent", "txn", "claimed"}]
    BY <2>1 DEF TypeOK
  <2>6. lock' \in [Key -> Row \cup Drainer \cup {None}] /\ live' \in [Row -> BOOLEAN]
        /\ cand' \in [Drainer -> SUBSET (Key \cup {None})]
    BY <2>1 DEF TypeOK
  <2> QED BY <2>1, <2>3, <2>4, <2>5, <2>6 DEF TypeOK
<1>11. ASSUME NEW d \in Drainer, ClaimFails(d) PROVE TypeOK'
    BY <1>11 DEF TypeOK, ClaimFails, rowVars
<1>12. ASSUME NEW r \in Row, NEW a \in Token, Effect(r, a) PROVE TypeOK'
    BY <1>12 DEF TypeOK, Effect, Becomes, rowVars
<1>13. ASSUME NEW r \in Row, NEW a \in Token, StandDown(r, a) PROVE TypeOK'
    BY <1>13 DEF TypeOK, StandDown, Becomes, rowVars
<1>14. ASSUME NEW r \in Row, NEW a \in Token, EnterGuard(r, a) PROVE TypeOK'
    BY <1>14, JobAssumption, KeyAssumption DEF TypeOK, EnterGuard, Becomes, rowVars
<1>15. ASSUME NEW r \in Row, NEW a \in Token, ExitGuard(r, a) PROVE TypeOK'
  <2>1. exec' \in [Row -> [Token -> {"none", "run", "guard", "fail", "did", "out"}]]
    <3>1. \E p \in {"did", "run"} : exec' = [exec EXCEPT ![r][a] = p]
      BY <1>15 DEF ExitGuard, Becomes
    <3> QED BY <3>1 DEF TypeOK
  <2>2. effected' \subseteq Row
    BY <1>15 DEF TypeOK, ExitGuard
  <2>3. lock' \in [Key -> Row \cup Drainer \cup {None}] /\ live' \in [Row -> BOOLEAN]
    BY <1>15 DEF TypeOK, ExitGuard
  <2> QED BY <1>15, <2>1, <2>2, <2>3 DEF TypeOK, ExitGuard
<1>16. ASSUME NEW r \in Row, NEW a \in Token, BreakGuard(r, a) PROVE TypeOK'
    BY <1>16 DEF TypeOK, BreakGuard, Becomes, rowVars
<1>17. ASSUME NEW r \in Row, NEW a \in Token, Ends(r, a) PROVE TypeOK'
  <2>1. exec' \in [Row -> [Token -> {"none", "run", "guard", "fail", "did", "out"}]]
    <3>1. \E p \in {"none", "out"} : exec' = [exec EXCEPT ![r][a] = p]
      BY <1>17, EndStep
    <3> QED BY <3>1 DEF TypeOK
  <2>2. RowsTyped'
    <3>1. CASE Released(r)
      BY <3>1 DEF Released
    <3>2. CASE UNCHANGED rowVars
      BY <3>2 DEF TypeOK, RowsTyped, rowVars
    <3> QED BY <1>17, <3>1, <3>2, EndStep
  <2>3. UNCHANGED <<lock, cand, effected>>
    BY <1>17, EndStep
  <2> QED BY <2>1, <2>2, <2>3 DEF TypeOK, RowsTyped
<1>18. ASSUME NEW r \in Row, NEW a \in Token, Die(r, a) PROVE TypeOK'
    BY <1>18 DEF TypeOK, Die, Becomes, rowVars
<1>19. CASE UNCHANGED vars
    BY <1>19, JobAssumption, KeyAssumption, LimitAssumption DEF TypeOK, vars, Becomes,
       rowVars, Waiting, Closed, Row, Token
<1> QED BY <1>1, <1>2, <1>3, <1>4, <1>5, <1>6, <1>7, <1>8, <1>9, <1>10, <1>11, <1>12,
   <1>13, <1>14, <1>15, <1>16, <1>17, <1>18, <1>19 DEF Next, Works, Ends, Drains, Sweeps

\* No step leases a row past its budget.
LEMMA BudgetStep ==
    ASSUME TypeOK, LeaseBudget, LeaseLeft, [Next]_vars
    PROVE  LeaseBudget'
<1>1. ASSUME NEW j \in Job, BeginFinalize(j) PROVE LeaseBudget'
    BY <1>1 DEF TypeOK, LeaseBudget, Budget, BeginFinalize
<1>2. ASSUME NEW j \in Job, CommitFinalize(j) PROVE LeaseBudget'
    BY <1>2 DEF TypeOK, LeaseBudget, Budget, CommitFinalize
<1>3. ASSUME Release PROVE LeaseBudget'
    BY <1>3 DEF TypeOK, LeaseBudget, Budget, Release
<1>4. ASSUME NEW r \in Row, BackoffEnds(r) PROVE LeaseBudget'
    BY <1>4 DEF TypeOK, LeaseBudget, Budget, BackoffEnds
<1>5. ASSUME NEW r \in Row, LeaseLapses(r) PROVE LeaseBudget'
    BY <1>5 DEF TypeOK, LeaseBudget, Budget, LeaseLapses
<1>6. ASSUME NEW r \in Row, Park(r) PROVE LeaseBudget'
    BY <1>6, ParkStep DEF LeaseBudget, Budget, Released
<1>7. ASSUME NEW r \in Row, Revive(r) PROVE LeaseBudget'
    BY <1>7 DEF TypeOK, LeaseBudget, Budget, Revive
<1>8. ASSUME NEW d \in Drainer, Discover(d) PROVE LeaseBudget'
    BY <1>8 DEF TypeOK, LeaseBudget, Budget, Discover, rowVars
<1>9. ASSUME NEW d \in Drainer, NEW k \in Key, TryKey(d, k) PROVE LeaseBudget'
    BY <1>9 DEF TypeOK, LeaseBudget, Budget, TryKey, rowVars
<1>10. ASSUME NEW d \in Drainer, Claim(d) PROVE LeaseBudget'
  <2>1. PICK some \in SUBSET Offered(d) :
             /\ st' = [r \in Row |-> IF r \in some THEN "claimed" ELSE st[r]]
             /\ live' = [r \in Row |-> r \in some \/ live[r]]
             /\ attempts' = [r \in Row |-> IF r \in some THEN attempts[r] + 1
                                                          ELSE attempts[r]]
             /\ exec' = [r \in Row |-> IF r \in some
                           THEN [exec[r] EXCEPT ![attempts[r] + 1] = "run"] ELSE exec[r]]
             /\ lock' = [k \in Key |-> IF lock[k] = d THEN None ELSE lock[k]]
             /\ cand' = [cand EXCEPT ![d] = {None}]
             /\ UNCHANGED <<key, pos, now, effected>>
    BY <1>10, ClaimStep
  <2>2. \A q \in some : /\ q \in Row /\ Claimable(q) /\ ~InGuard(q)
                       /\ attempts[q] < Budget(q) /\ Budget(q) <= Ceiling
                       /\ attempts[q] \in Nat /\ attempts[q] + 1 \in Token
    BY <2>1, OfferedStep
  <2>3. ASSUME NEW q \in Row PROVE attempts'[q] <= Budget(q)
    <3>1. attempts[q] \in Nat /\ Budget(q) \in Nat /\ attempts[q] <= Budget(q)
      BY LimitAssumption DEF TypeOK, Budget, LeaseBudget
    <3> QED BY <2>1, <2>2, <3>1
  <2> QED BY <2>3 DEF LeaseBudget, Budget
<1>11. ASSUME NEW d \in Drainer, ClaimFails(d) PROVE LeaseBudget'
    BY <1>11 DEF TypeOK, LeaseBudget, Budget, ClaimFails, rowVars
<1>12. ASSUME NEW r \in Row, NEW a \in Token, Effect(r, a) PROVE LeaseBudget'
    BY <1>12 DEF TypeOK, LeaseBudget, Budget, Effect, rowVars
<1>13. ASSUME NEW r \in Row, NEW a \in Token, StandDown(r, a) PROVE LeaseBudget'
    BY <1>13 DEF TypeOK, LeaseBudget, Budget, StandDown, rowVars
<1>14. ASSUME NEW r \in Row, NEW a \in Token, EnterGuard(r, a) PROVE LeaseBudget'
    BY <1>14 DEF TypeOK, LeaseBudget, Budget, EnterGuard, rowVars
<1>15. ASSUME NEW r \in Row, NEW a \in Token, ExitGuard(r, a) PROVE LeaseBudget'
    BY <1>15 DEF TypeOK, LeaseBudget, Budget, ExitGuard
<1>16. ASSUME NEW r \in Row, NEW a \in Token, BreakGuard(r, a) PROVE LeaseBudget'
    BY <1>16 DEF TypeOK, LeaseBudget, Budget, BreakGuard, rowVars
<1>17. ASSUME NEW r \in Row, NEW a \in Token, Ends(r, a) PROVE LeaseBudget'
    BY <1>17, EndStep DEF LeaseBudget, Budget, Released, rowVars
<1>18. ASSUME NEW r \in Row, NEW a \in Token, Die(r, a) PROVE LeaseBudget'
    BY <1>18 DEF TypeOK, LeaseBudget, Budget, Die, rowVars
<1>19. CASE UNCHANGED vars
    BY <1>19 DEF TypeOK, LeaseBudget, Budget, vars, rowVars
<1> QED BY <1>1, <1>2, <1>3, <1>4, <1>5, <1>6, <1>7, <1>8, <1>9, <1>10, <1>11, <1>12,
   <1>13, <1>14, <1>15, <1>16, <1>17, <1>18, <1>19 DEF Next, Works, Ends, Drains, Sweeps

\* A row that waits has a lease left: only a claim spends one.
LEMMA LeftStep ==
    ASSUME TypeOK, LeaseBudget, LeaseLeft, [Next]_vars
    PROVE  LeaseLeft'
<1>1. ASSUME NEW j \in Job, BeginFinalize(j) PROVE LeaseLeft'
    BY <1>1, LimitAssumption DEF TypeOK, LeaseLeft, Budget, BeginFinalize, Waiting
<1>2. ASSUME NEW j \in Job, CommitFinalize(j) PROVE LeaseLeft'
    BY <1>2, LimitAssumption DEF TypeOK, LeaseLeft, Budget, CommitFinalize, Waiting
<1>3. ASSUME Release PROVE LeaseLeft'
    BY <1>3, LimitAssumption DEF TypeOK, LeaseLeft, Budget, Release, Waiting
<1>4. ASSUME NEW r \in Row, BackoffEnds(r) PROVE LeaseLeft'
    BY <1>4, LimitAssumption DEF TypeOK, LeaseLeft, Budget, BackoffEnds, Waiting
<1>5. ASSUME NEW r \in Row, LeaseLapses(r) PROVE LeaseLeft'
    BY <1>5, LimitAssumption DEF TypeOK, LeaseLeft, Budget, LeaseLapses
<1>6. ASSUME NEW r \in Row, Park(r) PROVE LeaseLeft'
  <2>1. attempts' = attempts
    BY <1>6, ParkStep DEF Released, rowVars
  <2>2. ASSUME NEW q \in Row PROVE
               /\ st'[q] \in {"absent", "txn"} => attempts[q] = 0
               /\ st'[q] \in Waiting => attempts[q] < Budget(q)
    <3>1. CASE st'[q] = st[q]
      BY <3>1 DEF LeaseLeft
    <3>2. CASE st'[q] # st[q] /\ q = r
      <4>1. Released(r)
        BY <1>6, <3>2, ParkStep DEF rowVars
      <4>2. st'[r] \in Waiting \cup Closed /\ (st'[r] \in Waiting => attempts[r] < MaxAttempts)
        BY <4>1 DEF Released
      <4>3. attempts[r] \in Nat /\ MaxAttempts <= Budget(r) /\ Budget(r) \in Nat
        BY LimitAssumption DEF TypeOK, Budget
      <4> QED BY <3>2, <4>2, <4>3, LimitAssumption DEF Waiting, Closed
    <3>3. CASE st'[q] # st[q] /\ q # r
      <4>1. Released(r)
        BY <1>6, <3>3, ParkStep DEF rowVars
      <4>2. st[q] = "absent" /\ st'[q] = "pending" /\ attempts[q] = 0
        BY <3>3, <4>1 DEF Released, LeaseLeft
      <4> QED BY <4>2, LimitAssumption DEF Budget, Waiting
    <3> QED BY <3>1, <3>2, <3>3
  <2> QED BY <2>1, <2>2 DEF LeaseLeft, Budget
<1>7. ASSUME NEW r \in Row, Revive(r) PROVE LeaseLeft'
    BY <1>7, LimitAssumption DEF TypeOK, LeaseLeft, Budget, Revive, Waiting
<1>8. ASSUME NEW d \in Drainer, Discover(d) PROVE LeaseLeft'
    BY <1>8, LimitAssumption DEF TypeOK, LeaseLeft, Budget, Discover, rowVars
<1>9. ASSUME NEW d \in Drainer, NEW k \in Key, TryKey(d, k) PROVE LeaseLeft'
    BY <1>9, LimitAssumption DEF TypeOK, LeaseLeft, Budget, TryKey, rowVars
<1>10. ASSUME NEW d \in Drainer, Claim(d) PROVE LeaseLeft'
  <2>1. PICK some \in SUBSET Offered(d) :
             /\ st' = [r \in Row |-> IF r \in some THEN "claimed" ELSE st[r]]
             /\ live' = [r \in Row |-> r \in some \/ live[r]]
             /\ attempts' = [r \in Row |-> IF r \in some THEN attempts[r] + 1
                                                          ELSE attempts[r]]
             /\ exec' = [r \in Row |-> IF r \in some
                           THEN [exec[r] EXCEPT ![attempts[r] + 1] = "run"] ELSE exec[r]]
             /\ lock' = [k \in Key |-> IF lock[k] = d THEN None ELSE lock[k]]
             /\ cand' = [cand EXCEPT ![d] = {None}]
             /\ UNCHANGED <<key, pos, now, effected>>
    BY <1>10, ClaimStep
  <2>2. \A q \in some : /\ q \in Row /\ Claimable(q) /\ ~InGuard(q)
                       /\ attempts[q] < Budget(q) /\ Budget(q) <= Ceiling
                       /\ attempts[q] \in Nat /\ attempts[q] + 1 \in Token
    BY <2>1, OfferedStep
  <2>3. ASSUME NEW q \in Row, st'[q] # "claimed"
        PROVE  q \notin some /\ st'[q] = st[q] /\ attempts'[q] = attempts[q]
    BY <2>1, <2>3
  <2>4. ASSUME NEW q \in Row
        PROVE  /\ st'[q] \in {"absent", "txn"} => attempts'[q] = 0
               /\ st'[q] \in Waiting => attempts'[q] < Budget(q)
    BY <2>3 DEF LeaseLeft, Waiting
  <2> QED BY <2>4 DEF LeaseLeft, Budget
<1>11. ASSUME NEW d \in Drainer, ClaimFails(d) PROVE LeaseLeft'
    BY <1>11, LimitAssumption DEF TypeOK, LeaseLeft, Budget, ClaimFails, rowVars
<1>12. ASSUME NEW r \in Row, NEW a \in Token, Effect(r, a) PROVE LeaseLeft'
    BY <1>12, LimitAssumption DEF TypeOK, LeaseLeft, Budget, Effect, rowVars
<1>13. ASSUME NEW r \in Row, NEW a \in Token, StandDown(r, a) PROVE LeaseLeft'
    BY <1>13, LimitAssumption DEF TypeOK, LeaseLeft, Budget, StandDown, rowVars
<1>14. ASSUME NEW r \in Row, NEW a \in Token, EnterGuard(r, a) PROVE LeaseLeft'
    BY <1>14, LimitAssumption DEF TypeOK, LeaseLeft, Budget, EnterGuard, rowVars
<1>15. ASSUME NEW r \in Row, NEW a \in Token, ExitGuard(r, a) PROVE LeaseLeft'
    BY <1>15, LimitAssumption DEF TypeOK, LeaseLeft, Budget, ExitGuard
<1>16. ASSUME NEW r \in Row, NEW a \in Token, BreakGuard(r, a) PROVE LeaseLeft'
    BY <1>16, LimitAssumption DEF TypeOK, LeaseLeft, Budget, BreakGuard, rowVars
<1>17. ASSUME NEW r \in Row, NEW a \in Token, Ends(r, a) PROVE LeaseLeft'
  <2>1. attempts' = attempts
    BY <1>17, EndStep DEF Released, rowVars
  <2>2. ASSUME NEW q \in Row PROVE
               /\ st'[q] \in {"absent", "txn"} => attempts[q] = 0
               /\ st'[q] \in Waiting => attempts[q] < Budget(q)
    <3>1. CASE st'[q] = st[q]
      BY <3>1 DEF LeaseLeft
    <3>2. CASE st'[q] # st[q] /\ q = r
      <4>1. Released(r)
        BY <1>17, <3>2, EndStep DEF rowVars
      <4>2. st'[r] \in Waiting \cup Closed /\ (st'[r] \in Waiting => attempts[r] < MaxAttempts)
        BY <4>1 DEF Released
      <4>3. attempts[r] \in Nat /\ MaxAttempts <= Budget(r) /\ Budget(r) \in Nat
        BY LimitAssumption DEF TypeOK, Budget
      <4> QED BY <3>2, <4>2, <4>3, LimitAssumption DEF Waiting, Closed
    <3>3. CASE st'[q] # st[q] /\ q # r
      <4>1. Released(r)
        BY <1>17, <3>3, EndStep DEF rowVars
      <4>2. st[q] = "absent" /\ st'[q] = "pending" /\ attempts[q] = 0
        BY <3>3, <4>1 DEF Released, LeaseLeft
      <4> QED BY <4>2, LimitAssumption DEF Budget, Waiting
    <3> QED BY <3>1, <3>2, <3>3
  <2> QED BY <2>1, <2>2 DEF LeaseLeft, Budget
<1>18. ASSUME NEW r \in Row, NEW a \in Token, Die(r, a) PROVE LeaseLeft'
    BY <1>18, LimitAssumption DEF TypeOK, LeaseLeft, Budget, Die, rowVars
<1>19. CASE UNCHANGED vars
    BY <1>19, LimitAssumption DEF TypeOK, LeaseLeft, Budget, vars, rowVars, Waiting
<1> QED BY <1>1, <1>2, <1>3, <1>4, <1>5, <1>6, <1>7, <1>8, <1>9, <1>10, <1>11, <1>12,
   <1>13, <1>14, <1>15, <1>16, <1>17, <1>18, <1>19 DEF Next, Works, Ends, Drains, Sweeps

\* A token is in use only once a claim has minted it.
LEMMA TokensStep ==
    ASSUME TypeOK, LeaseBudget, LeaseLeft, TokensSpent, [Next]_vars
    PROVE  TokensSpent'
<1>1. ASSUME NEW j \in Job, BeginFinalize(j) PROVE TokensSpent'
    BY <1>1 DEF TypeOK, TokensSpent, BeginFinalize
<1>2. ASSUME NEW j \in Job, CommitFinalize(j) PROVE TokensSpent'
    BY <1>2 DEF TypeOK, TokensSpent, CommitFinalize
<1>3. ASSUME Release PROVE TokensSpent'
    BY <1>3 DEF TypeOK, TokensSpent, Release
<1>4. ASSUME NEW r \in Row, BackoffEnds(r) PROVE TokensSpent'
    BY <1>4 DEF TypeOK, TokensSpent, BackoffEnds
<1>5. ASSUME NEW r \in Row, LeaseLapses(r) PROVE TokensSpent'
    BY <1>5 DEF TypeOK, TokensSpent, LeaseLapses
<1>6. ASSUME NEW r \in Row, Park(r) PROVE TokensSpent'
    BY <1>6, ParkStep DEF TokensSpent, Released
<1>7. ASSUME NEW r \in Row, Revive(r) PROVE TokensSpent'
    BY <1>7 DEF TypeOK, TokensSpent, Revive
<1>8. ASSUME NEW d \in Drainer, Discover(d) PROVE TokensSpent'
    BY <1>8 DEF TypeOK, TokensSpent, Discover, rowVars
<1>9. ASSUME NEW d \in Drainer, NEW k \in Key, TryKey(d, k) PROVE TokensSpent'
    BY <1>9 DEF TypeOK, TokensSpent, TryKey, rowVars
<1>10. ASSUME NEW d \in Drainer, Claim(d) PROVE TokensSpent'
  <2>1. PICK some \in SUBSET Offered(d) :
             /\ st' = [r \in Row |-> IF r \in some THEN "claimed" ELSE st[r]]
             /\ live' = [r \in Row |-> r \in some \/ live[r]]
             /\ attempts' = [r \in Row |-> IF r \in some THEN attempts[r] + 1
                                                          ELSE attempts[r]]
             /\ exec' = [r \in Row |-> IF r \in some
                           THEN [exec[r] EXCEPT ![attempts[r] + 1] = "run"] ELSE exec[r]]
             /\ lock' = [k \in Key |-> IF lock[k] = d THEN None ELSE lock[k]]
             /\ cand' = [cand EXCEPT ![d] = {None}]
             /\ UNCHANGED <<key, pos, now, effected>>
    BY <1>10, ClaimStep
  <2>2. \A q \in some : /\ q \in Row /\ Claimable(q) /\ ~InGuard(q)
                       /\ attempts[q] < Budget(q) /\ Budget(q) <= Ceiling
                       /\ attempts[q] \in Nat /\ attempts[q] + 1 \in Token
    BY <2>1, OfferedStep
  <2>3. ASSUME NEW q \in Row, NEW b \in Token, exec'[q][b] # "none"
        PROVE  b <= attempts'[q]
    <3>1. CASE q \in some
      <4>1. b = attempts[q] + 1 \/ exec[q][b] # "none"
        BY <2>1, <2>2, <2>3, <3>1 DEF TypeOK
      <4>2. attempts'[q] = attempts[q] + 1 /\ attempts[q] \in Nat /\ b \in Nat
        BY <2>1, <2>2, <3>1 DEF Token
      <4> QED BY <4>1, <4>2 DEF TokensSpent
    <3>2. CASE q \notin some
      BY <2>1, <2>3, <3>2 DEF TokensSpent
    <3> QED BY <3>1, <3>2
  <2> QED BY <2>3 DEF TokensSpent
<1>11. ASSUME NEW d \in Drainer, ClaimFails(d) PROVE TokensSpent'
    BY <1>11 DEF TypeOK, TokensSpent, ClaimFails, rowVars
<1>12. ASSUME NEW r \in Row, NEW a \in Token, Effect(r, a) PROVE TokensSpent'
    BY <1>12 DEF TypeOK, TokensSpent, Effect, rowVars, Becomes
<1>13. ASSUME NEW r \in Row, NEW a \in Token, StandDown(r, a) PROVE TokensSpent'
    BY <1>13 DEF TypeOK, TokensSpent, StandDown, rowVars, Becomes
<1>14. ASSUME NEW r \in Row, NEW a \in Token, EnterGuard(r, a) PROVE TokensSpent'
    BY <1>14 DEF TypeOK, TokensSpent, EnterGuard, rowVars, Becomes
<1>15. ASSUME NEW r \in Row, NEW a \in Token, ExitGuard(r, a) PROVE TokensSpent'
    BY <1>15 DEF TypeOK, TokensSpent, ExitGuard, Becomes
<1>16. ASSUME NEW r \in Row, NEW a \in Token, BreakGuard(r, a) PROVE TokensSpent'
    BY <1>16 DEF TypeOK, TokensSpent, BreakGuard, rowVars, Becomes
<1>17. ASSUME NEW r \in Row, NEW a \in Token, Ends(r, a) PROVE TokensSpent'
  <2>1. PICK p \in {"none", "out"} : exec' = [exec EXCEPT ![r][a] = p]
    BY <1>17, EndStep
  <2>2. attempts' = attempts /\ exec[r][a] # "none"
    BY <1>17, EndStep DEF Released, rowVars
  <2>3. ASSUME NEW q \in Row, NEW b \in Token, exec'[q][b] # "none"
        PROVE  exec[q][b] # "none"
    BY <2>1, <2>2, <2>3 DEF TypeOK
  <2> QED BY <2>2, <2>3 DEF TokensSpent
<1>18. ASSUME NEW r \in Row, NEW a \in Token, Die(r, a) PROVE TokensSpent'
    BY <1>18 DEF TypeOK, TokensSpent, Die, rowVars, Becomes
<1>19. CASE UNCHANGED vars
    BY <1>19 DEF TypeOK, TokensSpent, vars, rowVars, Becomes
<1> QED BY <1>1, <1>2, <1>3, <1>4, <1>5, <1>6, <1>7, <1>8, <1>9, <1>10, <1>11, <1>12,
   <1>13, <1>14, <1>15, <1>16, <1>17, <1>18, <1>19 DEF Next, Works, Ends, Drains, Sweeps

\* No step leases two jobs of one chain: a claim holds the lock of every key it
\* leases a job of, and finds no live lease there; a guard that renews its own
\* lease has held the lock since it checked it.
LEMMA OneLeaseStep ==
    ASSUME TypeOK, LeaseBudget, LeaseLeft, OneLeasePerKey, GuardHolds, [Next]_vars
    PROVE  OneLeasePerKey'
<1>1. ASSUME NEW j \in Job, BeginFinalize(j) PROVE OneLeasePerKey'
    BY <1>1 DEF TypeOK, OneLeasePerKey, Leased, BeginFinalize
<1>2. ASSUME NEW j \in Job, CommitFinalize(j) PROVE OneLeasePerKey'
    BY <1>2 DEF TypeOK, OneLeasePerKey, Leased, CommitFinalize
<1>3. ASSUME Release PROVE OneLeasePerKey'
    BY <1>3 DEF TypeOK, OneLeasePerKey, Leased, Release
<1>4. ASSUME NEW r \in Row, BackoffEnds(r) PROVE OneLeasePerKey'
    BY <1>4 DEF TypeOK, OneLeasePerKey, Leased, BackoffEnds
<1>5. ASSUME NEW r \in Row, LeaseLapses(r) PROVE OneLeasePerKey'
    BY <1>5 DEF TypeOK, OneLeasePerKey, Leased, LeaseLapses
<1>6. ASSUME NEW r \in Row, Park(r) PROVE OneLeasePerKey'
  <2>1. ASSUME NEW q \in Row, Leased(q)' PROVE Leased(q) /\ key'[q] = key[q]
    BY <1>6, <2>1, ParkStep DEF Released, Leased, rowVars, Waiting, Closed
  <2> QED BY <2>1 DEF OneLeasePerKey
<1>7. ASSUME NEW r \in Row, Revive(r) PROVE OneLeasePerKey'
    BY <1>7 DEF TypeOK, OneLeasePerKey, Leased, Revive
<1>8. ASSUME NEW d \in Drainer, Discover(d) PROVE OneLeasePerKey'
    BY <1>8 DEF TypeOK, OneLeasePerKey, Leased, Discover, rowVars
<1>9. ASSUME NEW d \in Drainer, NEW k \in Key, TryKey(d, k) PROVE OneLeasePerKey'
    BY <1>9 DEF TypeOK, OneLeasePerKey, Leased, TryKey, rowVars
<1>10. ASSUME NEW d \in Drainer, Claim(d) PROVE OneLeasePerKey'
  <2>1. PICK some \in SUBSET Offered(d) :
             /\ st' = [r \in Row |-> IF r \in some THEN "claimed" ELSE st[r]]
             /\ live' = [r \in Row |-> r \in some \/ live[r]]
             /\ attempts' = [r \in Row |-> IF r \in some THEN attempts[r] + 1
                                                          ELSE attempts[r]]
             /\ exec' = [r \in Row |-> IF r \in some
                           THEN [exec[r] EXCEPT ![attempts[r] + 1] = "run"] ELSE exec[r]]
             /\ lock' = [k \in Key |-> IF lock[k] = d THEN None ELSE lock[k]]
             /\ cand' = [cand EXCEPT ![d] = {None}]
             /\ UNCHANGED <<key, pos, now, effected>>
    BY <1>10, ClaimStep
  <2>2. \A q \in some : /\ q \in Row /\ Claimable(q) /\ ~InGuard(q)
                       /\ attempts[q] < Budget(q) /\ Budget(q) <= Ceiling
                       /\ attempts[q] \in Nat /\ attempts[q] + 1 \in Token
    BY <2>1, OfferedStep
  <2>3. ASSUME NEW q \in Row PROVE Leased(q)' <=> q \in some \/ Leased(q)
    BY <2>1, <2>3 DEF TypeOK, Leased
  <2>4. ASSUME NEW q \in some, NEW p \in Row, p # q, key[q] # None, key[p] = key[q]
        PROVE  ~Leased(p) /\ (Older(p, q) => st[p] \notin Waiting /\ ~Lapsed(p))
    BY <2>2, <2>4 DEF Claimable, Blocks
  <2>5. ASSUME NEW p \in Row, NEW q \in Row, p # q PROVE Older(p, q) \/ Older(q, p)
    <3>1. /\ pos[p] \in Nat /\ pos[q] \in Nat
          /\ Id[p] \in Nat /\ Id[q] \in Nat /\ Id[p] # Id[q]
      BY <2>5, IdAssumption DEF TypeOK
    <3> QED BY <3>1 DEF Older
  <2>6. \A q \in some : st[q] \in Waiting \/ Lapsed(q)
    BY <2>2 DEF Claimable, Due, Waiting
  <2>7. ASSUME NEW p \in some, NEW q \in some, p # q, key[p] = key[q], key[p] # None
        PROVE  FALSE
    BY <2>2, <2>4, <2>5, <2>6, <2>7
  <2>8. key' = key
    BY <2>1
  <2> QED BY <2>2, <2>3, <2>4, <2>7, <2>8 DEF OneLeasePerKey
<1>11. ASSUME NEW d \in Drainer, ClaimFails(d) PROVE OneLeasePerKey'
    BY <1>11 DEF TypeOK, OneLeasePerKey, Leased, ClaimFails, rowVars
<1>12. ASSUME NEW r \in Row, NEW a \in Token, Effect(r, a) PROVE OneLeasePerKey'
    BY <1>12 DEF TypeOK, OneLeasePerKey, Leased, Effect, rowVars
<1>13. ASSUME NEW r \in Row, NEW a \in Token, StandDown(r, a) PROVE OneLeasePerKey'
    BY <1>13 DEF TypeOK, OneLeasePerKey, Leased, StandDown, rowVars
<1>14. ASSUME NEW r \in Row, NEW a \in Token, EnterGuard(r, a) PROVE OneLeasePerKey'
    BY <1>14 DEF TypeOK, OneLeasePerKey, Leased, EnterGuard, rowVars
<1>15. ASSUME NEW r \in Row, NEW a \in Token, ExitGuard(r, a) PROVE OneLeasePerKey'
  <2>1. key[r] # None /\ \A q \in Row : q # r /\ key[q] = key[r] => ~Leased(q)
    BY <1>15 DEF ExitGuard, GuardHolds
  <2>2. ASSUME NEW q \in Row, q # r PROVE Leased(q)' <=> Leased(q)
    BY <1>15, <2>2 DEF TypeOK, ExitGuard, Leased
  <2>3. key' = key
    BY <1>15 DEF ExitGuard
  <2> QED BY <2>1, <2>2, <2>3 DEF OneLeasePerKey
<1>16. ASSUME NEW r \in Row, NEW a \in Token, BreakGuard(r, a) PROVE OneLeasePerKey'
    BY <1>16 DEF TypeOK, OneLeasePerKey, Leased, BreakGuard, rowVars
<1>17. ASSUME NEW r \in Row, NEW a \in Token, Ends(r, a) PROVE OneLeasePerKey'
  <2>1. ASSUME NEW q \in Row, Leased(q)' PROVE Leased(q) /\ key'[q] = key[q]
    BY <1>17, <2>1, EndStep DEF Released, Leased, rowVars, Waiting, Closed
  <2> QED BY <2>1 DEF OneLeasePerKey
<1>18. ASSUME NEW r \in Row, NEW a \in Token, Die(r, a) PROVE OneLeasePerKey'
    BY <1>18 DEF TypeOK, OneLeasePerKey, Leased, Die, rowVars
<1>19. CASE UNCHANGED vars
    BY <1>19 DEF TypeOK, OneLeasePerKey, Leased, vars, rowVars
<1> QED BY <1>1, <1>2, <1>3, <1>4, <1>5, <1>6, <1>7, <1>8, <1>9, <1>10, <1>11, <1>12,
   <1>13, <1>14, <1>15, <1>16, <1>17, <1>18, <1>19 DEF Next, Works, Ends, Drains, Sweeps

\* A guard keeps what it stands on until it ends.
LEMMA GuardStep ==
    ASSUME TypeOK, LeaseBudget, LeaseLeft, OneLeasePerKey, GuardHolds, [Next]_vars
    PROVE  GuardHolds'
<1>1. ASSUME NEW j \in Job, BeginFinalize(j) PROVE GuardHolds'
    BY <1>1, JobAssumption, KeyAssumption DEF TypeOK, GuardHolds, Leased, BeginFinalize,
       Waiting
<1>2. ASSUME NEW j \in Job, CommitFinalize(j) PROVE GuardHolds'
    BY <1>2, JobAssumption, KeyAssumption DEF TypeOK, GuardHolds, Leased,
       CommitFinalize, Waiting
<1>3. ASSUME Release PROVE GuardHolds'
    BY <1>3, JobAssumption, KeyAssumption DEF TypeOK, GuardHolds, Leased, Release,
       Waiting
<1>4. ASSUME NEW r \in Row, BackoffEnds(r) PROVE GuardHolds'
    BY <1>4, JobAssumption, KeyAssumption DEF TypeOK, GuardHolds, Leased, BackoffEnds,
       Waiting
<1>5. ASSUME NEW r \in Row, LeaseLapses(r) PROVE GuardHolds'
    BY <1>5, JobAssumption, KeyAssumption DEF TypeOK, GuardHolds, Leased, LeaseLapses
<1>6. ASSUME NEW r \in Row, Park(r) PROVE GuardHolds'
  <2>1. ASSUME NEW q \in Row, NEW b \in Token, exec'[q][b] = "guard"
        PROVE  exec[q][b] = "guard" /\ q # r
    BY <1>6, <2>1, ParkStep DEF InGuard
  <2>2. ASSUME NEW q \in Row, Leased(q)' PROVE Leased(q) /\ key'[q] = key[q]
    BY <1>6, <2>2, ParkStep DEF Released, Leased, rowVars, Waiting, Closed
  <2>3. ASSUME NEW q \in Row, q # r, st[q] = "claimed"
        PROVE  st'[q] = st[q] /\ key'[q] = key[q]
    BY <1>6, <2>3, ParkStep DEF Released, rowVars
  <2>4. attempts' = attempts /\ lock' = lock
    BY <1>6, ParkStep DEF Released, rowVars
  <2> QED BY <2>1, <2>2, <2>3, <2>4 DEF GuardHolds
<1>7. ASSUME NEW r \in Row, Revive(r) PROVE GuardHolds'
    BY <1>7, JobAssumption, KeyAssumption DEF TypeOK, GuardHolds, Leased, Revive,
       Waiting
<1>8. ASSUME NEW d \in Drainer, Discover(d) PROVE GuardHolds'
    BY <1>8, JobAssumption, KeyAssumption DEF TypeOK, GuardHolds, Leased, Discover,
       rowVars
<1>9. ASSUME NEW d \in Drainer, NEW k \in Key, TryKey(d, k) PROVE GuardHolds'
    BY <1>9, JobAssumption, KeyAssumption DEF TypeOK, GuardHolds, Leased, TryKey,
       rowVars
<1>10. ASSUME NEW d \in Drainer, Claim(d) PROVE GuardHolds'
  <2>1. PICK some \in SUBSET Offered(d) :
             /\ st' = [r \in Row |-> IF r \in some THEN "claimed" ELSE st[r]]
             /\ live' = [r \in Row |-> r \in some \/ live[r]]
             /\ attempts' = [r \in Row |-> IF r \in some THEN attempts[r] + 1
                                                          ELSE attempts[r]]
             /\ exec' = [r \in Row |-> IF r \in some
                           THEN [exec[r] EXCEPT ![attempts[r] + 1] = "run"] ELSE exec[r]]
             /\ lock' = [k \in Key |-> IF lock[k] = d THEN None ELSE lock[k]]
             /\ cand' = [cand EXCEPT ![d] = {None}]
             /\ UNCHANGED <<key, pos, now, effected>>
    BY <1>10, ClaimStep
  <2>2. \A q \in some : /\ q \in Row /\ Claimable(q) /\ ~InGuard(q)
                       /\ attempts[q] < Budget(q) /\ Budget(q) <= Ceiling
                       /\ attempts[q] \in Nat /\ attempts[q] + 1 \in Token
    BY <2>1, OfferedStep
  <2>3. ASSUME NEW q \in Row, NEW b \in Token, exec'[q][b] = "guard"
        PROVE  q \notin some /\ exec[q][b] = "guard"
    BY <2>1, <2>2, <2>3 DEF TypeOK, GuardHolds, InGuard
  <2>4. \A p \in some : key[p] = None \/ lock[key[p]] = d
    BY DEF Offered, Held
  <2>5. ASSUME NEW q \in Row, Leased(q)' PROVE q \in some \/ Leased(q)
    BY <2>1, <2>5 DEF TypeOK, Leased
  <2>6. ASSUME NEW q \in Row, NEW b \in Token, exec'[q][b] = "guard"
        PROVE  /\ st'[q] = "claimed" /\ attempts'[q] = b
               /\ key'[q] # None /\ lock'[key'[q]] = q
               /\ \A p \in Row : p # q /\ key'[p] = key'[q] => ~Leased(p)'
    <3>1. q \notin some /\ exec[q][b] = "guard"
      BY <2>3, <2>6
    <3>2. /\ st[q] = "claimed" /\ attempts[q] = b /\ key[q] # None /\ lock[key[q]] = q
          /\ \A p \in Row : p # q /\ key[p] = key[q] => ~Leased(p)
      BY <3>1 DEF GuardHolds
    <3>3. q # d /\ key[q] \in Key
      BY <3>2, JobAssumption DEF TypeOK
    <3>4. \A p \in some : key[p] # key[q]
      BY <2>4, <3>2, <3>3
    <3> QED BY <2>1, <2>5, <3>1, <3>2, <3>3, <3>4
  <2> QED BY <2>6 DEF GuardHolds
<1>11. ASSUME NEW d \in Drainer, ClaimFails(d) PROVE GuardHolds'
    BY <1>11, JobAssumption, KeyAssumption DEF TypeOK, GuardHolds, Leased, ClaimFails,
       rowVars
<1>12. ASSUME NEW r \in Row, NEW a \in Token, Effect(r, a) PROVE GuardHolds'
    BY <1>12, JobAssumption, KeyAssumption DEF TypeOK, GuardHolds, Leased, Effect,
       Becomes, rowVars
<1>13. ASSUME NEW r \in Row, NEW a \in Token, StandDown(r, a) PROVE GuardHolds'
    BY <1>13, JobAssumption, KeyAssumption DEF TypeOK, GuardHolds, Leased, StandDown,
       Becomes, rowVars
<1>14. ASSUME NEW r \in Row, NEW a \in Token, EnterGuard(r, a) PROVE GuardHolds'
  <2>1. key[r] \in Key /\ lock[key[r]] = None /\ Leased(r) /\ attempts[r] = a
    BY <1>14, ChainTyped DEF EnterGuard, Owns
  <2>2. exec' = [exec EXCEPT ![r][a] = "guard"] /\ lock' = [lock EXCEPT ![key[r]] = r]
        /\ UNCHANGED rowVars
    BY <1>14 DEF EnterGuard, Becomes
  <2>3. ASSUME NEW q \in Row, NEW b \in Token, exec'[q][b] = "guard"
        PROVE  /\ st[q] = "claimed" /\ attempts[q] = b
               /\ key[q] # None /\ lock'[key[q]] = q
               /\ \A p \in Row : p # q /\ key[p] = key[q] => ~Leased(p)
    <3>1. CASE q = r /\ b = a
      BY <2>1, <2>2, <3>1, KeyAssumption DEF TypeOK, Leased, OneLeasePerKey
    <3>2. CASE ~(q = r /\ b = a)
      <4>1. exec[q][b] = "guard"
        BY <2>2, <2>3, <3>2 DEF TypeOK
      <4>2. lock[key[q]] = q /\ q # None /\ key[q] \in Key
        BY <4>1, KeyAssumption DEF TypeOK, GuardHolds
      <4>3. lock'[key[q]] = q
        BY <2>1, <2>2, <4>2 DEF TypeOK
      <4> QED BY <4>1, <4>3 DEF GuardHolds
    <3> QED BY <3>1, <3>2
  <2> QED BY <2>2, <2>3 DEF GuardHolds, Leased, rowVars
<1>15. ASSUME NEW r \in Row, NEW a \in Token, ExitGuard(r, a) PROVE GuardHolds'
    BY <1>15, JobAssumption, KeyAssumption DEF TypeOK, GuardHolds, Leased, ExitGuard,
       Becomes
<1>16. ASSUME NEW r \in Row, NEW a \in Token, BreakGuard(r, a) PROVE GuardHolds'
    BY <1>16, JobAssumption, KeyAssumption DEF TypeOK, GuardHolds, Leased, BreakGuard,
       Becomes, rowVars
<1>17. ASSUME NEW r \in Row, NEW a \in Token, Ends(r, a) PROVE GuardHolds'
  <2>1. ASSUME NEW q \in Row, NEW b \in Token, exec'[q][b] = "guard"
        PROVE  exec[q][b] = "guard"
    <3>1. PICK p \in {"none", "out"} : exec' = [exec EXCEPT ![r][a] = p]
      BY <1>17, EndStep
    <3> QED BY <2>1, <3>1 DEF TypeOK
  <2>2. exec[r][a] # "guard" /\ attempts' = attempts /\ lock' = lock
    BY <1>17, EndStep DEF Released, rowVars
  <2>3. ASSUME NEW q \in Row, Leased(q)' PROVE Leased(q) /\ key'[q] = key[q]
    BY <1>17, <2>3, EndStep DEF Released, Leased, rowVars, Waiting, Closed
  <2>4. ASSUME NEW q \in Row, NEW b \in Token, exec[q][b] = "guard"
        PROVE  st'[q] = st[q] /\ key'[q] = key[q]
    <3>1. st[q] = "claimed" /\ attempts[q] = b
      BY <2>4 DEF GuardHolds
    <3>2. CASE UNCHANGED rowVars
      BY <3>2 DEF rowVars
    <3>3. CASE Current(r, a) /\ Released(r)
      <4>1. q # r
        BY <2>2, <2>4, <3>1, <3>3 DEF Current
      <4> QED BY <3>1, <3>3, <4>1 DEF Released
    <3> QED BY <1>17, <3>2, <3>3, EndStep
  <2> QED BY <2>1, <2>2, <2>3, <2>4 DEF GuardHolds
<1>18. ASSUME NEW r \in Row, NEW a \in Token, Die(r, a) PROVE GuardHolds'
    BY <1>18, JobAssumption, KeyAssumption DEF TypeOK, GuardHolds, Leased, Die, Becomes,
       rowVars
<1>19. CASE UNCHANGED vars
    BY <1>19, JobAssumption, KeyAssumption DEF TypeOK, GuardHolds, Leased, vars,
       Becomes, rowVars, Waiting
<1> QED BY <1>1, <1>2, <1>3, <1>4, <1>5, <1>6, <1>7, <1>8, <1>9, <1>10, <1>11, <1>12,
   <1>13, <1>14, <1>15, <1>16, <1>17, <1>18, <1>19 DEF Next, Works, Ends, Drains, Sweeps

\* The outbox is empty.
LEMMA InitIInv == Init => IInv
    BY JobAssumption, KeyAssumption, LimitAssumption
    DEF Init, IInv, TypeOK, LeaseBudget, LeaseLeft, Budget, TokensSpent, OneLeasePerKey,
        GuardHolds, Leased, Row, Waiting, Closed

\* Every step keeps the invariant.
LEMMA NextIInv == IInv /\ [Next]_vars => IInv'
    BY TypeStep, BudgetStep, LeftStep, TokensStep, OneLeaseStep, GuardStep DEF IInv

\* The inductive invariant: types, lease budgets, minted tokens, one lease per
\* key, and what a teardown guard stands on.
THEOREM IInvHolds == Spec => []IInv
    BY InitIInv, NextIInv, PTL DEF Spec

\* Every state is well typed: no claim mints a token past the ceiling.
THEOREM TypeCorrect == Spec => []TypeOK
    BY IInvHolds, PTL DEF IInv

\* Two jobs of one chain never hold live leases at once (claim_outbox_jobs).
THEOREM OneLeaseTheorem == Spec => []OneLeasePerKey
    BY IInvHolds, PTL DEF IInv

\* However its executors crash, lapse, defer or requeue it, a job costs no more
\* leases than its budget (park_exhausted_jobs, revive_dead_cleanup_jobs).
THEOREM BudgetTheorem == Spec => []LeaseBudget
    BY IInvHolds, PTL DEF IInv

\* A teardown runs alone on its chain even if its lease lapses under it
\* (fenced_job_guard): the guard of the second row would need the same lock.
THEOREM GuardTheorem == Spec => []GuardAlone
<1>1. IInv => GuardAlone
  <2> SUFFICES ASSUME IInv, NEW r \in Row, InGuard(r)
               PROVE  /\ st[r] = "claimed" /\ exec[r][attempts[r]] = "guard"
                      /\ \A q \in Row : q # r /\ key[q] = key[r] => ~Leased(q) /\ ~InGuard(q)
    BY DEF GuardAlone
  <2>1. PICK a \in Token : exec[r][a] = "guard"
    BY DEF InGuard
  <2>2. /\ st[r] = "claimed" /\ attempts[r] = a /\ lock[key[r]] = r
        /\ \A q \in Row : q # r /\ key[q] = key[r] => ~Leased(q)
    BY <2>1 DEF IInv, GuardHolds
  <2>3. \A q \in Row : InGuard(q) => lock[key[q]] = q
    BY DEF IInv, GuardHolds, InGuard
  <2> QED BY <2>1, <2>2, <2>3
<1> QED BY <1>1, IInvHolds, PTL

\* Every claim mints a token no executor holds, so the token of an executor
\* that outlived its claim never becomes current again (ack_outbox_job).
THEOREM FreshTheorem == Spec => FreshTokens
<1>1. ASSUME IInv, [Next]_vars
      PROVE  \A r \in Row : attempts'[r] # attempts[r] =>
                attempts'[r] > attempts[r] /\ exec[r][attempts'[r]] = "none"
  <2>0. TypeOK /\ LeaseBudget /\ LeaseLeft /\ TokensSpent
    BY <1>1 DEF IInv
  <2>1. ASSUME NEW d \in Drainer, Claim(d), NEW r \in Row, attempts'[r] # attempts[r]
        PROVE  attempts'[r] > attempts[r] /\ exec[r][attempts'[r]] = "none"
    <3>1. PICK some \in SUBSET Offered(d) :
            attempts' = [q \in Row |-> IF q \in some THEN attempts[q] + 1 ELSE attempts[q]]
      BY <2>0, <2>1, ClaimStep
    <3>2. r \in Offered(d) /\ attempts'[r] = attempts[r] + 1
      BY <2>1, <3>1
    <3>3. attempts[r] \in Nat /\ attempts[r] + 1 \in Token
      BY <2>0, <3>2, OfferedStep
    <3>4. exec[r][attempts[r] + 1] = "none"
      BY <2>0, <3>2, <3>3 DEF TokensSpent, TypeOK, Offered
    <3> QED BY <3>2, <3>3, <3>4
  <2>2. ASSUME NEW r \in Row, Park(r) PROVE attempts' = attempts
    BY <2>2 DEF Park
  <2>3. ASSUME NEW r \in Row, NEW a \in Token, Ends(r, a) PROVE attempts' = attempts
    BY <2>0, <2>3, EndStep DEF Released, rowVars
  <2>4. CASE UNCHANGED attempts
    BY <2>4
  <2>5. CASE \E j \in Job : BeginFinalize(j) \/ CommitFinalize(j)
    BY <2>5 DEF BeginFinalize, CommitFinalize
  <2>6. CASE Release
    BY <2>6 DEF Release
  <2>7. CASE \E r \in Row : Sweeps(r)
    BY <2>2, <2>7 DEF Sweeps, BackoffEnds, LeaseLapses, Revive
  <2>8. CASE \E d \in Drainer : Drains(d)
    BY <2>1, <2>8 DEF Drains, Discover, TryKey, ClaimFails, rowVars
  <2>9. CASE \E r \in Row, a \in Token : Works(r, a) \/ Die(r, a)
    BY <2>3, <2>9
    DEF Works, Ends, Effect, StandDown, EnterGuard, ExitGuard, BreakGuard, Die, rowVars
  <2> QED BY <1>1, <2>4, <2>5, <2>6, <2>7, <2>8, <2>9 DEF Next, vars, rowVars
<1> QED BY <1>1, IInvHolds, PTL DEF Spec, FreshTokens

-----------------------------------------------------------------------------
(* What a dead report_back owes.                                             *)

\* A compensation belongs to one report_back, and to its chain.
LEMMA CompensationOf ==
    ASSUME NEW r \in ReportBack
    PROVE  /\ ClearOf[r] \in Clear /\ ClearOf[r] \in Row /\ ClearOf[r] \notin Job
           /\ ClearOf[r] \notin ReportBack /\ r \in Job /\ r \in Row
           /\ \A q \in ReportBack : ClearOf[q] = ClearOf[r] => q = r
           /\ Chain(ClearOf[r]) = ChainOf[r]
<1>1. /\ ClearOf[r] \in Clear /\ ClearOf[r] \in Row /\ ClearOf[r] \notin Job
      /\ ClearOf[r] \notin ReportBack /\ r \in Job /\ r \in Row
      /\ \A q \in ReportBack : ClearOf[q] = ClearOf[r] => q = r
    BY JobAssumption, ClearAssumption DEF Row
<1>2. (CHOOSE j \in ReportBack : ClearOf[j] = ClearOf[r]) = r
    BY <1>1
<1> QED BY <1>1, <1>2 DEF Chain

\* A transition out of a claim by way of Leaves keeps what is owed.
LEMMA LeavesOwes ==
    ASSUME TypeOK, CleanupOwed, NEW r \in Row, NEW s \in Waiting \cup Closed,
           st[r] = "claimed", Leaves(r, s)
    PROVE  CleanupOwed'
<1> SUFFICES ASSUME NEW q \in ReportBack
             PROVE  /\ key'[q] # None /\ st'[ClearOf[q]] # "txn"
                    /\ st'[q] # "dead" => st'[ClearOf[q]] = "absent"
                    /\ st'[q] = "dead" =>
                         /\ st'[ClearOf[q]] # "absent"
                         /\ \/ key'[ClearOf[q]] = key'[q] /\ pos'[ClearOf[q]] = pos'[q]
                            \/ key'[ClearOf[q]] = ChainOf[q] /\ key'[ClearOf[q]] # key'[q]
    BY DEF CleanupOwed
<1>1. /\ ClearOf[q] \in Row /\ q \in Row /\ ClearOf[q] # q /\ ClearOf[q] \notin ReportBack
      /\ r \in ReportBack => ClearOf[r] \in Row /\ ClearOf[r] # q /\ ClearOf[r] # r
      /\ r \in ReportBack /\ ClearOf[r] = ClearOf[q] => r = q
    BY CompensationOf
<1>2. /\ key[q] # None /\ st[ClearOf[q]] # "txn"
      /\ st[q] # "dead" => st[ClearOf[q]] = "absent"
      /\ st[q] = "dead" =>
           /\ st[ClearOf[q]] # "absent"
           /\ \/ key[ClearOf[q]] = key[q] /\ pos[ClearOf[q]] = pos[q]
              \/ key[ClearOf[q]] = ChainOf[q] /\ key[ClearOf[q]] # key[q]
    BY DEF CleanupOwed
<1>3. s \notin {"absent", "txn"}
    BY DEF Waiting, Closed
<1>4. CASE s = "dead" /\ r \in ReportBack /\ st[ClearOf[r]] = "absent"
  <2>1. /\ st' = [st EXCEPT ![r] = s, ![ClearOf[r]] = "pending"]
        /\ key' = [key EXCEPT ![ClearOf[r]] = key[r]]
        /\ pos' = [pos EXCEPT ![ClearOf[r]] = pos[r]]
    BY <1>4 DEF Leaves
  <2> QED BY <1>1, <1>2, <1>4, <2>1 DEF TypeOK
<1>5. CASE ~(s = "dead" /\ r \in ReportBack /\ st[ClearOf[r]] = "absent")
  <2>1. st' = [st EXCEPT ![r] = s] /\ UNCHANGED <<key, pos>>
    BY <1>5 DEF Leaves
  <2> QED BY <1>1, <1>2, <1>3, <1>5, <2>1 DEF TypeOK
<1> QED BY <1>4, <1>5

\* So does a requeue: it takes the row, and what it comes to owe, to one place.
LEMMA RequeueOwes ==
    ASSUME TypeOK, CleanupOwed, NEW r \in Row, NEW a \in Token, Requeue(r, a), Current(r, a)
    PROVE  CleanupOwed'
<1> SUFFICES ASSUME NEW q \in ReportBack
             PROVE  /\ key'[q] # None /\ st'[ClearOf[q]] # "txn"
                    /\ st'[q] # "dead" => st'[ClearOf[q]] = "absent"
                    /\ st'[q] = "dead" =>
                         /\ st'[ClearOf[q]] # "absent"
                         /\ \/ key'[ClearOf[q]] = key'[q] /\ pos'[ClearOf[q]] = pos'[q]
                            \/ key'[ClearOf[q]] = ChainOf[q] /\ key'[ClearOf[q]] # key'[q]
    BY DEF CleanupOwed
<1> DEFINE dies == attempts[r] >= MaxAttempts
           owes == dies /\ r \in ReportBack /\ st[ClearOf[r]] = "absent"
<1>1. /\ ClearOf[q] \in Row /\ q \in Row /\ ClearOf[q] # q /\ ClearOf[q] \notin ReportBack
      /\ r \in ReportBack => ClearOf[r] \in Row /\ ClearOf[r] # q /\ ClearOf[r] # r
      /\ r \in ReportBack /\ ClearOf[r] = ClearOf[q] => r = q
      /\ Chain(ClearOf[q]) = ChainOf[q]
    BY CompensationOf
<1>2. /\ key[q] # None /\ st[ClearOf[q]] # "txn"
      /\ st[q] # "dead" => st[ClearOf[q]] = "absent"
      /\ st[q] = "dead" =>
           /\ st[ClearOf[q]] # "absent"
           /\ \/ key[ClearOf[q]] = key[q] /\ pos[ClearOf[q]] = pos[q]
              \/ key[ClearOf[q]] = ChainOf[q] /\ key[ClearOf[q]] # key[q]
    BY DEF CleanupOwed
<1>3. /\ st' = [p \in Row |-> IF p = r THEN IF dies THEN "dead" ELSE "pending"
                              ELSE IF owes /\ p = ClearOf[r] THEN "pending" ELSE st[p]]
      /\ key' = [p \in Row |-> IF p = r \/ (owes /\ p = ClearOf[r]) THEN Chain(r)
                                                                   ELSE key[p]]
      /\ pos' = [p \in Row |-> IF p = r \/ (owes /\ p = ClearOf[r]) THEN now + 1
                                                                   ELSE pos[p]]
      /\ r \in Fenced /\ key[r] # Chain(r) /\ st[r] = "claimed"
    BY DEF Requeue, Current
<1>4. Chain(r) # None
    BY <1>3, ChainTyped, KeyAssumption
<1> HIDE DEF dies
<1>5. CASE q = r
    BY <1>1, <1>2, <1>3, <1>4, <1>5
<1>6. CASE ClearOf[q] = r
    BY <1>1, <1>2, <1>3, <1>6
<1>7. CASE q # r /\ ClearOf[q] # r
    BY <1>1, <1>2, <1>3, <1>7
<1> QED BY <1>5, <1>6, <1>7

\* Every step keeps what is owed: only a death creates a compensation.
LEMMA OwedStep ==
    ASSUME TypeOK, CleanupOwed, [Next]_vars
    PROVE  CleanupOwed'
<1>1. \A q \in ReportBack : /\ ClearOf[q] \in Row /\ q \in Row /\ ClearOf[q] \notin Job
                            /\ ClearOf[q] # q /\ ClearOf[q] \notin TaskBack
    BY CompensationOf, JobAssumption
<1>2. CASE UNCHANGED <<st, key, pos>>
    BY <1>2 DEF CleanupOwed
<1>3. ASSUME NEW j \in Job, BeginFinalize(j) \/ CommitFinalize(j) PROVE CleanupOwed'
    BY <1>1, <1>3 DEF BeginFinalize, CommitFinalize, CleanupOwed, TypeOK
<1>4. CASE Release
    BY <1>1, <1>4 DEF Release, CleanupOwed, TypeOK
<1>5. ASSUME NEW r \in Row, BackoffEnds(r) PROVE CleanupOwed'
    BY <1>1, <1>5 DEF BackoffEnds, CleanupOwed, TypeOK
<1>6. ASSUME NEW r \in Row, Revive(r) PROVE CleanupOwed'
  <2>1. r \notin ReportBack
    BY <1>6, JobAssumption DEF Revive, Cleanup
  <2> QED BY <1>1, <1>6, <2>1 DEF Revive, CleanupOwed, TypeOK
<1>7. ASSUME NEW r \in Row, Park(r) PROVE CleanupOwed'
    BY <1>7, LeavesOwes DEF Park, Lapsed, Closed
<1>8. ASSUME NEW d \in Drainer, Claim(d) PROVE CleanupOwed'
  <2>1. PICK some \in SUBSET Offered(d) :
          /\ st' = [r \in Row |-> IF r \in some THEN "claimed" ELSE st[r]]
          /\ UNCHANGED <<key, pos>>
    BY <1>8, ClaimStep
  <2>2. \A r \in some : r \in Row /\ st[r] \in {"pending", "claimed"}
    BY <2>1 DEF Offered, Claimable, Due, Lapsed
  <2> QED BY <1>1, <2>1, <2>2 DEF CleanupOwed
<1>9. ASSUME NEW r \in Row, NEW a \in Token, Ends(r, a) PROVE CleanupOwed'
  <2>1. CASE ~Current(r, a)
    BY <1>2, <1>9, <2>1, EndStep DEF rowVars
  <2>2. CASE Current(r, a) /\ Requeue(r, a)
    BY <2>2, RequeueOwes
  <2>3. CASE Current(r, a) /\ ~Requeue(r, a)
    <3>1. \E s \in Waiting \cup Closed : Leaves(r, s)
      BY <1>9, <2>3 DEF Ends, Ack, Nack, Defer, Waiting, Closed
    <3> QED BY <2>3, <3>1, LeavesOwes DEF Current
  <2> QED BY <2>1, <2>2, <2>3
<1>10. ASSUME NEW r \in Row, NEW a \in Token, Works(r, a) \/ Die(r, a)
       PROVE  Ends(r, a) \/ UNCHANGED <<st, key, pos>>
    BY <1>10 DEF Works, Ends, Effect, StandDown, EnterGuard, ExitGuard, BreakGuard, Die, rowVars
<1>11. CASE \E r \in Row : Sweeps(r)
    BY <1>2, <1>5, <1>6, <1>7, <1>11 DEF Sweeps, LeaseLapses
<1>12. CASE \E d \in Drainer : Drains(d)
    BY <1>2, <1>8, <1>12 DEF Drains, Discover, TryKey, ClaimFails, rowVars
<1>13. CASE \E r \in Row, a \in Token : Works(r, a) \/ Die(r, a)
    BY <1>2, <1>9, <1>10, <1>13
<1> QED BY <1>2, <1>3, <1>4, <1>11, <1>12, <1>13 DEF Next, vars, rowVars

\* What a dead report_back owes exists, and stands where it died or on the
\* chain the two belong to.
LEMMA OwedHolds == Spec => []CleanupOwed
<1>1. Init => CleanupOwed
  <2> SUFFICES ASSUME Init, NEW r \in ReportBack
               PROVE  key[r] # None /\ st[ClearOf[r]] = "absent" /\ st[r] = "absent"
    BY DEF CleanupOwed
  <2> QED BY CompensationOf, KeyAssumption DEF Init
<1>2. IInv /\ CleanupOwed /\ [Next]_vars => CleanupOwed'
    BY OwedStep DEF IInv
<1> QED BY <1>1, <1>2, IInvHolds, PTL DEF Spec

\* Leases are handed out by claims alone, of rows nothing older of their chain
\* stands before.
LEMMA LeaseStep ==
    ASSUME IInv, [Next]_vars, NEW r \in Row, attempts'[r] # attempts[r]
    PROVE  Claimable(r)
<1>0. TypeOK /\ LeaseBudget /\ LeaseLeft
    BY DEF IInv
<1>1. ASSUME NEW d \in Drainer, Claim(d) PROVE Claimable(r)
  <2>1. PICK some \in SUBSET Offered(d) :
          attempts' = [q \in Row |-> IF q \in some THEN attempts[q] + 1 ELSE attempts[q]]
    BY <1>0, <1>1, ClaimStep
  <2> QED BY <1>0, <2>1, OfferedStep
<1>2. attempts' # attempts
    OBVIOUS
<1>3. ASSUME NEW q \in Row, NEW a \in Token, Ends(q, a) PROVE attempts' = attempts
    BY <1>0, <1>3, EndStep DEF Released, rowVars
<1>4. ~\E j \in Job : BeginFinalize(j) \/ CommitFinalize(j)
    BY <1>2 DEF BeginFinalize, CommitFinalize
<1>5. ~Release /\ ~\E q \in Row : Sweeps(q)
    BY <1>2 DEF Release, Sweeps, BackoffEnds, LeaseLapses, Park, Revive
<1>6. ~\E q \in Row, a \in Token : Works(q, a) \/ Die(q, a)
    BY <1>2, <1>3
    DEF Works, Ends, Effect, StandDown, EnterGuard, ExitGuard, BreakGuard, Die, rowVars
<1>7. \E d \in Drainer : Drains(d)
    BY <1>2, <1>4, <1>5, <1>6 DEF Next, vars, rowVars
<1> QED BY <1>1, <1>2, <1>7 DEF Drains, Discover, TryKey, ClaimFails, rowVars

\* No job behind a dead report_back is leased before the compensation that
\* park_exhausted_jobs or nack_outbox_job left at its place has closed.
THEOREM CleanupTheorem == Spec => CleanupFirst
<1>1. ASSUME IInv, CleanupOwed, [Next]_vars, NEW r \in ReportBack, NEW s \in Row,
             st[r] = "dead", s # ClearOf[r], key[s] = key[r], pos[r] < pos[s],
             attempts'[s] # attempts[s]
      PROVE  st[ClearOf[r]] \in Closed
             \/ (st[ClearOf[r]] # "absent" /\ key[ClearOf[r]] # key[r])
  <2> DEFINE c == ClearOf[r]
  <2>1. c \in Row
    BY CompensationOf
  <2>2. /\ key[r] # None /\ st[c] # "txn" /\ st[c] # "absent"
        /\ key[c] = key[r] => pos[c] = pos[r]
    BY <1>1 DEF CleanupOwed
  <2>3. ASSUME key[c] = key[r] PROVE st[c] \in Closed
    <3>1. ~Blocks(c, s)
      BY <1>1, <2>1, <2>2, LeaseStep DEF Claimable
    <3>2. Older(c, s)
      BY <1>1, <2>2, <2>3 DEF Older
    <3>3. st[c] \notin Waiting /\ st[c] # "claimed"
      BY <1>1, <2>3, <3>1, <3>2 DEF Blocks, Leased, Lapsed
    <3> QED BY <1>1, <2>1, <2>2, <3>3 DEF IInv, TypeOK
  <2> QED BY <2>2, <2>3
<1>2. IInv /\ CleanupOwed /\ [Next]_vars =>
        [\A r \in ReportBack, s \in Row :
           LET c == ClearOf[r] IN
           /\ st[r] = "dead" /\ s # c /\ key[s] = key[r] /\ pos[r] < pos[s]
           /\ attempts'[s] # attempts[s]
           => st[c] \in Closed \/ (st[c] # "absent" /\ key[c] # key[r])]_vars
    BY <1>1
<1> QED BY <1>2, IInvHolds, OwedHolds, PTL DEF Spec, CleanupFirst
-----------------------------------------------------------------------------
(* Where a requeued job stands in its chain.                                 *)

\* A transition out of a claim takes no place but that of a dead report_back.
LEMMA LeavesTail ==
    ASSUME TypeOK, TailHeld, NEW r \in Row, NEW s \in Waiting \cup Closed,
           st[r] = "claimed", Leaves(r, s)
    PROVE  TailHeld'
<1>1. s \notin {"absent", "txn", "claimed"}
    BY DEF Waiting, Closed
<1>2. CASE s = "dead" /\ r \in ReportBack /\ st[ClearOf[r]] = "absent"
  <2> DEFINE c == ClearOf[r]
  <2>1. /\ st' = [st EXCEPT ![r] = s, ![c] = "pending"] /\ key' = [key EXCEPT ![c] = key[r]]
        /\ pos' = [pos EXCEPT ![c] = pos[r]] /\ now' = now
    BY <1>2 DEF Leaves
  <2>2. c \in Row /\ c \notin ReportBack /\ c # r
    BY <1>2, CompensationOf
  <2>3. \A p \in Row : pos'[p] <= now'
    BY <2>1, <2>2 DEF TypeOK, TailHeld
  <2>4. ASSUME NEW p \in ReportBack, st'[p] \in {"absent", "txn"} PROVE key'[p] = KeyOf[p]
    BY <1>1, <2>1, <2>2, <2>4, CompensationOf DEF TypeOK, TailHeld
  <2>5. ASSUME NEW p \in ReportBack, NEW q \in Row, p # q, key'[p] # KeyOf[p],
               key'[q] = key'[p], st'[p] \notin Closed, st'[q] = "claimed"
        PROVE  Older(q, p)'
    <3>1. p \in Row /\ p # c /\ q # c /\ q # r /\ p # r
      BY <1>1, <1>2, <2>1, <2>2, <2>5, CompensationOf DEF TypeOK, Closed
    <3>2. Older(q, p)
      BY <2>1, <2>2, <2>5, <3>1 DEF TypeOK, TailHeld
    <3> QED BY <2>1, <2>2, <3>1, <3>2 DEF TypeOK, Older
  <2> QED BY <2>3, <2>4, <2>5 DEF TailHeld
<1>3. CASE ~(s = "dead" /\ r \in ReportBack /\ st[ClearOf[r]] = "absent")
  <2>1. st' = [st EXCEPT ![r] = s] /\ UNCHANGED <<key, pos, now>>
    BY <1>3 DEF Leaves
  <2>2. ASSUME NEW p \in Row PROVE /\ st'[p] = "claimed" => st[p] = "claimed"
                                   /\ st'[p] \notin Closed => st[p] \notin Closed
                                   /\ st'[p] \in {"absent", "txn"} => st[p] = st'[p]
    BY <1>1, <2>1 DEF TypeOK, Closed
  <2> QED BY <2>1, <2>2, CompensationOf DEF TailHeld, Older
<1> QED BY <1>2, <1>3

\* A requeue goes behind every row there is.
LEMMA RequeueTail ==
    ASSUME TypeOK, TailHeld, NEW r \in Row, NEW a \in Token, Requeue(r, a), Current(r, a)
    PROVE  TailHeld'
<1> DEFINE c == ClearOf[r]
           dies == attempts[r] >= MaxAttempts
           owes == dies /\ r \in ReportBack /\ st[c] = "absent"
<1>1. /\ st' = [p \in Row |-> IF p = r THEN IF dies THEN "dead" ELSE "pending"
                              ELSE IF owes /\ p = c THEN "pending" ELSE st[p]]
      /\ key' = [p \in Row |-> IF p = r \/ (owes /\ p = c) THEN Chain(r) ELSE key[p]]
      /\ pos' = [p \in Row |-> IF p = r \/ (owes /\ p = c) THEN now + 1 ELSE pos[p]]
      /\ now' = now + 1
    BY DEF Requeue, Current
<1>2. owes => c \in Row /\ c \notin ReportBack /\ c # r
    BY CompensationOf
<1> HIDE DEF dies, owes, c
<1>3. \A p \in Row : pos'[p] <= now'
    BY <1>1 DEF TypeOK, TailHeld
<1>4. ASSUME NEW p \in ReportBack, st'[p] \in {"absent", "txn"} PROVE key'[p] = KeyOf[p]
    BY <1>1, <1>2, <1>4, CompensationOf DEF TailHeld
<1>5. ASSUME NEW p \in ReportBack, NEW q \in Row, p # q, key'[p] # KeyOf[p],
             key'[q] = key'[p], st'[p] \notin Closed, st'[q] = "claimed"
      PROVE  Older(q, p)'
  <2>1. p \in Row /\ ~(owes /\ p = c) /\ q # r /\ ~(owes /\ q = c) /\ st[q] = "claimed"
    BY <1>1, <1>2, <1>5, CompensationOf
  <2>2. CASE p = r
    BY <1>1, <2>1, <2>2 DEF TypeOK, TailHeld, Older
  <2>3. CASE p # r
    <3>1. Older(q, p)
      BY <1>1, <1>5, <2>1, <2>3 DEF TailHeld
    <3> QED BY <1>1, <2>1, <2>3, <3>1 DEF Older
  <2> QED BY <2>2, <2>3
<1> QED BY <1>3, <1>4, <1>5 DEF TailHeld

\* Every step keeps requeued jobs behind what had started.
LEMMA TailStep ==
    ASSUME TypeOK, CleanupOwed, TailHeld, [Next]_vars
    PROVE  TailHeld'
<1>1. \A p \in ReportBack : p \in Row /\ p \in Job /\ p \notin TaskBack /\ p \notin Cleanup
    BY CompensationOf, JobAssumption DEF Cleanup
<1>2. CASE UNCHANGED <<st, key, pos, now>>
    BY <1>2 DEF TailHeld, Older
<1>3. ASSUME NEW j \in Job, BeginFinalize(j) PROVE TailHeld'
  <2>1. /\ st[j] = "absent" /\ st' = [st EXCEPT ![j] = "txn"] /\ now' = now + 1
        /\ pos' = [pos EXCEPT ![j] = now + 1] /\ key' = key /\ j \in Row
    BY <1>3 DEF BeginFinalize, Row
  <2>2. ASSUME NEW p \in ReportBack, NEW q \in Row, p # q, key[p] # KeyOf[p],
               key[q] = key[p], st'[p] \notin Closed, st'[q] = "claimed"
        PROVE  Older(q, p)'
    <3>1. p # j /\ q # j
      BY <1>1, <2>1, <2>2 DEF TypeOK, TailHeld
    <3> QED BY <1>1, <2>1, <2>2, <3>1 DEF TypeOK, TailHeld, Older
  <2>3. \A p \in Row : pos'[p] <= now'
    BY <2>1 DEF TypeOK, TailHeld
  <2>4. ASSUME NEW p \in ReportBack, st'[p] \in {"absent", "txn"} PROVE key[p] = KeyOf[p]
    BY <1>1, <2>1, <2>4 DEF TypeOK, TailHeld
  <2> QED BY <2>1, <2>2, <2>3, <2>4 DEF TailHeld
<1>4. ASSUME NEW j \in Job, CommitFinalize(j) PROVE TailHeld'
  <2>1. PICK s \in {"pending", "deferred"} : st' = [st EXCEPT ![j] = s]
    BY <1>4 DEF CommitFinalize
  <2>2. st[j] = "txn" /\ j \in Row /\ UNCHANGED <<key, pos, now>>
    BY <1>4 DEF CommitFinalize, Row
  <2>3. ASSUME NEW p \in Row PROVE /\ st'[p] = "claimed" => st[p] = "claimed"
                                   /\ st'[p] \notin Closed => st[p] \notin Closed
                                   /\ st'[p] \in {"absent", "txn"} => st[p] = st'[p]
    BY <2>1, <2>2 DEF TypeOK, Closed
  <2> QED BY <1>1, <2>2, <2>3 DEF TailHeld, Older
<1>5. ASSUME Release \/ (\E r \in Row : BackoffEnds(r)) PROVE TailHeld'
  <2>1. UNCHANGED <<key, pos, now>>
    BY <1>5 DEF Release, BackoffEnds
  <2>2. ASSUME NEW p \in Row PROVE /\ st'[p] = "claimed" => st[p] = "claimed"
                                   /\ st'[p] \notin Closed => st[p] \notin Closed
                                   /\ st'[p] \in {"absent", "txn"} => st[p] = st'[p]
    BY <1>5 DEF TypeOK, Closed, Release, BackoffEnds
  <2> QED BY <1>1, <2>1, <2>2 DEF TailHeld, Older
<1>6. ASSUME NEW r \in Row, Revive(r) PROVE TailHeld'
  <2>1. r \notin ReportBack /\ st' = [st EXCEPT ![r] = "pending"] /\ UNCHANGED <<key, pos, now>>
    BY <1>1, <1>6 DEF Revive
  <2>2. \A p \in ReportBack : st'[p] = st[p]
    BY <1>1, <2>1 DEF TypeOK
  <2>3. \A q \in Row : st'[q] = "claimed" => st[q] = "claimed"
    BY <2>1 DEF TypeOK
  <2> QED BY <1>1, <2>1, <2>2, <2>3 DEF TailHeld, Older
<1>7. ASSUME NEW r \in Row, Park(r) PROVE TailHeld'
    BY <1>7, LeavesTail DEF Park, Lapsed, Closed
<1>8. ASSUME NEW d \in Drainer, Claim(d) PROVE TailHeld'
  <2>1. PICK some \in SUBSET Offered(d) :
          /\ st' = [r \in Row |-> IF r \in some THEN "claimed" ELSE st[r]]
          /\ UNCHANGED <<key, pos, now>>
    BY <1>8, ClaimStep
  <2>2. \A r \in some : Claimable(r) /\ r \in Row /\ st[r] \in {"pending", "claimed"}
    BY <2>1 DEF Offered, Claimable, Due, Lapsed
  <2>3. ASSUME NEW p \in ReportBack, NEW q \in Row, p # q, key[p] # KeyOf[p],
               key[q] = key[p], st'[p] \notin Closed, st'[q] = "claimed"
        PROVE  Older(q, p)
    <3>1. st[p] \notin Closed
      BY <1>1, <2>1, <2>2, <2>3 DEF Closed
    <3>2. CASE st[q] = "claimed"
      BY <2>3, <3>1, <3>2 DEF TailHeld
    <3>3. CASE st[q] # "claimed"
      <4>1. q \in some
        BY <2>1, <2>3, <3>3
      <4>2. key[q] # None => ~Blocks(p, q)
        BY <1>1, <2>2, <4>1 DEF Claimable
      <4>3. st[p] \notin {"absent", "txn"}
        BY <2>3 DEF TailHeld
      <4>4. st[p] \in Waiting \cup {"claimed"}
        BY <1>1, <3>1, <4>3 DEF TypeOK
      <4>5. ASSUME key[q] # None PROVE ~Older(p, q)
        BY <1>1, <2>3, <4>2, <4>4, <4>5 DEF Blocks, Leased, Lapsed
      <4>6. key[q] # None
        BY <2>3 DEF CleanupOwed
      <4>7. pos[p] \in Nat /\ pos[q] \in Nat /\ Id[p] \in Nat /\ Id[q] \in Nat /\ Id[p] # Id[q]
        BY <1>1, <2>3, IdAssumption DEF TypeOK
      <4> QED BY <4>5, <4>6, <4>7 DEF Older
    <3> QED BY <3>2, <3>3
  <2>4. ASSUME NEW p \in ReportBack, st'[p] \in {"absent", "txn"} PROVE key[p] = KeyOf[p]
    BY <1>1, <2>1, <2>4 DEF TailHeld
  <2> QED BY <2>1, <2>3, <2>4 DEF TailHeld, Older
<1>9. ASSUME NEW r \in Row, NEW a \in Token, Ends(r, a) PROVE TailHeld'
  <2>1. CASE ~Current(r, a)
    BY <1>2, <1>9, <2>1, EndStep DEF rowVars
  <2>2. CASE Current(r, a) /\ Requeue(r, a)
    BY <2>2, RequeueTail
  <2>3. CASE Current(r, a) /\ ~Requeue(r, a)
    <3>1. \E s \in Waiting \cup Closed : Leaves(r, s)
      BY <1>9, <2>3 DEF Ends, Ack, Nack, Defer, Waiting, Closed
    <3> QED BY <2>3, <3>1, LeavesTail DEF Current
  <2> QED BY <2>1, <2>2, <2>3
<1>10. ASSUME NEW r \in Row, NEW a \in Token, Works(r, a) \/ Die(r, a)
       PROVE  Ends(r, a) \/ UNCHANGED <<st, key, pos, now>>
    BY <1>10 DEF Works, Ends, Effect, StandDown, EnterGuard, ExitGuard, BreakGuard, Die, rowVars
<1>11. CASE \E r \in Row : Sweeps(r)
    BY <1>2, <1>5, <1>6, <1>7, <1>11 DEF Sweeps, LeaseLapses
<1>12. CASE \E d \in Drainer : Drains(d)
    BY <1>2, <1>8, <1>12 DEF Drains, Discover, TryKey, ClaimFails, rowVars
<1>13. CASE \E r \in Row, a \in Token : Works(r, a) \/ Die(r, a)
    BY <1>2, <1>9, <1>10, <1>13
<1> QED BY <1>2, <1>3, <1>4, <1>5, <1>11, <1>12, <1>13 DEF Next, vars, rowVars

\* A requeued report_back stands behind whatever its chain has started.
LEMMA TailHolds == Spec => []TailHeld
<1>1. Init => TailHeld
    BY CompensationOf, KeyAssumption DEF Init, TailHeld
<1>2. IInv /\ CleanupOwed /\ TailHeld /\ [Next]_vars => TailHeld'
    BY TailStep DEF IInv
<1> QED BY <1>1, <1>2, IInvHolds, OwedHolds, PTL DEF Spec

\* A report_back that requeue_job_with_key moved to its own chain starts there
\* only when nothing of that chain is under way, not even under a lapsed lease.
THEOREM TailTheorem == Spec => RequeueJoinsTail
<1>1. ASSUME IInv, CleanupOwed, TailHeld, [Next]_vars, NEW s \in ReportBack, NEW q \in Row,
             s # q, key[s] # KeyOf[s], key[q] = key[s], st[q] = "claimed",
             attempts'[s] # attempts[s]
      PROVE  FALSE
  <2>1. s \in Row
    BY CompensationOf
  <2>2. Claimable(s) /\ key[s] # None
    BY <1>1, <2>1, LeaseStep DEF CleanupOwed
  <2>3. st[s] \notin Closed
    BY <2>2 DEF Claimable, Due, Lapsed, Closed
  <2>4. Older(q, s)
    BY <1>1, <2>3 DEF TailHeld
  <2>5. Blocks(q, s)
    BY <1>1, <2>4 DEF Blocks, Leased, Lapsed
  <2> QED BY <2>2, <2>5 DEF Claimable
<1>2. IInv /\ CleanupOwed /\ TailHeld /\ [Next]_vars =>
        [\A s \in ReportBack, q \in Row :
           s # q /\ key[s] # KeyOf[s] /\ key[q] = key[s] /\ st[q] = "claimed"
           => attempts'[s] = attempts[s]]_vars
    BY <1>1
<1> QED BY <1>2, IInvHolds, OwedHolds, TailHolds, PTL DEF Spec, RequeueJoinsTail
=============================================================================
