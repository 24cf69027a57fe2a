------------------------- MODULE WriterGuardProofs -------------------------
(* Proofs about WriterGuard, for any number of guards, mutations, tasks and  *)
(* connections.  The first lemmas say what the lock statements do to the     *)
(* server's locks; then each conjunct of IInv is shown to survive each step. *)
(****************************************************************************)
EXTENDS WriterGuard, TLAPS

\* A lock statement changes one count of one session.
LEMMA Relocked ==
  ASSUME held \in [Conn -> [Ns -> Nat]], NEW c \in Conn, NEW n \in Ns, NEW k \in Nat,
         held' = [held EXCEPT ![c][n] = k]
  PROVE  /\ held' \in [Conn -> [Ns -> Nat]]
         /\ \A d \in Conn, m \in Ns :
                held'[d][m] = IF d = c /\ m = n THEN k ELSE held[d][m]
<1>1. [held[c] EXCEPT ![n] = k] \in [Ns -> Nat]
  OBVIOUS
<1> QED BY <1>1

\* A released session holds no lock.
LEMMA Unlocked == NoLocks \in [Ns -> Nat]
  BY DEF NoLocks

\* A guard takes a lock.
LEMMA TakesLock ==
  ASSUME TypeOK, NEW g \in Guard, NEW n \in Ns, Alive(g),
         held' = [held EXCEPT ![conn[g]][n] = @ + 1]
  PROVE  /\ held' \in [Conn -> [Ns -> Nat]]
         /\ \A d \in Conn, m \in Ns :
                held'[d][m] = IF d = conn[g] /\ m = n THEN held[d][m] + 1 ELSE held[d][m]
<1>1. held \in [Conn -> [Ns -> Nat]] /\ conn[g] \in Conn
  BY DEF TypeOK, Alive
<1>2. held[conn[g]][n] + 1 \in Nat
  BY <1>1
<1> QED BY <1>1, <1>2, Relocked

\* A call of acquire_task_ns takes the lock of its task or leaves the locks.
LEMMA TaskLocks ==
  ASSUME TypeOK, NEW g \in Guard, NEW t \in Task, TakeTask(g, t) \/ CancelTask(g, t)
  PROVE  /\ held' \in [Conn -> [Ns -> Nat]]
         /\ \/ held' = held
            \/ /\ Alive(g) /\ ~Contended(conn[g], t) /\ t \notin permits[g]
               /\ \A d \in Conn, m \in Ns :
                    held'[d][m] = IF d = conn[g] /\ m = t THEN held[d][m] + 1 ELSE held[d][m]
<1>1. t \in Ns /\ held \in [Conn -> [Ns -> Nat]]
  BY DEF Ns, TypeOK
<1>2. \/ held' = held
      \/ /\ Alive(g) /\ ~Contended(conn[g], t) /\ t \notin permits[g]
         /\ held' = [held EXCEPT ![conn[g]][t] = @ + 1]
  BY DEF TakeTask, CancelTask
<1> QED BY <1>1, <1>2, TakesLock

\* The unlock of release_task_ns.
LEMMA UndoLocks ==
  ASSUME TypeOK, NEW g \in Guard, NEW t \in Task, UnlockTask(g, t)
  PROVE  /\ held' \in [Conn -> [Ns -> Nat]]
         /\ \/ held' = held
            \/ /\ Alive(g) /\ Usable(g)
               /\ \A d \in Conn, m \in Ns :
                    held'[d][m] = IF d = conn[g] /\ m = t THEN held[d][m] - 1 ELSE held[d][m]
<1>1. t \in Ns /\ held \in [Conn -> [Ns -> Nat]]
  BY DEF Ns, TypeOK
<1>2. CASE Usable(g) /\ Alive(g) /\ held[conn[g]][t] > 0
  <2>1. conn[g] \in Conn /\ held[conn[g]][t] - 1 \in Nat
    BY <1>1, <1>2 DEF Alive
  <2>2. held' = [held EXCEPT ![conn[g]][t] = held[conn[g]][t] - 1]
    BY <1>2 DEF UnlockTask
  <2> QED BY <1>1, <1>2, <2>1, <2>2, Relocked
<1>3. CASE ~(Usable(g) /\ Alive(g) /\ held[conn[g]][t] > 0)
  BY <1>1, <1>3 DEF UnlockTask
<1> QED BY <1>2, <1>3

\* The unlock of demote_to_tail.
LEMMA RootLocks ==
  ASSUME TypeOK, NEW g \in Guard, DropRoot(g)
  PROVE  /\ held' \in [Conn -> [Ns -> Nat]]
         /\ \/ held' = held
            \/ /\ Alive(g)
               /\ \A d \in Conn, m \in Ns :
                    held'[d][m] = IF d = conn[g] /\ m = Root THEN 0 ELSE held[d][m]
<1>1. Root \in Ns /\ held \in [Conn -> [Ns -> Nat]]
  BY DEF Ns, TypeOK
<1>2. \/ held' = held
      \/ Alive(g) /\ held' = [held EXCEPT ![conn[g]][Root] = 0]
  BY DEF DropRoot, lockVars
<1>3. CASE Alive(g) /\ held' = [held EXCEPT ![conn[g]][Root] = 0]
  <2>1. conn[g] \in Conn /\ 0 \in Nat
    BY <1>3 DEF Alive
  <2> QED BY <1>1, <1>3, <2>1, Relocked
<1> QED BY <1>1, <1>2, <1>3

\* Every step keeps the types.
LEMMA TypeStep ==
  ASSUME TypeOK, [Next]_vars
  PROVE  TypeOK'
<1> USE DEF Goes, guardVars, taskVars, lockVars, dbVars, mutVars, FreeConn, TypeOK, PcType
<1>n. Root \in Ns /\ Task \subseteq Ns
  BY DEF Ns
<1>1. ASSUME NEW g \in Guard, Checkout(g) PROVE TypeOK'
  BY <1>1 DEF Checkout
<1>2. ASSUME NEW g \in Guard, CheckoutRefused(g) PROVE TypeOK'
  BY <1>2 DEF CheckoutRefused
<1>3. ASSUME NEW g \in Guard, TakeShared(g) PROVE TypeOK'
  BY <1>3 DEF TakeShared
<1>4. ASSUME NEW g \in Guard, TakeRoot(g) PROVE TypeOK'
  <2>1. conn[g] \in Conn
    BY <1>4 DEF TakeRoot, Alive
  <2>2. held' \in [Conn -> [Ns -> Nat]]
    BY <1>4, <1>n, TakesLock DEF TakeRoot
  <2> QED BY <1>4, <2>1, <2>2 DEF TakeRoot
<1>5. ASSUME NEW g \in Guard, LockTimeout(g) PROVE TypeOK'
  BY <1>5 DEF LockTimeout
<1>6. ASSUME NEW g \in Guard, StartRun(g) PROVE TypeOK'
  BY <1>6 DEF StartRun
<1>7. ASSUME NEW g \in Guard, StartFails(g) PROVE TypeOK'
  BY <1>7 DEF StartFails
<1>8. ASSUME NEW g \in Guard, Decide(g) PROVE TypeOK'
  BY <1>8 DEF Decide
<1>9. ASSUME NEW g \in Guard, Commit(g) PROVE TypeOK'
  BY <1>9 DEF Commit
<1>10. ASSUME NEW g \in Guard, CommitFails(g) PROVE TypeOK'
  BY <1>10 DEF CommitFails
<1>11. ASSUME NEW g \in Guard, Seal(g) PROVE TypeOK'
  BY <1>11 DEF Seal
<1>12. ASSUME NEW g \in Guard, DropRoot(g) PROVE TypeOK'
  <2>1. held' \in [Conn -> [Ns -> Nat]]
    BY <1>12, RootLocks
  <2>2. lost' \in [Guard -> BOOLEAN]
    BY <1>12 DEF DropRoot
  <2> QED BY <1>12, <2>1, <2>2 DEF DropRoot
<1>13. ASSUME NEW g \in Guard, DemoteTimeout(g) PROVE TypeOK'
  BY <1>13 DEF DemoteTimeout
<1>14. ASSUME NEW g \in Guard, TailDrained(g) PROVE TypeOK'
  BY <1>14 DEF TailDrained
<1>15. ASSUME NEW g \in Guard, TailSkipped(g) PROVE TypeOK'
  BY <1>15 DEF TailSkipped
<1>16. ASSUME NEW g \in Guard, TailFails(g) PROVE TypeOK'
  BY <1>16 DEF TailFails
<1>17. ASSUME NEW g \in Guard, BeginRelease(g) PROVE TypeOK'
  BY <1>17 DEF BeginRelease
<1>18. ASSUME NEW g \in Guard, ReleaseDrained(g) PROVE TypeOK'
  BY <1>18 DEF ReleaseDrained
<1>19. ASSUME NEW g \in Guard, ReleaseTimeout(g) PROVE TypeOK'
  BY <1>19 DEF ReleaseTimeout
<1>20. ASSUME NEW g \in Guard, UnlockAll(g) PROVE TypeOK'
  <2>1. CASE Alive(g)
    <3>1. held' \in [Conn -> [Ns -> Nat]]
      <4> HIDE DEF TypeOK
      <4>1. held \in [Conn -> [Ns -> Nat]]
        BY DEF TypeOK
      <4> QED BY <1>20, <2>1, <4>1, Unlocked DEF UnlockAll
    <3>2. shared' \in [Conn -> BOOLEAN] /\ saver' \in [Guard -> {"own", "pool"}]
      BY <1>20, <2>1 DEF UnlockAll
    <3> QED BY <1>20, <2>1, <3>1, <3>2 DEF UnlockAll
  <2>2. CASE ~Alive(g)
    BY <1>20, <2>2 DEF UnlockAll
  <2> QED BY <2>1, <2>2
<1>21. ASSUME NEW g \in Guard, PutConn(g) PROVE TypeOK'
  <2>1. held' \in [Conn -> [Ns -> Nat]]
    BY <1>21, Unlocked DEF PutConn
  <2>2. /\ out' \in [Conn -> Guard \cup Mutator \cup {None}]
        /\ alive' \in [Conn -> BOOLEAN] /\ shared' \in [Conn -> BOOLEAN]
        /\ exclusive' \in [Conn -> BOOLEAN]
    BY <1>21 DEF PutConn
  <2> QED BY <1>21, <2>1, <2>2 DEF PutConn
<1>22. ASSUME NEW g \in Guard, CloseConn(g) PROVE TypeOK'
  <2>1. held' \in [Conn -> [Ns -> Nat]]
    BY <1>22, Unlocked DEF CloseConn
  <2>2. /\ out' \in [Conn -> Guard \cup Mutator \cup {None}]
        /\ alive' \in [Conn -> BOOLEAN] /\ shared' \in [Conn -> BOOLEAN]
        /\ exclusive' \in [Conn -> BOOLEAN]
    BY <1>22 DEF CloseConn
  <2> QED BY <1>22, <2>1, <2>2 DEF CloseConn
<1>23. ASSUME NEW g \in Guard, Monitor(g) PROVE TypeOK'
  BY <1>23 DEF Monitor
<1>24. ASSUME NEW g \in Guard, NEW n \in Ns, Authorize(g, n) PROVE TypeOK'
  BY <1>24 DEF Authorize
<1>25. ASSUME NEW g \in Guard, NEW n \in Ns, Land(g, n) PROVE TypeOK'
  BY <1>25 DEF Land
<1>26. ASSUME NEW g \in Guard, NEW t \in Task, AskTask(g, t) PROVE TypeOK'
  BY <1>26 DEF AskTask
<1>27. ASSUME NEW g \in Guard, NEW t \in Task, TakeTask(g, t) PROVE TypeOK'
  <2>1. held' \in [Conn -> [Ns -> Nat]]
    BY <1>27, TaskLocks
  <2>2. acq' \in [Guard -> [Task -> BOOLEAN]] /\ faults' \in Nat
    BY <1>27 DEF TakeTask
  <2>3. permits' \in [Guard -> SUBSET Task] /\ live' \in [Guard -> SUBSET Task]
    <3> HIDE DEF TypeOK
    <3>1. permits \in [Guard -> SUBSET Task] /\ live \in [Guard -> SUBSET Task]
      BY DEF TypeOK
    <3> QED BY <1>27, <3>1 DEF TakeTask
  <2> QED BY <1>27, <2>1, <2>2, <2>3 DEF TakeTask
<1>28. ASSUME NEW g \in Guard, NEW t \in Task, CancelTask(g, t) PROVE TypeOK'
  <2>1. held' \in [Conn -> [Ns -> Nat]]
    BY <1>28, TaskLocks
  <2>2. acq' \in [Guard -> [Task -> BOOLEAN]] /\ faults' \in Nat
    BY <1>28 DEF CancelTask
  <2>3. permits' \in [Guard -> SUBSET Task] /\ live' \in [Guard -> SUBSET Task]
    <3> HIDE DEF TypeOK
    <3>1. permits \in [Guard -> SUBSET Task] /\ live \in [Guard -> SUBSET Task]
      BY DEF TypeOK
    <3> QED BY <1>28, <3>1 DEF CancelTask
  <2> QED BY <1>28, <2>1, <2>2, <2>3 DEF CancelTask
<1>29. ASSUME NEW g \in Guard, NEW t \in Task, Settle(g, t) PROVE TypeOK'
  BY <1>29 DEF Settle
<1>30. ASSUME NEW g \in Guard, NEW t \in Task, TaskDrained(g, t) PROVE TypeOK'
  BY <1>30 DEF TaskDrained
<1>31. ASSUME NEW g \in Guard, NEW t \in Task, TaskDrainTimeout(g, t) PROVE TypeOK'
  BY <1>31 DEF TaskDrainTimeout
<1>32. ASSUME NEW g \in Guard, NEW t \in Task, UnlockTask(g, t) PROVE TypeOK'
  <2>1. held' \in [Conn -> [Ns -> Nat]]
    BY <1>32, UndoLocks
  <2>2. undo' \in [Guard -> [Task -> {"none", "drain", "unlock"}]]
    BY <1>32 DEF UnlockTask
  <2> QED BY <1>32, <2>1, <2>2 DEF UnlockTask
<1>33. ASSUME NEW c \in Conn, SessionDies(c) PROVE TypeOK'
  <2>1. held' \in [Conn -> [Ns -> Nat]]
    BY <1>33, Unlocked DEF SessionDies
  <2> QED BY <1>33, <2>1 DEF SessionDies
<1>34. ASSUME NEW m \in Mutator, MutateBegin(m) PROVE TypeOK'
  BY <1>34 DEF MutateBegin
<1>35. ASSUME NEW m \in Mutator, MutateLock(m) PROVE TypeOK'
  BY <1>35 DEF MutateLock
<1>36. ASSUME NEW m \in Mutator, MutateEnd(m) PROVE TypeOK'
  <2>1. held' \in [Conn -> [Ns -> Nat]]
    BY <1>36, Unlocked DEF MutateEnd
  <2>2. /\ out' \in [Conn -> Guard \cup Mutator \cup {None}]
        /\ alive' \in [Conn -> BOOLEAN] /\ shared' \in [Conn -> BOOLEAN]
        /\ exclusive' \in [Conn -> BOOLEAN]
    BY <1>36 DEF MutateEnd
  <2> QED BY <1>36, <2>1, <2>2 DEF MutateEnd
<1>37. CASE UNCHANGED vars
  BY <1>37 DEF vars
<1> QED BY <1>1, <1>2, <1>3, <1>4, <1>5, <1>6, <1>7, <1>8, <1>9, <1>10, <1>11, <1>12, <1>13,
   <1>14, <1>15, <1>16, <1>17, <1>18, <1>19, <1>20, <1>21, <1>22, <1>23, <1>24, <1>25,
   <1>26, <1>27, <1>28, <1>29, <1>30, <1>31, <1>32, <1>33, <1>34, <1>35, <1>36, <1>37 DEF
   Next, Starts, Tears, Tasks, Mutates

\* A connection is checked out by who works on it.
LEMMA PinnedStep ==
  ASSUME TypeOK, Pinned, [Next]_vars
  PROVE  Pinned'
<1> USE DEF Goes, guardVars, taskVars, lockVars, dbVars, mutVars, FreeConn, PcType, Pinned,
      Released
<1>t. /\ pc \in [Guard -> PcType]
      /\ conn \in [Guard -> Conn \cup {None, Closed}]
      /\ saver \in [Guard -> {"own", "pool"}]
      /\ out \in [Conn -> Guard \cup Mutator \cup {None}]
      /\ mpc \in [Mutator -> {"idle", "locking", "held"}]
      /\ mconn \in [Mutator -> Conn \cup {None}]
  BY DEF TypeOK
<1>1. ASSUME NEW g \in Guard, Checkout(g) PROVE Pinned'
  BY <1>1, <1>t, NamesAssumption DEF Checkout
<1>2. ASSUME NEW g \in Guard, CheckoutRefused(g) PROVE Pinned'
  BY <1>2 DEF CheckoutRefused
<1>3. ASSUME NEW g \in Guard,
             TakeShared(g) \/ Monitor(g)
      PROVE  Pinned'
  BY <1>3 DEF TakeShared, Monitor
<1>4. ASSUME NEW g \in Guard, TakeRoot(g) PROVE Pinned'
  BY <1>4 DEF TakeRoot
<1>5. ASSUME NEW g \in Guard, LockTimeout(g) PROVE Pinned'
  BY <1>5 DEF LockTimeout
<1>6. ASSUME NEW g \in Guard, StartRun(g) PROVE Pinned'
  BY <1>6 DEF StartRun
<1>7. ASSUME NEW g \in Guard, StartFails(g) PROVE Pinned'
  BY <1>7 DEF StartFails
<1>8. ASSUME NEW g \in Guard, Decide(g) PROVE Pinned'
  BY <1>8 DEF Decide
<1>9. ASSUME NEW g \in Guard, Commit(g) PROVE Pinned'
  BY <1>9, <1>t DEF Commit
<1>10. ASSUME NEW g \in Guard, CommitFails(g) PROVE Pinned'
  BY <1>10 DEF CommitFails
<1>11. ASSUME NEW g \in Guard, Seal(g) PROVE Pinned'
  BY <1>11 DEF Seal
<1>12. ASSUME NEW g \in Guard, DropRoot(g) PROVE Pinned'
  BY <1>12 DEF DropRoot
<1>13. ASSUME NEW g \in Guard, DemoteTimeout(g) PROVE Pinned'
  BY <1>13 DEF DemoteTimeout
<1>14. ASSUME NEW g \in Guard, TailDrained(g) PROVE Pinned'
  BY <1>14 DEF TailDrained
<1>15. ASSUME NEW g \in Guard, TailSkipped(g) PROVE Pinned'
  BY <1>15 DEF TailSkipped
<1>16. ASSUME NEW g \in Guard, TailFails(g) PROVE Pinned'
  BY <1>16 DEF TailFails
<1>17. ASSUME NEW g \in Guard, BeginRelease(g) PROVE Pinned'
  BY <1>17 DEF BeginRelease
<1>18. ASSUME NEW g \in Guard, ReleaseDrained(g) PROVE Pinned'
  BY <1>18 DEF ReleaseDrained
<1>19. ASSUME NEW g \in Guard, ReleaseTimeout(g) PROVE Pinned'
  BY <1>19 DEF ReleaseTimeout
<1>20. ASSUME NEW g \in Guard, UnlockAll(g) PROVE Pinned'
  BY <1>20, <1>t DEF UnlockAll
<1>21. ASSUME NEW g \in Guard, PutConn(g) PROVE Pinned'
  BY <1>21, <1>t, NamesAssumption DEF PutConn
<1>22. ASSUME NEW g \in Guard, CloseConn(g) PROVE Pinned'
  BY <1>22, <1>t, NamesAssumption DEF CloseConn
<1>23. ASSUME NEW g \in Guard, NEW n \in Ns,
              Authorize(g, n) \/ Land(g, n)
       PROVE  Pinned'
  BY <1>23 DEF Authorize, Land
<1>24. ASSUME NEW g \in Guard, NEW t \in Task,
              AskTask(g, t) \/ TakeTask(g, t) \/ CancelTask(g, t) \/ Settle(g, t) \/
              TaskDrained(g, t) \/ TaskDrainTimeout(g, t) \/ UnlockTask(g, t)
       PROVE  Pinned'
  BY <1>24 DEF AskTask, TakeTask, CancelTask, Settle, TaskDrained, TaskDrainTimeout,
     UnlockTask
<1>25. ASSUME NEW c \in Conn, SessionDies(c) PROVE Pinned'
  BY <1>25 DEF SessionDies
<1>26. ASSUME NEW m \in Mutator, MutateBegin(m) PROVE Pinned'
  BY <1>26, <1>t, NamesAssumption DEF MutateBegin
<1>27. ASSUME NEW m \in Mutator, MutateLock(m) PROVE Pinned'
  BY <1>27 DEF MutateLock
<1>28. ASSUME NEW m \in Mutator, MutateEnd(m) PROVE Pinned'
  BY <1>28, <1>t, NamesAssumption DEF MutateEnd
<1>29. CASE UNCHANGED vars
  BY <1>29 DEF vars
<1> QED BY <1>1, <1>2, <1>3, <1>4, <1>5, <1>6, <1>7, <1>8, <1>9, <1>10, <1>11, <1>12, <1>13,
   <1>14, <1>15, <1>16, <1>17, <1>18, <1>19, <1>20, <1>21, <1>22, <1>23, <1>24, <1>25,
   <1>26, <1>27, <1>28, <1>29 DEF Next, Starts, Tears, Tasks, Mutates

\* Whoever takes a lock has the connection checked out.
LEMMA CleanStep ==
  ASSUME TypeOK, Pinned, PoolClean, Phases, LaunchesEnd, [Next]_vars
  PROVE  PoolClean'
<1> USE DEF Goes, guardVars, taskVars, lockVars, dbVars, mutVars, FreeConn, PoolClean,
      Pinned, Alive, Released, Usable, Phases, LaunchesEnd, Asked, Unborn
<1>t. /\ pc \in [Guard -> PcType]
      /\ conn \in [Guard -> Conn \cup {None, Closed}]
      /\ out \in [Conn -> Guard \cup Mutator \cup {None}]
      /\ held \in [Conn -> [Ns -> Nat]]
      /\ shared \in [Conn -> BOOLEAN]
      /\ exclusive \in [Conn -> BOOLEAN]
      /\ mpc \in [Mutator -> {"idle", "locking", "held"}]
      /\ mconn \in [Mutator -> Conn \cup {None}]
      /\ alive \in [Conn -> BOOLEAN]
      /\ saver \in [Guard -> {"own", "pool"}]
      /\ acq \in [Guard -> [Task -> BOOLEAN]]
  BY DEF TypeOK
<1>1. ASSUME NEW g \in Guard, Checkout(g) PROVE PoolClean'
  BY <1>1 DEF Checkout
<1>2. ASSUME NEW g \in Guard,
             CheckoutRefused(g) \/ LockTimeout(g) \/ StartRun(g) \/ StartFails(g) \/
             Decide(g) \/ Commit(g) \/ CommitFails(g) \/ Seal(g) \/ DemoteTimeout(g) \/
             TailDrained(g) \/ TailSkipped(g) \/ TailFails(g) \/ BeginRelease(g) \/
             ReleaseDrained(g) \/ ReleaseTimeout(g) \/ Monitor(g)
      PROVE  PoolClean'
  BY <1>2 DEF CheckoutRefused, LockTimeout, StartRun, StartFails, Decide, Commit,
     CommitFails, Seal, DemoteTimeout, TailDrained, TailSkipped, TailFails, BeginRelease,
     ReleaseDrained, ReleaseTimeout, Monitor
<1>3. ASSUME NEW g \in Guard, TakeShared(g) PROVE PoolClean'
  BY <1>3, <1>t, NamesAssumption DEF TakeShared
<1>4. ASSUME NEW g \in Guard, TakeRoot(g) PROVE PoolClean'
  BY <1>4 DEF TakeRoot
<1>5. ASSUME NEW g \in Guard, DropRoot(g) PROVE PoolClean'
  BY <1>5, <1>t, NamesAssumption DEF DropRoot
<1>6. ASSUME NEW g \in Guard, UnlockAll(g) PROVE PoolClean'
  BY <1>6, <1>t DEF UnlockAll
<1>7. ASSUME NEW g \in Guard, PutConn(g) PROVE PoolClean'
  BY <1>7, <1>t DEF PutConn
<1>8. ASSUME NEW g \in Guard, CloseConn(g) PROVE PoolClean'
  BY <1>8, <1>t DEF CloseConn
<1>9. ASSUME NEW g \in Guard, NEW n \in Ns,
             Authorize(g, n) \/ Land(g, n)
      PROVE  PoolClean'
  BY <1>9 DEF Authorize, Land
<1>10. ASSUME NEW g \in Guard, NEW t \in Task,
              AskTask(g, t) \/ Settle(g, t) \/ TaskDrained(g, t) \/ TaskDrainTimeout(g, t)
       PROVE  PoolClean'
  BY <1>10 DEF AskTask, Settle, TaskDrained, TaskDrainTimeout
<1>11. ASSUME NEW g \in Guard, NEW t \in Task, TakeTask(g, t) PROVE PoolClean'
  BY <1>11, <1>t, NamesAssumption DEF TakeTask
<1>12. ASSUME NEW g \in Guard, NEW t \in Task, CancelTask(g, t) PROVE PoolClean'
  BY <1>12, <1>t, NamesAssumption DEF CancelTask
<1>13. ASSUME NEW g \in Guard, NEW t \in Task, UnlockTask(g, t) PROVE PoolClean'
  BY <1>13, <1>t, NamesAssumption DEF UnlockTask
<1>14. ASSUME NEW c \in Conn, SessionDies(c) PROVE PoolClean'
  BY <1>14 DEF SessionDies
<1>15. ASSUME NEW m \in Mutator, MutateBegin(m) PROVE PoolClean'
  BY <1>15 DEF MutateBegin
<1>16. ASSUME NEW m \in Mutator, MutateLock(m) PROVE PoolClean'
  BY <1>16, <1>t, NamesAssumption DEF MutateLock
<1>17. ASSUME NEW m \in Mutator, MutateEnd(m) PROVE PoolClean'
  BY <1>17, <1>t DEF MutateEnd
<1>18. CASE UNCHANGED vars
  BY <1>18 DEF vars
<1> QED BY <1>1, <1>2, <1>3, <1>4, <1>5, <1>6, <1>7, <1>8, <1>9, <1>10, <1>11, <1>12, <1>13,
   <1>14, <1>15, <1>16, <1>17, <1>18 DEF Next, Starts, Tears, Tasks, Mutates

\* The lock statements wait for the other sessions.
LEMMA ExcludeStep ==
  ASSUME TypeOK, Pinned, LocksExclude, [Next]_vars
  PROVE  LocksExclude'
<1> USE DEF Goes, guardVars, taskVars, lockVars, dbVars, mutVars, FreeConn, Pinned,
      LocksExclude, Alive, Contended, NoLocks, Usable
<1>t. /\ pc \in [Guard -> PcType]
      /\ conn \in [Guard -> Conn \cup {None, Closed}]
      /\ out \in [Conn -> Guard \cup Mutator \cup {None}]
      /\ held \in [Conn -> [Ns -> Nat]]
      /\ shared \in [Conn -> BOOLEAN]
      /\ exclusive \in [Conn -> BOOLEAN]
      /\ mpc \in [Mutator -> {"idle", "locking", "held"}]
      /\ mconn \in [Mutator -> Conn \cup {None}]
      /\ alive \in [Conn -> BOOLEAN]
  BY DEF TypeOK
<1>n. Root \in Ns /\ Task \subseteq Ns
  BY DEF Ns
<1>1. ASSUME NEW g \in Guard,
             Checkout(g) \/ CheckoutRefused(g) \/ LockTimeout(g) \/ StartRun(g) \/
             StartFails(g) \/ Decide(g) \/ Commit(g) \/ CommitFails(g) \/ Seal(g) \/
             DemoteTimeout(g) \/ TailDrained(g) \/ TailSkipped(g) \/ TailFails(g) \/
             BeginRelease(g) \/ ReleaseDrained(g) \/ ReleaseTimeout(g) \/ Monitor(g)
      PROVE  LocksExclude'
  BY <1>1 DEF Checkout, CheckoutRefused, LockTimeout, StartRun, StartFails, Decide, Commit,
     CommitFails, Seal, DemoteTimeout, TailDrained, TailSkipped, TailFails, BeginRelease,
     ReleaseDrained, ReleaseTimeout, Monitor
<1>2. ASSUME NEW g \in Guard, TakeShared(g) PROVE LocksExclude'
  BY <1>2 DEF TakeShared
<1>3. ASSUME NEW g \in Guard, TakeRoot(g) PROVE LocksExclude'
  BY <1>3 DEF TakeRoot
<1>4. ASSUME NEW g \in Guard, DropRoot(g) PROVE LocksExclude'
  <2>1. \A c \in Conn, m \in Ns : held'[c][m] > 0 => held[c][m] > 0
    <3>1. \A c \in Conn, m \in Ns :
            held'[c][m] = held[c][m] \/ held'[c][m] = 0
      BY <1>4, RootLocks
    <3> QED BY <3>1
  <2> QED BY <1>4, <2>1 DEF DropRoot, LocksExclude
<1>5. ASSUME NEW g \in Guard, UnlockAll(g) PROVE LocksExclude'
  <2>1. CASE Alive(g)
    <3>1. \A c \in Conn, m \in Ns : held'[c][m] > 0 => held[c][m] > 0
      BY <1>t, <1>5, <2>1 DEF UnlockAll, NoLocks
    <3>2. \A c \in Conn : shared'[c] => shared[c]
      BY <1>t, <1>5, <2>1 DEF UnlockAll
    <3> QED BY <1>5, <3>1, <3>2 DEF UnlockAll, LocksExclude
  <2>2. CASE ~Alive(g)
    BY <1>5, <2>2 DEF UnlockAll, LocksExclude
  <2> QED BY <2>1, <2>2
<1>6. ASSUME NEW g \in Guard, PutConn(g) PROVE LocksExclude'
  BY <1>6 DEF PutConn
<1>7. ASSUME NEW g \in Guard, CloseConn(g) PROVE LocksExclude'
  BY <1>7 DEF CloseConn
<1>8. ASSUME NEW g \in Guard, NEW n \in Ns,
             Authorize(g, n) \/ Land(g, n)
      PROVE  LocksExclude'
  BY <1>8 DEF Authorize, Land
<1>9. ASSUME NEW g \in Guard, NEW t \in Task,
             AskTask(g, t) \/ Settle(g, t) \/ TaskDrained(g, t) \/ TaskDrainTimeout(g, t)
      PROVE  LocksExclude'
  BY <1>9 DEF AskTask, Settle, TaskDrained, TaskDrainTimeout
<1>10. ASSUME NEW g \in Guard, NEW t \in Task, TakeTask(g, t) PROVE LocksExclude'
  <2>1. \A c \in Conn, m \in Ns : held'[c][m] > 0 =>
           held[c][m] > 0 \/ (c = conn[g] /\ m = t /\ ~Contended(conn[g], t))
    BY <1>t, <1>10, TaskLocks
  <2> QED BY <1>n, <1>10, <2>1 DEF TakeTask, LocksExclude, Contended
<1>11. ASSUME NEW g \in Guard, NEW t \in Task, CancelTask(g, t) PROVE LocksExclude'
  <2>1. \A c \in Conn, m \in Ns : held'[c][m] > 0 =>
           held[c][m] > 0 \/ (c = conn[g] /\ m = t /\ ~Contended(conn[g], t))
    BY <1>t, <1>11, TaskLocks
  <2> QED BY <1>n, <1>11, <2>1 DEF CancelTask, LocksExclude, Contended
<1>12. ASSUME NEW g \in Guard, NEW t \in Task, UnlockTask(g, t) PROVE LocksExclude'
  BY <1>12 DEF UnlockTask
<1>13. ASSUME NEW c \in Conn, SessionDies(c) PROVE LocksExclude'
  BY <1>13 DEF SessionDies
<1>14. ASSUME NEW m \in Mutator, MutateBegin(m) PROVE LocksExclude'
  BY <1>14 DEF MutateBegin
<1>15. ASSUME NEW m \in Mutator, MutateLock(m) PROVE LocksExclude'
  BY <1>15 DEF MutateLock
<1>16. ASSUME NEW m \in Mutator, MutateEnd(m) PROVE LocksExclude'
  BY <1>16 DEF MutateEnd
<1>17. CASE UNCHANGED vars
  BY <1>17 DEF vars
<1> QED BY <1>1, <1>2, <1>3, <1>4, <1>5, <1>6, <1>7, <1>8, <1>9, <1>10, <1>11, <1>12, <1>13,
   <1>14, <1>15, <1>16, <1>17 DEF Next, Starts, Tears, Tasks, Mutates

\* The seal and the finalize follow the phases of a run.
LEMMA PhasesStep ==
  ASSUME TypeOK, Pinned, Phases, [Next]_vars
  PROVE  Phases'
<1> USE DEF Goes, guardVars, taskVars, lockVars, dbVars, mutVars, FreeConn, PcType, Phases,
      Unborn, Released, Asked, Usable, Watched, DriverLive, Permitted, Alive
<1>t. /\ pc \in [Guard -> PcType]
      /\ permits \in [Guard -> SUBSET Task]
      /\ live \in [Guard -> SUBSET Task]
      /\ inflight \in [Guard -> SUBSET Ns]
      /\ undo \in [Guard -> [Task -> {"none", "drain", "unlock"}]]
      /\ cas \in [Guard -> {"no", "conn", "pool"}]
      /\ sealed \in [Guard -> BOOLEAN]
      /\ lost \in [Guard -> BOOLEAN]
      /\ acq \in [Guard -> [Task -> BOOLEAN]]
  BY DEF TypeOK
<1>1. ASSUME NEW g \in Guard, Checkout(g) PROVE Phases'
  BY <1>1 DEF Checkout
<1>2. ASSUME NEW g \in Guard, CheckoutRefused(g) PROVE Phases'
  BY <1>2 DEF CheckoutRefused
<1>3. ASSUME NEW g \in Guard, TakeShared(g) PROVE Phases'
  BY <1>3 DEF TakeShared
<1>4. ASSUME NEW g \in Guard, TakeRoot(g) PROVE Phases'
  BY <1>4 DEF TakeRoot
<1>5. ASSUME NEW g \in Guard, LockTimeout(g) PROVE Phases'
  BY <1>5 DEF LockTimeout
<1>6. ASSUME NEW g \in Guard, StartRun(g) PROVE Phases'
  BY <1>6 DEF StartRun
<1>7. ASSUME NEW g \in Guard, StartFails(g) PROVE Phases'
  BY <1>7 DEF StartFails
<1>8. ASSUME NEW g \in Guard, Decide(g) PROVE Phases'
  BY <1>8, <1>t DEF Decide
<1>9. ASSUME NEW g \in Guard, Commit(g) PROVE Phases'
  BY <1>9, <1>t DEF Commit
<1>10. ASSUME NEW g \in Guard, CommitFails(g) PROVE Phases'
  BY <1>10, <1>t DEF CommitFails
<1>11. ASSUME NEW g \in Guard, Seal(g) PROVE Phases'
  BY <1>11, <1>t DEF Seal
<1>12. ASSUME NEW g \in Guard, DropRoot(g) PROVE Phases'
  BY <1>12, <1>t DEF DropRoot
<1>13. ASSUME NEW g \in Guard, DemoteTimeout(g) PROVE Phases'
  BY <1>13 DEF DemoteTimeout
<1>14. ASSUME NEW g \in Guard, TailDrained(g) PROVE Phases'
  BY <1>14 DEF TailDrained
<1>15. ASSUME NEW g \in Guard, TailSkipped(g) PROVE Phases'
  BY <1>15 DEF TailSkipped
<1>16. ASSUME NEW g \in Guard, TailFails(g) PROVE Phases'
  BY <1>16 DEF TailFails
<1>17. ASSUME NEW g \in Guard, BeginRelease(g) PROVE Phases'
  BY <1>17, <1>t DEF BeginRelease
<1>18. ASSUME NEW g \in Guard, ReleaseDrained(g) PROVE Phases'
  BY <1>18 DEF ReleaseDrained
<1>19. ASSUME NEW g \in Guard, ReleaseTimeout(g) PROVE Phases'
  BY <1>19 DEF ReleaseTimeout
<1>20. ASSUME NEW g \in Guard, UnlockAll(g) PROVE Phases'
  BY <1>20, <1>t DEF UnlockAll
<1>21. ASSUME NEW g \in Guard, PutConn(g) PROVE Phases'
  BY <1>21 DEF PutConn
<1>22. ASSUME NEW g \in Guard, CloseConn(g) PROVE Phases'
  BY <1>22 DEF CloseConn
<1>23. ASSUME NEW g \in Guard, Monitor(g) PROVE Phases'
  BY <1>23 DEF Monitor
<1>24. ASSUME NEW g \in Guard, NEW n \in Ns, Authorize(g, n) PROVE Phases'
  BY <1>24 DEF Authorize
<1>25. ASSUME NEW g \in Guard, NEW n \in Ns, Land(g, n) PROVE Phases'
  BY <1>25 DEF Land
<1>26. ASSUME NEW g \in Guard, NEW t \in Task, AskTask(g, t) PROVE Phases'
  BY <1>26 DEF AskTask
<1>27. ASSUME NEW g \in Guard, NEW t \in Task, TakeTask(g, t) PROVE Phases'
  BY <1>27, <1>t DEF TakeTask
<1>28. ASSUME NEW g \in Guard, NEW t \in Task, CancelTask(g, t) PROVE Phases'
  BY <1>28 DEF CancelTask
<1>29. ASSUME NEW g \in Guard, NEW t \in Task, Settle(g, t) PROVE Phases'
  BY <1>29 DEF Settle
<1>30. ASSUME NEW g \in Guard, NEW t \in Task, TaskDrained(g, t) PROVE Phases'
  BY <1>30 DEF TaskDrained
<1>31. ASSUME NEW g \in Guard, NEW t \in Task, TaskDrainTimeout(g, t) PROVE Phases'
  BY <1>31 DEF TaskDrainTimeout
<1>32. ASSUME NEW g \in Guard, NEW t \in Task, UnlockTask(g, t) PROVE Phases'
  BY <1>32 DEF UnlockTask
<1>33. ASSUME NEW c \in Conn, SessionDies(c) PROVE Phases'
  BY <1>33 DEF SessionDies
<1>34. ASSUME NEW m \in Mutator, MutateBegin(m) PROVE Phases'
  BY <1>34 DEF MutateBegin
<1>35. ASSUME NEW m \in Mutator, MutateLock(m) PROVE Phases'
  BY <1>35 DEF MutateLock
<1>36. ASSUME NEW m \in Mutator, MutateEnd(m) PROVE Phases'
  BY <1>36 DEF MutateEnd
<1>37. CASE UNCHANGED vars
  BY <1>37 DEF vars
<1> QED BY <1>1, <1>2, <1>3, <1>4, <1>5, <1>6, <1>7, <1>8, <1>9, <1>10, <1>11, <1>12, <1>13,
   <1>14, <1>15, <1>16, <1>17, <1>18, <1>19, <1>20, <1>21, <1>22, <1>23, <1>24, <1>25,
   <1>26, <1>27, <1>28, <1>29, <1>30, <1>31, <1>32, <1>33, <1>34, <1>35, <1>36, <1>37 DEF
   Next, Starts, Tears, Tasks, Mutates

\* With every launch awaited, none outlives the tail.
LEMMA LaunchesStep ==
  ASSUME TypeOK, Stray = {}, Pinned, Phases, LaunchesEnd, [Next]_vars
  PROVE  LaunchesEnd'
<1> USE DEF Goes, guardVars, taskVars, lockVars, dbVars, mutVars, FreeConn, PcType,
      LaunchesEnd, Phases, Unborn, Asked, Awaited, DriverLive, Permitted, Usable, Released
<1>t. /\ pc \in [Guard -> PcType]
      /\ permits \in [Guard -> SUBSET Task]
      /\ live \in [Guard -> SUBSET Task]
      /\ inflight \in [Guard -> SUBSET Ns]
      /\ cas \in [Guard -> {"no", "conn", "pool"}]
      /\ acq \in [Guard -> [Task -> BOOLEAN]]
      /\ saver \in [Guard -> {"own", "pool"}]
  BY DEF TypeOK
<1>1. ASSUME NEW g \in Guard, Checkout(g) PROVE LaunchesEnd'
  BY <1>1 DEF Checkout
<1>2. ASSUME NEW g \in Guard, CheckoutRefused(g) PROVE LaunchesEnd'
  BY <1>2 DEF CheckoutRefused
<1>3. ASSUME NEW g \in Guard, TakeShared(g) PROVE LaunchesEnd'
  BY <1>3 DEF TakeShared
<1>4. ASSUME NEW g \in Guard, TakeRoot(g) PROVE LaunchesEnd'
  BY <1>4 DEF TakeRoot
<1>5. ASSUME NEW g \in Guard, LockTimeout(g) PROVE LaunchesEnd'
  BY <1>5 DEF LockTimeout
<1>6. ASSUME NEW g \in Guard, StartRun(g) PROVE LaunchesEnd'
  BY <1>6 DEF StartRun
<1>7. ASSUME NEW g \in Guard, StartFails(g) PROVE LaunchesEnd'
  BY <1>7 DEF StartFails
<1>8. ASSUME NEW g \in Guard, Decide(g) PROVE LaunchesEnd'
  BY <1>8 DEF Decide
<1>9. ASSUME NEW g \in Guard, Commit(g) PROVE LaunchesEnd'
  BY <1>9, <1>t DEF Commit
<1>10. ASSUME NEW g \in Guard, CommitFails(g) PROVE LaunchesEnd'
  BY <1>10 DEF CommitFails
<1>11. ASSUME NEW g \in Guard, Seal(g) PROVE LaunchesEnd'
  BY <1>11 DEF Seal
<1>12. ASSUME NEW g \in Guard, DropRoot(g) PROVE LaunchesEnd'
  BY <1>12 DEF DropRoot
<1>13. ASSUME NEW g \in Guard, DemoteTimeout(g) PROVE LaunchesEnd'
  BY <1>13 DEF DemoteTimeout
<1>14. ASSUME NEW g \in Guard, TailDrained(g) PROVE LaunchesEnd'
  BY <1>14 DEF TailDrained
<1>15. ASSUME NEW g \in Guard, TailSkipped(g) PROVE LaunchesEnd'
  BY <1>15 DEF TailSkipped
<1>16. ASSUME NEW g \in Guard, TailFails(g) PROVE LaunchesEnd'
  BY <1>16 DEF TailFails
<1>17. ASSUME NEW g \in Guard, BeginRelease(g) PROVE LaunchesEnd'
  BY <1>17, <1>t DEF BeginRelease
<1>18. ASSUME NEW g \in Guard, ReleaseDrained(g) PROVE LaunchesEnd'
  BY <1>18 DEF ReleaseDrained
<1>19. ASSUME NEW g \in Guard, ReleaseTimeout(g) PROVE LaunchesEnd'
  BY <1>19 DEF ReleaseTimeout
<1>20. ASSUME NEW g \in Guard, UnlockAll(g) PROVE LaunchesEnd'
  BY <1>20, <1>t DEF UnlockAll
<1>21. ASSUME NEW g \in Guard, PutConn(g) PROVE LaunchesEnd'
  BY <1>21 DEF PutConn
<1>22. ASSUME NEW g \in Guard, CloseConn(g) PROVE LaunchesEnd'
  BY <1>22 DEF CloseConn
<1>23. ASSUME NEW g \in Guard, Monitor(g) PROVE LaunchesEnd'
  BY <1>23 DEF Monitor
<1>24. ASSUME NEW g \in Guard, NEW n \in Ns, Authorize(g, n) PROVE LaunchesEnd'
  <2>1. pc[g] \notin {"unlock", "put"} /\ saver[g] # "pool"
    <3>1. CASE n = Root
      BY <1>24, <3>1 DEF Authorize, Permitted, Phases, Released, Pinned
    <3>2. CASE n # Root
      BY <1>24, <3>2 DEF Authorize, Permitted, LaunchesEnd
    <3> QED BY <3>1, <3>2
  <2>2. \A h \in Guard : h # g => inflight'[h] = inflight[h]
    BY <1>t, <1>24 DEF Authorize
  <2> QED BY <1>t, <1>24, <2>1, <2>2 DEF Authorize, LaunchesEnd, Asked, DriverLive
<1>25. ASSUME NEW g \in Guard, NEW n \in Ns, Land(g, n) PROVE LaunchesEnd'
  BY <1>25 DEF Land
<1>26. ASSUME NEW g \in Guard, NEW t \in Task, AskTask(g, t) PROVE LaunchesEnd'
  <2>1. \A h \in Guard : Asked(h)' = IF h = g THEN Asked(h) \cup {t} ELSE Asked(h)
    BY <1>t, <1>26 DEF AskTask, Asked
  <2>2. \A h \in Guard : DriverLive(h)' = DriverLive(h)
    BY <1>26 DEF AskTask, DriverLive
  <2>3. pc[g] = "run" \/ DriverLive(g)
    BY <1>26 DEF AskTask
  <2>4. pc[g] \in {"cas", "demote", "sealed", "tail"} => DriverLive(g)
    BY <2>3
  <2>5. pc[g] \notin {"release", "draining", "unlock", "put"} /\ saver[g] # "pool"
    BY <1>26, <2>3 DEF AskTask, LaunchesEnd, Pinned, Usable, Released
  <2> QED BY <1>t, <1>26, <2>1, <2>2, <2>4, <2>5 DEF AskTask, LaunchesEnd
<1>27. ASSUME NEW g \in Guard, NEW t \in Task, TakeTask(g, t) PROVE LaunchesEnd'
  BY <1>27, <1>t DEF TakeTask
<1>28. ASSUME NEW g \in Guard, NEW t \in Task, CancelTask(g, t) PROVE LaunchesEnd'
  BY <1>28 DEF CancelTask
<1>29. ASSUME NEW g \in Guard, NEW t \in Task, Settle(g, t) PROVE LaunchesEnd'
  BY <1>29 DEF Settle
<1>30. ASSUME NEW g \in Guard, NEW t \in Task, TaskDrained(g, t) PROVE LaunchesEnd'
  BY <1>30 DEF TaskDrained
<1>31. ASSUME NEW g \in Guard, NEW t \in Task, TaskDrainTimeout(g, t) PROVE LaunchesEnd'
  BY <1>31 DEF TaskDrainTimeout
<1>32. ASSUME NEW g \in Guard, NEW t \in Task, UnlockTask(g, t) PROVE LaunchesEnd'
  BY <1>32 DEF UnlockTask
<1>33. ASSUME NEW c \in Conn, SessionDies(c) PROVE LaunchesEnd'
  BY <1>33 DEF SessionDies
<1>34. ASSUME NEW m \in Mutator, MutateBegin(m) PROVE LaunchesEnd'
  BY <1>34 DEF MutateBegin
<1>35. ASSUME NEW m \in Mutator, MutateLock(m) PROVE LaunchesEnd'
  BY <1>35 DEF MutateLock
<1>36. ASSUME NEW m \in Mutator, MutateEnd(m) PROVE LaunchesEnd'
  BY <1>36 DEF MutateEnd
<1>37. CASE UNCHANGED vars
  BY <1>37 DEF vars
<1> QED BY <1>1, <1>2, <1>3, <1>4, <1>5, <1>6, <1>7, <1>8, <1>9, <1>10, <1>11, <1>12, <1>13,
   <1>14, <1>15, <1>16, <1>17, <1>18, <1>19, <1>20, <1>21, <1>22, <1>23, <1>24, <1>25,
   <1>26, <1>27, <1>28, <1>29, <1>30, <1>31, <1>32, <1>33, <1>34, <1>35, <1>36, <1>37 DEF
   Next, Starts, Tears, Tasks, Mutates

\* Guards in session share no connection.
LEMMA OwnConn ==
  ASSUME Pinned, NEW g \in Guard, NEW h \in Guard, g # h, InSession(g),
         pc[h] \notin {"idle", "refused", "gone"}
  PROVE  conn[g] \in Conn /\ conn[h] \in Conn /\ conn[g] # conn[h]
  BY DEF Pinned, InSession

\* The step of one guard leaves what the others have locked.
LEMMA Elsewhere ==
  ASSUME TypeOK, Pinned, Covered, NEW g \in Guard,
         NEW h \in Guard, h # g, InSession(h)',
         conn'[h] = conn[h], pc'[h] = pc[h], alive' = alive,
         permits'[h] = permits[h], inflight'[h] = inflight[h], undo'[h] = undo[h],
         acq'[h] = acq[h], lost'[h] = lost[h], sealed'[h] = sealed[h],
         held'[conn[h]] = held[conn[h]], shared'[conn[h]] = shared[conn[h]]
  PROVE  Backed(h)'
<1>1. InSession(h)
  BY DEF InSession
<1>2. Backed(h)
  BY <1>1 DEF Covered
<1>3. Asked(h)' = Asked(h)
  BY DEF Asked
<1>4. Usable(h)' = Usable(h)
  BY DEF Usable, Released
<1> QED BY <1>2, <1>3, <1>4 DEF Backed

\* A caller of acquire_task_ns finds its session alive only while it is the guard's.
LEMMA AskedInSession ==
  ASSUME Pinned, Phases, LaunchesEnd, NEW g \in Guard, NEW t \in Task, acq[g][t], Alive(g)
  PROVE  InSession(g) /\ conn[g] \in Conn /\ out[conn[g]] = g
<1>1. pc[g] \notin {"idle", "refused"}
  BY DEF Phases, Unborn, Asked
<1>2. pc[g] # "gone"
  BY NamesAssumption DEF Pinned, LaunchesEnd, Asked, Alive
<1> QED BY <1>1, <1>2 DEF Pinned, Alive, InSession

\* No lock goes while a permit, a write or a release stands on it.
LEMMA CoveredStep ==
  ASSUME TypeOK, Pinned, Phases, LaunchesEnd, Covered, [Next]_vars
  PROVE  Covered'
<1> USE DEF Goes, guardVars, taskVars, lockVars, dbVars, mutVars, FreeConn, Pinned, Phases,
      LaunchesEnd, Covered, InSession, Backed, Unborn, Asked, DriverLive, Permitted, Usable,
      Released, Alive, Contended, NoLocks
<1>t. /\ pc \in [Guard -> PcType]
      /\ conn \in [Guard -> Conn \cup {None, Closed}]
      /\ permits \in [Guard -> SUBSET Task]
      /\ live \in [Guard -> SUBSET Task]
      /\ inflight \in [Guard -> SUBSET Ns]
      /\ acq \in [Guard -> [Task -> BOOLEAN]]
      /\ undo \in [Guard -> [Task -> {"none", "drain", "unlock"}]]
      /\ sealed \in [Guard -> BOOLEAN]
      /\ lost \in [Guard -> BOOLEAN]
      /\ saver \in [Guard -> {"own", "pool"}]
      /\ out \in [Conn -> Guard \cup Mutator \cup {None}]
      /\ alive \in [Conn -> BOOLEAN]
      /\ held \in [Conn -> [Ns -> Nat]]
      /\ shared \in [Conn -> BOOLEAN]
      /\ cas \in [Guard -> {"no", "conn", "pool"}]
      /\ mpc \in [Mutator -> {"idle", "locking", "held"}]
      /\ mconn \in [Mutator -> Conn \cup {None}]
  BY DEF TypeOK
<1>n. Root \in Ns /\ Task \subseteq Ns
  BY DEF Ns
<1>1. ASSUME NEW g \in Guard, Checkout(g) PROVE Covered'
  BY <1>1 DEF Checkout
<1>2. ASSUME NEW g \in Guard, CheckoutRefused(g) PROVE Covered'
  BY <1>2 DEF CheckoutRefused
<1>3. ASSUME NEW g \in Guard, TakeShared(g) PROVE Covered'
  BY <1>3 DEF TakeShared
<1>4. ASSUME NEW g \in Guard, TakeRoot(g) PROVE Covered'
  BY <1>4, <1>t, <1>n, NamesAssumption DEF TakeRoot
<1>5. ASSUME NEW g \in Guard, LockTimeout(g) PROVE Covered'
  BY <1>5 DEF LockTimeout
<1>6. ASSUME NEW g \in Guard, StartRun(g) PROVE Covered'
  BY <1>6 DEF StartRun
<1>7. ASSUME NEW g \in Guard, StartFails(g) PROVE Covered'
  BY <1>7 DEF StartFails
<1>8. ASSUME NEW g \in Guard, Decide(g) PROVE Covered'
  BY <1>8 DEF Decide
<1>9. ASSUME NEW g \in Guard, Commit(g) PROVE Covered'
  BY <1>9, <1>t, NamesAssumption DEF Commit
<1>10. ASSUME NEW g \in Guard, CommitFails(g) PROVE Covered'
  BY <1>10 DEF CommitFails
<1>11. ASSUME NEW g \in Guard, Seal(g) PROVE Covered'
  BY <1>11 DEF Seal
<1>12. ASSUME NEW g \in Guard, DropRoot(g) PROVE Covered'
  <2> HIDE DEF Pinned, Phases, LaunchesEnd, Covered, InSession, Backed, Unborn, Asked,
           DriverLive, Permitted, Usable, Released, Alive, Contended, NoLocks
  <2>1. ASSUME NEW h \in Guard, InSession(h)', h # g PROVE Backed(h)'
    <3>1. pc[h] \notin {"idle", "refused", "gone"} /\ InSession(h)
      BY <1>t, <1>12, <2>1 DEF DropRoot, InSession
    <3>2. conn[h] \in Conn /\ conn[h] # conn[g]
      BY <3>1, <2>1, <1>12, OwnConn DEF DropRoot
    <3>3. held'[conn[h]] = held[conn[h]]
      BY <1>t, <1>12, <3>2 DEF DropRoot
    <3> QED BY <1>t, <1>12, <2>1, <3>2, <3>3, Elsewhere DEF DropRoot
  <2>2. ASSUME InSession(g)' PROVE Backed(g)'
    <3>1. InSession(g) /\ conn[g] \in Conn /\ Backed(g)
      BY <1>t, <1>12, <2>2 DEF DropRoot, InSession, Covered, Pinned
    <3>2. /\ held' \in [Conn -> [Ns -> Nat]]
          /\ \A n \in Ns \ {Root} : held'[conn[g]][n] = held[conn[g]][n]
      BY <1>t, <1>12, <3>1, RootLocks
    <3>3. sealed'[g]
      BY <1>12 DEF DropRoot, Phases
    <3>4. Asked(g)' = Asked(g) /\ (Usable(g)' => Usable(g))
      BY <1>t, <1>12 DEF DropRoot, Asked, Usable, Released
    <3>5. \A n \in inflight[g] : n # Root
      BY <1>12 DEF DropRoot
    <3>6. UNCHANGED <<conn, permits, inflight, undo, acq, shared, sealed>>
      BY <1>12 DEF DropRoot
    <3>7. pc[g] = "sealed" /\ pc'[g] = "tail"
      BY <1>t, <1>12 DEF DropRoot
    <3>8. permits[g] \subseteq Task /\ inflight[g] \subseteq Ns
      BY <1>t
    <3> QED BY <1>n, NamesAssumption, <3>1, <3>2, <3>3, <3>4, <3>5, <3>6, <3>7, <3>8
       DEF Backed
  <2> QED BY <2>1, <2>2 DEF Covered
<1>13. ASSUME NEW g \in Guard, DemoteTimeout(g) PROVE Covered'
  BY <1>13 DEF DemoteTimeout
<1>14. ASSUME NEW g \in Guard, TailDrained(g) PROVE Covered'
  BY <1>14 DEF TailDrained
<1>15. ASSUME NEW g \in Guard, TailSkipped(g) PROVE Covered'
  BY <1>15 DEF TailSkipped
<1>16. ASSUME NEW g \in Guard, TailFails(g) PROVE Covered'
  BY <1>16 DEF TailFails
<1>17. ASSUME NEW g \in Guard, BeginRelease(g) PROVE Covered'
  BY <1>17, <1>t DEF BeginRelease
<1>18. ASSUME NEW g \in Guard, ReleaseDrained(g) PROVE Covered'
  BY <1>18 DEF ReleaseDrained
<1>19. ASSUME NEW g \in Guard, ReleaseTimeout(g) PROVE Covered'
  BY <1>19 DEF ReleaseTimeout
<1>20. ASSUME NEW g \in Guard, UnlockAll(g) PROVE Covered'
  <2> HIDE DEF Pinned, Phases, LaunchesEnd, Covered, InSession, Backed, Unborn, Asked,
           DriverLive, Permitted, Usable, Released, Alive, Contended, NoLocks
  <2>1. ASSUME NEW h \in Guard, InSession(h)', h # g PROVE Backed(h)'
    <3>1. pc[h] \notin {"idle", "refused", "gone"} /\ InSession(h)
      BY <1>t, <1>20, <2>1 DEF UnlockAll, InSession
    <3>2. conn[h] \in Conn /\ conn[h] # conn[g]
      BY <3>1, <2>1, <1>20, OwnConn DEF UnlockAll
    <3>3. held'[conn[h]] = held[conn[h]] /\ shared'[conn[h]] = shared[conn[h]]
      BY <1>t, <1>20, <3>2 DEF UnlockAll
    <3>4. pc'[h] = pc[h] /\ lost'[h] = lost[h]
      BY <1>t, <1>20, <2>1 DEF UnlockAll
    <3> QED BY <1>20, <2>1, <3>2, <3>3, <3>4, Elsewhere DEF UnlockAll
  <2>2. ASSUME InSession(g)' PROVE Backed(g)'
    <3>1. permits[g] = {} /\ inflight[g] = {} /\ Asked(g) = {} /\ sealed[g]
      BY <1>20 DEF UnlockAll, LaunchesEnd, Phases, Released
    <3>2. permits'[g] = {} /\ inflight'[g] = {} /\ Asked(g)' = {} /\ sealed'[g]
      BY <1>20, <3>1 DEF UnlockAll, Asked
    <3>3. pc'[g] \in {"put", "close"}
      BY <1>t, <1>20 DEF UnlockAll
    <3> QED BY <3>2, <3>3 DEF Backed, Usable, Released
  <2> QED BY <2>1, <2>2 DEF Covered
<1>21. ASSUME NEW g \in Guard, PutConn(g) PROVE Covered'
  BY <1>21 DEF PutConn
<1>22. ASSUME NEW g \in Guard, CloseConn(g) PROVE Covered'
  BY <1>22, <1>t, NamesAssumption DEF CloseConn
<1>23. ASSUME NEW g \in Guard, Monitor(g) PROVE Covered'
  BY <1>23 DEF Monitor
<1>24. ASSUME NEW g \in Guard, NEW n \in Ns, Authorize(g, n) PROVE Covered'
  BY <1>24, <1>t, NamesAssumption DEF Authorize
<1>25. ASSUME NEW g \in Guard, NEW n \in Ns, Land(g, n) PROVE Covered'
  BY <1>25 DEF Land
<1>26. ASSUME NEW g \in Guard, NEW t \in Task, AskTask(g, t) PROVE Covered'
  BY <1>26 DEF AskTask
<1>27. ASSUME NEW g \in Guard, NEW t \in Task, TakeTask(g, t) PROVE Covered'
  <2> HIDE DEF Pinned, Phases, LaunchesEnd, Covered, InSession, Backed, Unborn, Asked,
           DriverLive, Permitted, Usable, Released, Alive, Contended, NoLocks
  <2>1. ASSUME NEW h \in Guard, InSession(h)', h # g PROVE Backed(h)'
    <3>1. InSession(h)
      BY <1>27, <2>1 DEF TakeTask, InSession
    <3>2. held'[conn[h]] = held[conn[h]]
      <4>1. CASE held' = held
        BY <4>1
      <4>2. CASE Alive(g) /\ held' # held
        <5>1. conn[g] # conn[h] /\ conn[h] \in Conn
          BY <1>27, <2>1, <3>1, <4>2, AskedInSession DEF TakeTask, Pinned, InSession
        <5> QED BY <1>t, <1>27, <3>1, <5>1 DEF TakeTask
      <4> QED BY <1>27, <4>1, <4>2 DEF TakeTask
    <3>3. acq'[h] = acq[h] /\ permits'[h] = permits[h]
      BY <1>t, <1>27, <2>1 DEF TakeTask
    <3> QED BY <1>27, <2>1, <3>2, <3>3, Elsewhere DEF TakeTask
  <2>2. ASSUME InSession(g)' PROVE Backed(g)'
    <3>1. InSession(g) /\ conn[g] \in Conn /\ Backed(g)
      BY <1>27, <2>2 DEF TakeTask, InSession, Covered, Pinned
    <3>2. shared[conn[g]]
      BY <1>27, <3>1 DEF TakeTask, Backed, Asked
    <3>3. UNCHANGED <<pc, conn, lost, sealed, inflight, undo, shared>>
      BY <1>27 DEF TakeTask
    <3>4. CASE permits' = permits /\ held' = held
      BY <3>1, <3>2, <3>3, <3>4 DEF Backed, Usable, Released
    <3>5. CASE permits' # permits \/ held' # held
      <4>1. /\ held' = [held EXCEPT ![conn[g]][t] = @ + 1]
            /\ permits' = [permits EXCEPT ![g] = @ \cup {t}]
        BY <1>27, <3>5 DEF TakeTask
      <4>2. \A m \in Ns : held'[conn[g]][m] =
              IF m = t THEN held[conn[g]][m] + 1 ELSE held[conn[g]][m]
        BY <1>t, <1>n, <3>1, <4>1
      <4>3. permits'[g] = permits[g] \cup {t}
        BY <1>t, <4>1
      <4>4. \A m \in Ns : held[conn[g]][m] \in Nat
        BY <1>t, <3>1
      <4>5. \A m \in Ns : held'[conn[g]][m] \in Nat /\ held'[conn[g]][m] >= held[conn[g]][m]
        BY <4>2, <4>4
      <4>6. permits[g] \subseteq Task /\ inflight[g] \subseteq Ns
        BY <1>t
      <4>7. Usable(g)' = Usable(g)
        BY <3>3 DEF Usable, Released
      <4>8. held'[conn[g]][t] = held[conn[g]][t] + 1
        BY <1>n, <4>2
      <4> QED BY <1>n, <3>1, <3>2, <3>3, <4>3, <4>4, <4>5, <4>6, <4>7, <4>8 DEF Backed
    <3> QED BY <3>4, <3>5
  <2> QED BY <2>1, <2>2 DEF Covered
<1>28. ASSUME NEW g \in Guard, NEW t \in Task, CancelTask(g, t) PROVE Covered'
  <2> HIDE DEF Pinned, Phases, LaunchesEnd, Covered, InSession, Backed, Unborn, Asked,
           DriverLive, Permitted, Usable, Released, Alive, Contended, NoLocks
  <2>1. ASSUME NEW h \in Guard, InSession(h)', h # g PROVE Backed(h)'
    <3>1. InSession(h)
      BY <1>28, <2>1 DEF CancelTask, InSession
    <3>2. held'[conn[h]] = held[conn[h]]
      <4>1. CASE held' = held
        BY <4>1
      <4>2. CASE Alive(g) /\ held' # held
        <5>1. conn[g] # conn[h] /\ conn[h] \in Conn
          BY <1>28, <2>1, <3>1, <4>2, AskedInSession DEF CancelTask, Pinned, InSession
        <5> QED BY <1>t, <1>28, <3>1, <5>1 DEF CancelTask
      <4> QED BY <1>28, <4>1, <4>2 DEF CancelTask
    <3>3. acq'[h] = acq[h]
      BY <1>t, <1>28, <2>1 DEF CancelTask
    <3> QED BY <1>28, <2>1, <3>2, <3>3, Elsewhere DEF CancelTask
  <2>2. ASSUME InSession(g)' PROVE Backed(g)'
    <3>1. InSession(g) /\ conn[g] \in Conn /\ Backed(g)
      BY <1>28, <2>2 DEF CancelTask, InSession, Covered, Pinned
    <3>2. shared[conn[g]]
      BY <1>28, <3>1 DEF CancelTask, Backed, Asked
    <3>3. UNCHANGED <<pc, conn, lost, sealed, permits, inflight, undo, shared>>
      BY <1>28 DEF CancelTask
    <3>4. \A m \in Ns : /\ held[conn[g]][m] \in Nat /\ held'[conn[g]][m] \in Nat
                        /\ held'[conn[g]][m] >= held[conn[g]][m]
      <4>1. \A m \in Ns : held[conn[g]][m] \in Nat /\ held'[conn[g]][m] \in Nat
        BY <1>t, <1>28, <3>1, TaskLocks
      <4>2. \A m \in Ns : \/ held'[conn[g]][m] = held[conn[g]][m]
                          \/ held'[conn[g]][m] = held[conn[g]][m] + 1
        BY <1>t, <1>28, <3>1, TaskLocks
      <4> QED BY <4>1, <4>2
    <3>5. permits[g] \subseteq Task /\ inflight[g] \subseteq Ns
      BY <1>t
    <3> QED BY <1>n, <3>1, <3>2, <3>3, <3>4, <3>5 DEF Backed, Usable, Released
  <2> QED BY <2>1, <2>2 DEF Covered
<1>29. ASSUME NEW g \in Guard, NEW t \in Task, Settle(g, t) PROVE Covered'
  BY <1>29, <1>t DEF Settle
<1>30. ASSUME NEW g \in Guard, NEW t \in Task, TaskDrained(g, t) PROVE Covered'
  BY <1>30 DEF TaskDrained
<1>31. ASSUME NEW g \in Guard, NEW t \in Task, TaskDrainTimeout(g, t) PROVE Covered'
  BY <1>31 DEF TaskDrainTimeout
<1>32. ASSUME NEW g \in Guard, NEW t \in Task, UnlockTask(g, t) PROVE Covered'
  BY <1>32, <1>t, NamesAssumption DEF UnlockTask
<1>33. ASSUME NEW c \in Conn, SessionDies(c) PROVE Covered'
  BY <1>33, <1>t DEF SessionDies
<1>34. ASSUME NEW m \in Mutator, MutateBegin(m) PROVE Covered'
  BY <1>34 DEF MutateBegin
<1>35. ASSUME NEW m \in Mutator, MutateLock(m) PROVE Covered'
  BY <1>35 DEF MutateLock
<1>36. ASSUME NEW m \in Mutator, MutateEnd(m) PROVE Covered'
  <2> HIDE DEF Pinned, Phases, LaunchesEnd, Covered, InSession, Backed, Unborn, Asked,
           DriverLive, Permitted, Usable, Released, Alive, Contended, NoLocks
  <2>1. ASSUME NEW h \in Guard, InSession(h)' PROVE Backed(h)'
    <3>1. mconn[m] \in Conn /\ out[mconn[m]] = m /\ conn[h] \in Conn /\ out[conn[h]] = h
      BY <1>36, <2>1 DEF MutateEnd, Pinned, InSession
    <3>2. conn[h] # mconn[m]
      BY <3>1, NamesAssumption
    <3>3. /\ held'[conn[h]] = held[conn[h]] /\ shared'[conn[h]] = shared[conn[h]]
          /\ alive'[conn[h]] = alive[conn[h]]
      BY <1>t, <1>36, <3>1, <3>2 DEF MutateEnd
    <3>4. InSession(h)
      BY <1>36, <2>1, <3>3 DEF MutateEnd, InSession
    <3>5. Backed(h)
      BY <3>4 DEF Covered
    <3>6. UNCHANGED <<pc, conn, lost, sealed, permits, acq, inflight, undo>>
      BY <1>36 DEF MutateEnd
    <3> QED BY <3>3, <3>5, <3>6 DEF Backed, Usable, Released, Asked
  <2> QED BY <2>1 DEF Covered
<1>37. CASE UNCHANGED vars
  BY <1>37 DEF vars
<1> QED BY <1>1, <1>2, <1>3, <1>4, <1>5, <1>6, <1>7, <1>8, <1>9, <1>10, <1>11, <1>12, <1>13,
   <1>14, <1>15, <1>16, <1>17, <1>18, <1>19, <1>20, <1>21, <1>22, <1>23, <1>24, <1>25,
   <1>26, <1>27, <1>28, <1>29, <1>30, <1>31, <1>32, <1>33, <1>34, <1>35, <1>36, <1>37 DEF
   Next, Starts, Tears, Tasks, Mutates

-----------------------------------------------------------------------------
\* IInv holds at the start.
LEMMA InitIInv == Init => IInv
<1> SUFFICES ASSUME Init PROVE IInv
  OBVIOUS
<1>1. TypeOK
  BY Unlocked DEF Init, TypeOK, PcType
<1>2. Pinned /\ Phases /\ LaunchesEnd
  BY DEF Init, Pinned, Phases, LaunchesEnd, Unborn, Asked, Released, DriverLive
<1>3. PoolClean /\ LocksExclude
  BY DEF Init, PoolClean, LocksExclude, NoLocks
<1>4. Covered
  BY DEF Init, Covered, InSession
<1> QED BY <1>1, <1>2, <1>3, <1>4 DEF IInv

\* IInv is inductive.
LEMMA NextIInv == Stray = {} /\ IInv /\ [Next]_vars => IInv'
  BY TypeStep, PinnedStep, CleanStep, ExcludeStep, PhasesStep, LaunchesStep, CoveredStep
  DEF IInv

\* Every state is well typed: no lock count goes below zero.
THEOREM TypeCorrect == Spec => []TypeOK
<1>1. Init => TypeOK
  BY InitIInv DEF IInv
<1>2. TypeOK /\ [Next]_vars => TypeOK'
  BY TypeStep
<1> QED BY <1>1, <1>2, PTL DEF Spec

\* The inductive invariant, when every launch is awaited.
THEOREM IInvHolds == ASSUME Stray = {} PROVE Spec => []IInv
<1>1. IInv /\ [Next]_vars => IInv'
  BY NextIInv
<1> QED BY <1>1, InitIInv, PTL DEF Spec

-----------------------------------------------------------------------------
(* What follows from the invariant: the safety properties of the fence, and  *)
(* that the guards implement FenceContract.  All of it when every launch is  *)
(* awaited; WriterGuardStray shows why that is needed.                       *)

\* A guard with a permit, a write under way or a saver that can reach the
\* database is in session and holds the locks.
LEMMA Working ==
  ASSUME IInv, NEW g \in Guard, Reaches(g), permits[g] # {} \/ inflight[g] # {}
  PROVE  InSession(g) /\ Backed(g) /\ saver[g] = "own" /\ out[conn[g]] = g /\ conn[g] \in Conn
<1>1. saver[g] = "own" /\ Alive(g)
  BY DEF IInv, TypeOK, LaunchesEnd, Reaches
<1>2. pc[g] \notin {"idle", "refused"}
  BY DEF IInv, Phases, Unborn
<1>3. pc[g] # "gone"
  BY <1>1, NamesAssumption DEF IInv, Pinned, Alive
<1> QED BY <1>1, <1>2, <1>3 DEF IInv, Pinned, Covered, InSession, Alive

\* An authorized write lands inside the fence or not at all, however long it
\* waits (fenced_write, demote_to_tail, _do_release).
THEOREM FenceTheorem == ASSUME Stray = {} PROVE Spec => []WritesInsideFence
<1>1. IInv => WritesInsideFence
  BY Working DEF WritesInsideFence, Fenced, Holds, Backed
<1> QED BY <1>1, IInvHolds, PTL

\* A permit is never held without its lock (acquire_task_ns, release_task_ns).
THEOREM PermitTheorem == ASSUME Stray = {} PROVE Spec => []PermitsLocked
<1>1. IInv => PermitsLocked
  BY Working DEF PermitsLocked, Holds, Backed, Reaches
<1> QED BY <1>1, IInvHolds, PTL

\* No saver reaches a connection that serves somebody else, and the pool's
\* sessions hold no locks (_do_release).
THEOREM PrivateTheorem == ASSUME Stray = {} PROVE Spec => []ConnectionsPrivate
<1>1. IInv => ConnectionsPrivate
  BY NamesAssumption DEF IInv, TypeOK, Pinned, PoolClean, ConnectionsPrivate
<1> QED BY <1>1, IInvHolds, PTL

\* No write of a run or of a surviving subagent can land while a mutation holds
\* the thread (ThreadMutationRunner.exclusive).
THEOREM MutationTheorem == ASSUME Stray = {} PROVE Spec => []MutationAlone
<1>1. ASSUME IInv, NEW m \in Mutator, mpc[m] = "held", exclusive[mconn[m]],
             NEW g \in Guard, Reaches(g), inflight[g] # {}
      PROVE  FALSE
  <2>1. conn[g] \in Conn /\ shared[conn[g]]
    BY <1>1, Working DEF Backed
  <2>2. mconn[m] \in Conn
    BY <1>1 DEF IInv, Pinned
  <2> QED BY <1>1, <2>1, <2>2 DEF IInv, LocksExclude
<1>2. IInv => MutationAlone
  BY <1>1 DEF MutationAlone
<1> QED BY <1>2, IInvHolds, PTL

\* Only a run that still owns its root namespace, on a session nobody has
\* declared lost, records its own outcome (finalize_run).
THEOREM OutcomeTheorem == ASSUME Stray = {} PROVE Spec => OutcomeFenced
<1>1. ASSUME IInv, [Next]_vars, NEW g \in Guard, outcome[g] = "none", outcome'[g] = "ok"
      PROVE  ~lost[g] /\ Holds(g, Root)
  <2>1. CASE Commit(g)
    <3>1. pc[g] = "cas" /\ cas[g] = "conn" /\ Alive(g)
      BY <1>1, <2>1 DEF Commit, IInv, TypeOK
    <3>2. ~sealed[g] /\ ~lost[g]
      BY <1>1, <3>1 DEF IInv, Phases
    <3>3. InSession(g) /\ out[conn[g]] = g /\ conn[g] \in Conn
      BY <1>1, <3>1 DEF IInv, Pinned, InSession, Alive
    <3> QED BY <1>1, <3>1, <3>2, <3>3 DEF IInv, Covered, Backed, Holds
  <2>2. ASSUME NEW h \in Guard, h # g, Commit(h) PROVE FALSE
    BY <1>1, <2>2 DEF Commit, IInv, TypeOK
  <2>3. CASE UNCHANGED outcome
    BY <1>1, <2>3
  <2>4. ASSUME NEW h \in Guard, Starts(h) PROVE UNCHANGED outcome
    BY <2>4 DEF Starts, Checkout, CheckoutRefused, TakeShared, TakeRoot, LockTimeout,
       StartRun, StartFails
  <2>5. ASSUME NEW h \in Guard, Tears(h), ~Commit(h) PROVE UNCHANGED outcome
    BY <2>5 DEF Tears, Decide, CommitFails, Seal, DropRoot, DemoteTimeout, TailDrained,
       TailSkipped, TailFails, BeginRelease, ReleaseDrained, ReleaseTimeout, UnlockAll,
       PutConn, CloseConn
  <2>6. ASSUME NEW h \in Guard, NEW t \in Task, Tasks(h, t) PROVE UNCHANGED outcome
    BY <2>6 DEF Tasks, AskTask, TakeTask, CancelTask, Settle, TaskDrained,
       TaskDrainTimeout, UnlockTask
  <2>7. ASSUME NEW h \in Guard, Monitor(h) PROVE UNCHANGED outcome
    BY <2>7 DEF Monitor
  <2>8. ASSUME NEW h \in Guard, NEW n \in Ns, Authorize(h, n) \/ Land(h, n)
        PROVE  UNCHANGED outcome
    BY <2>8 DEF Authorize, Land
  <2>9. ASSUME NEW c \in Conn, SessionDies(c) PROVE UNCHANGED outcome
    BY <2>9 DEF SessionDies
  <2>10. ASSUME NEW m \in Mutator, Mutates(m) PROVE UNCHANGED outcome
    BY <2>10 DEF Mutates, MutateBegin, MutateLock, MutateEnd
  <2> QED BY <1>1, <2>1, <2>2, <2>3, <2>4, <2>5, <2>6, <2>7, <2>8, <2>9, <2>10
      DEF Next, vars
<1>2. IInv /\ [Next]_vars => \A g \in Guard :
          outcome[g] = "none" /\ outcome'[g] = "ok" => ~lost[g] /\ Holds(g, Root)
  BY <1>1
<1> QED BY <1>2, IInvHolds, PTL DEF Spec, OutcomeFenced
-----------------------------------------------------------------------------
(* The guards implement the fence. *)

\* Who owns a namespace is who holds its lock, before a step and after it.
Owned(n, o) ==
    o \in Guard \cup {None} /\ \A g \in Guard : o = g <=> Holds(g, n)

\* At most one guard holds a lock, so the owner is who holds it.
LEMMA OwnerIs ==
  ASSUME LocksExclude, NEW n \in Ns
  PROVE  Owned(n, OwnerOf(n))
<1>1. \A g, h \in Guard : Holds(g, n) /\ Holds(h, n) => g = h
  BY DEF LocksExclude, Holds
<1> QED BY <1>1, NamesAssumption DEF Owned, OwnerOf

\* The same after a step.
LEMMA OwnerIsNext ==
  ASSUME LocksExclude', NEW n \in Ns
  PROVE  Owned(n, OwnerOf(n))'
<1>1. \A g, h \in Guard : Holds(g, n)' /\ Holds(h, n)' => g = h
  BY DEF LocksExclude, Holds
<1> QED BY <1>1, NamesAssumption DEF Owned, OwnerOf

\* What a step does to the locks and the writes, seen from outside.
SameHolds(g) == \A n \in Ns : (Holds(g, n)' <=> Holds(g, n))
SameOther(g) == \A h \in Guard \ {g} : SameHolds(h) /\ PendingOf(h)' = PendingOf(h)
Keeps == \A g \in Guard : SameHolds(g) /\ PendingOf(g)' = PendingOf(g)
Takes(g, n) ==
    /\ SameOther(g) /\ PendingOf(g)' = PendingOf(g)
    /\ \A h \in Guard : ~Holds(h, n)
    /\ \A k \in Ns : Holds(g, k)' <=> (k = n \/ Holds(g, k))
Begins(g, n) ==
    /\ SameOther(g) /\ SameHolds(g) /\ Holds(g, n)
    /\ PendingOf(g)' = PendingOf(g) \cup {n}
Finishes(g, n) ==
    /\ SameOther(g) /\ SameHolds(g) /\ n \in PendingOf(g)
    /\ PendingOf(g)' = PendingOf(g) \ {n}
Drops(g) ==
    /\ SameOther(g) /\ PendingOf(g)' = PendingOf(g)
    /\ \A n \in Ns : /\ Holds(g, n)' => Holds(g, n)
                     /\ n \in PendingOf(g) => (Holds(g, n)' <=> Holds(g, n))
Dies(g) == SameOther(g) /\ PendingOf(g)' = {} /\ \A n \in Ns : ~Holds(g, n)'

Seen ==
    \/ Keeps
    \/ \E g \in Guard : \/ Drops(g) \/ Dies(g)
                        \/ \E n \in Ns : Takes(g, n) \/ Begins(g, n) \/ Finishes(g, n)

\* What is seen from outside is a step of the contract.
LEMMA SeenSteps ==
  ASSUME LocksExclude, LocksExclude', Seen
  PROVE  [Contract!Next]_(Contract!fenceVars)
<1> DEFINE own == [n \in Ns |-> OwnerOf(n)]
           pend == [g \in Guard |-> PendingOf(g)]
<1>1. \A n \in Ns : Owned(n, own[n])
  BY OwnerIs
<1>2. \A n \in Ns : /\ own'[n] \in Guard \cup {None}
                    /\ \A g \in Guard : own'[n] = g <=> Holds(g, n)'
  BY OwnerIsNext DEF Owned
<1>3. /\ own = [n \in Ns |-> own[n]] /\ own' = [n \in Ns |-> own'[n]]
      /\ pend = [g \in Guard |-> pend[g]] /\ pend' = [g \in Guard |-> pend'[g]]
      /\ \A g \in Guard : pend[g] = PendingOf(g) /\ pend'[g] = PendingOf(g)'
  OBVIOUS
<1>4. None \notin Guard
  BY NamesAssumption
<1> HIDE DEF own, pend
<1>5. CASE Keeps
  <2>1. \A n \in Ns : own'[n] = own[n]
    BY <1>1, <1>2, <1>4, <1>5 DEF Keeps, SameHolds, Owned
  <2>2. own' = own /\ pend' = pend
    BY <1>3, <1>5, <2>1 DEF Keeps
  <2> QED BY <2>2 DEF Contract!fenceVars, own, pend
<1>6. ASSUME NEW g \in Guard, Drops(g) PROVE Contract!Next
  <2> DEFINE some == {n \in Ns : own[n] = g /\ own'[n] # g}
  <2>1. \A n \in Ns : own'[n] = IF n \in some THEN None ELSE own[n]
    BY <1>1, <1>2, <1>4, <1>6 DEF Drops, SameOther, SameHolds, Owned
  <2>2. own' = [n \in Ns |-> IF n \in some THEN None ELSE own[n]]
    BY <1>3, <2>1
  <2>3. pend' = pend
    BY <1>3, <1>6 DEF Drops, SameOther
  <2>4. some \cap pend[g] = {}
    BY <1>1, <1>2, <1>3, <1>6 DEF Drops, Owned
  <2>5. some \in SUBSET {n \in Ns : own[n] = g}
    OBVIOUS
  <2> HIDE DEF some
  <2>6. Contract!Drop(g)
    BY <2>2, <2>3, <2>4, <2>5 DEF Contract!Drop, own, pend
  <2> QED BY <2>6 DEF Contract!Next
<1>7. ASSUME NEW g \in Guard, Dies(g) PROVE Contract!Next
  <2>1. \A n \in Ns : own'[n] = IF own[n] = g THEN None ELSE own[n]
    BY <1>1, <1>2, <1>4, <1>7 DEF Dies, SameOther, SameHolds, Owned
  <2>2. own' = [n \in Ns |-> IF own[n] = g THEN None ELSE own[n]]
    BY <1>3, <2>1
  <2>3. pend' = [pend EXCEPT ![g] = {}]
    BY <1>3, <1>7 DEF Dies, SameOther
  <2>4. Contract!Die(g)
    BY <2>2, <2>3 DEF Contract!Die, own, pend
  <2> QED BY <2>4 DEF Contract!Next
<1>8. ASSUME NEW g \in Guard, NEW n \in Ns, Takes(g, n) PROVE Contract!Next
  <2>1. own[n] = None
    BY <1>1, <1>8 DEF Takes, Owned
  <2>2. \A k \in Ns : own'[k] = IF k = n THEN g ELSE own[k]
    BY <1>1, <1>2, <1>4, <1>8 DEF Takes, SameOther, SameHolds, Owned
  <2>3. own' = [own EXCEPT ![n] = g] /\ pend' = pend
    BY <1>3, <1>8, <2>2 DEF Takes, SameOther
  <2>4. Contract!Take(g, n)
    BY <2>1, <2>3 DEF Contract!Take, own, pend
  <2> QED BY <2>4 DEF Contract!Next
<1>9. ASSUME NEW g \in Guard, NEW n \in Ns, Begins(g, n) \/ Finishes(g, n)
      PROVE  Contract!Next
  <2>1. \A k \in Ns : own'[k] = own[k]
    BY <1>1, <1>2, <1>4, <1>9 DEF Begins, Finishes, SameOther, SameHolds, Owned
  <2>2. own' = own
    BY <1>3, <2>1
  <2>3. CASE Begins(g, n)
    <3>1. own[n] = g
      BY <1>1, <2>3 DEF Begins, Owned
    <3>2. pend' = [pend EXCEPT ![g] = @ \cup {n}]
      BY <1>3, <2>3 DEF Begins, SameOther
    <3>3. Contract!Begin(g, n)
      BY <2>2, <3>1, <3>2 DEF Contract!Begin, own, pend
    <3> QED BY <3>3 DEF Contract!Next
  <2>4. CASE Finishes(g, n)
    <3>1. n \in pend[g] /\ pend' = [pend EXCEPT ![g] = @ \ {n}]
      BY <1>3, <2>4 DEF Finishes, SameOther
    <3>2. Contract!Finish(g, n)
      BY <2>2, <3>1 DEF Contract!Finish, own, pend
    <3> QED BY <3>2 DEF Contract!Next
  <2> QED BY <1>9, <2>3, <2>4
<1> QED BY <1>5, <1>6, <1>7, <1>8, <1>9 DEF Seen

\* Steps that touch no lock, no write under way and no connection are not seen.
LEMMA QuietKeeps ==
  ASSUME UNCHANGED <<conn, out, held, alive, saver, inflight>>
  PROVE  Keeps
  BY DEF Keeps, SameHolds, Holds, PendingOf, Reaches, Alive

\* Every step of the guards is one of these, or not seen.
LEMMA SeenStep ==
  ASSUME Stray = {}, IInv, [Next]_vars
  PROVE  Seen
<1> USE DEF Goes, guardVars, taskVars, lockVars, dbVars, mutVars, FreeConn
<1>t. /\ conn \in [Guard -> Conn \cup {None, Closed}]
      /\ saver \in [Guard -> {"own", "pool"}]
      /\ out \in [Conn -> Guard \cup Mutator \cup {None}]
      /\ alive \in [Conn -> BOOLEAN]
      /\ held \in [Conn -> [Ns -> Nat]]
      /\ inflight \in [Guard -> SUBSET Ns]
  BY DEF IInv, TypeOK
<1>i. TypeOK /\ Pinned /\ PoolClean /\ LocksExclude /\ Phases /\ LaunchesEnd /\ Covered
  BY DEF IInv
<1>n. Root \in Ns /\ Task \subseteq Ns
  BY DEF Ns
<1>1. ASSUME UNCHANGED <<conn, out, held, alive, saver, inflight>> PROVE Seen
  BY <1>1, QuietKeeps DEF Seen
<1>2. ASSUME NEW g \in Guard, Checkout(g) PROVE Seen
  <2>1. PICK c \in Conn : /\ out[c] = None /\ out' = [out EXCEPT ![c] = g]
                          /\ conn' = [conn EXCEPT ![g] = c]
    BY <1>2 DEF Checkout
  <2>2. conn[g] = None /\ inflight[g] = {} /\ held[c] = NoLocks
    BY <1>i, <1>2, <2>1 DEF Checkout, Pinned, Phases, Unborn, PoolClean
  <2>3. \A n \in Ns : ~Holds(g, n) /\ ~Holds(g, n)'
    BY <1>t, <1>2, <2>1, <2>2, NamesAssumption DEF Checkout, Holds, NoLocks
  <2>4. ASSUME NEW h \in Guard, h # g PROVE SameHolds(h) /\ PendingOf(h)' = PendingOf(h)
    <3>1. conn'[h] = conn[h] /\ UNCHANGED <<held, alive, saver, inflight>>
      BY <1>t, <1>2, <2>1, <2>4 DEF Checkout
    <3>2. conn[h] \in Conn => (out'[conn[h]] = h <=> out[conn[h]] = h)
      BY <1>t, <2>1, <2>4, NamesAssumption
    <3> QED BY <3>1, <3>2 DEF SameHolds, Holds, PendingOf, Reaches, Alive
  <2>5. PendingOf(g) = {} /\ PendingOf(g)' = {}
    BY <1>2, <2>2 DEF Checkout, PendingOf
  <2>6. SameHolds(g)
    BY <2>3 DEF SameHolds
  <2> QED BY <2>4, <2>5, <2>6 DEF Seen, Keeps
<1>3. ASSUME NEW g \in Guard, NEW n \in Ns, Alive(g), out[conn[g]] = g, ~Contended(conn[g], n),
             held' = [held EXCEPT ![conn[g]][n] = @ + 1],
             UNCHANGED <<conn, out, alive, saver, inflight>>
      PROVE  Seen
  <2>1. conn[g] \in Conn
    BY <1>3 DEF Alive
  <2>2. \A d \in Conn, m \in Ns :
          held'[d][m] = IF d = conn[g] /\ m = n THEN held[d][m] + 1 ELSE held[d][m]
    BY <1>i, <1>3, TakesLock
  <2>3. \A h \in Guard : PendingOf(h)' = PendingOf(h)
    BY <1>3 DEF PendingOf, Reaches, Alive
  <2>4. \A h \in Guard \ {g} : SameHolds(h) /\ ~Holds(h, n)
    BY <1>3, <2>1, <2>2, NamesAssumption DEF SameHolds, Holds, Contended
  <2>5. \A k \in Ns : Holds(g, k)' <=> (k = n \/ Holds(g, k))
    BY <1>t, <1>3, <2>1, <2>2 DEF Holds
  <2>6. CASE Holds(g, n)
    <3>1. SameHolds(g)
      BY <2>5, <2>6 DEF SameHolds
    <3> QED BY <2>3, <2>4, <3>1 DEF Seen, Keeps
  <2>7. CASE ~Holds(g, n)
    <3>1. Takes(g, n)
      BY <2>3, <2>4, <2>5, <2>7 DEF Takes, SameOther
    <3> QED BY <3>1 DEF Seen
  <2> QED BY <2>6, <2>7
<1>4. ASSUME NEW g \in Guard, TakeRoot(g) PROVE Seen
  <2>1. out[conn[g]] = g
    BY <1>i, <1>4 DEF TakeRoot, Pinned
  <2> QED BY <1>3, <1>4, <1>n, <2>1 DEF TakeRoot
<1>5. ASSUME NEW g \in Guard, NEW t \in Task, TakeTask(g, t) \/ CancelTask(g, t) PROVE Seen
  <2>1. UNCHANGED <<conn, out, alive, saver, inflight>> /\ acq[g][t]
    BY <1>5 DEF TakeTask, CancelTask
  <2>2. \/ held' = held
        \/ /\ Alive(g) /\ ~Contended(conn[g], t)
           /\ held' = [held EXCEPT ![conn[g]][t] = @ + 1]
    BY <1>5 DEF TakeTask, CancelTask
  <2>3. Alive(g) => out[conn[g]] = g
    BY <1>i, <2>1, AskedInSession
  <2> QED BY <1>1, <1>3, <1>n, <2>1, <2>2, <2>3
<1>6. ASSUME NEW g \in Guard, NEW n \in Ns, Authorize(g, n) PROVE Seen
  <2>1. \A h \in Guard : SameHolds(h) /\ Reaches(h)' = Reaches(h)
    BY <1>6 DEF Authorize, SameHolds, Holds, Reaches, Alive
  <2>2. \A h \in Guard \ {g} : PendingOf(h)' = PendingOf(h)
    BY <1>t, <1>6, <2>1 DEF Authorize, PendingOf
  <2>3. CASE ~Reaches(g)
    BY <2>1, <2>2, <2>3 DEF Seen, Keeps, PendingOf
  <2>4. CASE Reaches(g)
    <3>1. permits[g] = {} => n = Root /\ ~sealed[g]
      BY <1>6 DEF Authorize, Permitted
    <3>2. saver[g] # "pool"
      BY <1>i, <1>6, <3>1 DEF Pinned, LaunchesEnd, Phases, Released
    <3>3. Alive(g) /\ pc[g] \notin Unborn
      BY <1>6, <2>4, <3>2 DEF Authorize, Reaches
    <3>4. pc[g] # "gone"
      BY <1>i, <3>2, <3>3, NamesAssumption DEF Pinned, Alive
    <3>5. InSession(g) /\ Backed(g) /\ out[conn[g]] = g /\ conn[g] \in Conn
      BY <1>i, <3>3, <3>4 DEF Unborn, Pinned, Covered, InSession, Alive
    <3>6. held[conn[g]][n] > 0
      BY <1>6, <3>3, <3>5 DEF Authorize, Permitted, Backed, Unborn
    <3>7. PendingOf(g)' = PendingOf(g) \cup {n}
      BY <1>t, <1>6, <2>1, <2>4 DEF Authorize, PendingOf
    <3>8. Begins(g, n)
      BY <2>1, <2>2, <3>5, <3>6, <3>7 DEF Begins, SameOther, Holds
    <3> QED BY <3>8 DEF Seen
  <2> QED BY <2>3, <2>4
<1>7. ASSUME NEW g \in Guard, NEW n \in Ns, Land(g, n) PROVE Seen
  <2>1. \A h \in Guard : SameHolds(h) /\ Reaches(h)' = Reaches(h)
    BY <1>7 DEF Land, SameHolds, Holds, Reaches, Alive
  <2>2. \A h \in Guard \ {g} : PendingOf(h)' = PendingOf(h)
    BY <1>t, <1>7, <2>1 DEF Land, PendingOf
  <2>3. CASE ~Reaches(g)
    BY <2>1, <2>2, <2>3 DEF Seen, Keeps, PendingOf
  <2>4. CASE Reaches(g)
    <3>1. n \in PendingOf(g) /\ PendingOf(g)' = PendingOf(g) \ {n}
      BY <1>t, <1>7, <2>1, <2>4 DEF Land, PendingOf
    <3>2. Finishes(g, n)
      BY <2>1, <2>2, <3>1 DEF Finishes, SameOther
    <3> QED BY <3>2 DEF Seen
  <2> QED BY <2>3, <2>4
<1>8. ASSUME NEW g \in Guard, NEW t \in Task, UnlockTask(g, t) PROVE Seen
  <2>1. UNCHANGED <<conn, out, alive, saver, inflight>> /\ undo[g][t] = "unlock"
    BY <1>8 DEF UnlockTask
  <2>2. CASE held' = held
    BY <1>1, <2>1, <2>2
  <2>3. CASE held' # held
    <3>1. /\ Alive(g) /\ Usable(g)
          /\ \A d \in Conn, m \in Ns :
               held'[d][m] = IF d = conn[g] /\ m = t THEN held[d][m] - 1 ELSE held[d][m]
      BY <1>i, <1>8, <2>3, UndoLocks
    <3>2. conn[g] \in Conn /\ pc[g] \notin {"idle", "refused", "gone"}
      BY <1>i, <2>1, <3>1 DEF Usable, Released, Phases, Unborn, Alive
    <3>3. InSession(g) /\ out[conn[g]] = g /\ Backed(g)
      BY <1>i, <3>1, <3>2 DEF InSession, Pinned, Covered, Alive
    <3>4. \A h \in Guard : PendingOf(h)' = PendingOf(h)
      BY <2>1 DEF PendingOf, Reaches, Alive
    <3>5. \A h \in Guard \ {g} : SameHolds(h)
      BY <2>1, <3>1, <3>3 DEF SameHolds, Holds
    <3>6. \A m \in Ns : held[conn[g]][m] \in Nat
      BY <1>t, <3>2
    <3>7. t \in inflight[g] => held'[conn[g]][t] > 0
      BY <1>n, <2>1, <3>1, <3>2, <3>3, <3>6 DEF Backed
    <3>8. \A m \in Ns : /\ Holds(g, m)' => Holds(g, m)
                        /\ m \in PendingOf(g) => (Holds(g, m)' <=> Holds(g, m))
      BY <1>n, <2>1, <3>1, <3>2, <3>3, <3>6, <3>7 DEF Holds, PendingOf
    <3>9. Drops(g)
      BY <3>4, <3>5, <3>8 DEF Drops, SameOther
    <3> QED BY <3>9 DEF Seen
  <2> QED BY <2>2, <2>3
<1>9. ASSUME NEW g \in Guard, DropRoot(g) PROVE Seen
  <2>1. UNCHANGED <<conn, out, alive, saver, inflight>> /\ Root \notin inflight[g]
    BY <1>9 DEF DropRoot
  <2>2. conn[g] \in Conn /\ out[conn[g]] = g
    BY <1>i, <1>9 DEF DropRoot, Pinned
  <2>3. CASE held' = held
    BY <1>1, <2>1, <2>3
  <2>4. CASE held' # held
    <3>1. \A d \in Conn, m \in Ns :
            held'[d][m] = IF d = conn[g] /\ m = Root THEN 0 ELSE held[d][m]
      BY <1>i, <1>9, <2>4, RootLocks
    <3>2. \A h \in Guard : PendingOf(h)' = PendingOf(h)
      BY <2>1 DEF PendingOf, Reaches, Alive
    <3>3. \A h \in Guard \ {g} : SameHolds(h)
      BY <2>1, <2>2, <3>1 DEF SameHolds, Holds
    <3>4. \A m \in Ns : /\ Holds(g, m)' => Holds(g, m)
                        /\ m \in PendingOf(g) => (Holds(g, m)' <=> Holds(g, m))
      BY <2>1, <2>2, <3>1 DEF Holds, PendingOf
    <3>5. Drops(g)
      BY <3>2, <3>3, <3>4 DEF Drops, SameOther
    <3> QED BY <3>5 DEF Seen
  <2> QED BY <2>3, <2>4
<1>10. ASSUME NEW g \in Guard, UnlockAll(g) PROVE Seen
  <2>1. inflight[g] = {} /\ conn[g] \in Conn /\ out[conn[g]] = g
    BY <1>i, <1>10 DEF UnlockAll, LaunchesEnd, Pinned
  <2>2. CASE ~Alive(g)
    BY <1>1, <1>10, <2>2 DEF UnlockAll
  <2>3. CASE Alive(g)
    <3>1. /\ UNCHANGED <<conn, out, alive, inflight>>
          /\ held' = [held EXCEPT ![conn[g]] = NoLocks]
          /\ saver' = [saver EXCEPT ![g] = "pool"]
      BY <1>10, <2>3 DEF UnlockAll
    <3>2. \A h \in Guard \ {g} : SameHolds(h) /\ PendingOf(h)' = PendingOf(h)
      BY <1>t, <2>1, <3>1 DEF SameHolds, Holds, PendingOf, Reaches, Alive
    <3>3. PendingOf(g) = {} /\ PendingOf(g)' = {}
      BY <2>1, <3>1 DEF PendingOf
    <3>4. \A n \in Ns : ~Holds(g, n)'
      BY <1>t, <2>1, <3>1 DEF Holds, NoLocks
    <3>5. Dies(g)
      BY <3>2, <3>3, <3>4 DEF Dies, SameOther
    <3> QED BY <3>5 DEF Seen
  <2> QED BY <2>2, <2>3
<1>11. ASSUME NEW c \in Conn, NEW x, out[c] = x,
              held' = [held EXCEPT ![c] = NoLocks], UNCHANGED inflight,
              \A h \in Guard : conn'[h] = conn[h] \/ (h = x /\ conn'[h] = Closed),
              \A d \in Conn \ {c} : out'[d] = out[d] /\ alive'[d] = alive[d],
              UNCHANGED saver
       PROVE  \A h \in Guard : h # x => SameHolds(h)
  <2>1. ASSUME NEW h \in Guard, conn'[h] = c PROVE \A n \in Ns : ~Holds(h, n)'
    BY <1>t, <1>11, <2>1 DEF Holds, NoLocks
  <2>2. ASSUME NEW h \in Guard, h # x PROVE SameHolds(h)
    <3>1. CASE conn[h] = c
      BY <1>11, <2>1, <2>2, <3>1 DEF SameHolds, Holds
    <3>2. CASE conn[h] # c
      BY <1>t, <1>11, <2>2, <3>2 DEF SameHolds, Holds
    <3> QED BY <3>1, <3>2
  <2> QED BY <2>2
<1>12. ASSUME NEW g \in Guard, conn[g] \in Conn, out[conn[g]] = g,
              saver[g] = "pool" => inflight[g] = {},
              held' = [held EXCEPT ![conn[g]] = NoLocks], UNCHANGED inflight,
              \A h \in Guard : conn'[h] = conn[h] \/ (h = g /\ conn'[h] = Closed),
              \A d \in Conn \ {conn[g]} : out'[d] = out[d] /\ alive'[d] = alive[d],
              UNCHANGED saver, saver[g] = "pool" \/ ~Alive(g)'
       PROVE  Seen
  <2>1. \A h \in Guard : h # g => SameHolds(h)
    BY <1>11, <1>12
  <2>2. \A n \in Ns : ~Holds(g, n)'
    BY <1>t, <1>12, NamesAssumption DEF Holds, NoLocks
  <2>3. PendingOf(g)' = {}
    BY <1>12 DEF PendingOf, Reaches
  <2>4. ASSUME NEW h \in Guard \ {g} PROVE PendingOf(h)' = PendingOf(h)
    <3>1. conn'[h] = conn[h]
      BY <1>12, <2>4
    <3>2. conn[h] = conn[g] => saver[h] = "pool"
      BY <1>i, <1>12, <2>4, NamesAssumption DEF Pinned
    <3>3. Reaches(h)' <=> Reaches(h)
      BY <1>12, <3>1, <3>2 DEF Reaches, Alive
    <3> QED BY <1>12, <3>3 DEF PendingOf
  <2>5. Dies(g)
    BY <2>1, <2>2, <2>3, <2>4 DEF Dies, SameOther
  <2> QED BY <2>5 DEF Seen
<1>13. ASSUME NEW g \in Guard, PutConn(g) PROVE Seen
  <2>1. conn[g] \in Conn /\ out[conn[g]] = g /\ saver[g] = "pool" /\ inflight[g] = {}
    BY <1>i, <1>13 DEF PutConn, Pinned, LaunchesEnd
  <2> QED BY <1>t, <1>12, <1>13, <2>1 DEF PutConn
<1>14. ASSUME NEW g \in Guard, CloseConn(g) PROVE Seen
  <2>1. conn[g] \in Conn /\ out[conn[g]] = g /\ saver[g] # "pool"
    BY <1>i, <1>14 DEF CloseConn, Pinned
  <2>2. ~Alive(g)'
    BY <1>t, <1>14, NamesAssumption DEF CloseConn, Alive
  <2> QED BY <1>t, <1>12, <1>14, <2>1, <2>2 DEF CloseConn
<1>15. ASSUME NEW c \in Conn, out[c] \notin Guard, held' = [held EXCEPT ![c] = NoLocks],
              \A d \in Conn \ {c} : out'[d] = out[d] /\ alive'[d] = alive[d],
              UNCHANGED <<conn, saver, inflight>>
       PROVE  Seen
  <2>1. \A h \in Guard : SameHolds(h)
    BY <1>11, <1>15
  <2>2. ASSUME NEW h \in Guard PROVE PendingOf(h)' = PendingOf(h)
    <3>1. conn[h] = c => saver[h] = "pool"
      BY <1>i, <1>15, NamesAssumption DEF Pinned
    <3>2. Reaches(h)' <=> Reaches(h)
      BY <1>15, <3>1 DEF Reaches, Alive
    <3> QED BY <1>15, <3>2 DEF PendingOf
  <2> QED BY <2>1, <2>2 DEF Seen, Keeps
<1>16. ASSUME NEW c \in Conn, SessionDies(c) PROVE Seen
  <2>1. CASE out[c] \notin Guard
    BY <1>t, <1>15, <1>16, <2>1 DEF SessionDies
  <2>2. CASE out[c] \in Guard /\ conn[out[c]] = c
    <3>1. ~Alive(out[c])'
      BY <1>t, <1>16, <2>2 DEF SessionDies, Alive
    <3>2. saver[out[c]] = "pool" => inflight[out[c]] = {}
      BY <1>i, <2>2 DEF LaunchesEnd
    <3> QED BY <1>t, <1>12, <1>16, <2>2, <3>1, <3>2 DEF SessionDies
  <2>3. CASE out[c] \in Guard /\ conn[out[c]] # c
    <3>1. \A h \in Guard : conn[h] = c => saver[h] = "pool" /\ out[c] # h
      BY <1>i, <1>16, <2>3, NamesAssumption DEF Pinned
    <3>2. \A h \in Guard : SameHolds(h)
      BY <1>t, <1>16, <3>1 DEF SessionDies, SameHolds, Holds
    <3>3. \A h \in Guard : Reaches(h)' <=> Reaches(h)
      BY <1>t, <1>16, <3>1 DEF SessionDies, Reaches, Alive
    <3>4. \A h \in Guard : PendingOf(h)' = PendingOf(h)
      BY <1>16, <3>3 DEF SessionDies, PendingOf
    <3> QED BY <3>2, <3>4 DEF Seen, Keeps
  <2> QED BY <2>1, <2>2, <2>3
<1>17. ASSUME NEW m \in Mutator, MutateBegin(m) PROVE Seen
  <2>1. \A c \in Conn, h \in Guard : out'[c] = h <=> out[c] = h
    BY <1>t, <1>17, NamesAssumption DEF MutateBegin
  <2>2. UNCHANGED <<conn, held, alive, saver, inflight>>
    BY <1>17 DEF MutateBegin
  <2>3. Keeps
    BY <2>1, <2>2 DEF Keeps, SameHolds, Holds, PendingOf, Reaches, Alive
  <2> QED BY <2>3 DEF Seen
<1>18. ASSUME NEW m \in Mutator, MutateEnd(m) PROVE Seen
  <2>1. mconn[m] \in Conn /\ out[mconn[m]] \notin Guard
    BY <1>i, <1>18, NamesAssumption DEF MutateEnd, Pinned
  <2> QED BY <1>t, <1>15, <1>18, <2>1 DEF MutateEnd
<1>19. ASSUME NEW g \in Guard, Starts(g) PROVE Seen
  BY <1>1, <1>2, <1>4, <1>19
  DEF Starts, CheckoutRefused, TakeShared, LockTimeout, StartRun, StartFails
<1>20. ASSUME NEW g \in Guard, Tears(g) PROVE Seen
  BY <1>1, <1>9, <1>10, <1>13, <1>14, <1>20
  DEF Tears, Decide, Commit, CommitFails, Seal, DemoteTimeout, TailDrained, TailSkipped,
      TailFails, BeginRelease, ReleaseDrained, ReleaseTimeout
<1>21. ASSUME NEW g \in Guard, NEW t \in Task, Tasks(g, t) PROVE Seen
  BY <1>1, <1>5, <1>8, <1>21 DEF Tasks, AskTask, Settle, TaskDrained, TaskDrainTimeout
<1>22. ASSUME NEW g \in Guard, Monitor(g) PROVE Seen
  BY <1>1, <1>22 DEF Monitor
<1>23. ASSUME NEW m \in Mutator, Mutates(m) PROVE Seen
  BY <1>1, <1>17, <1>18, <1>23 DEF Mutates, MutateLock
<1>24. CASE UNCHANGED vars
  BY <1>1, <1>24 DEF vars
<1> QED BY <1>6, <1>7, <1>16, <1>19, <1>20, <1>21, <1>22, <1>23, <1>24 DEF Next

\* The guards implement FenceContract, for any number of runs and tasks: one
\* owner per namespace, and no hand-over under a write.
THEOREM ContractTheorem == ASSUME Stray = {} PROVE Spec => KeepsFence
<1>1. Init => Contract!Init
  <2> SUFFICES ASSUME Init PROVE Contract!Init
    OBVIOUS
  <2>1. \A g \in Guard, n \in Ns : ~Holds(g, n)
    BY NamesAssumption DEF Init, Holds
  <2>2. \A n \in Ns : OwnerOf(n) = None
    BY <2>1 DEF OwnerOf
  <2>3. \A g \in Guard : PendingOf(g) = {}
    BY DEF Init, PendingOf
  <2> QED BY <2>2, <2>3 DEF Contract!Init
<1>2. IInv /\ [Next]_vars => [Contract!Next]_(Contract!fenceVars)
  <2> SUFFICES ASSUME IInv, [Next]_vars PROVE [Contract!Next]_(Contract!fenceVars)
    OBVIOUS
  <2>1. LocksExclude /\ LocksExclude'
    BY NextIInv DEF IInv
  <2> QED BY <2>1, SeenStep, SeenSteps
<1> QED BY <1>1, <1>2, IInvHolds, PTL DEF Spec, KeepsFence, Contract!Spec
=============================================================================
