--------------------------- MODULE RunLedgerChains ---------------------------
(* The attempt chains of RunLedger are well formed and its watchers told    *)
(* once, for every value of the constants; and what one server process, or  *)
(* one without the fence, keeps besides: the displayed status, the place of *)
(* a retry, the live tasks.                                                 *)
EXTENDS RunLedgerProofs

USE DEF AllKinds, Terminal, Status, HookType, Acked

-----------------------------------------------------------------------------
(* What a step leaves of the rows and of the plans. *)

\* Only a START that commits writes rows, makes them appear or disappear.
LEMMA RowsFrame ==
    ASSUME TypeOK, [Next]_vars, ~StartsOne
    PROVE  /\ UNCHANGED <<row, clock, queries>> /\ Present' = Present
           /\ \A q \in Run : status[q] \in Terminal => status'[q] = status[q]
  <1> USE DEF reqVars, rowVars, sideVars, bgVars
  <1>1. UNCHANGED <<row, clock, queries>>
    <2>1. CASE UNCHANGED vars
      BY <2>1 DEF vars
    <2>2. ASSUME NEW r \in Run, Request(r) PROVE UNCHANGED <<row, clock, queries>>
      BY <2>2 DEF StartsOne, Request, StartStep, Submit, Admit, Refuse, ResolveRetry,
         AcquireRoot, GuardUnavailable, Probe, Truncate, FailStart
    <2>3. ASSUME NEW r \in Run, Settle(r) PROVE UNCHANGED <<row, clock, queries>>
      BY <2>3 DEF Settle, Finalize, Teardown, LoseGuard, FinalizeLost, Abandon,
         ReconcileDispatch
    <2>4. ASSUME NEW r \in Run, Side(r) PROVE UNCHANGED <<row, clock, queries>>
      BY <2>4 DEF Side, AskTask, StartTask, FinishTask, CancelStamp, CancelRead
    <2>5. ASSUME NEW w \in Worker, Background(w)
          PROVE  UNCHANGED <<row, clock, queries>>
      BY <2>5 DEF Background, ScanList, ScanLock, ScanSkip, ScanFinalize,
         StartupSweep, HealSnapshot, HealApply, Crash
    <2> QED
      BY <2>1, <2>2, <2>3, <2>4, <2>5 DEF Next
  <1>2. CASE RowsQuiet
    BY <1>1, <1>2 DEF RowsQuiet, Present
  <1>3. CASE SettlesOne
    <2>1. PICK r \in Run, wanted \in Terminal : Settled(r, wanted)
      BY <1>3 DEF SettlesOne
    <2>2. /\ status[r] = "in_progress" /\ status'[r] \in Terminal
          /\ \A q \in Run : q # r => status'[q] = status[q]
      BY <2>1 DEF Settled, Adopted, TypeOK
    <2>3. Present' = Present
      BY <2>2 DEF Present
    <2> QED
      BY <1>1, <2>2, <2>3
  <1>4. CASE CancelsOne
    BY <1>1, <1>4 DEF CancelsOne, CancelStamp, CancelRead, Present
  <1> QED
    BY <1>2, <1>3, <1>4, RowKinds

\* A row that outlives a step and did not just appear is what it was, and an
\* outcome stays.
LEMMA RowStays ==
    ASSUME IInv, [Next]_vars, NEW p \in Run, pc[p] \notin PreStart, p \in Present'
    PROVE  /\ p \in Present /\ row'[p] = row[p]
           /\ status[p] \in Terminal => status'[p] = status[p]
  <1>1. TypeOK /\ Rows /\ ProbeHolds
    BY DEF IInv, Rows
  <1>2. CASE ~StartsOne
    BY <1>1, <1>2, RowsFrame
  <1>3. CASE StartsOne
    <2>1. PICK r \in Run : CommitStart(r)
      BY <1>3 DEF StartsOne
    <2>2. p # r
      BY <1>1, <2>1, StartRows DEF PreStart, Admitting
    <2>3. /\ status' = [q \in Run |-> IF q = r THEN "in_progress"
                          ELSE IF q \in cut[r].rows THEN "absent" ELSE status[q]]
          /\ row' = [q \in Run |->
                       IF q = r THEN [turn |-> plan[r].turn,
                                      attempt |-> plan[r].attempt,
                                      prev |-> plan[r].prev, seq |-> clock + 1]
                       ELSE IF q \in cut[r].rows THEN NoRow ELSE row[q]]
      BY <2>1 DEF CommitStart
    <2> QED
      BY <2>2, <2>3 DEF Present
  <1> QED
    BY <1>2, <1>3

\* Once sent, a request keeps what it asks for; a retry gets its slot when it
\* is resolved, and keeps it.
LEMMA PlanFrame ==
    ASSUME TypeOK, [Next]_vars, NEW q \in Run
    PROVE  \/ Submit(q) \/ ResolveRetry(q)
           \/ /\ plan'[q].kind = plan[q].kind /\ plan'[q].at = plan[q].at
              /\ plan'[q].prev = plan[q].prev /\ plan'[q].attempt = plan[q].attempt
              /\ plan[q].kind = "retry" =>
                    /\ plan'[q].turn = plan[q].turn
                    /\ pc'[q] \in Chained => pc[q] \in Chained
  <1> USE DEF Chained, TypeOK, PlanType, reqVars, rowVars, sideVars, bgVars
  <1> DEFINE Kept == /\ plan'[q] = plan[q]
                     /\ plan[q].kind = "retry" /\ pc'[q] \in Chained => pc[q] \in Chained
  <1>1. CASE UNCHANGED vars
    BY <1>1 DEF vars
  <1>2. ASSUME NEW r \in Run, Request(r), ~(Submit(q) \/ ResolveRetry(q))
        PROVE  \/ Kept
               \/ Truncate(q)
    <2>1. CASE Submit(r) \/ ResolveRetry(r)
      <3>1. r # q
        BY <1>2, <2>1
      <3>2. plan'[q] = plan[q] /\ pc'[q] = pc[q]
        BY <2>1, <3>1 DEF Submit, ResolveRetry
      <3> QED
        BY <3>2
    <2>2. CASE Truncate(r)
      BY <2>2 DEF Truncate
    <2>3. CASE Admit(r)
      BY <2>3 DEF Admit
    <2>4. CASE Refuse(r) \/ AcquireRoot(r) \/ GuardUnavailable(r) \/ Probe(r)
               \/ CommitStart(r) \/ FailStart(r)
      BY <2>4 DEF Refuse, AcquireRoot, GuardUnavailable, Probe, CommitStart,
         FailStart
    <2> QED
      BY <1>2, <2>1, <2>2, <2>3, <2>4 DEF Request, StartStep
  <1>3. ASSUME NEW r \in Run, Settle(r) PROVE Kept
    BY <1>3 DEF Settle, Finalize, Teardown, LoseGuard, FinalizeLost, Abandon,
       ReconcileDispatch
  <1>4. ASSUME NEW r \in Run, Side(r) PROVE Kept
    BY <1>4 DEF Side, AskTask, StartTask, FinishTask, CancelStamp, CancelRead
  <1>5. ASSUME NEW w \in Worker, Background(w) PROVE Kept
    BY <1>5 DEF Background, ScanList, ScanLock, ScanSkip, ScanFinalize,
       StartupSweep, HealSnapshot, HealApply, Crash
  <1>6. ASSUME Truncate(q)
        PROVE  /\ plan'[q].kind = plan[q].kind /\ plan'[q].at = plan[q].at
               /\ plan'[q].prev = plan[q].prev /\ plan'[q].attempt = plan[q].attempt
               /\ plan[q].kind = "retry" => plan'[q].turn = plan[q].turn
               /\ pc[q] \in Chained
    BY <1>6 DEF Truncate
  <1> QED
    BY <1>1, <1>2, <1>3, <1>4, <1>5, <1>6 DEF Next

-----------------------------------------------------------------------------
(* The chains. *)

\* What a retry was resolved to stays true of its predecessor.
LEMMA ResolvedStep ==
    ASSUME ChainInv, [Next]_vars PROVE RetriesResolved'
  <1>1. TypeOK /\ IInv /\ RetriesResolved /\ Rows
    BY DEF ChainInv, IInv, Rows
  <1> SUFFICES ASSUME NEW q \in Run, plan'[q].prev # None
               PROVE  /\ plan'[q].kind = "retry"
                      /\ pc'[q] \in Chained =>
                           /\ pc'[plan'[q].prev] \notin PreStart
                           /\ plan'[q].prev \in Present' =>
                                /\ status'[plan'[q].prev] = "error"
                                /\ plan'[q].turn = row'[plan'[q].prev].turn
                                /\ plan'[q].attempt = row'[plan'[q].prev].attempt + 1
    BY DEF RetriesResolved
  <1> DEFINE p == plan'[q].prev
  <1>2. CASE Submit(q)
    <2>1. plan'[q] \in Wishes(q) /\ pc'[q] = "sent"
      BY <1>1, <1>2 DEF Submit, TypeOK
    <2>2. plan'[q].kind = "retry"
      <3>1. CASE Sent(q) # {}
        <4>1. PICK s \in Run : plan'[q] = Again(s)
          BY <2>1, <3>1 DEF Wishes, Sent
        <4>2. plan'[q].kind = plan[s].kind /\ plan'[q].prev = plan[s].prev
          BY <4>1 DEF Again, NoPlan
        <4> QED
          BY <1>1, <4>2 DEF RetriesResolved
      <3>2. CASE Sent(q) = {}
        <4>1. plan'[q] \in Offers
          BY <2>1, <3>2 DEF Wishes
        <4> QED
          BY <4>1 DEF Offers, NoPlan
      <3> QED
        BY <3>1, <3>2
    <2> QED
      BY <2>1, <2>2 DEF Chained
  <1>3. CASE ResolveRetry(q)
    <2>1. plan'[q].kind = "retry" /\ p = plan[q].prev /\ p \in Run
      BY <1>1, <1>3 DEF ResolveRetry, RetriesResolved, TypeOK, PlanType
    <2>2. ASSUME pc'[q] \in Chained
          PROVE  /\ Retryable(p) /\ plan'[q].turn = row[p].turn
                 /\ plan'[q].attempt = row[p].attempt + 1
      BY <1>1, <1>3, <2>1, <2>2 DEF ResolveRetry, Chained, TypeOK, PlanType
    <2>3. UNCHANGED <<status, row>>
      BY <1>3 DEF ResolveRetry, rowVars
    <2>4. ASSUME pc'[q] \in Chained PROVE pc'[p] \notin PreStart
      <3>1. pc[p] \notin PreStart
        BY <1>1, <2>1, <2>2, <2>4 DEF Retryable, Rows, NoRowBeforeStart
      <3> QED
        BY <1>1, <2>1, <3>1, NoReturn
    <2> QED
      BY <2>1, <2>2, <2>3, <2>4 DEF Retryable
  <1>4. CASE ~Submit(q) /\ ~ResolveRetry(q)
    <2>1. /\ plan'[q].kind = plan[q].kind /\ p = plan[q].prev
          /\ plan'[q].attempt = plan[q].attempt
          /\ plan[q].kind = "retry" =>
                /\ plan'[q].turn = plan[q].turn
                /\ pc'[q] \in Chained => pc[q] \in Chained
      BY <1>1, <1>4, PlanFrame
    <2>2. plan[q].kind = "retry" /\ p \in Run
      BY <1>1, <2>1 DEF RetriesResolved, TypeOK, PlanType
    <2>3. SUFFICES ASSUME pc'[q] \in Chained
                   PROVE  /\ pc'[p] \notin PreStart
                          /\ p \in Present' =>
                               /\ status'[p] = "error" /\ plan'[q].turn = row'[p].turn
                               /\ plan'[q].attempt = row'[p].attempt + 1
      BY <2>1, <2>2
    <2>4. /\ pc[p] \notin PreStart
          /\ p \in Present => /\ status[p] = "error" /\ plan[q].turn = row[p].turn
                              /\ plan[q].attempt = row[p].attempt + 1
      BY <1>1, <2>1, <2>2, <2>3 DEF RetriesResolved
    <2>5. pc'[p] \notin PreStart
      BY <1>1, <2>2, <2>4, NoReturn
    <2>6. ASSUME p \in Present'
          PROVE  p \in Present /\ row'[p] = row[p] /\ (status[p] = "error" => status'[p] = "error")
      BY <1>1, <2>2, <2>4, <2>6, RowStays
    <2> QED
      BY <2>1, <2>2, <2>4, <2>5, <2>6
  <1> QED
    BY <1>2, <1>3, <1>4

\* No row comes or goes between a fork's truncation and its commit.
LEMMA CutsStep ==
    ASSUME ChainInv, [Next]_vars PROVE CutsWhole'
  <1>1. TypeOK /\ CutsWhole /\ Fences
    BY DEF ChainInv, IInv, Fences
  <1> SUFFICES ASSUME NEW q \in Run, pc'[q] = "cut", IsFork(q)'
               PROVE  cut'[q].rows = TruncatedRows(q)'
    BY DEF CutsWhole
  <1>2. CASE Truncate(q)
    <2>1. /\ plan'[q].kind = plan[q].kind /\ plan'[q].at = plan[q].at
          /\ UNCHANGED <<status, row>>
          /\ cut'[q].rows = IF IsFork(q) THEN TruncatedRows(q) ELSE {}
      BY <1>1, <1>2 DEF Truncate, rowVars, TypeOK, PlanType
    <2> QED
      BY <2>1 DEF IsFork, TruncatedRows, Present
  <1>3. CASE ~Truncate(q)
    <2>1. ~Probe(q)
      BY <1>1 DEF Probe, TypeOK
    <2>2. pc[q] = "cut" /\ plan'[q] = plan[q] /\ cut'[q] = cut[q]
      BY <1>1, <1>3, <2>1, ProbeFrame
    <2>3. ~StartsOne
      <3> SUFFICES ASSUME NEW r \in Run, CommitStart(r) PROVE FALSE
        BY DEF StartsOne
      <3>1. pc[r] = "cut" /\ pc'[r] = "owner"
        BY <1>1 DEF CommitStart, TypeOK
      <3> QED
        BY <1>1, <2>2, <3>1, FencesSerialize DEF OneOpenStart, InStart
    <2>4. UNCHANGED row /\ Present' = Present
      BY <1>1, <2>3, RowsFrame
    <2> QED
      BY <1>1, <2>2, <2>4 DEF CutsWhole, IsFork, TruncatedRows
  <1> QED
    BY <1>2, <1>3

\* A START that commits adds one link to a chain, and a fork takes whole chains.
LEMMA ChainsStart ==
    ASSUME ChainInv, [Next]_vars, NEW r \in Run, CommitStart(r)
    PROVE  ChainsWellFormed'
  <1> DEFINE gone == cut[r].rows
  <1>1. TypeOK /\ IInv /\ Rows /\ ProbeHolds /\ ChainsWellFormed /\ RetriesResolved /\ CutsWhole
    BY DEF ChainInv, IInv, Rows
  <1>2. /\ pc[r] = "cut" /\ status[r] = "absent" /\ plan[r] \in PlanType
        /\ plan[r].prev # None => ChainFree(plan[r].prev, Present \ gone)
    BY <1>1, StartRows DEF CommitStart, Insertable, TypeOK
  <1>3. /\ status' = [q \in Run |-> IF q = r THEN "in_progress"
                        ELSE IF q \in gone THEN "absent" ELSE status[q]]
        /\ row' = [q \in Run |->
                     IF q = r THEN [turn |-> plan[r].turn,
                                    attempt |-> plan[r].attempt,
                                    prev |-> plan[r].prev, seq |-> clock + 1]
                     ELSE IF q \in gone THEN NoRow ELSE row[q]]
    BY DEF CommitStart
  <1>4. Present' = (Present \ gone) \cup {r} /\ r \notin Present
    BY <1>2, <1>3 DEF Present
  <1>5. \A q \in Present \ gone : row'[q] = row[q] /\ status'[q] = status[q] /\ q # r
    BY <1>3, <1>4 DEF Present
  <1>6. row'[r].prev = plan[r].prev /\ row'[r].turn = plan[r].turn
        /\ row'[r].attempt = plan[r].attempt
    BY <1>3
  <1>7. \A q, p \in Present : row[p].turn = row[q].turn /\ p \in gone => q \in gone
    BY <1>1, <1>2 DEF ProbeHolds, CutsWhole, TruncatedRows
  <1> HIDE DEF gone
  <1>8. ASSUME NEW q \in Present', row'[q].prev # None
        PROVE  LET p == row'[q].prev IN
               /\ p \in Present \ gone /\ status[p] = "error"
               /\ row[p].turn = row'[q].turn /\ row'[q].attempt = row[p].attempt + 1
               /\ \A s \in Present \ gone : row[s].prev = p => s = q
               /\ plan[r].prev = p => q = r
    <2>1. CASE q = r
      <3>1. /\ plan[r].prev # None /\ plan[r].prev \in Present \ gone
            /\ \A s \in Present \ gone : row[s].prev # plan[r].prev
        BY <1>2, <1>6, <1>8, <2>1 DEF ChainFree, gone
      <3> QED
        BY <1>1, <1>2, <1>6, <2>1, <3>1 DEF RetriesResolved, Chained
    <2>2. CASE q # r
      <3>1. q \in Present \ gone /\ row'[q] = row[q]
        BY <1>4, <1>5, <2>2
      <3>2. LET p == row[q].prev IN
            /\ p \in Present /\ status[p] = "error"
            /\ row[p].turn = row[q].turn /\ row[q].attempt = row[p].attempt + 1
            /\ \A s \in Present : row[s].prev = p => s = q
        BY <1>1, <1>8, <3>1 DEF ChainsWellFormed, Present
      <3>3. row[q].prev \notin gone
        BY <1>7, <3>1, <3>2
      <3>4. plan[r].prev # row[q].prev
        BY <1>2, <1>8, <3>1 DEF ChainFree, gone
      <3> QED
        BY <3>1, <3>2, <3>3, <3>4
    <2> QED
      BY <2>1, <2>2
  <1>9. ASSUME NEW q \in Present', row'[q].prev # None
        PROVE  LET p == row'[q].prev IN
               /\ p \in Present' /\ status'[p] = "error"
               /\ row'[p].turn = row'[q].turn /\ row'[q].attempt = row'[p].attempt + 1
               /\ \A s \in Present' : row'[s].prev = p => s = q
    <2> DEFINE p == row'[q].prev
    <2>1. /\ p \in Present \ gone /\ status[p] = "error"
          /\ row[p].turn = row'[q].turn /\ row'[q].attempt = row[p].attempt + 1
          /\ \A s \in Present \ gone : row[s].prev = p => s = q
          /\ plan[r].prev = p => q = r
      BY <1>8, <1>9
    <2>2. p \in Present' /\ row'[p] = row[p] /\ status'[p] = status[p]
      BY <1>4, <1>5, <2>1
    <2>3. ASSUME NEW s \in Present', row'[s].prev = p PROVE s = q
      <3>1. CASE s = r
        BY <1>6, <2>1, <2>3, <3>1
      <3>2. CASE s # r
        BY <1>4, <1>5, <2>1, <2>3, <3>2
      <3> QED
        BY <3>1, <3>2
    <2> QED
      BY <2>1, <2>2, <2>3
  <1> QED
    BY <1>9 DEF ChainsWellFormed

\* Every step keeps the chains: only a commit and a cut move them.
LEMMA ChainsStep ==
    ASSUME ChainInv, [Next]_vars PROVE ChainsWellFormed'
  <1>1. CASE StartsOne
    BY <1>1, ChainsStart DEF StartsOne
  <1>2. CASE ~StartsOne
    <2>1. /\ UNCHANGED row /\ Present' = Present
          /\ \A q \in Run : status[q] = "error" => status'[q] = "error"
      BY <1>2, RowsFrame DEF ChainInv, IInv
    <2> QED
      BY <2>1 DEF ChainInv, ChainsWellFormed, Present
  <1> QED
    BY <1>1, <1>2

\* Every step keeps the chains and what a START under way knows of them.
LEMMA ChainInvStep == ASSUME ChainInv, [Next]_vars PROVE ChainInv'
  BY IInvStep, ResolvedStep, CutsStep, ChainsStep DEF ChainInv

\* There are no chains at first.
LEMMA ChainInvInit == Init => ChainInv
  BY IInvInit DEF Init, ChainInv, ChainsWellFormed, Present, RetriesResolved, NoPlan,
     CutsWhole

\* The chains are well formed, a retry under way knows its predecessor's row,
\* and a truncation takes every retry of what it takes (start_run).
THEOREM ChainInvHolds == Spec => []ChainInv
  BY ChainInvInit, ChainInvStep, PTL DEF Spec

\* A retry names a failed run of its own turn, is its next attempt and its only
\* successor; a fork never leaves it pointing at a deleted run (begin_run,
\* uq_responses_retry_of).
THEOREM ChainsTheorem == Spec => []ChainsWellFormed
  <1>1. ChainInv => ChainsWellFormed
    BY DEF ChainInv
  <1> QED
    BY <1>1, ChainInvHolds, PTL

-----------------------------------------------------------------------------
(* One server process. *)

\* The terminal CAS took effect on a run, showed on its thread and left its jobs.
SettlesShown ==
    \E r \in Run, wanted \in Terminal :
        /\ Settled(r, wanted) /\ projection' = Adopted(r, wanted)
        /\ jobs' = jobs \cup FinalizeJobs(r, Adopted(r, wanted))

\* A compare-and-set that wins shows its outcome and leaves its jobs.
LEMMA CASShows ==
    ASSUME NEW r \in Run, NEW wanted \in Terminal, FinalizeCAS(r, wanted), OnlyMoves(r)
    PROVE  UNCHANGED <<status, projection, jobs>> \/ SettlesShown
  BY DEF FinalizeCAS, Matches, SettlesShown, Settled

\* Rows, jobs and the displayed status change together, but for the heal.
LEMMA ShownKinds ==
    ASSUME TypeOK, [Next]_vars
    PROVE  \/ UNCHANGED <<status, projection, jobs>> \/ SettlesShown \/ StartsOne
           \/ \E w \in Worker : HealApply(w)
  <1> USE DEF reqVars, rowVars, sideVars, bgVars
  <1> DEFINE Still == UNCHANGED <<status, projection, jobs>>
  <1>1. CASE UNCHANGED vars
    BY <1>1 DEF vars
  <1>2. ASSUME NEW r \in Run, Request(r) PROVE Still \/ StartsOne
    BY <1>2 DEF StartsOne, Request, StartStep, Submit, Admit, Refuse, ResolveRetry,
       AcquireRoot, GuardUnavailable, Probe, Truncate, FailStart
  <1>3. ASSUME NEW r \in Run, Settle(r) PROVE Still \/ SettlesShown
    <2>1. CASE Finalize(r)
      <3>1. PICK wanted \in Terminal : FinalizeCAS(r, wanted)
        BY <2>1 DEF Finalize
      <3>2. OnlyMoves(r)
        BY <2>1 DEF Finalize, OnlyMoves, TypeOK
      <3> QED
        BY <3>1, <3>2, CASShows
    <2>2. CASE FinalizeLost(r) \/ ReconcileDispatch(r)
      <3>1. FinalizeCAS(r, "error") /\ OnlyMoves(r)
        BY <2>2 DEF FinalizeLost, ReconcileDispatch, OnlyMoves, TypeOK
      <3> QED
        BY <3>1, CASShows
    <2>3. CASE Teardown(r) \/ LoseGuard(r) \/ Abandon(r)
      BY <2>3 DEF Teardown, LoseGuard, Abandon
    <2> QED
      BY <1>3, <2>1, <2>2, <2>3 DEF Settle
  <1>4. ASSUME NEW r \in Run, Side(r) PROVE Still
    BY <1>4 DEF Side, AskTask, StartTask, FinishTask, CancelStamp, CancelRead
  <1>5. ASSUME NEW w \in Worker, Background(w), ~HealApply(w)
        PROVE  Still \/ SettlesShown
    <2>1. CASE ScanFinalize(w)
      <3>1. PICK wanted \in Classify(scan[w]) : FinalizeCAS(scan[w].run, wanted)
        BY <2>1 DEF ScanFinalize
      <3>2. wanted \in Terminal /\ scan[w].run \in Run
        BY <2>1, <3>1 DEF Classify, ScanFinalize, TypeOK
      <3> QED
        BY <2>1, <3>1, <3>2, CASShows DEF ScanFinalize, OnlyMoves
    <2>2. CASE StartupSweep(w)
      <3>1. PICK r \in LiveRuns :
              \E wanted \in Classify([intent |-> intent[r]]) : FinalizeCAS(r, wanted)
        BY <2>2 DEF StartupSweep
      <3>2. PICK wanted \in Terminal : FinalizeCAS(r, wanted)
        BY <3>1 DEF Classify
      <3>3. r \in Run /\ OnlyMoves(r)
        BY <2>2 DEF StartupSweep, LiveRuns, OnlyMoves
      <3> QED
        BY <3>2, <3>3, CASShows
    <2>3. CASE ~ScanFinalize(w) /\ ~StartupSweep(w)
      BY <1>5, <2>3 DEF Background, ScanList, ScanLock, ScanSkip, HealSnapshot, Crash
    <2> QED
      BY <2>1, <2>2, <2>3
  <1> QED
    BY <1>1, <1>2, <1>3, <1>4, <1>5 DEF Next

\* A heal is decided when no run is live.
LEMMA HealDecided ==
    ASSUME TypeOK, [Next]_vars, NEW w \in Worker, boot'[w] \in Terminal
    PROVE  boot'[w] = boot[w] \/ (LiveRuns = {} /\ UNCHANGED status)
  <1> USE DEF TypeOK, reqVars, rowVars, sideVars, bgVars
  <1>1. CASE UNCHANGED vars
    BY <1>1 DEF vars
  <1>2. ASSUME NEW r \in Run, Request(r) PROVE UNCHANGED boot
    BY <1>2 DEF Request, StartStep, Submit, Admit, Refuse, ResolveRetry, AcquireRoot,
       GuardUnavailable, Probe, Truncate, CommitStart, FailStart
  <1>3. ASSUME NEW r \in Run, Settle(r) PROVE UNCHANGED boot
    BY <1>3 DEF Settle, Finalize, Teardown, LoseGuard, FinalizeLost, Abandon,
       ReconcileDispatch
  <1>4. ASSUME NEW r \in Run, Side(r) PROVE UNCHANGED boot
    BY <1>4 DEF Side, AskTask, StartTask, FinishTask, CancelStamp, CancelRead
  <1>5. ASSUME NEW v \in Worker, Background(v)
        PROVE  boot'[w] = boot[w] \/ (LiveRuns = {} /\ UNCHANGED status)
    BY <1>5 DEF Background, ScanList, ScanLock, ScanSkip, ScanFinalize, StartupSweep,
       HealSnapshot, HealApply, Crash
  <1> QED
    BY <1>1, <1>2, <1>3, <1>4, <1>5 DEF Next

\* With one process, whoever commits a START is alone in admission, and the
\* process is serving.
LEMMA StartSolo ==
    ASSUME OneProcess, IInv, NEW r \in Run, CommitStart(r)
    PROVE  /\ \A q \in Run : pc[q] \in Admitting => q = r
           /\ \A w \in Worker : boot[w] = "serving"
  <1>1. pc[r] = "cut"
    BY DEF CommitStart
  <1>2. \A q \in Run : WorkerOf[q] = WorkerOf[r]
    BY WorkerAssumption DEF OneProcess
  <1>3. \A w \in Worker : w = WorkerOf[r]
    BY WorkerAssumption DEF OneProcess
  <1> QED
    BY <1>1, <1>2, <1>3 DEF IInv, AdmissionHeld, BootQuiet, Admitting

\* The predecessor a retry was resolved to is still the latest, and failed.
LEMMA LatestStep ==
    ASSUME OneProcess, SoloInv, [Next]_vars PROVE LatestRetried'
  <1>1. IInv /\ TypeOK /\ RetriesResolved /\ LatestRetried
    BY DEF SoloInv, ChainInv, IInv
  <1> SUFFICES ASSUME NEW q \in Run, pc'[q] \in Chained, plan'[q].prev # None
               PROVE  Retryable(plan[q].prev)'
    BY DEF LatestRetried
  <1>2. CASE Submit(q)
    BY <1>1, <1>2 DEF Submit, Chained, TypeOK
  <1>3. CASE ResolveRetry(q)
    <2>1. plan'[q].prev = plan[q].prev /\ UNCHANGED <<status, row>>
      BY <1>1, <1>3 DEF ResolveRetry, rowVars, TypeOK, PlanType
    <2>2. Retryable(plan[q].prev)
      BY <1>1, <1>3 DEF ResolveRetry, Chained, TypeOK
    <2> QED
      BY <2>1, <2>2 DEF Retryable, IsLatest, Present
  <1>4. CASE ~Submit(q) /\ ~ResolveRetry(q)
    <2>1. plan'[q].prev = plan[q].prev /\ (plan[q].kind = "retry" => pc[q] \in Chained)
      BY <1>1, <1>4, PlanFrame
    <2>2. pc[q] \in Chained /\ Retryable(plan[q].prev)
      BY <1>1, <2>1 DEF RetriesResolved, LatestRetried
    <2>3. ~StartsOne
      <3> SUFFICES ASSUME NEW r \in Run, CommitStart(r) PROVE FALSE
        BY DEF StartsOne
      <3>1. q = r
        BY <1>1, <2>2, StartSolo DEF Chained, Admitting
      <3> QED
        BY <1>1, <3>1 DEF CommitStart, Chained, TypeOK
    <2>4. /\ UNCHANGED row /\ Present' = Present
          /\ \A p \in Run : status[p] \in Terminal => status'[p] = status[p]
      BY <1>1, <2>3, RowsFrame
    <2>5. plan[q].prev \in Run
      BY <2>2 DEF Retryable, IsLatest, Present
    <2> QED
      BY <2>1, <2>2, <2>4, <2>5 DEF Retryable, IsLatest
  <1> QED
    BY <1>2, <1>3, <1>4

\* A START that commits becomes the latest run and the one shown.
LEMMA SoloStart ==
    ASSUME OneProcess, SoloInv, NEW r \in Run, CommitStart(r)
    PROVE  (SequenceOrders /\ LiveIsLatest /\ HealSettled /\ ProjectionFollowsLatest)'
  <1> DEFINE gone == cut[r].rows
  <1>1. IInv /\ TypeOK /\ Rows /\ ProbeHolds /\ SequenceOrders
    BY DEF SoloInv, ChainInv, IInv, Rows
  <1>2. /\ status' = [q \in Run |-> IF q = r THEN "in_progress"
                        ELSE IF q \in gone THEN "absent" ELSE status[q]]
        /\ row' = [q \in Run |->
                     IF q = r THEN [turn |-> plan[r].turn,
                                    attempt |-> plan[r].attempt,
                                    prev |-> plan[r].prev, seq |-> clock + 1]
                     ELSE IF q \in gone THEN NoRow ELSE row[q]]
        /\ clock' = clock + 1 /\ projection' = "in_progress" /\ UNCHANGED boot
    BY DEF CommitStart, bgVars
  <1>3. r \in Present' /\ \A q \in Present' : q # r => q \in Present /\ row'[q] = row[q]
    BY <1>2 DEF Present
  <1>4. row'[r].seq = clock + 1 /\ clock \in Nat
    BY <1>1, <1>2 DEF TypeOK
  <1>5. \A q \in Present' : q # r => row'[q].seq <= clock /\ row'[q].seq \in Nat
    BY <1>1, <1>3 DEF SequenceOrders, TypeOK, RowType, Present
  <1>6. SequenceOrders'
    <2>1. \A q \in Present' : row'[q].seq <= clock'
      BY <1>2, <1>4, <1>5
    <2>2. \A p, q \in Present' : row'[q].seq = row'[p].seq => q = p
      BY <1>1, <1>3, <1>4, <1>5 DEF SequenceOrders
    <2> QED
      BY <2>1, <2>2 DEF SequenceOrders
  <1>7. \A q \in Run : IsLatest(q)' <=> q = r
    BY <1>3, <1>4, <1>5 DEF IsLatest
  <1>8. LiveRuns' = {r}
    BY <1>1, StartRows DEF LiveRuns
  <1>9. LiveIsLatest' /\ ProjectionFollowsLatest'
    BY <1>2, <1>7, <1>8 DEF LiveIsLatest, ProjectionFollowsLatest, Present
  <1>10. HealSettled'
    BY <1>1, <1>2, StartSolo DEF HealSettled
  <1> QED
    BY <1>6, <1>9, <1>10

\* The displayed status is that of the latest run, and the others.
LEMMA SoloStep ==
    ASSUME OneProcess, SoloInv, [Next]_vars, ~StartsOne
    PROVE  (SequenceOrders /\ LiveIsLatest /\ HealSettled /\ ProjectionFollowsLatest)'
  <1>1. /\ IInv /\ TypeOK /\ SequenceOrders /\ LiveIsLatest /\ HealSettled
        /\ ProjectionFollowsLatest
    BY DEF SoloInv, ChainInv, IInv
  <1>2. UNCHANGED <<row, clock>> /\ Present' = Present
    BY <1>1, RowsFrame
  <1>3. LiveRuns' \subseteq LiveRuns
    BY <1>1, NoNewRows DEF LiveRuns
  <1>4. \A q : IsLatest(q)' <=> IsLatest(q)
    BY <1>2 DEF IsLatest
  <1>5. SequenceOrders' /\ LiveIsLatest'
    BY <1>1, <1>2, <1>3, <1>4 DEF SequenceOrders, LiveIsLatest
  <1>6. HealSettled'
    BY <1>1, <1>3, HealDecided DEF HealSettled, LiveRuns
  <1>7. ProjectionFollowsLatest'
    <2> SUFFICES ASSUME NEW q \in Present, IsLatest(q) PROVE projection' = status'[q]
      BY <1>2, <1>4 DEF ProjectionFollowsLatest
    <2>1. projection = status[q] /\ q \in Run
      BY <1>1 DEF ProjectionFollowsLatest, Present
    <2>2. CASE UNCHANGED <<status, projection>>
      BY <2>1, <2>2
    <2>3. CASE SettlesShown
      <3>1. PICK r \in Run, wanted \in Terminal :
              Settled(r, wanted) /\ projection' = Adopted(r, wanted)
        BY <2>3 DEF SettlesShown
      <3>2. r \in LiveRuns /\ status'[r] = Adopted(r, wanted)
        BY <1>1, <3>1 DEF Settled, LiveRuns, TypeOK
      <3>3. IsLatest(r) /\ r \in Present
        BY <1>1, <3>2 DEF LiveIsLatest, IsLatest
      <3>4. row[q].seq \in Nat /\ row[r].seq \in Nat
        BY <1>1, <2>1 DEF TypeOK, RowType
      <3>5. q = r
        BY <1>1, <3>3, <3>4 DEF IsLatest, SequenceOrders
      <3> QED
        BY <3>1, <3>2, <3>5
    <2>4. ASSUME NEW w \in Worker, HealApply(w) PROVE projection' = status'[q]
      <3>1. UNCHANGED status /\ LiveRuns = {}
        BY <1>1, <2>4 DEF HealApply, HealSettled, rowVars
      <3>2. projection # "in_progress"
        BY <2>1, <3>1 DEF LiveRuns
      <3> QED
        BY <2>1, <2>4, <3>1, <3>2 DEF HealApply
    <2> QED
      BY <1>1, <2>2, <2>3, <2>4, ShownKinds
  <1> QED
    BY <1>5, <1>6, <1>7

\* The process has just started.
LEMMA SoloInvInit == Init => SoloInv
  <1> SUFFICES ASSUME Init PROVE SoloInv
    OBVIOUS
  <1>1. ChainInv
    BY ChainInvInit
  <1>2. Present = {} /\ LiveRuns = {}
    BY DEF Init, Present, LiveRuns
  <1>3. LatestRetried
    BY DEF Init, LatestRetried, NoPlan
  <1> QED
    BY <1>1, <1>2, <1>3 DEF SoloInv, SequenceOrders, LiveIsLatest, HealSettled,
       ProjectionFollowsLatest

\* Every step of the only process keeps what it knows of the latest run.
LEMMA SoloInvStep == ASSUME OneProcess, SoloInv, [Next]_vars PROVE SoloInv'
  <1>1. ChainInv'
    BY ChainInvStep DEF SoloInv
  <1>2. CASE StartsOne
    BY <1>1, <1>2, LatestStep, SoloStart DEF SoloInv, StartsOne
  <1>3. CASE ~StartsOne
    BY <1>1, <1>3, LatestStep, SoloStep DEF SoloInv
  <1> QED
    BY <1>2, <1>3

\* With one process: rows are numbered as they start, a live run is the latest,
\* so is what a retry has resolved, and a heal under way finds no live run.
THEOREM SoloInvHolds == ASSUME OneProcess PROVE Spec => []SoloInv
  <1>1. SoloInv /\ [Next]_vars => SoloInv'
    BY SoloInvStep
  <1> QED
    BY <1>1, SoloInvInit, PTL DEF Spec

\* With one process, the thread shows the status of its latest run, whatever
\* settles it and however often the process restarts (finalize_run, start_run,
\* heal_stale_thread_projections).
THEOREM ProjectionTheorem == ASSUME OneProcess PROVE Spec => []ProjectionFollowsLatest
  <1>1. SoloInv => ProjectionFollowsLatest
    BY DEF SoloInv
  <1> QED
    BY <1>1, SoloInvHolds, PTL

\* With one process, a retry chains onto the run that is the latest when it
\* starts: its admission lock covers the check and the START (resolve_retry_of).
THEOREM RetryTheorem == ASSUME OneProcess PROVE Spec => RetryChainsOntoLatest
  <1> DEFINE Chains ==
        \A r \in Run :
          status[r] = "absent" /\ status'[r] = "in_progress" /\ plan[r].prev # None
          => IsLatest(plan[r].prev)
  <1>1. SoloInv /\ [Next]_vars => [Chains]_vars
    <2> SUFFICES ASSUME SoloInv, [Next]_vars, NEW r \in Run, status[r] = "absent",
                        status'[r] = "in_progress", plan[r].prev # None
                 PROVE  IsLatest(plan[r].prev)
      OBVIOUS
    <2>1. IInv /\ TypeOK /\ Rows /\ ProbeHolds /\ LatestRetried
      BY DEF SoloInv, ChainInv, IInv, Rows
    <2>2. PICK s \in Run : CommitStart(s)
      BY <2>1, NoNewRows DEF StartsOne
    <2>3. r = s
      BY <2>1, <2>2, StartRows
    <2> QED
      BY <2>1, <2>2, <2>3 DEF CommitStart, LatestRetried, Chained, Retryable
  <1> QED
    BY <1>1, SoloInvHolds, PTL DEF Spec, RetryChainsOntoLatest

-----------------------------------------------------------------------------
(* The signals to the watchers. *)

\* Every outcome has its jobs, of its own run, and at most one of them; a run
\* with watchers has exactly one.
LEMMA JobsOfOutcome ==
    ASSUME NEW r \in Run, NEW final \in Terminal
    PROVE  /\ \A j \in FinalizeJobs(r, final) : j[1] = r
           /\ r \in Ptc => \E h \in HookType : FinalizeJobs(r, final) = {<<r, h>>}
           /\ <<r, "report_back">> \in FinalizeJobs(r, final) => final = "completed"
           /\ <<r, "needs_input_wake">> \in FinalizeJobs(r, final) => final = "interrupted"
  <1>1. CASE final = "completed" /\ r \in Ptc
    <2>1. FinalizeJobs(r, final) = {<<r, "report_back">>}
      BY <1>1 DEF FinalizeJobs
    <2> QED
      BY <1>1, <2>1
  <1>2. CASE final = "interrupted" /\ r \in Ptc
    <2>1. FinalizeJobs(r, final) = {<<r, "needs_input_wake">>}
      BY <1>2 DEF FinalizeJobs
    <2> QED
      BY <1>2, <2>1
  <1>3. CASE final \in {"error", "cancelled"}
    <2>1. FinalizeJobs(r, final) = {<<r, "watch_clear">>}
      BY <1>3 DEF FinalizeJobs
    <2> QED
      BY <1>3, <2>1
  <1>4. CASE final \in {"completed", "interrupted"} /\ r \notin Ptc
    <2>1. FinalizeJobs(r, final) = {}
      BY <1>4 DEF FinalizeJobs
    <2> QED
      BY <1>4, <2>1
  <1> QED
    BY <1>1, <1>2, <1>3, <1>4

\* Only the compare-and-set that wins enqueues, and by the outcome it wrote.
LEMMA SignalsStep ==
    ASSUME IInv, SignalsExact, [Next]_vars PROVE SignalsExact'
  <1> DEFINE mine(r) == {j \in jobs : j[1] = r}
  <1>1. TypeOK /\ Rows /\ ProbeHolds
    BY DEF IInv, Rows
  <1>2. CASE UNCHANGED <<status, jobs>>
    BY <1>2 DEF SignalsExact, FinalizeJobs
  <1>3. CASE SettlesShown
    <2>1. PICK r \in Run, wanted \in Terminal :
            /\ Settled(r, wanted)
            /\ jobs' = jobs \cup FinalizeJobs(r, Adopted(r, wanted))
      BY <1>3 DEF SettlesShown
    <2> DEFINE final == Adopted(r, wanted)
    <2>2. /\ final \in Terminal /\ status[r] = "in_progress" /\ status'[r] = final
          /\ \A q \in Run : q # r => status'[q] = status[q]
      BY <1>1, <2>1 DEF Settled, Adopted, TypeOK
    <2>3. \A j \in FinalizeJobs(r, final) : j[1] = r
      BY <2>2, JobsOfOutcome
    <2> HIDE DEF final
    <2>4. jobs' = jobs \cup FinalizeJobs(r, final)
      BY <2>1 DEF final
    <2>5. ASSUME NEW q \in Run
          PROVE  {j \in jobs' : j[1] = q} =
                   IF status'[q] \in Terminal THEN FinalizeJobs(q, status'[q]) ELSE {}
      <3>1. CASE q = r
        <4>1. {j \in jobs : j[1] = r} = {}
          BY <2>2 DEF SignalsExact
        <4> QED
          BY <2>2, <2>3, <2>4, <3>1, <4>1
      <3>2. CASE q # r
        BY <2>2, <2>3, <2>4, <3>2 DEF SignalsExact
      <3> QED
        BY <3>1, <3>2
    <2> QED
      BY <2>5 DEF SignalsExact, FinalizeJobs
  <1>4. CASE StartsOne
    <2>1. PICK r \in Run : CommitStart(r)
      BY <1>4 DEF StartsOne
    <2>2. /\ status' = [q \in Run |-> IF q = r THEN "in_progress"
                          ELSE IF q \in cut[r].rows THEN "absent" ELSE status[q]]
          /\ jobs' = {j \in jobs : j[1] \notin cut[r].rows}
      BY <2>1 DEF CommitStart
    <2>3. status[r] = "absent"
      BY <1>1, <2>1, StartRows
    <2>4. ASSUME NEW q \in Run
          PROVE  {j \in jobs' : j[1] = q} =
                   IF status'[q] \in Terminal THEN FinalizeJobs(q, status'[q]) ELSE {}
      <3>1. {j \in jobs : j[1] = q} =
               IF status[q] \in Terminal THEN FinalizeJobs(q, status[q]) ELSE {}
        BY DEF SignalsExact
      <3> QED
        BY <2>2, <2>3, <3>1
    <2> QED
      BY <2>4 DEF SignalsExact, FinalizeJobs
  <1>5. ASSUME NEW w \in Worker, HealApply(w) PROVE UNCHANGED <<status, jobs>>
    BY <1>5 DEF HealApply, rowVars, sideVars
  <1> QED
    BY <1>1, <1>2, <1>3, <1>4, <1>5, ShownKinds

\* The watchers of a dispatched run get exactly one signal, the one of the
\* outcome the CAS adopted (build_finalize_jobs_from_run_row, I5).
THEOREM SignalTheorem == Spec => []OneWatchSignal
  <1>1. Init => SignalsExact
    BY DEF Init, SignalsExact
  <1>2. IInv /\ SignalsExact /\ [Next]_vars => SignalsExact'
    BY SignalsStep
  <1>3. SignalsExact => OneWatchSignal
    <2> SUFFICES ASSUME SignalsExact, NEW r \in Run
                 PROVE  LET mine == {j \in jobs : j[1] = r} IN
                        /\ status[r] \notin Terminal => mine = {}
                        /\ status[r] \in Terminal /\ r \in Ptc => Cardinality(mine) = 1
                        /\ <<r, "report_back">> \in mine => status[r] = "completed"
                        /\ <<r, "needs_input_wake">> \in mine => status[r] = "interrupted"
      BY DEF OneWatchSignal
    <2> DEFINE mine == {j \in jobs : j[1] = r}
    <2>1. mine = IF status[r] \in Terminal THEN FinalizeJobs(r, status[r]) ELSE {}
      BY DEF SignalsExact
    <2> HIDE DEF mine
    <2>2. CASE status[r] \in Terminal
      <3>1. r \in Ptc => \E h \in HookType : mine = {<<r, h>>}
        BY <2>1, <2>2, JobsOfOutcome
      <3>2. r \in Ptc => Cardinality(mine) = 1
        BY <3>1, FS_Singleton
      <3> QED
        BY <2>1, <2>2, <3>2, JobsOfOutcome DEF mine
    <2>3. CASE status[r] \notin Terminal
      BY <2>1, <2>3 DEF mine
    <2> QED
      BY <2>2, <2>3 DEF mine
  <1> QED
    BY <1>1, <1>2, <1>3, IInvHolds, PTL DEF Spec

-----------------------------------------------------------------------------
(* A process without the fence, and the live tasks of its runs. *)

\* A run asks for a task while it is owned, and is owned until it has it: no
\* session of an unfenced process is pinned, so none is lost.
LEMMA AskedIsOwned ==
    ASSUME ~Guarded, TypeOK, AskersLive, [Next]_vars, NEW q \in Run, task'[q] = "asked"
    PROVE  /\ pc[q] = "owner" /\ status[q] = "in_progress" /\ pc'[q] = "owner"
  <1> USE DEF TypeOK, reqVars, rowVars, sideVars, bgVars
  <1> DEFINE Owned == pc[q] = "owner" /\ status[q] = "in_progress" /\ pc'[q] = "owner"
  <1>1. CASE UNCHANGED vars
    BY <1>1 DEF vars, AskersLive
  <1>2. ASSUME NEW r \in Run, Request(r) PROVE Owned
    <2>1. CASE CommitStart(r)
      <3>1. task[q] = "asked" /\ pc[r] = "cut" /\ pc' = [pc EXCEPT ![r] = "owner"]
        BY <2>1 DEF CommitStart
      <3> QED
        BY <3>1 DEF AskersLive
    <2>2. CASE ~CommitStart(r)
      <3>1. /\ UNCHANGED task
            /\ pc'[q] = pc[q] \/ pc[q] \in {"idle", "sent", "admitted", "ready",
                                            "fenced", "probed", "cut"}
        BY <1>2, <2>2 DEF Request, StartStep, Submit, Admit, Refuse, ResolveRetry,
           AcquireRoot, GuardUnavailable, Probe, Truncate, FailStart
      <3> QED
        BY <3>1 DEF AskersLive
    <2> QED
      BY <2>1, <2>2
  <1>3. ASSUME NEW r \in Run, Settle(r) PROVE Owned
    <2>1. /\ UNCHANGED task /\ ~LoseGuard(r)
          /\ \A s \in Run : s # r => pc'[s] = pc[s]
          /\ pc'[r] = pc[r] \/ task[r] # "asked" \/ pc[r] # "owner"
      BY <1>3 DEF Settle, Finalize, Teardown, LoseGuard, FinalizeLost, Abandon,
         ReconcileDispatch
    <2> QED
      BY <2>1 DEF AskersLive
  <1>4. ASSUME NEW r \in Run, Side(r) PROVE Owned
    <2>1. UNCHANGED pc
      BY <1>4 DEF Side, AskTask, StartTask, FinishTask, CancelStamp, CancelRead
    <2>2. CASE AskTask(r)
      BY <2>1, <2>2 DEF AskTask, AskersLive
    <2>3. CASE ~AskTask(r)
      <3>1. task[q] = "asked"
        BY <1>4, <2>3 DEF Side, StartTask, FinishTask, CancelStamp, CancelRead
      <3> QED
        BY <2>1, <3>1 DEF AskersLive
    <2> QED
      BY <2>2, <2>3
  <1>5. ASSUME NEW w \in Worker, Background(w) PROVE Owned
    <2>1. CASE Crash(w)
      BY <2>1 DEF Crash, AskersLive
    <2>2. CASE ~Crash(w)
      <3>1. UNCHANGED <<pc, task>>
        BY <1>5, <2>2 DEF Background, ScanList, ScanLock, ScanSkip, ScanFinalize,
           StartupSweep, HealSnapshot, HealApply
      <3> QED
        BY <3>1 DEF AskersLive
    <2> QED
      BY <2>1, <2>2
  <1> QED
    BY <1>1, <1>2, <1>3, <1>4, <1>5 DEF Next

\* A task opens when it was asked for, and only a fork erases an open one.
LEMMA TaskMoves ==
    ASSUME TypeOK, [Next]_vars, NEW q \in Run
    PROVE  /\ task'[q] = "open" => task[q] \in {"asked", "open"}
           /\ task[q] = "open" /\ task'[q] = "none" =>
                 \E r \in Run : CommitStart(r) /\ q \in cut[r].rows
  <1> USE DEF TypeOK, reqVars, rowVars, sideVars, bgVars
  <1> DEFINE Moves == /\ task'[q] = "open" => task[q] \in {"asked", "open"}
                      /\ task[q] = "open" => task'[q] # "none"
  <1>1. CASE UNCHANGED vars
    BY <1>1 DEF vars
  <1>2. ASSUME NEW r \in Run, Request(r)
        PROVE  Moves \/ (CommitStart(r) /\ q \in cut[r].rows /\ task'[q] # "open")
    <2>1. CASE CommitStart(r)
      BY <2>1 DEF CommitStart
    <2>2. CASE ~CommitStart(r)
      BY <1>2, <2>2 DEF Request, StartStep, Submit, Admit, Refuse, ResolveRetry,
         AcquireRoot, GuardUnavailable, Probe, Truncate, FailStart
    <2> QED
      BY <2>1, <2>2
  <1>3. ASSUME NEW r \in Run, Settle(r) PROVE Moves
    BY <1>3 DEF Settle, Finalize, Teardown, LoseGuard, FinalizeLost, Abandon,
       ReconcileDispatch
  <1>4. ASSUME NEW r \in Run, Side(r) PROVE Moves
    BY <1>4 DEF Side, AskTask, StartTask, FinishTask, CancelStamp, CancelRead
  <1>5. ASSUME NEW w \in Worker, Background(w) PROVE Moves
    BY <1>5 DEF Background, ScanList, ScanLock, ScanSkip, ScanFinalize,
       StartupSweep, HealSnapshot, HealApply, Crash
  <1> QED
    BY <1>1, <1>2, <1>3, <1>4, <1>5 DEF Next

\* A launch is asked for by a live run, which its own executor keeps live.
LEMMA AskersStep ==
    ASSUME ~Guarded, TaskInv, [Next]_vars PROVE AskersLive'
  <1>1. IInv /\ TypeOK /\ TypeOK' /\ AskersLive
    BY TypeStep DEF TaskInv, ChainInv, IInv
  <1> SUFFICES ASSUME NEW q \in Run, task'[q] = "asked"
               PROVE  pc'[q] = "owner" /\ status'[q] = "in_progress"
    BY DEF AskersLive
  <1>2. pc[q] = "owner" /\ status[q] = "in_progress" /\ pc'[q] = "owner"
    BY <1>1, AskedIsOwned
  <1>3. status'[q] # "absent" /\ status'[q] \notin Terminal
    BY <1>1, <1>2, LiveStays, OwnerSettles
  <1> QED
    BY <1>1, <1>2, <1>3 DEF TypeOK

\* A fork past its probe has no live run, so no launch and no task, above its cut.
LEMMA SparesStep ==
    ASSUME ~Guarded, TaskInv, [Next]_vars PROVE ForkSparesTasks'
  <1>1. IInv /\ TypeOK /\ Fences /\ ProbeHolds /\ AskersLive /\ ForkSparesTasks
    BY DEF TaskInv, ChainInv, IInv, Fences
  <1> SUFFICES ASSUME NEW q \in Run, pc'[q] \in {"probed", "cut"}, IsFork(q)'
               PROVE  OpenTasksFrom(plan[q].at)' = {}
    BY DEF ForkSparesTasks
  <1>2. CASE Probe(q)
    BY <1>1, <1>2 DEF Probe, ForkAllowed, OpenTasksFrom, Present, IsFork, rowVars, sideVars
  <1>3. CASE Truncate(q)
    <2>1. /\ plan'[q].kind = plan[q].kind /\ plan'[q].at = plan[q].at
          /\ pc[q] = "probed" /\ UNCHANGED <<status, row, task>>
      BY <1>1, <1>3 DEF Truncate, rowVars, sideVars, TypeOK, PlanType
    <2> QED
      BY <1>1, <2>1 DEF ForkSparesTasks, OpenTasksFrom, Present, IsFork
  <1>4. CASE ~Probe(q) /\ ~Truncate(q)
    <2>1. pc[q] \in {"probed", "cut"} /\ plan'[q] = plan[q] /\ IsFork(q)
      BY <1>1, <1>4, ProbeFrame DEF IsFork
    <2>2. ~StartsOne
      <3> SUFFICES ASSUME NEW r \in Run, CommitStart(r) PROVE FALSE
        BY DEF StartsOne
      <3>1. pc[r] = "cut" /\ pc'[r] = "owner"
        BY <1>1 DEF CommitStart, TypeOK
      <3> QED
        BY <1>1, <2>1, <3>1, FencesSerialize DEF OneOpenStart, InStart
    <2>3. UNCHANGED row /\ Present' = Present
      BY <1>1, <2>2, RowsFrame
    <2>4. \A s \in Run : task[s] # "asked"
      BY <1>1, <2>1 DEF AskersLive, ProbeHolds, LiveRuns
    <2>5. \A s \in Run : task'[s] = "open" => task[s] = "open"
      BY <1>1, <2>4, TaskMoves
    <2> QED
      BY <1>1, <2>1, <2>3, <2>5 DEF ForkSparesTasks, OpenTasksFrom, Present
  <1> QED
    BY <1>2, <1>3, <1>4

\* No task has been asked for.
LEMMA TaskInvInit == Init => TaskInv
  BY ChainInvInit DEF Init, TaskInv, AskersLive, ForkSparesTasks

\* Without the fence, whoever launches a task has a live run, and a fork past
\* its live-task check finds none of its tasks live when it truncates.
THEOREM TaskInvHolds == ASSUME ~Guarded PROVE Spec => []TaskInv
  <1>1. TaskInv /\ [Next]_vars => TaskInv'
    BY ChainInvStep, AskersStep, SparesStep DEF TaskInv
  <1> QED
    BY <1>1, TaskInvInit, PTL DEF Spec

\* Without the fence, a fork never erases a live task run under its executor
\* (start_run's live-task refusal).
THEOREM TaskTheorem == ASSUME ~Guarded PROVE Spec => NoOpenTaskErased
  <1> DEFINE Spared == \A r \in Run : task[r] = "open" => task'[r] # "none"
  <1>1. TaskInv /\ [Next]_vars => [Spared]_vars
    <2> SUFFICES ASSUME TaskInv, [Next]_vars, NEW r \in Run, task[r] = "open",
                        task'[r] = "none"
                 PROVE  FALSE
      OBVIOUS
    <2>1. TypeOK /\ ProbeHolds /\ CutsWhole /\ ForkSparesTasks
      BY DEF TaskInv, ChainInv, IInv
    <2>2. PICK s \in Run : CommitStart(s) /\ r \in cut[s].rows
      BY <2>1, TaskMoves
    <2>3. pc[s] = "cut" /\ IsFork(s)
      BY <2>1, <2>2 DEF CommitStart, ProbeHolds
    <2>4. r \in OpenTasksFrom(plan[s].at)
      BY <2>1, <2>2, <2>3 DEF CutsWhole, TruncatedRows, OpenTasksFrom, Present
    <2> QED
      BY <2>1, <2>3, <2>4 DEF ForkSparesTasks
  <1> QED
    BY <1>1, TaskInvHolds, PTL DEF Spec, NoOpenTaskErased
=============================================================================
