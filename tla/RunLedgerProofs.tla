--------------------------- MODULE RunLedgerProofs ---------------------------
(* Proofs about RunLedger, for every value of its constants: its types, that *)
(* IInv is an inductive invariant, and the safety properties it gives.       *)
EXTENDS RunLedger, FiniteSetTheorems, TLAPS

USE DEF AllKinds, Terminal, Status, HookType, Acked

-----------------------------------------------------------------------------
(* Type correctness. *)

\* The initial thread is well typed.
LEMMA InitType == Init => TypeOK
  BY RunAssumption, BoundAssumption, WorkerAssumption, RoleAssumption
     DEF Init, TypeOK, NoPlan, NoCut, NoRow, PlanType, RowType, PcType, Turn

\* The empty plan, the empty truncation and the empty row are well typed.
LEMMA NoneTypes ==
    /\ NoPlan \in PlanType
    /\ NoCut \in [rows : SUBSET Run, queries : SUBSET Turn]
    /\ NoRow \in RowType
  BY BoundAssumption DEF NoPlan, NoCut, NoRow, PlanType, RowType, Turn

\* The terminal CAS keeps the types of what it writes.
LEMMA CASType ==
    ASSUME TypeOK, NEW r \in Run, NEW wanted \in Terminal, FinalizeCAS(r, wanted)
    PROVE  /\ status' \in [Run -> Status]
           /\ intent' \in [Run -> BOOLEAN]
           /\ jobs' \subseteq Run \X HookType
           /\ projection' \in Terminal \cup {"in_progress"}
  <1>1. Adopted(r, wanted) \in Terminal
    BY DEF Adopted
  <1>2. IntentAfter(r, wanted) \in BOOLEAN
    BY DEF IntentAfter, TypeOK
  <1>3. FinalizeJobs(r, Adopted(r, wanted)) \subseteq Run \X HookType
    BY DEF FinalizeJobs
  <1> QED
    BY <1>1, <1>2, <1>3 DEF TypeOK, FinalizeCAS
\* What a client asks for is a well-typed plan.
LEMMA WishType ==
    ASSUME TypeOK, NEW r \in Run, NEW p \in Wishes(r)
    PROVE  p \in PlanType
  <1>1. NoPlan \in PlanType
    BY NoneTypes
  <1>2. ASSUME NEW q \in Run PROVE Again(q) \in PlanType
    <2>1. plan[q] \in PlanType
      BY DEF TypeOK
    <2> QED
      BY <1>1, <2>1 DEF Again, PlanType
  <1>3. Offers \subseteq PlanType
    <2>1. \A q \in Present : q \in Run /\ row[q].turn \in Turn
      BY DEF Present, TypeOK, RowType
    <2>2. [NoPlan EXCEPT !.kind = "fresh"] \in PlanType
      BY <1>1 DEF PlanType
    <2>3. \A q \in Present : [NoPlan EXCEPT !.kind = "retry", !.prev = q] \in PlanType
      BY <1>1, <2>1 DEF PlanType
    <2>4. \A q \in Present :
             /\ [NoPlan EXCEPT !.kind = "edit", !.at = row[q].turn] \in PlanType
             /\ [NoPlan EXCEPT !.kind = "regen", !.at = row[q].turn] \in PlanType
      BY <1>1, <2>1 DEF PlanType
    <2> QED
      BY <2>2, <2>3, <2>4 DEF Offers
  <1> QED
    BY <1>2, <1>3 DEF Wishes, Sent

\* The steps of a request, from the client to the end of START.
LEMMA RequestType ==
    ASSUME TypeOK, NEW r \in Run, Request(r)
    PROVE  TypeOK'
  <1> USE DEF TypeOK, reqVars, rowVars, sideVars, bgVars
  <1>1. CASE Submit(r)
    <2>1. PICK p \in Wishes(r) : p.kind \in Kind /\ plan' = [plan EXCEPT ![r] = p]
      BY <1>1 DEF Submit
    <2>2. p \in PlanType
      BY <2>1, WishType
    <2> QED
      BY <1>1, <2>1, <2>2 DEF Submit, PcType
  <1>2. CASE Admit(r)
    BY <1>2 DEF Admit, PcType, Admitting
  <1>3. CASE Refuse(r)
    BY <1>3 DEF Refuse, PcType
  <1>4. CASE ResolveRetry(r)
    <2>1. CASE Retryable(plan[r].prev)
      <3> DEFINE p == plan[r].prev
      <3>1. row[p] \in RowType /\ plan[r] \in PlanType
        BY <2>1 DEF Retryable, IsLatest, Present
      <3>2. plan' = [plan EXCEPT ![r] = [plan[r] EXCEPT !.turn = row[p].turn,
                                                     !.attempt = row[p].attempt + 1]]
        BY <1>4, <2>1 DEF ResolveRetry
      <3>3. row[p].turn \in Turn /\ row[p].attempt + 1 \in Nat
        BY <3>1 DEF RowType
      <3>4. [plan[r] EXCEPT !.turn = row[p].turn,
                            !.attempt = row[p].attempt + 1] \in PlanType
        <4> DEFINE t == row[p].turn
                   a == row[p].attempt + 1
        <4>1. t \in Turn /\ a \in Nat /\ plan[r] \in PlanType
          BY <3>1, <3>3
        <4> HIDE DEF t, a
        <4>2. [plan[r] EXCEPT !.turn = t, !.attempt = a] \in PlanType
          BY <4>1 DEF PlanType
        <4> QED
          BY <4>2 DEF t, a
      <3>5. pc' \in [Run -> PcType]
        BY <1>4, <2>1 DEF ResolveRetry, PcType, Admitting
      <3> HIDE DEF p
      <3> QED
        BY <1>4, <3>2, <3>4, <3>5 DEF ResolveRetry
    <2>2. CASE ~Retryable(plan[r].prev)
      BY <1>4, <2>2 DEF ResolveRetry, PcType
    <2> QED
      BY <2>1, <2>2
  <1>5. CASE AcquireRoot(r)
    BY <1>5 DEF AcquireRoot, PcType, Admitting
  <1>6. CASE GuardUnavailable(r)
    BY <1>6 DEF GuardUnavailable, PcType
  <1>7. CASE Probe(r)
    BY <1>7 DEF Probe, PcType, Admitting
  <1>8. CASE Truncate(r)
    <2>1. \E gone, goneQueries, next :
            /\ gone \subseteq Run /\ goneQueries \subseteq Turn /\ next \in Turn
            /\ cut' = [cut EXCEPT ![r] = [rows |-> gone, queries |-> goneQueries]]
            /\ plan' = [plan EXCEPT ![r].turn = next]
      <3>1. TruncatedRows(r) \subseteq Run /\ TruncatedQueries(r) \subseteq Turn
        BY DEF TruncatedRows, TruncatedQueries, Present
      <3> DEFINE gone == IF IsFork(r) THEN TruncatedRows(r) ELSE {}
                 goneQueries == IF IsFork(r) THEN TruncatedQueries(r) ELSE {}
                 next == CASE plan[r].kind = "retry" -> plan[r].turn
                           [] plan[r].kind = "regen" -> plan[r].at
                           [] OTHER -> NextTurn(gone, goneQueries)
      <3>2. /\ next \in Turn
            /\ cut' = [cut EXCEPT ![r] = [rows |-> gone, queries |-> goneQueries]]
            /\ plan' = [plan EXCEPT ![r].turn = next]
        BY <1>8 DEF Truncate
      <3>3. gone \subseteq Run /\ goneQueries \subseteq Turn
        BY <3>1
      <3> HIDE DEF gone, goneQueries, next
      <3> QED
        BY <3>2, <3>3
    <2>2. PICK gone, goneQueries, next :
            /\ gone \subseteq Run /\ goneQueries \subseteq Turn /\ next \in Turn
            /\ cut' = [cut EXCEPT ![r] = [rows |-> gone, queries |-> goneQueries]]
            /\ plan' = [plan EXCEPT ![r].turn = next]
      BY <2>1
    <2>3. cut' \in [Run -> [rows : SUBSET Run, queries : SUBSET Turn]]
      BY <2>2
    <2>4. plan' \in [Run -> PlanType]
      <3>1. plan[r] \in PlanType
        OBVIOUS
      <3>2. [plan[r] EXCEPT !.turn = next] \in PlanType
        BY <2>2, <3>1 DEF PlanType
      <3> QED
        BY <2>2, <3>2
    <2> QED
      BY <1>8, <2>3, <2>4 DEF Truncate, PcType, Admitting
  <1>9. CASE CommitStart(r)
    <2>1. /\ status' \in [Run -> Status]
          /\ intent' \in [Run -> BOOLEAN]
          /\ task' \in [Run -> {"none", "asked", "open", "done"}]
      BY <1>9 DEF CommitStart
    <2>2. row' \in [Run -> RowType] /\ clock' \in Nat
      BY <1>9, NoneTypes DEF CommitStart, RowType, PlanType
    <2>3. queries' \subseteq Turn /\ jobs' \subseteq Run \X HookType
      BY <1>9 DEF CommitStart, PlanType
    <2>4. pc' \in [Run -> PcType]
      BY <1>9 DEF CommitStart, PcType
    <2>5. cut' \in [Run -> [rows : SUBSET Run, queries : SUBSET Turn]]
      BY <1>9, NoneTypes DEF CommitStart
    <2> QED
      BY <1>9, <2>1, <2>2, <2>3, <2>4, <2>5 DEF CommitStart
  <1>10. CASE FailStart(r)
    BY <1>10, NoneTypes DEF FailStart, FreeRoot, PcType
  <1> QED
    BY <1>1, <1>2, <1>3, <1>4, <1>5, <1>6, <1>7, <1>8, <1>9, <1>10
       DEF Request, StartStep
\* The steps of an owner and of those that settle a run in its place.
LEMMA SettleType ==
    ASSUME TypeOK, NEW r \in Run, Settle(r)
    PROVE  TypeOK'
  <1> USE DEF reqVars, rowVars, sideVars, bgVars
  <1>1. CASE Finalize(r)
    <2>1. PICK wanted \in Terminal : FinalizeCAS(r, wanted)
      BY <1>1 DEF Finalize
    <2> QED
      BY <1>1, <2>1, CASType DEF Finalize, TypeOK, PcType
  <1>2. CASE Teardown(r)
    BY <1>2 DEF Teardown, TypeOK, PcType, FreeRoot
  <1>3. CASE LoseGuard(r)
    BY <1>3 DEF LoseGuard, TypeOK, PcType
  <1>4. CASE FinalizeLost(r)
    BY <1>4, CASType DEF FinalizeLost, TypeOK, PcType
  <1>5. CASE Abandon(r)
    BY <1>5 DEF Abandon, TypeOK, PcType, FreeRoot
  <1>6. CASE ReconcileDispatch(r)
    BY <1>6, CASType DEF ReconcileDispatch, TypeOK
  <1> QED
    BY <1>1, <1>2, <1>3, <1>4, <1>5, <1>6 DEF Settle

\* The steps of subagent runs and of a cancel call.
LEMMA SideType ==
    ASSUME TypeOK, NEW r \in Run, Side(r)
    PROVE  TypeOK'
  <1> USE DEF TypeOK, reqVars, rowVars, sideVars, bgVars
  <1>1. CASE AskTask(r)
    BY <1>1 DEF AskTask
  <1>2. CASE StartTask(r)
    BY <1>2 DEF StartTask
  <1>3. CASE FinishTask(r)
    BY <1>3 DEF FinishTask
  <1>4. CASE CancelStamp(r)
    BY <1>4 DEF CancelStamp
  <1>5. CASE CancelRead(r)
    BY <1>5 DEF CancelRead, CancelAnswer
  <1> QED
    BY <1>1, <1>2, <1>3, <1>4, <1>5 DEF Side

\* The steps of a process: its scanner, its start-up and its death.
LEMMA BackgroundType ==
    ASSUME TypeOK, NEW w \in Worker, Background(w)
    PROVE  TypeOK'
  <1> USE DEF reqVars, rowVars, sideVars, bgVars
  <1>1. CASE ScanList(w)
    BY <1>1 DEF ScanList, LiveRuns, TypeOK
  <1>2. CASE ScanLock(w)
    BY <1>2 DEF ScanLock, TypeOK
  <1>3. CASE ScanSkip(w)
    BY <1>3 DEF ScanSkip, TypeOK
  <1>4. CASE ScanFinalize(w)
    <2>1. PICK wanted \in Classify(scan[w]) : FinalizeCAS(scan[w].run, wanted)
      BY <1>4 DEF ScanFinalize
    <2>2. wanted \in Terminal
      BY <2>1 DEF Classify
    <2>3. scan[w].run \in Run
      BY <1>4 DEF ScanFinalize, TypeOK
    <2> QED
      BY <1>4, <2>1, <2>2, <2>3, CASType DEF ScanFinalize, TypeOK
  <1>5. CASE StartupSweep(w)
    <2>1. PICK r \in LiveRuns :
            \E wanted \in Classify([intent |-> intent[r]]) : FinalizeCAS(r, wanted)
      BY <1>5 DEF StartupSweep
    <2>2. PICK wanted \in Terminal : FinalizeCAS(r, wanted)
      BY <2>1 DEF Classify
    <2>3. r \in Run
      BY DEF LiveRuns
    <2> QED
      BY <1>5, <2>2, <2>3, CASType DEF StartupSweep, TypeOK
  <1>6. CASE HealSnapshot(w)
    <2>1. PICK target \in Status \cup {"serving"} :
            /\ \/ target = "serving"
               \/ target = "completed"
               \/ LiveRuns = {} /\ \E r \in Present : target = status[r]
            /\ boot' = [boot EXCEPT ![w] = target]
      BY <1>6 DEF HealSnapshot, IsLatest
    <2>2. target \in {"serving"} \cup Terminal
      BY <2>1 DEF LiveRuns, Present, TypeOK
    <2> QED
      BY <1>6, <2>1, <2>2 DEF HealSnapshot, TypeOK
  <1>7. CASE HealApply(w)
    BY <1>7 DEF HealApply, TypeOK
  <1>8. CASE Crash(w)
    BY <1>8, NoneTypes DEF Crash, TypeOK, PcType
  <1> QED
    BY <1>1, <1>2, <1>3, <1>4, <1>5, <1>6, <1>7, <1>8 DEF Background

\* Every step keeps the types.
LEMMA TypeStep == ASSUME TypeOK, [Next]_vars PROVE TypeOK'
  <1>1. CASE UNCHANGED vars
    BY <1>1 DEF vars, reqVars, rowVars, sideVars, bgVars, TypeOK
  <1> QED
    BY <1>1, RequestType, SettleType, SideType, BackgroundType DEF Next

\* Every reachable ledger is well typed.
THEOREM TypeCorrect == Spec => []TypeOK
  <1>1. TypeOK /\ [Next]_vars => TypeOK'
    BY TypeStep
  <1> QED
    BY <1>1, InitType, PTL DEF Spec

-----------------------------------------------------------------------------
(* What a step may do to the rows and to the program counters. *)

\* No request but r moves.
OnlyMoves(r) == \A q \in Run : q # r => pc'[q] = pc[q]

\* The terminal CAS took effect on run r.
Settled(r, wanted) ==
    /\ status[r] = "in_progress"
    /\ status' = [status EXCEPT ![r] = Adopted(r, wanted)]
    /\ intent' = [intent EXCEPT ![r] = IntentAfter(r, wanted)]
    /\ OnlyMoves(r)

\* The four things a step does to the rows and the cancel calls.
RowsQuiet == UNCHANGED <<status, intent>>
SettlesOne == \E r \in Run, wanted \in Terminal : Settled(r, wanted)
StartsOne == \E r \in Run : CommitStart(r)
CancelsOne == \E r \in Run : CancelStamp(r) \/ CancelRead(r)

\* A finalizer either loses the race and writes nothing, or settles its run.
LEMMA CASKinds ==
    ASSUME NEW r \in Run, NEW wanted \in Terminal, FinalizeCAS(r, wanted),
           OnlyMoves(r)
    PROVE  RowsQuiet \/ SettlesOne
  BY DEF FinalizeCAS, Matches, RowsQuiet, SettlesOne, Settled

\* Every step is of one of the four kinds.
LEMMA RowKinds ==
    ASSUME TypeOK, [Next]_vars
    PROVE  \/ (RowsQuiet \/ SettlesOne) /\ UNCHANGED cancel
           \/ StartsOne /\ UNCHANGED cancel
           \/ CancelsOne
  <1> USE DEF reqVars, rowVars, sideVars, bgVars
  <1>1. CASE UNCHANGED vars
    BY <1>1 DEF vars, RowsQuiet
  <1>2. ASSUME NEW r \in Run, Request(r)
        PROVE  (RowsQuiet \/ StartsOne) /\ UNCHANGED cancel
    <2>1. CASE CommitStart(r)
      BY <2>1 DEF CommitStart, StartsOne
    <2>2. CASE ~CommitStart(r)
      BY <1>2, <2>2 DEF Request, StartStep, Submit, Admit, Refuse, ResolveRetry,
         AcquireRoot, GuardUnavailable, Probe, Truncate, FailStart, RowsQuiet
    <2> QED
      BY <2>1, <2>2
  <1>3. ASSUME NEW r \in Run, Settle(r)
        PROVE  (RowsQuiet \/ SettlesOne) /\ UNCHANGED cancel
    <2>1. CASE Finalize(r)
      <3>1. PICK wanted \in Terminal : FinalizeCAS(r, wanted)
        BY <2>1 DEF Finalize
      <3>2. OnlyMoves(r) /\ UNCHANGED cancel
        BY <2>1 DEF Finalize, OnlyMoves, TypeOK
      <3> QED
        BY <3>1, <3>2, CASKinds
    <2>2. CASE FinalizeLost(r) \/ ReconcileDispatch(r)
      <3>1. FinalizeCAS(r, "error") /\ OnlyMoves(r) /\ UNCHANGED cancel
        BY <2>2 DEF FinalizeLost, ReconcileDispatch, OnlyMoves, TypeOK
      <3> QED
        BY <3>1, CASKinds
    <2>3. CASE Teardown(r) \/ LoseGuard(r) \/ Abandon(r)
      BY <2>3 DEF Teardown, LoseGuard, Abandon, RowsQuiet
    <2> QED
      BY <1>3, <2>1, <2>2, <2>3 DEF Settle
  <1>4. ASSUME NEW r \in Run, Side(r)
        PROVE  (RowsQuiet /\ UNCHANGED cancel) \/ CancelsOne
    BY <1>4 DEF Side, AskTask, StartTask, FinishTask, RowsQuiet, CancelsOne
  <1>5. ASSUME NEW w \in Worker, Background(w)
        PROVE  (RowsQuiet \/ SettlesOne) /\ UNCHANGED cancel
    <2>1. CASE ScanFinalize(w)
      <3>1. PICK wanted \in Classify(scan[w]) : FinalizeCAS(scan[w].run, wanted)
        BY <2>1 DEF ScanFinalize
      <3>2. wanted \in Terminal
        BY <3>1 DEF Classify
      <3>3. scan[w].run \in Run
        BY <2>1 DEF ScanFinalize, TypeOK
      <3> QED
        BY <2>1, <3>1, <3>2, <3>3, CASKinds DEF ScanFinalize, OnlyMoves
    <2>2. CASE StartupSweep(w)
      <3>1. PICK r \in LiveRuns :
              \E wanted \in Classify([intent |-> intent[r]]) : FinalizeCAS(r, wanted)
        BY <2>2 DEF StartupSweep
      <3>2. PICK wanted \in Terminal : FinalizeCAS(r, wanted)
        BY <3>1 DEF Classify
      <3>3. r \in Run /\ OnlyMoves(r) /\ UNCHANGED cancel
        BY <2>2 DEF StartupSweep, LiveRuns, OnlyMoves
      <3> QED
        BY <3>2, <3>3, CASKinds
    <2>3. CASE ~ScanFinalize(w) /\ ~StartupSweep(w)
      BY <1>5, <2>3 DEF Background, ScanList, ScanLock, ScanSkip, HealSnapshot,
         HealApply, Crash, RowsQuiet
    <2> QED
      BY <2>1, <2>2, <2>3
  <1> QED
    BY <1>1, <1>2, <1>3, <1>4, <1>5 DEF Next

\* No request comes back to the time before its START.
LEMMA NoReturn ==
    ASSUME TypeOK, [Next]_vars, NEW q \in Run, pc'[q] \in PreStart
    PROVE  pc[q] \in PreStart
  <1> USE DEF PreStart, Admitting, TypeOK, reqVars, rowVars, sideVars, bgVars
  <1>1. CASE UNCHANGED vars
    BY <1>1 DEF vars
  <1>2. ASSUME NEW r \in Run, Request(r) PROVE pc[q] \in PreStart
    BY <1>2 DEF Request, StartStep, Submit, Admit, Refuse, ResolveRetry,
       AcquireRoot, GuardUnavailable, Probe, Truncate, CommitStart, FailStart
  <1>3. ASSUME NEW r \in Run, Settle(r) PROVE pc[q] \in PreStart
    BY <1>3 DEF Settle, Finalize, Teardown, LoseGuard, FinalizeLost, Abandon,
       ReconcileDispatch
  <1>4. ASSUME NEW r \in Run, Side(r) PROVE pc[q] \in PreStart
    BY <1>4 DEF Side, AskTask, StartTask, FinishTask, CancelStamp, CancelRead
  <1>5. ASSUME NEW w \in Worker, Background(w) PROVE pc[q] \in PreStart
    BY <1>5 DEF Background, ScanList, ScanLock, ScanSkip, ScanFinalize,
       StartupSweep, HealSnapshot, HealApply, Crash
  <1> QED
    BY <1>1, <1>2, <1>3, <1>4, <1>5 DEF Next

-----------------------------------------------------------------------------
(* The fence and the admission lock. *)

\* Who is past the fence, who is in admission, and what start-up excludes.
Fences == FenceHeld /\ AdmissionHeld /\ BootQuiet

\* Every step keeps who holds the fence and who is in admission.
LEMMA FencesStep ==
    ASSUME TypeOK, Fences, [Next]_vars
    PROVE  Fences'
  <1> USE DEF Holding, Admitting, TypeOK, reqVars, rowVars, sideVars, bgVars
  <1>a. \A r \in Run : r # None /\ r \notin Worker /\ WorkerOf[r] \in Worker
    BY RunAssumption, DisjointAssumption, WorkerAssumption
  <1>b. FenceHeld /\ AdmissionHeld /\ BootQuiet
    BY DEF Fences
  <1>1. CASE UNCHANGED vars
    BY <1>1 DEF vars, Fences, FenceHeld, AdmissionHeld, BootQuiet
  <1>2. ASSUME NEW r \in Run, Request(r) PROVE Fences'
    <2>1. FenceHeld'
      BY <1>2, <1>a, <1>b DEF FenceHeld, Request, StartStep, Submit, Admit, Refuse,
         ResolveRetry, AcquireRoot, GuardUnavailable, Probe, Truncate,
         CommitStart, FailStart, FreeRoot
    <2>2. AdmissionHeld'
      BY <1>2, <1>b DEF AdmissionHeld, AdmissionFree, Request, StartStep, Submit,
         Admit, Refuse, ResolveRetry, AcquireRoot, GuardUnavailable, Probe,
         Truncate, CommitStart, FailStart
    <2>3. BootQuiet'
      BY <1>2, <1>b DEF BootQuiet, AdmissionFree, Request, StartStep, Submit,
         Admit, Refuse, ResolveRetry, AcquireRoot, GuardUnavailable, Probe,
         Truncate, CommitStart, FailStart
    <2> QED
      BY <2>1, <2>2, <2>3 DEF Fences
  <1>3. ASSUME NEW r \in Run, Settle(r) PROVE Fences'
    <2> USE DEF Settle, Finalize, Teardown, LoseGuard, FinalizeLost, Abandon,
         ReconcileDispatch
    <2>1. FenceHeld'
      BY <1>3, <1>a, <1>b DEF FenceHeld, FreeRoot
    <2>2. AdmissionHeld'
      BY <1>3, <1>b DEF AdmissionHeld
    <2>3. BootQuiet'
      BY <1>3, <1>b DEF BootQuiet
    <2> QED
      BY <2>1, <2>2, <2>3 DEF Fences
  <1>4. ASSUME NEW r \in Run, Side(r) PROVE Fences'
    <2>1. UNCHANGED <<pc, root, boot, scan>>
      BY <1>4 DEF Side, AskTask, StartTask, FinishTask, CancelStamp, CancelRead
    <2> QED
      BY <1>b, <2>1 DEF Fences, FenceHeld, AdmissionHeld, BootQuiet
  <1>5. ASSUME NEW w \in Worker, Background(w) PROVE Fences'
    <2>1. CASE ScanList(w) \/ ScanLock(w) \/ ScanSkip(w) \/ ScanFinalize(w)
               \/ StartupSweep(w)
      <3> USE <2>1 DEF ScanList, ScanLock, ScanSkip, ScanFinalize, StartupSweep
      <3>1. UNCHANGED <<pc, boot>>
        OBVIOUS
      <3>2. FenceHeld'
        BY <1>a, <1>b, <3>1 DEF FenceHeld
      <3>3. AdmissionHeld'
        BY <1>b, <3>1 DEF AdmissionHeld
      <3>4. BootQuiet'
        BY <1>b, <3>1 DEF BootQuiet
      <3> QED
        BY <3>2, <3>3, <3>4 DEF Fences
    <2>2. CASE HealSnapshot(w) \/ HealApply(w)
      <3>1. /\ UNCHANGED <<pc, root, scan>>
            /\ boot[w] # "serving" /\ \A v \in Worker : v # w => boot'[v] = boot[v]
        BY <2>2 DEF HealSnapshot, HealApply
      <3> QED
        BY <1>a, <1>b, <3>1 DEF Fences, FenceHeld, AdmissionHeld, BootQuiet
    <2>3. CASE Crash(w)
      <3>1. /\ pc' = [r \in Run |-> IF WorkerOf[r] = w /\ pc[r] \notin {"idle", "sent"}
                                    THEN "gone" ELSE pc[r]]
            /\ boot' = [boot EXCEPT ![w] = "sweep"]
            /\ scan' = [scan EXCEPT ![w] = None]
        BY <2>3 DEF Crash
      <3>2. root' = root \/ root' = None
        BY <2>3 DEF Crash
      <3>3. root' # root => root = w \/ \E r \in Run : root = r /\ WorkerOf[r] = w
                                          /\ pc[r] \notin {"idle", "sent"}
        BY <2>3 DEF Crash
      <3>4. FenceHeld'
        BY <1>a, <1>b, <3>1, <3>2, <3>3 DEF FenceHeld
      <3>5. AdmissionHeld'
        BY <1>b, <3>1 DEF AdmissionHeld
      <3>6. BootQuiet'
        BY <1>a, <1>b, <3>1 DEF BootQuiet
      <3> QED
        BY <3>4, <3>5, <3>6 DEF Fences
    <2> QED
      BY <1>5, <2>1, <2>2, <2>3 DEF Background
  <1> QED
    BY <1>1, <1>2, <1>3, <1>4, <1>5 DEF Next

\* Two START transactions never overlap: the fence serializes them, or the
\* admission lock of the only process.
LEMMA FencesSerialize ==
    ASSUME TypeOK, Fences PROVE OneOpenStart
  <1> SUFFICES ASSUME NEW q \in InStart, NEW r \in InStart PROVE q = r
    BY DEF OneOpenStart
  <1>1. CASE Guarded
    BY <1>1 DEF Fences, FenceHeld, Holding, InStart
  <1>2. CASE ~Guarded
    <2>1. PICK w : Worker = {w}
      BY <1>2, FenceAssumption, WorkerAssumption, FS_Singleton
    <2>2. WorkerOf[q] = WorkerOf[r]
      BY <2>1, WorkerAssumption DEF InStart
    <2> QED
      BY <2>2 DEF Fences, AdmissionHeld, Admitting, InStart
  <1> QED
    BY <1>1, <1>2

-----------------------------------------------------------------------------
(* The rows and the cancel calls. *)

Rows == NoRowBeforeStart /\ OneLiveRun
Cancels == CancelHolds /\ CancelBinds /\ IntentMatchesOutcome

\* A request that commits START finds no live run, and deletes none.
LEMMA StartAlone ==
    ASSUME TypeOK, Rows, ProbeHolds, NEW r \in Run, CommitStart(r)
    PROVE  LiveRuns = {} /\ \A q \in cut[r].rows : status[q] # "in_progress"
  <1>1. pc[r] = "cut" /\ SlotFree(Present \ cut[r].rows)
    BY DEF CommitStart, Insertable
  <1>2. CASE IsFork(r)
    BY <1>1, <1>2 DEF ProbeHolds, LiveRuns, TypeOK
  <1>3. CASE ~IsFork(r)
    BY <1>1, <1>3 DEF ProbeHolds, SlotFree, Present, LiveRuns, TypeOK
  <1> QED
    BY <1>2, <1>3

\* What a START that commits does to the rows.
LEMMA StartRows ==
    ASSUME TypeOK, Rows, ProbeHolds, NEW r \in Run, CommitStart(r)
    PROVE  /\ pc[r] = "cut" /\ pc'[r] = "owner"
           /\ status[r] = "absent" /\ status'[r] = "in_progress"
           /\ \A q \in Run : q # r =>
                 \/ status'[q] = status[q] /\ intent'[q] = intent[q]
                 \/ status'[q] = "absent" /\ status[q] # "in_progress"
           /\ \A q \in Run : q # r => status'[q] # "in_progress"
           /\ intent'[r] => intent[r]
           /\ \A q \in Run : status'[q] = "absent" /\ intent'[q]
                                => status[q] = "absent" /\ intent[q]
  <1>1. LiveRuns = {} /\ \A q \in cut[r].rows : status[q] # "in_progress"
    BY StartAlone
  <1>2. pc[r] = "cut" /\ pc'[r] = "owner"
    BY DEF CommitStart, TypeOK
  <1>3. status[r] = "absent"
    BY <1>2 DEF Rows, NoRowBeforeStart, PreStart, Admitting
  <1>4. /\ status' = [q \in Run |-> IF q = r THEN "in_progress"
                        ELSE IF q \in cut[r].rows THEN "absent" ELSE status[q]]
        /\ intent' = [q \in Run |-> intent[q] /\ q \notin cut[r].rows]
    BY DEF CommitStart
  <1> QED
    BY <1>1, <1>2, <1>3, <1>4 DEF LiveRuns, TypeOK

\* Every step keeps one live run, and no row before its START.
LEMMA RowsStep ==
    ASSUME TypeOK, Rows, ProbeHolds, [Next]_vars
    PROVE  Rows'
  <1>1. CASE RowsQuiet
    BY <1>1, NoReturn DEF Rows, RowsQuiet, NoRowBeforeStart, OneLiveRun, LiveRuns
  <1>2. CASE SettlesOne
    <2>1. PICK r \in Run, wanted \in Terminal : Settled(r, wanted)
      BY <1>2 DEF SettlesOne
    <2>2. Adopted(r, wanted) \in Terminal
      BY DEF Adopted
    <2>3. \A q \in Run : \/ status'[q] = status[q]
                         \/ q = r /\ status[q] = "in_progress"
                                  /\ status'[q] \in Terminal
      BY <2>1, <2>2 DEF Settled, TypeOK
    <2>4. NoRowBeforeStart'
      BY <2>3, NoReturn DEF Rows, NoRowBeforeStart
    <2>5. OneLiveRun'
      BY <2>3 DEF Rows, OneLiveRun, LiveRuns
    <2> QED
      BY <2>4, <2>5 DEF Rows
  <1>3. CASE StartsOne
    <2>1. PICK r \in Run : CommitStart(r)
      BY <1>3 DEF StartsOne
    <2>2. NoRowBeforeStart'
      <3> SUFFICES ASSUME NEW q \in Run, pc'[q] \in PreStart
                   PROVE  status'[q] = "absent"
        BY DEF NoRowBeforeStart
      <3>1. pc[q] \in PreStart /\ status[q] = "absent"
        BY NoReturn DEF Rows, NoRowBeforeStart
      <3>2. q # r
        BY <2>1, StartRows DEF PreStart, Admitting
      <3> QED
        BY <2>1, <3>1, <3>2, StartRows
    <2>3. OneLiveRun'
      BY <2>1, StartRows DEF OneLiveRun, LiveRuns
    <2> QED
      BY <2>2, <2>3 DEF Rows
  <1>4. CASE CancelsOne
    <2>1. UNCHANGED status
      BY <1>4 DEF CancelsOne, CancelStamp, CancelRead, rowVars
    <2> QED
      BY <2>1, NoReturn DEF Rows, NoRowBeforeStart, OneLiveRun, LiveRuns
  <1> QED
    BY <1>1, <1>2, <1>3, <1>4, RowKinds

\* Every step keeps the promise of an acknowledged cancel.
LEMMA CancelsStep ==
    ASSUME TypeOK, Rows, ProbeHolds, Cancels, [Next]_vars
    PROVE  Cancels'
  <1>a. CancelHolds /\ CancelBinds /\ IntentMatchesOutcome
    BY DEF Cancels
  <1>1. CASE RowsQuiet /\ UNCHANGED cancel
    BY <1>1, <1>a, NoReturn
       DEF Cancels, RowsQuiet, CancelHolds, CancelBinds, IntentMatchesOutcome
  <1>2. CASE SettlesOne /\ UNCHANGED cancel
    <2>1. PICK r \in Run, wanted \in Terminal : Settled(r, wanted)
      BY <1>2 DEF SettlesOne
    <2>2. /\ status[r] = "in_progress"
          /\ status'[r] = (IF intent[r] THEN "cancelled" ELSE wanted)
          /\ intent'[r] = (intent[r] \/ wanted = "cancelled")
      BY <2>1 DEF Settled, Adopted, IntentAfter, TypeOK
    <2>3. \A q \in Run : q # r => status'[q] = status[q] /\ intent'[q] = intent[q]
      BY <2>1 DEF Settled, TypeOK
    <2>4. CancelHolds'
      BY <1>2, <1>a, <2>2, <2>3, NoReturn DEF CancelHolds
    <2>5. CancelBinds'
      BY <1>2, <1>a, <2>2, <2>3 DEF CancelBinds
    <2>6. IntentMatchesOutcome'
      BY <1>a, <2>2, <2>3 DEF IntentMatchesOutcome
    <2> QED
      BY <2>4, <2>5, <2>6 DEF Cancels
  <1>3. CASE StartsOne /\ UNCHANGED cancel
    <2>1. PICK r \in Run : CommitStart(r)
      BY <1>3 DEF StartsOne
    <2>2. pc[r] \in PreStart /\ pc'[r] = "owner"
      BY <2>1, StartRows DEF PreStart, Admitting
    <2>3. cancel[r] \notin {"again", "read2"} \cup Acked
      BY <1>a, <2>2 DEF CancelHolds
    <2>4. CancelHolds'
      BY <1>3, <1>a, <2>1, <2>3, StartRows, NoReturn DEF CancelHolds
    <2>5. CancelBinds'
      BY <1>3, <1>a, <2>1, <2>3, StartRows DEF CancelBinds
    <2>6. IntentMatchesOutcome'
      BY <1>a, <2>1, StartRows DEF IntentMatchesOutcome
    <2> QED
      BY <2>4, <2>5, <2>6 DEF Cancels
  <1>4. CASE CancelsOne
    <2>1. PICK r \in Run : CancelStamp(r) \/ CancelRead(r)
      BY <1>4 DEF CancelsOne
    <2>2. UNCHANGED <<pc, status>>
      BY <2>1 DEF CancelStamp, CancelRead, reqVars, rowVars
    <2>3. status[r] \in Status /\ (status[r] # "absent" => pc[r] \notin PreStart)
      BY DEF TypeOK, Rows, NoRowBeforeStart
    <2>4. CASE CancelStamp(r)
      <3>1. CASE status[r] = "in_progress" /\ ~intent[r]
        <4>1. /\ intent' = [intent EXCEPT ![r] = TRUE]
              /\ cancel' = [cancel EXCEPT ![r] = "requested"]
          BY <2>4, <3>1 DEF CancelStamp
        <4> QED
          BY <1>a, <2>2, <2>3, <3>1, <4>1
             DEF Cancels, CancelHolds, CancelBinds, IntentMatchesOutcome, TypeOK
      <3>2. CASE ~(status[r] = "in_progress" /\ ~intent[r])
        <4>1. /\ cancel' = [cancel EXCEPT
                              ![r] = IF @ = "none" THEN "read1" ELSE "read2"]
              /\ UNCHANGED intent /\ cancel[r] \in {"none", "again"}
          BY <2>4, <3>2 DEF CancelStamp
        <4> QED
          BY <1>a, <2>2, <2>3, <3>2, <4>1
             DEF Cancels, CancelHolds, CancelBinds, IntentMatchesOutcome, TypeOK
      <3> QED
        BY <3>1, <3>2
    <2>5. CASE CancelRead(r)
      <3>1. /\ cancel' = [cancel EXCEPT ![r] = CancelAnswer(r, @)]
            /\ UNCHANGED intent /\ cancel[r] \in {"read1", "read2"}
        BY <2>5 DEF CancelRead, rowVars
      <3>2. \A q \in Run : q # r => cancel'[q] = cancel[q]
        BY <3>1 DEF TypeOK
      <3>3. cancel'[r] = CancelAnswer(r, cancel[r])
        BY <3>1 DEF TypeOK
      <3>4. /\ cancel'[r] \in {"again"} \cup Acked => status[r] = "in_progress"
            /\ cancel'[r] \in Acked => intent[r]
            /\ cancel'[r] # "read2"
        BY <1>a, <2>3, <3>1, <3>3 DEF CancelAnswer, CancelHolds
      <3> QED
        BY <1>a, <2>2, <2>3, <3>1, <3>2, <3>4
           DEF Cancels, CancelHolds, CancelBinds, IntentMatchesOutcome
    <2> QED
      BY <2>1, <2>4, <2>5
  <1> QED
    BY <1>1, <1>2, <1>3, <1>4, RowKinds

-----------------------------------------------------------------------------
(* What START read before it writes. *)

\* Only the START of q itself moves q between its reads and its commit.
LEMMA ProbeFrame ==
    ASSUME TypeOK, [Next]_vars, NEW q \in Run, pc'[q] \in {"probed", "cut"}
    PROVE  \/ Probe(q) \/ Truncate(q)
           \/ pc'[q] = pc[q] /\ plan'[q] = plan[q] /\ cut'[q] = cut[q]
  <1> USE DEF TypeOK, reqVars, rowVars, sideVars, bgVars
  <1> DEFINE Same == pc'[q] = pc[q] /\ plan'[q] = plan[q] /\ cut'[q] = cut[q]
  <1>1. CASE UNCHANGED vars
    BY <1>1 DEF vars
  <1>2. ASSUME NEW r \in Run, Request(r) PROVE Probe(q) \/ Truncate(q) \/ Same
    <2>1. CASE Probe(r)
      BY <2>1 DEF Probe
    <2>2. CASE Truncate(r)
      BY <2>2 DEF Truncate
    <2>3. CASE ~Probe(r) /\ ~Truncate(r)
      BY <1>2, <2>3 DEF Request, StartStep, Submit, Admit, Refuse, ResolveRetry,
         AcquireRoot, GuardUnavailable, CommitStart, FailStart
    <2> QED
      BY <2>1, <2>2, <2>3
  <1>3. ASSUME NEW r \in Run, Settle(r) PROVE Same
    BY <1>3 DEF Settle, Finalize, Teardown, LoseGuard, FinalizeLost, Abandon,
       ReconcileDispatch
  <1>4. ASSUME NEW r \in Run, Side(r) PROVE Same
    BY <1>4 DEF Side, AskTask, StartTask, FinishTask, CancelStamp, CancelRead
  <1>5. ASSUME NEW w \in Worker, Background(w) PROVE Same
    BY <1>5 DEF Background, ScanList, ScanLock, ScanSkip, ScanFinalize,
       StartupSweep, HealSnapshot, HealApply, Crash
  <1> QED
    BY <1>1, <1>2, <1>3, <1>4, <1>5 DEF Next

\* A step that commits no START makes no row appear and no run live.
LEMMA NoNewRows ==
    ASSUME TypeOK, [Next]_vars, ~StartsOne, NEW q \in Run
    PROVE  /\ status'[q] # "absent" => status[q] # "absent"
           /\ status'[q] = "in_progress" => status[q] = "in_progress"
  <1>1. CASE RowsQuiet
    BY <1>1 DEF RowsQuiet
  <1>2. CASE SettlesOne
    BY <1>2 DEF SettlesOne, Settled, Adopted, TypeOK
  <1>3. CASE CancelsOne
    BY <1>3 DEF CancelsOne, CancelStamp, CancelRead, rowVars
  <1> QED
    BY <1>1, <1>2, <1>3, RowKinds

\* What START probed holds until it commits: no other START is under way.
LEMMA ProbeStep ==
    ASSUME TypeOK, Fences, ProbeHolds, [Next]_vars
    PROVE  ProbeHolds'
  <1> SUFFICES ASSUME NEW q \in Run, pc'[q] \in {"probed", "cut"}
               PROVE  /\ ~KeyTaken(q)' /\ (IsFork(q)' => (LiveRuns = {})')
                      /\ pc'[q] = "cut" /\ ~IsFork(q)' => cut'[q].rows = {}
    BY DEF ProbeHolds
  <1>1. CASE StartsOne
    <2>1. PICK r \in Run : CommitStart(r)
      BY <1>1 DEF StartsOne
    <2>2. pc[r] = "cut" /\ pc' = [pc EXCEPT ![r] = "owner"]
      BY <2>1 DEF CommitStart
    <2>3. q # r /\ pc[q] \in {"probed", "cut"}
      BY <2>2 DEF TypeOK
    <2> QED
      BY <2>2, <2>3, FencesSerialize DEF OneOpenStart, InStart
  <1>2. CASE ~StartsOne
    <2>1. KeyTaken(q)' => KeyTaken(q)
      BY <1>2, NoNewRows DEF KeyTaken, Present
    <2>2. (LiveRuns # {})' => LiveRuns # {}
      BY <1>2, NoNewRows DEF LiveRuns
    <2>3. CASE Probe(q)
      <3>1. /\ UNCHANGED <<plan, status>> /\ pc'[q] = "probed"
            /\ ~KeyTaken(q) /\ (IsFork(q) => ForkAllowed(q))
        BY <2>3 DEF Probe, rowVars, TypeOK
      <3> QED
        BY <2>1, <2>2, <3>1 DEF ForkAllowed, IsFork
    <2>4. CASE Truncate(q)
      <3>1. /\ plan'[q].kind = plan[q].kind /\ pc[q] = "probed"
            /\ (~IsFork(q) => cut'[q].rows = {})
        BY <2>4 DEF Truncate, TypeOK, PlanType
      <3> QED
        BY <2>1, <2>2, <3>1 DEF ProbeHolds, IsFork
    <2>5. CASE pc'[q] = pc[q] /\ plan'[q] = plan[q] /\ cut'[q] = cut[q]
      BY <2>1, <2>2, <2>5 DEF ProbeHolds, IsFork
    <2> QED
      BY <2>3, <2>4, <2>5, ProbeFrame
  <1> QED
    BY <1>1, <1>2

-----------------------------------------------------------------------------
(* The theorems. *)

\* IInv holds initially and every step keeps it.
LEMMA IInvInit == Init => IInv
  <1> SUFFICES ASSUME Init PROVE IInv
    OBVIOUS
  <1>1. TypeOK
    BY InitType
  <1>2. NoRowBeforeStart /\ OneLiveRun
    BY DEF Init, NoRowBeforeStart, OneLiveRun, LiveRuns
  <1>3. FenceHeld /\ AdmissionHeld
    BY DEF Init, FenceHeld, AdmissionHeld, Holding, Admitting
  <1>4. BootQuiet
    BY WorkerAssumption DEF Init, BootQuiet
  <1>5. ProbeHolds
    BY DEF Init, ProbeHolds
  <1>6. CancelHolds /\ CancelBinds /\ IntentMatchesOutcome
    BY DEF Init, CancelHolds, CancelBinds, IntentMatchesOutcome
  <1> QED
    BY <1>1, <1>2, <1>3, <1>4, <1>5, <1>6 DEF IInv

\* Every step keeps the invariant.
LEMMA IInvStep == IInv /\ [Next]_vars => IInv'
  <1> SUFFICES ASSUME IInv, [Next]_vars PROVE IInv'
    OBVIOUS
  <1>1. TypeOK /\ Fences /\ Rows /\ Cancels /\ ProbeHolds
    BY DEF IInv, Fences, Rows, Cancels
  <1>2. TypeOK'
    BY <1>1, TypeStep
  <1>3. Fences' /\ Rows' /\ Cancels' /\ ProbeHolds'
    BY <1>1, FencesStep, RowsStep, CancelsStep, ProbeStep
  <1> QED
    BY <1>2, <1>3 DEF IInv, Fences, Rows, Cancels

\* The inductive invariant: who is in admission and who holds the fence, what a
\* START under way has probed, and what rows and cancels owe each other.
THEOREM IInvHolds == Spec => []IInv
  BY IInvInit, IInvStep, PTL DEF Spec

\* Never two live runs on a thread.
THEOREM SlotTheorem == Spec => []OneLiveRun
  BY IInvHolds, PTL DEF IInv

\* START transactions of one thread never overlap.
THEOREM StartTheorem == Spec => []OneOpenStart
  <1>1. IInv => OneOpenStart
    BY FencesSerialize DEF IInv, Fences
  <1> QED
    BY <1>1, IInvHolds, PTL

\* An acknowledged cancel is never lost, and the cancel timestamp tells the
\* outcome.
THEOREM CancelTheorem == Spec => [](CancelBinds /\ IntentMatchesOutcome)
  <1>1. IInv => CancelBinds /\ IntentMatchesOutcome
    BY DEF IInv
  <1> QED
    BY <1>1, IInvHolds, PTL

\* A settled run keeps its outcome.
THEOREM OutcomeTheorem == Spec => TerminalImmutable
  <1>1. IInv /\ [Next]_vars =>
          [\A r \in Run : status[r] \in Terminal =>
                             status'[r] \in {status[r], "absent"}]_vars
    <2> SUFFICES ASSUME IInv, [Next]_vars, NEW r \in Run, status[r] \in Terminal
                 PROVE  status'[r] \in {status[r], "absent"}
      OBVIOUS
    <2>1. TypeOK /\ Rows /\ ProbeHolds
      BY DEF IInv, Rows
    <2>2. CASE RowsQuiet
      BY <2>2 DEF RowsQuiet
    <2>3. CASE SettlesOne
      BY <2>1, <2>3 DEF SettlesOne, Settled, TypeOK
    <2>4. CASE StartsOne
      BY <2>1, <2>4, StartRows DEF StartsOne
    <2>5. CASE CancelsOne
      BY <2>5 DEF CancelsOne, CancelStamp, CancelRead, rowVars
    <2> QED
      BY <2>1, <2>2, <2>3, <2>4, <2>5, RowKinds
  <1> QED
    BY <1>1, IInvHolds, PTL DEF Spec, TerminalImmutable

\* A fork never deletes a live run.
LEMMA LiveStays ==
    ASSUME IInv, [Next]_vars, NEW r \in Run, status[r] = "in_progress"
    PROVE  status'[r] # "absent"
  <1>1. TypeOK /\ Rows /\ ProbeHolds
    BY DEF IInv, Rows
  <1>2. CASE RowsQuiet
    BY <1>2 DEF RowsQuiet
  <1>3. CASE SettlesOne
    BY <1>1, <1>3 DEF SettlesOne, Settled, Adopted, TypeOK
  <1>4. CASE StartsOne
    BY <1>1, <1>4, StartAlone DEF StartsOne, LiveRuns
  <1>5. CASE CancelsOne
    BY <1>5 DEF CancelsOne, CancelStamp, CancelRead, rowVars
  <1> QED
    BY <1>1, <1>2, <1>3, <1>4, <1>5, RowKinds

\* The truncation of a fork never deletes a live run (start_run).
THEOREM ForkTheorem == Spec => NoLiveRunErased
  <1>1. IInv /\ [Next]_vars =>
          [\A r \in Run : status[r] = "in_progress" => status'[r] # "absent"]_vars
    BY LiveStays
  <1> QED
    BY <1>1, IInvHolds, PTL DEF Spec, NoLiveRunErased

\* A retransmit never erases the run its key already produced.
THEOREM RetransmitTheorem == Spec => RetransmitErasesNothing
  <1> DEFINE Keeps ==
        \A q, r \in Run :
          /\ q # r /\ KeyOf[q] = KeyOf[r] /\ q \in Present
          /\ status[r] = "absent" /\ status'[r] # "absent"
          => status'[q] # "absent"
  <1>1. IInv /\ [Next]_vars => [Keeps]_vars
    <2> SUFFICES ASSUME IInv, [Next]_vars, NEW q \in Run, NEW r \in Run,
                        q \in Present, KeyOf[q] = KeyOf[r],
                        status[r] = "absent", status'[r] # "absent"
                 PROVE  FALSE
      OBVIOUS
    <2>1. TypeOK /\ Rows /\ ProbeHolds
      BY DEF IInv, Rows
    <2>2. StartsOne
      BY <2>1, NoNewRows
    <2>3. PICK s \in Run : CommitStart(s)
      BY <2>2 DEF StartsOne
    <2>4. r = s
      BY <2>1, <2>3, StartRows
    <2>5. pc[r] = "cut" /\ ~KeyTaken(r)
      BY <2>1, <2>3, <2>4 DEF CommitStart, ProbeHolds
    <2> QED
      BY <2>5 DEF KeyTaken
  <1> QED
    BY <1>1, IInvHolds, PTL DEF Spec, RetransmitErasesNothing

\* While the owner of a run holds on to it, only the owner settles it.
LEMMA OwnerSettles ==
    ASSUME IInv, [Next]_vars, NEW r \in Run, pc[r] = "owner",
           status[r] = "in_progress", status'[r] \in Terminal
    PROVE  pc'[r] = "closing"
  <1> USE DEF reqVars, rowVars, sideVars, bgVars
  <1>1. TypeOK /\ Fences /\ WorkerOf[r] \in Worker
    BY WorkerAssumption DEF IInv, Fences
  <1>2. CASE UNCHANGED vars
    BY <1>2 DEF vars
  <1>3. ASSUME NEW q \in Run, Request(q) PROVE FALSE
    BY <1>1, <1>3 DEF Request, StartStep, Submit, Admit, Refuse, ResolveRetry,
       AcquireRoot, GuardUnavailable, Probe, Truncate, CommitStart, FailStart,
       TypeOK
  <1>4. ASSUME NEW q \in Run, Settle(q) PROVE pc'[r] = "closing"
    <2>1. CASE Finalize(q)
      BY <1>1, <2>1 DEF Finalize, FinalizeCAS, TypeOK
    <2>2. CASE FinalizeLost(q) \/ ReconcileDispatch(q)
      BY <1>1, <2>2 DEF FinalizeLost, ReconcileDispatch, FinalizeCAS, TypeOK
    <2>3. CASE Teardown(q) \/ LoseGuard(q) \/ Abandon(q)
      BY <1>1, <2>3 DEF Teardown, LoseGuard, Abandon
    <2> QED
      BY <1>4, <2>1, <2>2, <2>3 DEF Settle
  <1>5. ASSUME NEW q \in Run, Side(q) PROVE FALSE
    BY <1>5 DEF Side, AskTask, StartTask, FinishTask, CancelStamp, CancelRead
  <1>6. ASSUME NEW w \in Worker, Background(w) PROVE FALSE
    <2>1. CASE ScanFinalize(w)
      <3>1. Guarded /\ root = w
        BY <1>1, <2>1 DEF ScanFinalize, Fences, BootQuiet
      <3> QED
        BY <1>1, <3>1, DisjointAssumption DEF Fences, FenceHeld, Holding
    <2>2. CASE StartupSweep(w)
      <3>1. ~Guarded /\ boot[w] = "sweep"
        BY <2>2 DEF StartupSweep
      <3>2. WorkerOf[r] = w
        BY <1>1, <3>1, FenceAssumption, WorkerAssumption, FS_Singleton
      <3> QED
        BY <1>1, <3>1, <3>2 DEF Fences, BootQuiet
    <2>3. CASE ~ScanFinalize(w) /\ ~StartupSweep(w)
      BY <1>6, <2>3 DEF Background, ScanList, ScanLock, ScanSkip, HealSnapshot,
         HealApply, Crash
    <2> QED
      BY <2>1, <2>2, <2>3
  <1> QED
    BY <1>2, <1>3, <1>4, <1>5, <1>6 DEF Next

\* A run whose owner is alive and has its session is settled by that owner
\* alone (_classify, reconcile_orphaned_dispatch).
THEOREM OwnerTheorem == Spec => RecoveryRespectsOwner
  <1> DEFINE Respects ==
        \A r \in Run :
          pc[r] = "owner" /\ status[r] = "in_progress" /\ status'[r] \in Terminal
          => pc'[r] = "closing"
  <1>1. IInv /\ [Next]_vars => [Respects]_vars
    BY OwnerSettles
  <1> QED
    BY <1>1, IInvHolds, PTL DEF Spec, RecoveryRespectsOwner

-----------------------------------------------------------------------------
(* The ledger implements its contract. *)

\* Every step of the ledger is a step of the contract, or changes nothing a
\* client can see.
LEMMA ContractStep ==
    ASSUME IInv, [Next]_vars
    PROVE  [Contract!Next]_(Contract!contractVars)
  <1> DEFINE phase == [r \in Run |-> PhaseOf(r)]
             stop == [r \in Run |-> status[r] # "absent" /\ intent[r]]
             promised == {r \in Run : cancel[r] \in Acked}
  <1>a. TypeOK /\ Fences /\ Rows /\ Cancels /\ ProbeHolds
    BY DEF IInv, Fences, Rows, Cancels
  <1>b. CancelHolds /\ CancelHolds'
    BY IInvStep DEF IInv
  <1>c. \A r \in Run : status[r] # "absent" => pc[r] \notin PreStart
    BY <1>a DEF Rows, NoRowBeforeStart
  <1>1. CASE RowsQuiet /\ UNCHANGED cancel
    <2> DEFINE some == {r \in Run : phase[r] = "unborn" /\ phase'[r] = "gone"}
    <2>1. phase' = [r \in Run |-> IF r \in some THEN "gone" ELSE phase[r]]
      BY <1>1, NoReturn, <1>a DEF PhaseOf, RowsQuiet, TypeOK
    <2>2. UNCHANGED <<stop, promised>>
      BY <1>1 DEF RowsQuiet
    <2>3. some \in SUBSET {r \in Run : phase[r] = "unborn"}
      OBVIOUS
    <2> HIDE DEF phase, stop, promised, some
    <2>4. Contract!Withdraw
      BY <2>1, <2>2, <2>3 DEF Contract!Withdraw, phase, stop, promised
    <2> QED
      BY <2>4 DEF Contract!Next
  <1>2. CASE SettlesOne /\ UNCHANGED cancel
    <2>1. PICK r \in Run, wanted \in Terminal : Settled(r, wanted)
      BY <1>2 DEF SettlesOne
    <2>2. /\ status[r] = "in_progress"
          /\ status'[r] = Adopted(r, wanted) /\ Adopted(r, wanted) \in Terminal
          /\ intent[r] => Adopted(r, wanted) = "cancelled"
          /\ intent'[r] = (Adopted(r, wanted) = "cancelled")
          /\ \A q \in Run : q # r => /\ status'[q] = status[q]
                                     /\ intent'[q] = intent[q] /\ pc'[q] = pc[q]
      BY <2>1, <1>a DEF Settled, Adopted, IntentAfter, OnlyMoves, TypeOK
    <2>3. phase[r] = "live" /\ phase' = [phase EXCEPT ![r] = Adopted(r, wanted)]
      BY <2>2 DEF PhaseOf
    <2>4. /\ stop[r] => Adopted(r, wanted) = "cancelled"
          /\ stop' = [stop EXCEPT ![r] = (Adopted(r, wanted) = "cancelled")]
      BY <2>2
    <2>5. UNCHANGED promised
      BY <1>2
    <2> HIDE DEF phase, stop, promised
    <2>6. Contract!Settle(r)
      BY <2>2, <2>3, <2>4, <2>5 DEF Contract!Settle, phase, stop, promised
    <2> QED
      BY <2>6 DEF Contract!Next
  <1>3. CASE StartsOne /\ UNCHANGED cancel
    <2>1. PICK r \in Run : CommitStart(r)
      BY <1>3 DEF StartsOne
    <2> DEFINE erased == {q \in Run : status[q] \in Terminal /\ status'[q] = "absent"}
    <2>2. /\ pc[r] = "cut" /\ status[r] = "absent" /\ status'[r] = "in_progress"
          /\ \A q \in Run : q # r =>
                /\ pc'[q] = pc[q]
                /\ \/ status'[q] = status[q] /\ intent'[q] = intent[q]
                   \/ status'[q] = "absent" /\ status[q] # "in_progress"
      BY <2>1, <1>a, StartRows DEF CommitStart, TypeOK
    <2>3. LiveRuns = {}
      BY <2>1, <1>a, StartAlone
    <2>4. ~intent'[r] /\ ~intent[r]
      BY <2>1, <2>2, <1>a, <1>b, StartRows DEF CancelHolds
    <2>5. phase[r] = "unborn" /\ \A q \in Run : phase[q] # "live"
      BY <2>2, <2>3, <1>a DEF PhaseOf, PreStart, Admitting, LiveRuns, TypeOK
    <2>6. phase' = [q \in Run |-> IF q = r THEN "live"
                                  ELSE IF q \in erased THEN "gone" ELSE phase[q]]
      BY <2>2, <1>a, <1>c DEF PhaseOf, TypeOK
    <2>7. stop' = [q \in Run |-> stop[q] /\ q \notin erased]
      BY <2>2, <2>4, <1>a DEF TypeOK
    <2>8. erased \in SUBSET {q \in Run : phase[q] \in Terminal}
      BY DEF PhaseOf
    <2>9. UNCHANGED promised
      BY <1>3
    <2> HIDE DEF phase, stop, promised, erased
    <2>10. Contract!Start(r)
      BY <2>5, <2>6, <2>7, <2>8, <2>9 DEF Contract!Start, phase, stop, promised
    <2> QED
      BY <2>10 DEF Contract!Next
  <1>4. CASE CancelsOne
    <2>1. PICK r \in Run : CancelStamp(r) \/ CancelRead(r)
      BY <1>4 DEF CancelsOne
    <2>2. UNCHANGED <<pc, status>>
      BY <2>1 DEF CancelStamp, CancelRead, reqVars, rowVars
    <2>3. UNCHANGED phase
      BY <2>2 DEF PhaseOf
    <2>4. /\ \A q \in Run : q # r => intent'[q] = intent[q] /\ cancel'[q] = cancel[q]
          /\ intent[r] => intent'[r]
          /\ cancel[r] \notin Acked
      BY <2>1, <1>a DEF CancelStamp, CancelRead, rowVars, TypeOK
    <2>5. CASE cancel'[r] \in Acked
      <3>1. status[r] = "in_progress" /\ intent'[r]
        <4>1. CASE CancelStamp(r)
          BY <2>5, <4>1, <1>a DEF CancelStamp, TypeOK
        <4>2. CASE CancelRead(r)
          BY <2>5, <4>2, <1>a, <1>b DEF CancelRead, CancelAnswer, CancelHolds,
             rowVars, TypeOK
        <4> QED
          BY <2>1, <4>1, <4>2
      <3>2. phase[r] = "live"
        BY <3>1 DEF PhaseOf
      <3>3. stop' = [stop EXCEPT ![r] = TRUE]
        BY <2>2, <2>4, <3>1
      <3>4. promised' = promised \cup {r}
        BY <2>4, <2>5
      <3> HIDE DEF phase, stop, promised
      <3>5. Contract!Promise(r)
        BY <2>3, <3>2, <3>3, <3>4 DEF Contract!Promise, phase, stop, promised
      <3> QED
        BY <3>5 DEF Contract!Next
    <2>6. CASE cancel'[r] \notin Acked
      <3>1. UNCHANGED intent
        BY <2>1, <2>6, <1>a DEF CancelStamp, CancelRead, rowVars, TypeOK
      <3>2. UNCHANGED <<stop, promised>>
        BY <2>2, <2>4, <2>6, <3>1
      <3> HIDE DEF phase, stop, promised
      <3> QED
        BY <2>3, <3>2 DEF Contract!contractVars, phase, stop, promised
    <2> QED
      BY <2>5, <2>6
  <1> QED
    BY <1>1, <1>2, <1>3, <1>4, <1>a, RowKinds

\* The ledger keeps its contract, for any number of runs, workers and keys.
THEOREM ContractTheorem == Spec => KeepsContract
  <1>1. Init => Contract!Init
    <2> SUFFICES ASSUME Init PROVE Contract!Init
      OBVIOUS
    <2>1. \A r \in Run : PhaseOf(r) = "unborn"
      BY DEF Init, PhaseOf, PreStart
    <2>2. \A r \in Run : ~(status[r] # "absent" /\ intent[r]) /\ cancel[r] \notin Acked
      BY DEF Init
    <2>3. [r \in Run |-> PhaseOf(r)] = [r \in Run |-> "unborn"]
      BY <2>1
    <2>4. /\ [r \in Run |-> status[r] # "absent" /\ intent[r]] = [r \in Run |-> FALSE]
          /\ {r \in Run : cancel[r] \in Acked} = {}
      BY <2>2
    <2> QED
      BY <2>3, <2>4 DEF Contract!Init
  <1>2. IInv /\ [Next]_vars => [Contract!Next]_(Contract!contractVars)
    BY ContractStep
  <1> QED
    BY <1>1, <1>2, IInvHolds, PTL DEF Spec, KeepsContract, Contract!Spec
=============================================================================
