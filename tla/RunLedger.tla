------------------------------ MODULE RunLedger ------------------------------
(***************************************************************************)
(* The durable life of the runs of ONE conversation thread: admission,     *)
(* the START transaction, the terminal compare-and-swap (CAS), cancel      *)
(* intent, crash recovery and the start-up projection heal.                *)
(*                                                                         *)
(* A member of Run is both a request and the run row it may produce: the   *)
(* run id is minted before START.  Two requests that carry one request_key *)
(* are a transmit and its retransmits.  Every database statement that      *)
(* another session can interleave with is a step of its own; what a single *)
(* statement or a commit makes visible at once is one step.                *)
(***************************************************************************)
EXTENDS Integers, FiniteSets, FiniteSetsExt

CONSTANTS
    Run,        \* run ids, one per request
    Key,        \* request keys
    KeyOf,      \* [Run -> Key]
    Worker,     \* server processes
    WorkerOf,   \* [Run -> Worker]: the process that serves the request
    Kind,       \* the request kinds the clients use
    Ptc,        \* the runs whose START-stamped msg_type is "ptc"
    Spawner,    \* the runs whose agent launches a background subagent
    Stopped,    \* the runs some user calls /cancel on
    Booting,    \* the workers that start up when the thread is created
    Guarded,    \* is the WriterGuard fence up (guard_enabled)?
    MaxTurn,    \* bound on turn indexes
    MaxCrash,   \* bound on crashes and lost sessions
    None

AllKinds == {"fresh", "retry", "edit", "regen"}
Terminal == {"completed", "interrupted", "error", "cancelled"}
Status == Terminal \cup {"absent", "in_progress"}
HookType == {"report_back", "needs_input_wake", "watch_clear"}
Turn == 0 .. MaxTurn

ASSUME RunAssumption == IsFiniteSet(Run) /\ None \notin Run \cup Worker
ASSUME DisjointAssumption == Run \cap Worker = {}
ASSUME KeyAssumption == KeyOf \in [Run -> Key]
ASSUME RoleAssumption ==
    Ptc \subseteq Run /\ Spawner \subseteq Run /\ Stopped \subseteq Run
ASSUME WorkerAssumption == WorkerOf \in [Run -> Worker] /\ IsFiniteSet(Worker)
ASSUME KindAssumption == Kind \subseteq AllKinds
ASSUME BoundAssumption == MaxTurn \in Nat /\ MaxCrash \in Nat
\* app/setup.py refuses to boot several workers without the fence.
ASSUME FenceAssumption ==
    Guarded \in BOOLEAN /\ (~Guarded => Cardinality(Worker) = 1)

VARIABLES
    pc,         \* where each request is
    plan,       \* what each request asks for, and the slot START will claim
    cut,        \* rows an open START transaction has deleted but not committed
    status,     \* conversation_responses.status ("absent": no such row)
    intent,     \* cancel_requested_at IS NOT NULL
    row,        \* turn_index, attempt_no, retry_of_run_id, run_seq
    clock,      \* the run_seq sequence
    queries,    \* turns that have a conversation_queries row
    jobs,       \* the watch jobs of hook_outbox, <<run, hook_type>>
    task,       \* the background subagent run dispatched by each run
    projection, \* conversation_threads.current_status
    root,       \* holder of the advisory lock N(thread, root)
    scan,       \* each worker's recovery scanner
    boot,       \* each worker's start-up: sweep, projection heal, serving
    cancel,     \* the /cancel call aimed at each run
    crashes     \* crashes and lost sessions so far

reqVars == <<pc, plan, cut>>
rowVars == <<status, intent, row, clock>>
sideVars == <<queries, jobs, task>>
bgVars == <<scan, boot, cancel>>
vars == <<reqVars, rowVars, sideVars, projection, root, bgVars, crashes>>

-----------------------------------------------------------------------------
(* Reads of the ledger. *)

NoRow == [turn |-> 0, attempt |-> 1, prev |-> None, seq |-> 0]
NoPlan == [kind |-> None, at |-> 0, prev |-> None, turn |-> 0, attempt |-> 1]
NoCut == [rows |-> {}, queries |-> {}]

Present == {r \in Run : status[r] # "absent"}
LiveRuns == {r \in Run : status[r] = "in_progress"}

\* get_latest_attempt: the one order of runs is run_seq.
IsLatest(r) == r \in Present /\ \A q \in Present : row[q].seq <= row[r].seq

\* find_run_by_request_key.
KeyTaken(r) == \E q \in Present : KeyOf[q] = KeyOf[r]

\* find_open_run_from_turn: live task runs dispatched at or past the cut.
OpenTasksFrom(f) == {r \in Present : row[r].turn >= f /\ task[r] = "open"}

IsFork(r) == plan[r].kind \in {"edit", "regen"}

\* truncate_thread_from_turn, as the deleting transaction sees the thread.
TruncatedRows(r) == {q \in Present : row[q].turn >= plan[r].at}
TruncatedQueries(r) ==
    {t \in queries : IF plan[r].kind = "regen" THEN t > plan[r].at
                                               ELSE t >= plan[r].at}

\* allocate_turn_index: MAX+1 over the surviving queries and responses.
NextTurn(gone, goneQueries) ==
    Max({-1} \cup (queries \ goneQueries)
             \cup {row[q].turn : q \in Present \ gone}) + 1

\* Rows some open transaction has deleted: their row locks are held.
Deleted == UNION {cut[q].rows : q \in Run}

\* The admission lock of a worker is held from admission to the end of START.
Admitting == {"admitted", "ready", "fenced", "probed", "cut"}
AdmissionUnlocked(w) == boot[w] = "serving"  \* Mutant: no admission lock.
AdmissionFree(w) ==
    /\ boot[w] = "serving"
    /\ \A q \in Run : WorkerOf[q] = w => pc[q] \notin Admitting

\* build_finalize_jobs on the CAS-adopted status.  Flash runs without a
\* dispatch origin own no watch.
FinalizeJobs(r, final) ==
    {r} \X {h \in HookType :
             \/ h = "report_back" /\ final = "completed" /\ r \in Ptc
             \/ h = "needs_input_wake" /\ final = "interrupted" /\ r \in Ptc
             \/ h = "watch_clear" /\ final \in {"error", "cancelled"}}

\* A request that leaves START without a run frees the lock it may hold.
LeakRoot(r) == UNCHANGED root  \* Mutant: the advisory lock leaks.
FreeRoot(r) == root' = IF root = r THEN None ELSE root

-----------------------------------------------------------------------------
(* The initial state: a thread just created by ensure_thread_exists, whose *)
(* current_status is born "in_progress".                                   *)

Init ==
    /\ pc = [r \in Run |-> "idle"]
    /\ plan = [r \in Run |-> NoPlan]
    /\ cut = [r \in Run |-> NoCut]
    /\ status = [r \in Run |-> "absent"]
    /\ intent = [r \in Run |-> FALSE]
    /\ row = [r \in Run |-> NoRow]
    /\ clock = 0
    /\ queries = {}
    /\ jobs = {}
    /\ task = [r \in Run |-> "none"]
    /\ projection = "in_progress"
    /\ root = None
    /\ scan = [w \in Worker |-> None]
    /\ boot = [w \in Worker |-> IF w \in Booting THEN "sweep" ELSE "serving"]
    /\ cancel = [r \in Run |-> "none"]
    /\ crashes = 0

-----------------------------------------------------------------------------
(* Admission (services/runs/admission.py). *)

\* What a client may ask for, from the thread as it shows it: a new message,
\* a retry of the latest failed run, an edit or a regenerate of some turn.
\* A retransmit repeats the request that first used its key.
Sent(r) == {q \in Run : pc[q] # "idle" /\ KeyOf[q] = KeyOf[r]}
Again(q) == [NoPlan EXCEPT !.kind = plan[q].kind, !.at = plan[q].at,
                           !.prev = plan[q].prev]
Offers ==
    {[NoPlan EXCEPT !.kind = "fresh"]}
    \cup {[NoPlan EXCEPT !.kind = "retry", !.prev = q] :
             q \in {q \in Present : IsLatest(q) /\ status[q] = "error"}}
    \cup {[NoPlan EXCEPT !.kind = "edit", !.at = row[q].turn] : q \in Present}
    \cup {[NoPlan EXCEPT !.kind = "regen", !.at = row[q].turn] : q \in Present}
Wishes(r) == IF Sent(r) # {} THEN {Again(q) : q \in Sent(r)} ELSE Offers

Submit(r) ==
    /\ pc[r] = "idle"
    /\ \E p \in Wishes(r) : p.kind \in Kind /\ plan' = [plan EXCEPT ![r] = p]
    /\ pc' = [pc EXCEPT ![r] = "sent"]
    /\ UNCHANGED <<cut, rowVars, sideVars, projection, root, bgVars, crashes>>

\* dedup_retransmit_or_raise, then wait_for_admission answering "fresh".
Admit(r) ==
    /\ pc[r] = "sent"
    /\ AdmissionFree(WorkerOf[r])
    /\ ~KeyTaken(r)
    /\ LiveRuns = {}
    /\ pc' = [pc EXCEPT ![r] = IF plan[r].kind = "retry" THEN "admitted"
                                                       ELSE "ready"]
    /\ UNCHANGED <<plan, cut, rowVars, sideVars, projection, root, bgVars,
                   crashes>>

\* A duplicate reconnects to its run; a busy thread steers or answers 409.
Refuse(r) ==
    /\ pc[r] = "sent"
    /\ AdmissionFree(WorkerOf[r])
    /\ KeyTaken(r) \/ LiveRuns # {}
    /\ pc' = [pc EXCEPT ![r] = "gone"]
    /\ UNCHANGED <<plan, cut, rowVars, sideVars, projection, root, bgVars,
                   crashes>>

\* resolve_retry_of: the predecessor must still be the latest run, failed.
Retryable(p) == IsLatest(p) /\ status[p] = "error"

ResolveRetry(r) ==
    LET p == plan[r].prev IN
    /\ pc[r] = "admitted"
    /\ IF Retryable(p)
       THEN /\ pc' = [pc EXCEPT ![r] = "ready"]
            /\ plan' = [plan EXCEPT ![r].turn = row[p].turn,
                                    ![r].attempt = row[p].attempt + 1]
       ELSE pc' = [pc EXCEPT ![r] = "gone"] /\ UNCHANGED plan
    /\ UNCHANGED <<cut, rowVars, sideVars, projection, root, bgVars, crashes>>

-----------------------------------------------------------------------------
(* START (services/runs/coordinator.py, database/runs/lifecycle.py). *)

\* WriterGuard.acquire_root; without the fence START runs on the pool.
AcquireRoot(r) ==
    /\ pc[r] = "ready"
    /\ IF Guarded THEN root = None /\ root' = r ELSE UNCHANGED root
    /\ pc' = [pc EXCEPT ![r] = "fenced"]
    /\ UNCHANGED <<plan, cut, rowVars, sideVars, projection, bgVars, crashes>>

\* WriterGuardUnavailable: somebody held the lock for the whole window.
GuardUnavailable(r) ==
    /\ pc[r] = "ready"
    /\ Guarded /\ root # None
    /\ pc' = [pc EXCEPT ![r] = "gone"]
    /\ UNCHANGED <<plan, cut, rowVars, sideVars, projection, root, bgVars,
                   crashes>>

\* The reads of the START transaction: the dedup probe, and for a fork the
\* live-run and live-task refusals.
ForkIgnoresRuns(r) == OpenTasksFrom(plan[r].at) = {}  \* Mutant.
ForkIgnoresTasks(r) == LiveRuns = {}  \* Mutant.
ForkAllowed(r) == LiveRuns = {} /\ OpenTasksFrom(plan[r].at) = {}

ProbeWithoutDedup(r) ==  \* Mutant: the unique index alone.
    /\ pc[r] = "fenced"
    /\ IsFork(r) => ForkAllowed(r)
    /\ pc' = [pc EXCEPT ![r] = "probed"]
    /\ UNCHANGED <<plan, cut, rowVars, sideVars, projection, root, bgVars,
                   crashes>>
Probe(r) ==
    /\ pc[r] = "fenced"
    /\ ~KeyTaken(r)
    /\ IsFork(r) => ForkAllowed(r)
    /\ pc' = [pc EXCEPT ![r] = "probed"]
    /\ UNCHANGED <<plan, cut, rowVars, sideVars, projection, root, bgVars,
                   crashes>>

\* A fork deletes its rows; then the turn is allocated, pinned by a checkpoint replay, or the retried one.
Truncate(r) ==
    LET gone == IF IsFork(r) THEN TruncatedRows(r) ELSE {}
        goneQueries == IF IsFork(r) THEN TruncatedQueries(r) ELSE {}
        next == CASE plan[r].kind = "retry" -> plan[r].turn
                  [] plan[r].kind = "regen" -> plan[r].at
                  [] OTHER -> NextTurn(gone, goneQueries)
    IN  /\ pc[r] = "probed"
        /\ next \in Turn
        /\ cut' = [cut EXCEPT ![r] = [rows |-> gone, queries |-> goneQueries]]
        /\ plan' = [plan EXCEPT ![r].turn = next]
        /\ pc' = [pc EXCEPT ![r] = "cut"]
        /\ UNCHANGED <<rowVars, sideVars, projection, root, bgVars, crashes>>

\* The unique indexes and the foreign key of conversation_responses, against
\* the rows that survive the transaction's own truncation.
NoSlotIndex(kept) == TRUE  \* Mutant: without uq_responses_in_progress_slot.
SlotFree(kept) == \A q \in kept : status[q] # "in_progress"
NoChainIndex(p, kept) == TRUE  \* Mutant: neither foreign key nor uq_responses_retry_of.
ChainFree(p, kept) == p \in kept /\ \A q \in kept : row[q].prev # p
Insertable(r) ==
    LET kept == Present \ cut[r].rows IN
    /\ SlotFree(kept)
    /\ \A q \in kept : KeyOf[q] # KeyOf[r]
    /\ \A q \in kept : <<row[q].turn, row[q].attempt>>
                            # <<plan[r].turn, plan[r].attempt>>
    /\ plan[r].prev # None => ChainFree(plan[r].prev, kept)
    /\ plan[r].kind \in {"fresh", "edit"} =>
          plan[r].turn \notin queries \ cut[r].queries

\* The query row, the in_progress row, the thread projection and the commit.
CommitStart(r) ==
    LET gone == cut[r].rows IN
    /\ pc[r] = "cut"
    /\ Insertable(r)
    /\ status' = [q \in Run |-> IF q = r THEN "in_progress"
                                ELSE IF q \in gone THEN "absent" ELSE status[q]]
    /\ intent' = [q \in Run |-> intent[q] /\ q \notin gone]
    /\ row' = [q \in Run |->
                 IF q = r THEN [turn |-> plan[r].turn,
                                attempt |-> plan[r].attempt,
                                prev |-> plan[r].prev, seq |-> clock + 1]
                 ELSE IF q \in gone THEN NoRow ELSE row[q]]
    /\ clock' = clock + 1
    /\ queries' = (queries \ cut[r].queries)
                    \cup (IF plan[r].kind \in {"fresh", "edit"}
                          THEN {plan[r].turn} ELSE {})
    /\ jobs' = {j \in jobs : j[1] \notin gone}
    /\ task' = [q \in Run |-> IF q \in gone /\ task[q] \in {"open", "done"}
                              THEN "none" ELSE task[q]]
    /\ projection' = "in_progress"
    /\ cut' = [cut EXCEPT ![r] = NoCut]
    /\ pc' = [pc EXCEPT ![r] = "owner"]
    /\ UNCHANGED <<plan, root, bgVars, crashes>>

\* START raises (a refused probe, a violated constraint, a deadlock, a
\* cancelled request): the transaction rolls back and the guard is released.
FailStart(r) ==
    /\ pc[r] \in {"fenced", "probed", "cut"}
    /\ pc' = [pc EXCEPT ![r] = "gone"]
    /\ cut' = [cut EXCEPT ![r] = NoCut]
    /\ FreeRoot(r)
    /\ UNCHANGED <<plan, rowVars, sideVars, projection, bgVars, crashes>>

-----------------------------------------------------------------------------
(* The terminal transition (finalize_run) and its callers. *)

\* The guarded UPDATE: which row it matches, the status it adopts, and the
\* cancel timestamp it leaves.
Matches(r) == status[r] = "in_progress"
AdoptsWanted(r, wanted) == wanted  \* Mutant: the intent does not decide.
Adopted(r, wanted) == IF intent[r] THEN "cancelled" ELSE wanted
IntentAfter(r, wanted) == intent[r] \/ wanted = "cancelled"

\* The CAS: the projection and the jobs of the adopted status commit with the
\* row.  Zero rows (already terminal, or deleted) writes nothing.
ProjectsWanted(r, wanted) ==  \* Mutant: projects what the caller asked for.
    IF Matches(r)
    THEN /\ status' = [status EXCEPT ![r] = Adopted(r, wanted)]
         /\ intent' = [intent EXCEPT ![r] = IntentAfter(r, wanted)]
         /\ jobs' = jobs \cup FinalizeJobs(r, Adopted(r, wanted))
         /\ projection' = wanted
    ELSE UNCHANGED <<status, intent, jobs, projection>>
FinalizeCAS(r, wanted) ==
    IF Matches(r)
    THEN /\ status' = [status EXCEPT ![r] = Adopted(r, wanted)]
         /\ intent' = [intent EXCEPT ![r] = IntentAfter(r, wanted)]
         /\ jobs' = jobs \cup FinalizeJobs(r, Adopted(r, wanted))
         /\ projection' = Adopted(r, wanted)
    ELSE UNCHANGED <<status, intent, jobs, projection>>

\* The owner's finalize, after its tool calls; N(root) drops later, in the detached teardown.
Finalize(r) ==
    /\ pc[r] = "owner" /\ task[r] # "asked"
    /\ \E wanted \in Terminal : FinalizeCAS(r, wanted)
    /\ pc' = [pc EXCEPT ![r] = "closing"]
    /\ UNCHANGED <<plan, cut, row, clock, queries, task, root, bgVars, crashes>>

\* _teardown_guard: demote_to_tail or release drops N(root).
Teardown(r) ==
    /\ pc[r] = "closing"
    /\ pc' = [pc EXCEPT ![r] = "gone"]
    /\ FreeRoot(r)
    /\ UNCHANGED <<plan, cut, rowVars, sideVars, projection, bgVars, crashes>>

\* The pinned session dies: Postgres drops its locks at once, the process
\* only learns of it later.
LoseGuard(r) ==
    /\ Guarded /\ pc[r] = "owner" /\ crashes < MaxCrash
    /\ pc' = [pc EXCEPT ![r] = "lost"]
    /\ root' = None
    /\ crashes' = crashes + 1
    /\ UNCHANGED <<plan, cut, rowVars, sideVars, projection, bgVars>>

\* _downgrade_if_guard_lost: a run whose session died finalizes as error, on
\* the pool, whatever it wanted.
FinalizeLost(r) ==
    /\ pc[r] = "lost" /\ task[r] # "asked"
    /\ FinalizeCAS(r, "error")
    /\ pc' = [pc EXCEPT ![r] = "gone"]
    /\ UNCHANGED <<plan, cut, row, clock, queries, task, root, bgVars, crashes>>

\* The run is announced in vain, or its finalize raises: the guard goes and
\* the row stays in_progress.
Abandon(r) ==
    /\ pc[r] \in {"owner", "lost"} /\ task[r] # "asked"
    /\ pc' = [pc EXCEPT ![r] = "gone"]
    /\ FreeRoot(r)
    /\ UNCHANGED <<plan, cut, rowVars, sideVars, projection, bgVars, crashes>>

\* reconcile_orphaned_dispatch: last-resort error for a run nobody settled.
ReconcileDispatch(r) ==
    /\ pc[r] = "gone" /\ status[r] = "in_progress"
    /\ FinalizeCAS(r, "error")
    /\ UNCHANGED <<reqVars, row, clock, queries, task, root, bgVars, crashes>>

-----------------------------------------------------------------------------
(* Background subagent runs, as far as forks meet them. *)

\* _start_ledger_row takes the task namespace on the live session first ...
AskTask(r) ==
    /\ r \in Spawner /\ pc[r] = "owner" /\ task[r] = "none"
    /\ status[r] = "in_progress"
    /\ task' = [task EXCEPT ![r] = "asked"]
    /\ UNCHANGED <<reqVars, rowVars, queries, jobs, projection, root, bgVars,
                   crashes>>

\* ... then start_task_run inserts the row on the pool.  Its foreign key waits
\* for a transaction that is deleting the parent, and fails without a parent.
StartTask(r) ==
    /\ task[r] = "asked" /\ r \notin Deleted
    /\ task' = [task EXCEPT ![r] = IF r \in Present THEN "open" ELSE "none"]
    /\ UNCHANGED <<reqVars, rowVars, queries, jobs, projection, root, bgVars,
                   crashes>>

\* finalize_task_run, by the subagent or by the scanner of task runs.
FinishTask(r) ==
    /\ task[r] = "open" /\ r \notin Deleted
    /\ task' = [task EXCEPT ![r] = "done"]
    /\ UNCHANGED <<reqVars, rowVars, queries, jobs, projection, root, bgVars,
                   crashes>>

-----------------------------------------------------------------------------
(* Cancel intent (request_run_cancel): two laps of stamp and read. *)

Acked == {"requested", "already_requested"}

CancelStamp(r) ==
    /\ r \in Stopped /\ pc[r] # "idle" /\ cancel[r] \in {"none", "again"}
    /\ IF status[r] = "in_progress" /\ ~intent[r]
       THEN /\ intent' = [intent EXCEPT ![r] = TRUE]
            /\ cancel' = [cancel EXCEPT ![r] = "requested"]
       ELSE /\ cancel' = [cancel EXCEPT
                 ![r] = IF @ = "none" THEN "read1" ELSE "read2"]
            /\ UNCHANGED intent
    /\ UNCHANGED <<reqVars, status, row, clock, sideVars, projection, root,
                   scan, boot, crashes>>

\* What a lap that stamped nothing answers from the row it then reads.
OneLapAnswer(r, lap) ==  \* Mutant: no second lap.
    CASE status[r] = "absent" -> "not_found"
      [] status[r] \in Terminal -> "already_terminal"
      [] OTHER -> "already_requested"
CancelAnswer(r, lap) ==
    CASE status[r] = "absent" -> "not_found"
      [] status[r] \in Terminal -> "already_terminal"
      [] status[r] = "in_progress" /\ intent[r] -> "already_requested"
      [] OTHER -> IF lap = "read1" THEN "again" ELSE "already_requested"

CancelRead(r) ==
    /\ cancel[r] \in {"read1", "read2"}
    /\ cancel' = [cancel EXCEPT ![r] = CancelAnswer(r, @)]
    /\ UNCHANGED <<reqVars, rowVars, sideVars, projection, root, scan, boot,
                   crashes>>

-----------------------------------------------------------------------------
(* The recovery scanner (services/runs/recovery.py) and start-up. *)

\* list_open_runs: the scanner works from this snapshot of the row.
ScanList(w) ==
    /\ Guarded /\ scan[w] = None
    /\ \E r \in LiveRuns :
         scan' = [scan EXCEPT ![w] = [run |-> r, intent |-> intent[r]]]
    /\ UNCHANGED <<reqVars, rowVars, sideVars, projection, root, boot, cancel,
                   crashes>>

\* pg_try_advisory_lock on N(root): a held lock means a live owner.
ScanNoProbe(w) ==  \* Mutant: takes the run without the lock probe.
    /\ scan[w] # None /\ root # w
    /\ root' = w
    /\ UNCHANGED <<reqVars, rowVars, sideVars, projection, bgVars, crashes>>
ScanLock(w) ==
    /\ scan[w] # None /\ root = None
    /\ root' = w
    /\ UNCHANGED <<reqVars, rowVars, sideVars, projection, bgVars, crashes>>

ScanSkip(w) ==
    /\ scan[w] # None /\ root \notin {None, w}
    /\ scan' = [scan EXCEPT ![w] = None]
    /\ UNCHANGED <<reqVars, rowVars, sideVars, projection, root, boot, cancel,
                   crashes>>

\* _classify reads the intent of the snapshot; a pending interrupt left by
\* the dead run makes it interrupted, anything else is an error.
Classify(s) == IF s.intent THEN {"cancelled"} ELSE {"interrupted", "error"}

\* _recover_run under the lock, then the unlock.
ScanFinalize(w) ==
    /\ scan[w] # None /\ root = w
    /\ \E wanted \in Classify(scan[w]) : FinalizeCAS(scan[w].run, wanted)
    /\ scan' = [scan EXCEPT ![w] = None]
    /\ root' = None
    /\ UNCHANGED <<reqVars, row, clock, queries, task, boot, cancel, crashes>>

\* scan_once(assume_dead=True) of an unfenced process: no lock is probed.
StartupSweep(w) ==
    /\ ~Guarded /\ boot[w] = "sweep"
    /\ \E r \in LiveRuns :
         \E wanted \in Classify([intent |-> intent[r]]) : FinalizeCAS(r, wanted)
    /\ UNCHANGED <<reqVars, row, clock, queries, task, root, bgVars, crashes>>

\* heal_stale_thread_projections is one UPDATE, but it reads its conditions
\* and the new status in the statement's snapshot ...
HealSnapshot(w) ==
    /\ boot[w] = "sweep" /\ (Guarded \/ LiveRuns = {})
    /\ \E target \in Status \cup {"serving"} :
         /\ \/ /\ projection # "in_progress" \/ LiveRuns # {}
               /\ target = "serving"
            \/ /\ projection = "in_progress" /\ LiveRuns = {}
               /\ target \in IF Present = {} THEN {"completed"}
                             ELSE {status[r] : r \in {q \in Run : IsLatest(q)}}
         /\ boot' = [boot EXCEPT ![w] = target]
    /\ UNCHANGED <<reqVars, rowVars, sideVars, projection, root, scan, cancel,
                   crashes>>

\* ... and, when it had to wait for the thread row, re-checks only that row.
HealApply(w) ==
    /\ boot[w] \in Terminal
    /\ projection' = IF projection = "in_progress" THEN boot[w] ELSE projection
    /\ boot' = [boot EXCEPT ![w] = "serving"]
    /\ UNCHANGED <<reqVars, rowVars, sideVars, root, scan, cancel, crashes>>

\* A process dies and restarts: its requests and its scanner are gone, its
\* sessions close, open transactions roll back, and start-up runs again.
Crash(w) ==
    LET mine == {r \in Run : WorkerOf[r] = w /\ pc[r] \notin {"idle", "sent"}}
    IN  /\ crashes < MaxCrash
        /\ crashes' = crashes + 1
        /\ pc' = [r \in Run |-> IF r \in mine THEN "gone" ELSE pc[r]]
        /\ cut' = [r \in Run |-> IF r \in mine THEN NoCut ELSE cut[r]]
        /\ task' = [r \in Run |->
             IF r \in mine /\ task[r] = "asked" THEN "none" ELSE task[r]]
        /\ root' = IF root \in mine \cup {w} THEN None ELSE root
        /\ scan' = [scan EXCEPT ![w] = None]
        /\ boot' = [boot EXCEPT ![w] = "sweep"]
        /\ UNCHANGED <<plan, rowVars, queries, jobs, projection, cancel>>

-----------------------------------------------------------------------------
(* The next-state relation. *)

StartStep(r) == Probe(r) \/ Truncate(r) \/ CommitStart(r) \/ FailStart(r)

Request(r) ==
    \/ Submit(r) \/ Admit(r) \/ Refuse(r) \/ ResolveRetry(r)
    \/ AcquireRoot(r) \/ GuardUnavailable(r) \/ StartStep(r)

Settle(r) ==
    \/ Finalize(r) \/ Teardown(r) \/ LoseGuard(r) \/ FinalizeLost(r)
    \/ Abandon(r) \/ ReconcileDispatch(r)

Side(r) ==
    \/ AskTask(r) \/ StartTask(r) \/ FinishTask(r)
    \/ CancelStamp(r) \/ CancelRead(r)

Background(w) ==
    \/ ScanList(w) \/ ScanLock(w) \/ ScanSkip(w) \/ ScanFinalize(w)
    \/ StartupSweep(w) \/ HealSnapshot(w) \/ HealApply(w) \/ Crash(w)

Next ==
    \/ \E r \in Run : Request(r) \/ Settle(r) \/ Side(r)
    \/ \E w \in Worker : Background(w)

Spec == Init /\ [][Next]_vars

\* Database calls return, a torn-down guard releases, the scanner loop keeps
\* scanning; nothing forces an owner to finish or a client to ask.
Fairness ==
    /\ \A r \in Run : WF_vars(StartStep(r)) /\ WF_vars(Teardown(r))
    /\ \A w \in Worker : /\ WF_vars(ScanList(w)) /\ WF_vars(ScanFinalize(w))
                          /\ SF_vars(ScanLock(w))

FairSpec == Spec /\ Fairness

-----------------------------------------------------------------------------
(* Properties. *)

PlanType == [kind : AllKinds \cup {None}, at : Turn, prev : Run \cup {None},
             turn : Turn, attempt : Nat]
RowType == [turn : Turn, attempt : Nat, prev : Run \cup {None}, seq : Nat]
PcType == {"idle", "sent", "gone", "owner", "closing", "lost"} \cup Admitting

\* The ledger holds only values its columns and processes can have.
TypeOK ==
    /\ pc \in [Run -> PcType]
    /\ plan \in [Run -> PlanType]
    /\ cut \in [Run -> [rows : SUBSET Run, queries : SUBSET Turn]]
    /\ status \in [Run -> Status]
    /\ intent \in [Run -> BOOLEAN]
    /\ row \in [Run -> RowType]
    /\ clock \in Nat
    /\ queries \subseteq Turn
    /\ jobs \subseteq Run \X HookType
    /\ task \in [Run -> {"none", "asked", "open", "done"}]
    /\ projection \in Terminal \cup {"in_progress"}
    /\ root \in Run \cup Worker \cup {None}
    /\ scan \in [Worker -> {None} \cup [run : Run, intent : BOOLEAN]]
    /\ boot \in [Worker -> {"sweep", "serving"} \cup Terminal]
    /\ cancel \in [Run -> {"none", "again", "read1", "read2", "not_found",
                           "already_terminal"} \cup Acked]
    /\ crashes \in Nat

\* Never two live runs on a thread, whatever two workers read before they
\* wrote (start_run, uq_responses_in_progress_slot).
OneLiveRun == \A q, r \in LiveRuns : q = r

\* Two START transactions of one thread never overlap: the fence, or without
\* it the admission lock of the only worker, serializes them.  A fork's reads
\* are safe from a second fork only because of this.
InStart == {r \in Run : pc[r] \in {"fenced", "probed", "cut"}}
OneOpenStart == \A q, r \in InStart : q = r

\* A settled run keeps its outcome: finalizers that lose the race (owner,
\* scanner, dispatch reconcile, zombie owner) change nothing.  Only a fork's
\* truncation removes it (finalize_run's guarded UPDATE).
TerminalImmutable ==
    [][\A r \in Run : status[r] \in Terminal =>
                         status'[r] \in {status[r], "absent"}]_vars

\* A cancel that was acknowledged is never a losing one: the intent is on the
\* live row, and the run can only end cancelled (request_run_cancel, I3).
CancelBinds ==
    \A r \in Run : cancel[r] \in Acked =>
        /\ status[r] = "in_progress" => intent[r]
        /\ status[r] \in Terminal => status[r] = "cancelled"

\* On a settled row the cancel timestamp and the cancelled status go together
\* (finalize_run backfills the one from the other).
IntentMatchesOutcome ==
    \A r \in Run : status[r] \in Terminal => (intent[r] <=> status[r] = "cancelled")

\* The attempt chain: a retry names a failed run of its own turn, is its next
\* attempt and its only successor (begin_run, uq_responses_retry_of), and a
\* fork never leaves it pointing at a deleted run.
ChainsWellFormed ==
    \A r \in Present : row[r].prev # None =>
        LET p == row[r].prev IN
        /\ p \in Present /\ status[p] = "error"
        /\ row[p].turn = row[r].turn /\ row[r].attempt = row[p].attempt + 1
        /\ \A q \in Present : row[q].prev = p => q = r

\* A fork never deletes a live run (start_run's live-run refusal).
NoLiveRunErased ==
    [][\A r \in Run : status[r] = "in_progress" => status'[r] # "absent"]_vars

\* A START never erases the run its own key already produced: a late
\* retransmit of a fork must not truncate what the first transmit rebuilt
\* (start_run's dedup probe before the truncation).
RetransmitErasesNothing ==
    [][\A q, r \in Run :
          /\ q # r /\ KeyOf[q] = KeyOf[r] /\ q \in Present
          /\ status[r] = "absent" /\ status'[r] # "absent"
          => status'[q] # "absent"]_vars

\* While a live owner holds the fence, nobody else settles its run: neither a
\* scanner working from a stale list nor a restarted sibling (_scan).
RecoveryRespectsOwner ==
    [][\A r \in Run :
          pc[r] = "owner" /\ status[r] = "in_progress" /\ status'[r] \in Terminal
          => pc'[r] = "closing"]_vars

\* The watchers of a dispatched run get exactly one signal, the one of the
\* outcome the CAS adopted (build_finalize_jobs_from_run_row, I5).
OneWatchSignal ==
    \A r \in Run :
        LET mine == {j \in jobs : j[1] = r} IN
        /\ status[r] \notin Terminal => mine = {}
        /\ status[r] \in Terminal /\ r \in Ptc => Cardinality(mine) = 1
        /\ <<r, "report_back">> \in mine => status[r] = "completed"
        /\ <<r, "needs_input_wake">> \in mine => status[r] = "interrupted"

\* The thread's current_status is that of its latest run (finalize_run and
\* start_run write both in one transaction).
ProjectionFollowsLatest ==
    \A r \in Present : IsLatest(r) => projection = status[r]

\* A retry chains onto the run that is the latest when it starts, not onto
\* one that was the latest when it was checked (resolve_retry_of).
RetryChainsOntoLatest ==
    [][\A r \in Run :
          status[r] = "absent" /\ status'[r] = "in_progress" /\ plan[r].prev # None
          => IsLatest(plan[r].prev)]_vars

\* Every run answers a query row of its own turn: a regenerate reuses the
\* query the fork preserved (begin_run).
QueryBehindEveryRun == \A r \in Present : row[r].turn \in queries

\* A fork never erases a live task run under its executor (start_run's
\* live-task refusal).
NoOpenTaskErased ==
    [][\A r \in Run : task[r] = "open" => task'[r] # "none"]_vars

\* The projection never says settled while a run of the thread is live
\* (heal_stale_thread_projections heals threads with no open run).
LiveRunShown == LiveRuns # {} => projection = "in_progress"

\* A run whose owner is gone is settled by some scanner.
OrphanSettles ==
    \A r \in Run : (status[r] = "in_progress" /\ pc[r] = "gone")
                      ~> status[r] # "in_progress"

-----------------------------------------------------------------------------
(* The contract this ledger implements.                                     *)

PreStart == {"idle", "sent"} \cup Admitting

PhaseOf(r) ==
    IF status[r] = "in_progress" THEN "live"
    ELSE IF status[r] # "absent" THEN status[r]
    ELSE IF pc[r] \in PreStart THEN "unborn" ELSE "gone"

Contract == INSTANCE RunContract
    WITH phase <- [r \in Run |-> PhaseOf(r)],
         stop <- [r \in Run |-> status[r] # "absent" /\ intent[r]],
         promised <- {r \in Run : cancel[r] \in Acked}

\* The ledger keeps its promises to clients: one live run, one outcome each,
\* a recorded stop decides it, and "recorded" is never said of a run that is
\* not live (the module header of lifecycle.py).
KeepsContract == Contract!Spec

-----------------------------------------------------------------------------
(* What the proofs add to the properties to make them inductive. *)

Holding == {"fenced", "probed", "cut", "owner", "closing"}

\* A request has no row before its START commits, and never returns there.
NoRowBeforeStart == \A r \in Run : pc[r] \in PreStart => status[r] = "absent"

\* Under the fence, whoever is between its acquisition and its teardown is
\* the lock's holder.
FenceHeld == Guarded => \A r \in Run : pc[r] \in Holding => root = r

\* One request per process is between admission and the end of START.
AdmissionHeld ==
    \A q, r \in Run : WorkerOf[q] = WorkerOf[r] /\ pc[q] \in Admitting
                         /\ pc[r] \in Admitting => q = r

\* A process that is starting up serves nobody, and without the fence its
\* scanner never runs.
BootQuiet ==
    /\ \A r \in Run : boot[WorkerOf[r]] # "serving"
                         => pc[r] \in {"idle", "sent", "gone"}
    /\ ~Guarded => \A w \in Worker : scan[w] = None

\* What START read is still true when it writes.
ProbeHolds ==
    \A r \in Run :
        /\ pc[r] \in {"probed", "cut"} =>
              ~KeyTaken(r) /\ (IsFork(r) => LiveRuns = {})
        /\ pc[r] = "cut" /\ ~IsFork(r) => cut[r].rows = {}

\* A cancel call between its laps knows that its run exists or existed, and
\* there is no intent without a row.
CancelHolds ==
    \A r \in Run :
        /\ cancel[r] \in {"again", "read2"} \cup Acked => pc[r] \notin PreStart
        /\ status[r] = "absent" => ~intent[r]
        /\ cancel[r] = "read2" /\ status[r] = "in_progress" => intent[r]

IInv ==
    /\ TypeOK
    /\ NoRowBeforeStart /\ OneLiveRun
    /\ FenceHeld /\ AdmissionHeld /\ BootQuiet /\ ProbeHolds
    /\ CancelHolds /\ CancelBinds /\ IntentMatchesOutcome

\* What a retry was resolved to is still true when its START commits, unless a
\* fork has deleted the run it retries, which then never comes back.
Chained == {"ready", "fenced", "probed", "cut"}
RetriesResolved ==
    \A r \in Run : plan[r].prev # None =>
        LET p == plan[r].prev IN
        /\ plan[r].kind = "retry"
        /\ pc[r] \in Chained =>
              /\ pc[p] \notin PreStart
              /\ p \in Present =>
                    /\ status[p] = "error" /\ plan[r].turn = row[p].turn
                    /\ plan[r].attempt = row[p].attempt + 1

\* A fork deletes every row at or past its cut, and with a run all its retries.
CutsWhole == \A r \in Run : pc[r] = "cut" /\ IsFork(r) => cut[r].rows = TruncatedRows(r)

ChainInv == IInv /\ ChainsWellFormed /\ RetriesResolved /\ CutsWhole

\* A run's watch jobs are those of its outcome, as long as it has a row.
SignalsExact ==
    \A r \in Run : {j \in jobs : j[1] = r} =
                       IF status[r] \in Terminal THEN FinalizeJobs(r, status[r]) ELSE {}

\* What holds besides when one process serves the thread: its admission lock
\* then covers every START, and its start-up excludes every request.
OneProcess == \A v, w \in Worker : v = w
LatestRetried ==
    \A r \in Run : pc[r] \in Chained /\ plan[r].prev # None =>
        Retryable(plan[r].prev)
SequenceOrders ==
    /\ \A r \in Present : row[r].seq <= clock
    /\ \A q, r \in Present : row[q].seq = row[r].seq => q = r
LiveIsLatest == \A r \in LiveRuns : IsLatest(r)
HealSettled == \A w \in Worker : boot[w] \in Terminal => LiveRuns = {}

SoloInv ==
    /\ ChainInv /\ LatestRetried
    /\ SequenceOrders /\ LiveIsLatest /\ HealSettled /\ ProjectionFollowsLatest

\* Without the fence no session can be lost, so a run that has asked for a task
\* is live and has its owner; and a fork that has probed deletes no live task.
AskersLive ==
    \A r \in Run : task[r] = "asked" => pc[r] = "owner" /\ status[r] = "in_progress"
ForkSparesTasks ==
    \A r \in Run : pc[r] \in {"probed", "cut"} /\ IsFork(r) =>
        OpenTasksFrom(plan[r].at) = {}

TaskInv == ChainInv /\ AskersLive /\ ForkSparesTasks
=============================================================================
