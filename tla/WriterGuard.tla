----------------------------- MODULE WriterGuard -----------------------------
(* The writer fence of ONE thread: each run pins a database session, whose   *)
(* advisory locks N(thread, ns) say which checkpoint namespaces the run and  *)
(* its background subagents may write, and whose T(thread) keeps thread      *)
(* mutations out.                                                            *)
(*                                                                           *)
(* A guard's own fields (permits, seal, lost) and the locks the server holds *)
(* for its session change at different times; the fence is right when no     *)
(* checkpoint write ever lands outside the lock that covers it.  An SQL call *)
(* under the guard's mutex is one step, except the finalize, which holds the *)
(* mutex across a decision and the statement it is taken for.                *)
(*****************************************************************************)
EXTENDS Integers, FiniteSets

CONSTANTS
    Guard,      \* the guards of the thread's runs, one per run
    Mutator,    \* standalone thread mutations (compact, offload, delete)
    Task,       \* background subagents
    Driver,     \* the workflows among them, which launch tasks themselves
    Stray,      \* tasks whose launch nobody awaits
    Root,       \* the run's own checkpoint namespace
    Conn,       \* the connections of the writer pool
    MaxFault,   \* bound on lost sessions, lost pings, lost unlocks
    None, Closed

Ns == Task \cup {Root}

ASSUME NamesAssumption ==
    /\ Root \notin Task /\ {None, Closed} \cap (Guard \cup Mutator \cup Conn) = {}
    /\ Guard \cap Mutator = {} /\ None # Closed
    /\ Driver \subseteq Task /\ Stray \subseteq Task
ASSUME BoundAssumption == MaxFault \in Nat

VARIABLES
    \* the fields of each guard object
    pc,         \* where the run and its teardown are
    conn,       \* self.conn (Closed: the object is closed)
    saver,      \* what the saver writes through: "own" (self.conn) or "pool"
    lost, sealed,
    permits,    \* _task_ns
    inflight,   \* namespaces with an authorized write that has not landed
    cas,        \* the finalize under the mutex, and the connection it chose
    acq,        \* acquire_task_ns calls waiting for the mutex
    undo,       \* release_task_ns calls past the drop of their permit
    live,       \* subagents running on this guard
    outcome,    \* what the finalize recorded
    \* the pool and the server
    out,        \* who has checked the connection out
    alive,      \* its session exists on the server
    held,       \* how often the session has taken each N(thread, ns)
    shared, exclusive,  \* the session holds T(thread)
    mpc, mconn, \* mutations
    faults

guardVars == <<pc, conn, saver, lost, sealed>>
taskVars == <<permits, acq, undo, live>>
lockVars == <<held, shared, exclusive>>
dbVars == <<out, alive, lockVars>>
mutVars == <<mpc, mconn>>
vars == <<guardVars, taskVars, inflight, cas, outcome, dbVars, mutVars, faults>>

-----------------------------------------------------------------------------
NoLocks == [n \in Ns |-> 0]

Released(g) == pc[g] \in {"draining", "unlock", "close", "put", "gone"}

\* conn.closed is learnt from a failed call, so a dead session may still look
\* usable; every call on it then fails.
Usable(g) == ~lost[g] /\ ~Released(g) /\ conn[g] \in Conn
Alive(g) == conn[g] \in Conn /\ alive[conn[g]]

\* Guards whose run has not begun to execute: nobody writes through them.
Unborn == {"idle", "refused", "locking", "start", "abort"}

\* Another session holds N(n).
Contended(c, n) == \E d \in Conn \ {c} : held[d][n] > 0

Asked(g) == {t \in Task : acq[g][t]}
Awaited(g) == Asked(g) \ Stray
DriverLive(g) == Driver \cap permits[g] \cap live[g] # {}

\* Does a write through g's saver reach the database, and does the session it
\* goes through hold the locks that cover it?
Reaches(g) == saver[g] = "pool" \/ Alive(g)
Holds(g, n) == conn[g] \in Conn /\ out[conn[g]] = g /\ held[conn[g]][n] > 0
Fenced(g, n) == saver[g] = "own" /\ Holds(g, n) /\ shared[conn[g]]

Init ==
    /\ pc = [g \in Guard |-> "idle"]
    /\ conn = [g \in Guard |-> None]
    /\ saver = [g \in Guard |-> "own"]
    /\ lost = [g \in Guard |-> FALSE]
    /\ sealed = [g \in Guard |-> FALSE]
    /\ permits = [g \in Guard |-> {}]
    /\ inflight = [g \in Guard |-> {}]
    /\ cas = [g \in Guard |-> "no"]
    /\ acq = [g \in Guard |-> [t \in Task |-> FALSE]]
    /\ undo = [g \in Guard |-> [t \in Task |-> "none"]]
    /\ live = [g \in Guard |-> {}]
    /\ outcome = [g \in Guard |-> "none"]
    /\ out = [c \in Conn |-> None]
    /\ alive = [c \in Conn |-> TRUE]
    /\ held = [c \in Conn |-> NoLocks]
    /\ shared = [c \in Conn |-> FALSE]
    /\ exclusive = [c \in Conn |-> FALSE]
    /\ mpc = [m \in Mutator |-> "idle"]
    /\ mconn = [m \in Mutator |-> None]
    /\ faults = 0

Goes(g, where) == pc' = [pc EXCEPT ![g] = where]

-----------------------------------------------------------------------------
(* acquire_root and START. *)

Checkout(g) ==
    /\ pc[g] = "idle"
    /\ \E c \in Conn : /\ out[c] = None
                       /\ out' = [out EXCEPT ![c] = g]
                       /\ conn' = [conn EXCEPT ![g] = c]
    /\ Goes(g, "locking")
    /\ UNCHANGED <<saver, lost, sealed, taskVars, inflight, cas, outcome, alive,
                   lockVars, mutVars, faults>>

\* The pinned-session budget is exhausted.
CheckoutRefused(g) ==
    /\ pc[g] = "idle"
    /\ \A c \in Conn : out[c] # None
    /\ Goes(g, "refused")
    /\ UNCHANGED <<conn, saver, lost, sealed, taskVars, inflight, cas, outcome,
                   dbVars, mutVars, faults>>

TakeShared(g) ==
    /\ pc[g] = "locking" /\ Alive(g) /\ ~shared[conn[g]]
    /\ \A d \in Conn : ~exclusive[d]
    /\ shared' = [shared EXCEPT ![conn[g]] = TRUE]
    /\ UNCHANGED <<guardVars, taskVars, inflight, cas, outcome, out, alive, held,
                   exclusive, mutVars, faults>>

TakeRoot(g) ==
    /\ pc[g] = "locking" /\ Alive(g) /\ shared[conn[g]]
    /\ ~Contended(conn[g], Root)
    /\ held' = [held EXCEPT ![conn[g]][Root] = @ + 1]
    /\ Goes(g, "start")
    /\ UNCHANGED <<conn, saver, lost, sealed, taskVars, inflight, cas, outcome,
                   out, alive, shared, exclusive, mutVars, faults>>

\* Contention outlasts the retry window, or the session is gone.
LockTimeout(g) ==
    /\ pc[g] = "locking"
    /\ \/ ~Alive(g)
       \/ Contended(conn[g], Root)
       \/ \E d \in Conn : exclusive[d]
    /\ Goes(g, "abort")
    /\ UNCHANGED <<conn, saver, lost, sealed, taskVars, inflight, cas, outcome,
                   dbVars, mutVars, faults>>

StartRun(g) ==
    /\ pc[g] = "start" /\ Alive(g)
    /\ Goes(g, "run")
    /\ UNCHANGED <<conn, saver, lost, sealed, taskVars, inflight, cas, outcome,
                   dbVars, mutVars, faults>>

StartFails(g) ==
    /\ pc[g] = "start"
    /\ Goes(g, "abort")
    /\ UNCHANGED <<conn, saver, lost, sealed, taskVars, inflight, cas, outcome,
                   dbVars, mutVars, faults>>

-----------------------------------------------------------------------------
(* Checkpoint writes.  A write may come from the run, from a subagent, or    *)
(* from the abandoned saver task of either, at any time.                     *)

PermittedOnceSealed(g, n) ==  \* Mutant: tasks are gated only after the seal.
    IF n = Root THEN ~sealed[g] ELSE sealed[g] => n \in permits[g]

\* check_write_ns.
Permitted(g, n) == IF n = Root THEN ~sealed[g] ELSE n \in permits[g]

\* fenced_write, under the mutex; the SQL waits for the mutex again.
Authorize(g, n) ==
    /\ pc[g] \notin Unborn /\ cas[g] = "no"
    /\ n \notin inflight[g] /\ Permitted(g, n)
    /\ inflight' = [inflight EXCEPT ![g] = @ \cup {n}]
    /\ UNCHANGED <<guardVars, taskVars, cas, outcome, dbVars, mutVars, faults>>

\* The SQL lands, or fails on a closed connection; then it is not counted.
Land(g, n) ==
    /\ n \in inflight[g] /\ cas[g] = "no"
    /\ inflight' = [inflight EXCEPT ![g] = @ \ {n}]
    /\ UNCHANGED <<guardVars, taskVars, cas, outcome, dbVars, mutVars, faults>>

-----------------------------------------------------------------------------
(* The session and its monitor. *)

SessionDies(c) ==
    /\ out[c] # None /\ alive[c] /\ faults < MaxFault
    /\ alive' = [alive EXCEPT ![c] = FALSE]
    /\ held' = [held EXCEPT ![c] = NoLocks]
    /\ shared' = [shared EXCEPT ![c] = FALSE]
    /\ exclusive' = [exclusive EXCEPT ![c] = FALSE]
    /\ faults' = faults + 1
    /\ UNCHANGED <<guardVars, taskVars, inflight, cas, outcome, out, mutVars>>

\* A ping fails because the session is gone, or times out on a slow one.
Watched(g) == pc[g] \notin {"idle", "refused", "locking"} /\ ~Released(g) /\ ~lost[g]

MonitorUnlocked(g) ==  \* Mutant: `lost` is set outside the mutex.
    /\ Watched(g)
    /\ IF Alive(g) THEN faults < MaxFault /\ faults' = faults + 1
                   ELSE UNCHANGED faults
    /\ lost' = [lost EXCEPT ![g] = TRUE]
    /\ UNCHANGED <<pc, conn, saver, sealed, taskVars, inflight, cas, outcome,
                   dbVars, mutVars>>

Monitor(g) ==
    /\ Watched(g) /\ cas[g] = "no"
    /\ IF Alive(g) THEN faults < MaxFault /\ faults' = faults + 1
                   ELSE UNCHANGED faults
    /\ lost' = [lost EXCEPT ![g] = TRUE]
    /\ UNCHANGED <<pc, conn, saver, sealed, taskVars, inflight, cas, outcome,
                   dbVars, mutVars>>

-----------------------------------------------------------------------------
(* Task namespaces: acquire_task_ns, release_task_ns. *)

\* The usable check; the call then waits for the mutex.  The run launches
\* tasks while it executes, a workflow as long as it lives.
AskTask(g, t) ==
    /\ ~acq[g][t] /\ t \notin live[g] /\ Usable(g)
    /\ \/ pc[g] = "run" /\ t \notin Stray
       \/ t \notin Driver /\ DriverLive(g)
    /\ acq' = [acq EXCEPT ![g][t] = TRUE]
    /\ UNCHANGED <<guardVars, permits, undo, live, inflight, cas, outcome, dbVars,
                   mutVars, faults>>

\* Membership, lock and record under one hold of the mutex.
TakeTask(g, t) ==
    /\ acq[g][t] /\ cas[g] = "no"
    /\ IF t \in permits[g]
       THEN live' = [live EXCEPT ![g] = @ \cup {t}] /\ UNCHANGED <<permits, held>>
       ELSE IF Alive(g) /\ ~Contended(conn[g], t)
       THEN /\ held' = [held EXCEPT ![conn[g]][t] = @ + 1]
            /\ permits' = [permits EXCEPT ![g] = @ \cup {t}]
            /\ live' = [live EXCEPT ![g] = @ \cup {t}]
       ELSE UNCHANGED <<permits, held, live>>
    /\ acq' = [acq EXCEPT ![g][t] = FALSE]
    /\ UNCHANGED <<guardVars, undo, inflight, cas, outcome, out, alive, shared,
                   exclusive, mutVars, faults>>

\* The caller is cancelled, perhaps after the server has taken the lock.
CancelTask(g, t) ==
    /\ acq[g][t]
    /\ acq' = [acq EXCEPT ![g][t] = FALSE]
    /\ \/ UNCHANGED <<held, faults>>
       \/ /\ cas[g] = "no" /\ t \notin permits[g] /\ faults < MaxFault
          /\ Alive(g) /\ ~Contended(conn[g], t)
          /\ held' = [held EXCEPT ![conn[g]][t] = @ + 1]
          /\ faults' = faults + 1
    /\ UNCHANGED <<guardVars, permits, undo, live, inflight, cas, outcome, out,
                   alive, shared, exclusive, mutVars>>

\* A subagent ends; release_task_ns drops the permit first.  A workflow ends
\* after the launches it awaits.
Settle(g, t) ==
    /\ t \in live[g] /\ undo[g][t] = "none"
    /\ t \in Driver => Awaited(g) = {}
    /\ live' = [live EXCEPT ![g] = @ \ {t}]
    /\ permits' = [permits EXCEPT ![g] = @ \ {t}]
    /\ undo' = [undo EXCEPT ![g][t] =
                  IF t \in permits[g] /\ Usable(g) THEN "drain" ELSE "none"]
    /\ UNCHANGED <<guardVars, acq, inflight, cas, outcome, dbVars, mutVars, faults>>

\* The drain of the task's writes, and the mutex.
TaskDrained(g, t) ==
    /\ undo[g][t] = "drain" /\ t \notin inflight[g]
    /\ undo' = [undo EXCEPT ![g][t] = "unlock"]
    /\ UNCHANGED <<guardVars, permits, acq, live, inflight, cas, outcome, dbVars,
                   mutVars, faults>>

\* A write that does not land keeps the lock.
TaskDrainTimeout(g, t) ==
    /\ undo[g][t] = "drain" /\ t \in inflight[g] /\ faults < MaxFault
    /\ undo' = [undo EXCEPT ![g][t] = "none"]
    /\ faults' = faults + 1
    /\ UNCHANGED <<guardVars, permits, acq, live, inflight, cas, outcome, dbVars,
                   mutVars>>

UnlockTask(g, t) ==
    /\ undo[g][t] = "unlock" /\ cas[g] = "no"
    /\ held' = IF Usable(g) /\ Alive(g) /\ held[conn[g]][t] > 0
               THEN [held EXCEPT ![conn[g]][t] = @ - 1] ELSE held
    /\ undo' = [undo EXCEPT ![g][t] = "none"]
    /\ UNCHANGED <<guardVars, permits, acq, live, inflight, cas, outcome, out,
                   alive, shared, exclusive, mutVars, faults>>

-----------------------------------------------------------------------------
(* RunCoordinator.finalize_run: the loss decision and the CAS share one hold *)
(* of the mutex; _teardown_guard follows.                                    *)

\* The run's own launches have returned or are cancelled; a workflow's may be
\* on their way.
Decide(g) ==
    /\ pc[g] = "run"
    /\ Awaited(g) # {} => DriverLive(g)
    /\ \/ Usable(g) /\ cas' = [cas EXCEPT ![g] = "conn"]
       \/ ~(Usable(g) /\ Alive(g)) /\ cas' = [cas EXCEPT ![g] = "pool"]
    /\ Goes(g, "cas")
    /\ UNCHANGED <<conn, saver, lost, sealed, taskVars, inflight, outcome, dbVars,
                   mutVars, faults>>

\* With a tail drain the root lock is demoted first; without one (fail_open_run,
\* where no workflow is at work) the session is released at once.
Commit(g) ==
    /\ pc[g] = "cas"
    /\ \/ cas[g] = "conn" /\ Alive(g) /\ outcome' = [outcome EXCEPT ![g] = "ok"]
       \/ cas[g] = "pool" /\ outcome' = [outcome EXCEPT ![g] = "error"]
    /\ Goes(g, "demote") \/ (~DriverLive(g) /\ Asked(g) = {} /\ Goes(g, "release"))
    /\ cas' = [cas EXCEPT ![g] = "no"]
    /\ UNCHANGED <<conn, saver, lost, sealed, taskVars, inflight, dbVars, mutVars,
                   faults>>

\* The finalize raises: the session is discarded.
CommitFails(g) ==
    /\ pc[g] = "cas"
    /\ Goes(g, "discard")
    /\ cas' = [cas EXCEPT ![g] = "no"]
    /\ UNCHANGED <<conn, saver, lost, sealed, taskVars, inflight, outcome, dbVars,
                   mutVars, faults>>

-----------------------------------------------------------------------------
(* demote_to_tail and the tail drain. *)

Seal(g) ==
    /\ pc[g] = "demote"
    /\ sealed' = [sealed EXCEPT ![g] = TRUE]
    /\ Goes(g, IF lost[g] THEN "tail" ELSE "sealed")
    /\ UNCHANGED <<conn, saver, lost, taskVars, inflight, cas, outcome, dbVars,
                   mutVars, faults>>

DropRootAtOnce(g) ==  \* Mutant: no drain of the root writes.
    /\ pc[g] = "sealed"
    /\ IF Alive(g) THEN held' = [held EXCEPT ![conn[g]][Root] = 0] /\ UNCHANGED lost
                   ELSE lost' = [lost EXCEPT ![g] = TRUE] /\ UNCHANGED held
    /\ Goes(g, "tail")
    /\ UNCHANGED <<conn, saver, sealed, taskVars, inflight, cas, outcome, out, alive,
                   shared, exclusive, mutVars, faults>>

DropRootAndThread(g) ==  \* Mutant: the demotion drops T(thread) as well.
    /\ pc[g] = "sealed" /\ Root \notin inflight[g]
    /\ IF Alive(g) THEN /\ held' = [held EXCEPT ![conn[g]][Root] = 0]
                        /\ shared' = [shared EXCEPT ![conn[g]] = FALSE]
                        /\ UNCHANGED lost
                   ELSE lost' = [lost EXCEPT ![g] = TRUE] /\ UNCHANGED <<held, shared>>
    /\ Goes(g, "tail")
    /\ UNCHANGED <<conn, saver, sealed, taskVars, inflight, cas, outcome, out, alive,
                   exclusive, mutVars, faults>>

\* Root writes have landed: N(root) goes.  A failed unlock fails the session.
DropRoot(g) ==
    /\ pc[g] = "sealed" /\ Root \notin inflight[g]
    /\ IF Alive(g) THEN held' = [held EXCEPT ![conn[g]][Root] = 0] /\ UNCHANGED lost
                   ELSE lost' = [lost EXCEPT ![g] = TRUE] /\ UNCHANGED held
    /\ Goes(g, "tail")
    /\ UNCHANGED <<conn, saver, sealed, taskVars, inflight, cas, outcome, out, alive,
                   shared, exclusive, mutVars, faults>>

DemoteTimeout(g) ==
    /\ pc[g] = "sealed" /\ Root \in inflight[g]
    /\ lost' = [lost EXCEPT ![g] = TRUE]
    /\ Goes(g, "tail")
    /\ UNCHANGED <<conn, saver, sealed, taskVars, inflight, cas, outcome, dbVars,
                   mutVars, faults>>

\* _drain_run_subagent_writers finds no writer with a permit.
TailDrained(g) ==
    /\ pc[g] = "tail" /\ permits[g] \cap live[g] = {}
    /\ Goes(g, "release")
    /\ UNCHANGED <<conn, saver, lost, sealed, taskVars, inflight, cas, outcome,
                   dbVars, mutVars, faults>>

\* A user's stop has cancelled the workflows and removed the thread's registry:
\* nothing to wait for.
TailSkipped(g) ==
    /\ pc[g] = "tail" /\ ~DriverLive(g) /\ Awaited(g) = {}
    /\ Goes(g, "release")
    /\ UNCHANGED <<conn, saver, lost, sealed, taskVars, inflight, cas, outcome,
                   dbVars, mutVars, faults>>

TailWaits(g) ==  \* Mutant: the drain has no deadline.
    /\ pc[g] = "tail" /\ permits[g] \cap live[g] = {}
    /\ Goes(g, "discard")
    /\ UNCHANGED <<conn, saver, lost, sealed, taskVars, inflight, cas, outcome,
                   dbVars, mutVars, faults>>

\* A registry error, or the deadline.
TailFails(g) ==
    /\ pc[g] = "tail"
    /\ Goes(g, "discard")
    /\ UNCHANGED <<conn, saver, lost, sealed, taskVars, inflight, cas, outcome,
                   dbVars, mutVars, faults>>

-----------------------------------------------------------------------------
(* release: _do_release. *)

BeginRelease(g) ==
    /\ pc[g] \in {"abort", "release", "discard"}
    /\ sealed' = [sealed EXCEPT ![g] = TRUE]
    /\ permits' = [permits EXCEPT ![g] = {}]
    /\ Goes(g, IF pc[g] = "discard" \/ lost[g] THEN "close" ELSE "draining")
    /\ UNCHANGED <<conn, saver, lost, acq, undo, live, inflight, cas, outcome,
                   dbVars, mutVars, faults>>

ReleaseDrained(g) ==
    /\ pc[g] = "draining" /\ inflight[g] = {}
    /\ Goes(g, "unlock")
    /\ UNCHANGED <<conn, saver, lost, sealed, taskVars, inflight, cas, outcome,
                   dbVars, mutVars, faults>>

ReleaseTimeout(g) ==
    /\ pc[g] = "draining" /\ inflight[g] # {}
    /\ Goes(g, "close")
    /\ UNCHANGED <<conn, saver, lost, sealed, taskVars, inflight, cas, outcome,
                   dbVars, mutVars, faults>>

\* The mutex is first come, first served: the calls that asked before go first.
UnlockAll(g) ==
    /\ pc[g] = "unlock" /\ Asked(g) = {}
    /\ IF Alive(g)
       THEN /\ held' = [held EXCEPT ![conn[g]] = NoLocks]
            /\ shared' = [shared EXCEPT ![conn[g]] = FALSE]
            /\ saver' = [saver EXCEPT ![g] = "pool"]
            /\ Goes(g, "put") /\ UNCHANGED lost
       ELSE /\ lost' = [lost EXCEPT ![g] = TRUE]
            /\ Goes(g, "close") /\ UNCHANGED <<held, shared, saver>>
    /\ UNCHANGED <<conn, sealed, taskVars, inflight, cas, outcome, out, alive,
                   exclusive, mutVars, faults>>

\* putconn; the pool resets a live session and replaces a dead one.
FreeConn(c) ==
    /\ out' = [out EXCEPT ![c] = None]
    /\ alive' = [alive EXCEPT ![c] = TRUE]
    /\ held' = [held EXCEPT ![c] = NoLocks]
    /\ shared' = [shared EXCEPT ![c] = FALSE]
    /\ exclusive' = [exclusive EXCEPT ![c] = FALSE]

PutConn(g) ==
    /\ pc[g] = "put"
    /\ FreeConn(conn[g])
    /\ Goes(g, "gone")
    /\ UNCHANGED <<conn, saver, lost, sealed, taskVars, inflight, cas, outcome,
                   mutVars, faults>>

CloseConn(g) ==
    /\ pc[g] = "close"
    /\ FreeConn(conn[g])
    /\ conn' = [conn EXCEPT ![g] = Closed]
    /\ Goes(g, "gone")
    /\ UNCHANGED <<saver, lost, sealed, taskVars, inflight, cas, outcome, mutVars,
                   faults>>

-----------------------------------------------------------------------------
(* ThreadMutationRunner.exclusive: a session of its own, with exclusive T.   *)

MutateBegin(m) ==
    /\ mpc[m] = "idle"
    /\ \E c \in Conn : /\ out[c] = None
                       /\ out' = [out EXCEPT ![c] = m]
                       /\ mconn' = [mconn EXCEPT ![m] = c]
    /\ mpc' = [mpc EXCEPT ![m] = "locking"]
    /\ UNCHANGED <<guardVars, taskVars, inflight, cas, outcome, alive, lockVars,
                   faults>>

MutateLock(m) ==
    /\ mpc[m] = "locking" /\ alive[mconn[m]]
    /\ \A d \in Conn : ~shared[d] /\ ~exclusive[d]
    /\ exclusive' = [exclusive EXCEPT ![mconn[m]] = TRUE]
    /\ mpc' = [mpc EXCEPT ![m] = "held"]
    /\ UNCHANGED <<guardVars, taskVars, inflight, cas, outcome, out, alive, held,
                   shared, mconn, faults>>

\* Done, refused after the retry window, or failed: the connection goes back.
MutateEnd(m) ==
    /\ mpc[m] \in {"locking", "held"}
    /\ FreeConn(mconn[m])
    /\ mpc' = [mpc EXCEPT ![m] = "idle"]
    /\ mconn' = [mconn EXCEPT ![m] = None]
    /\ UNCHANGED <<guardVars, taskVars, inflight, cas, outcome, faults>>

-----------------------------------------------------------------------------
Starts(g) ==
    \/ Checkout(g) \/ CheckoutRefused(g) \/ TakeShared(g) \/ TakeRoot(g)
    \/ LockTimeout(g) \/ StartRun(g) \/ StartFails(g)

Tasks(g, t) ==
    \/ AskTask(g, t) \/ TakeTask(g, t) \/ CancelTask(g, t) \/ Settle(g, t)
    \/ TaskDrained(g, t) \/ TaskDrainTimeout(g, t) \/ UnlockTask(g, t)

Tears(g) ==
    \/ Decide(g) \/ Commit(g) \/ CommitFails(g)
    \/ Seal(g) \/ DropRoot(g) \/ DemoteTimeout(g)
    \/ TailDrained(g) \/ TailSkipped(g) \/ TailFails(g)
    \/ BeginRelease(g) \/ ReleaseDrained(g) \/ ReleaseTimeout(g)
    \/ UnlockAll(g) \/ PutConn(g) \/ CloseConn(g)

Mutates(m) == MutateBegin(m) \/ MutateLock(m) \/ MutateEnd(m)

Next ==
    \/ \E g \in Guard : Starts(g) \/ Tears(g) \/ Monitor(g)
    \/ \E g \in Guard, n \in Ns : Authorize(g, n) \/ Land(g, n)
    \/ \E g \in Guard, t \in Task : Tasks(g, t)
    \/ \E c \in Conn : SessionDies(c)
    \/ \E m \in Mutator : Mutates(m)

Spec == Init /\ [][Next]_vars
\* SQL returns or fails, drains have deadlines, a caller of acquire_task_ns
\* gets the mutex or gives up; nothing makes a subagent end or a write land.
Fairness ==
    \A g \in Guard :
        /\ WF_vars(Commit(g) \/ CommitFails(g)) /\ WF_vars(Seal(g))
        /\ WF_vars(DropRoot(g) \/ DemoteTimeout(g))
        /\ WF_vars(TailDrained(g) \/ TailFails(g))
        /\ WF_vars(BeginRelease(g))
        /\ WF_vars(ReleaseDrained(g) \/ ReleaseTimeout(g))
        /\ WF_vars(UnlockAll(g)) /\ WF_vars(PutConn(g)) /\ WF_vars(CloseConn(g))
        /\ \A t \in Task : WF_vars(TakeTask(g, t) \/ CancelTask(g, t))

FairSpec == Spec /\ Fairness

-----------------------------------------------------------------------------
(* Properties. *)

PcType ==
    {"idle", "refused", "locking", "start", "abort", "run", "cas", "demote",
     "sealed", "tail", "release", "discard", "draining", "unlock", "close", "put", "gone"}

TypeOK ==
    /\ pc \in [Guard -> PcType]
    /\ conn \in [Guard -> Conn \cup {None, Closed}]
    /\ saver \in [Guard -> {"own", "pool"}]
    /\ lost \in [Guard -> BOOLEAN] /\ sealed \in [Guard -> BOOLEAN]
    /\ permits \in [Guard -> SUBSET Task] /\ live \in [Guard -> SUBSET Task]
    /\ inflight \in [Guard -> SUBSET Ns]
    /\ cas \in [Guard -> {"no", "conn", "pool"}]
    /\ acq \in [Guard -> [Task -> BOOLEAN]]
    /\ undo \in [Guard -> [Task -> {"none", "drain", "unlock"}]]
    /\ outcome \in [Guard -> {"none", "ok", "error"}]
    /\ out \in [Conn -> Guard \cup Mutator \cup {None}]
    /\ alive \in [Conn -> BOOLEAN]
    /\ held \in [Conn -> [Ns -> Nat]]
    /\ shared \in [Conn -> BOOLEAN] /\ exclusive \in [Conn -> BOOLEAN]
    /\ mpc \in [Mutator -> {"idle", "locking", "held"}]
    /\ mconn \in [Mutator -> Conn \cup {None}]
    /\ faults \in Nat

\* An authorized write lands inside the fence or not at all, however long it
\* waits: no seal, demote, release or loss hands its namespace on or lets it
\* through another connection meanwhile (fenced_write).
WritesInsideFence ==
    \A g \in Guard : Reaches(g) => \A n \in inflight[g] : Fenced(g, n)

\* A permit is never held without its lock: not when a namespace is taken again
\* during its release, and not through the late unlock of a finished guard on
\* a connection that now serves another run (acquire_task_ns, release_task_ns).
PermitsLocked ==
    \A g \in Guard : Alive(g) => \A t \in permits[g] : Holds(g, t)

\* No saver can reach a connection that serves somebody else, and the pool
\* hands out sessions that hold no locks (_do_release).
ConnectionsPrivate ==
    /\ \A g \in Guard : saver[g] = "own" /\ conn[g] \in Conn => out[conn[g]] = g
    /\ \A c \in Conn : out[c] = None => held[c] = NoLocks /\ ~shared[c] /\ ~exclusive[c]

\* While a mutation holds the thread, no write of a run or of a surviving
\* subagent can land (exclusive T against shared T).
MutationAlone ==
    \A m \in Mutator : mpc[m] = "held" /\ exclusive[mconn[m]] =>
        \A g \in Guard : Reaches(g) => inflight[g] = {}

\* Only a run that still owns its root namespace, on a session nobody has
\* declared lost, records its own outcome (finalize_run, the monitor).
OutcomeFenced ==
    [][\A g \in Guard : outcome[g] = "none" /\ outcome'[g] = "ok"
                            => ~lost[g] /\ Holds(g, Root)]_vars

\* Every run that reaches its finalize gives its connection back, even if a
\* subagent never ends or a write never lands (TAIL_DRAIN_TIMEOUT,
\* WRITE_DRAIN_TIMEOUT).
Teardown == {"cas", "demote", "sealed", "tail", "abort", "release",
             "discard", "draining", "unlock", "close", "put"}
SessionReturned == \A g \in Guard : pc[g] \in Teardown ~> pc[g] = "gone"

\* The guards implement the fence: ownership is the server's lock, and only
\* writes that can reach the database count.
OwnerOf(n) ==
    IF \E g \in Guard : Holds(g, n) THEN CHOOSE g \in Guard : Holds(g, n) ELSE None
PendingOf(g) == IF Reaches(g) THEN inflight[g] ELSE {}

Contract == INSTANCE FenceContract
    WITH Writer <- Guard, owner <- [n \in Ns |-> OwnerOf(n)],
         pending <- [g \in Guard |-> PendingOf(g)]

\* One owner per checkpoint namespace, only the owner writes, and a namespace
\* changes hands only when the owner's writes have landed or died with it.
KeepsFence == Contract!Spec
-----------------------------------------------------------------------------
(* The inductive invariant behind the safety properties. *)

\* Who is at work has a connection checked out, and only the saver of a guard
\* that has returned its connection goes through the pool.
Pinned ==
    /\ \A g \in Guard :
         /\ pc[g] \in {"idle", "refused"} => conn[g] = None
         /\ pc[g] \notin {"idle", "refused", "gone"} =>
                conn[g] \in Conn /\ out[conn[g]] = g
         /\ saver[g] = "pool" => pc[g] \in {"put", "gone"}
         /\ pc[g] = "put" => saver[g] = "pool"
         /\ pc[g] = "gone" => conn[g] = Closed \/ saver[g] = "pool"
    /\ \A m \in Mutator :
         mpc[m] # "idle" => mconn[m] \in Conn /\ out[mconn[m]] = m

\* A session in the pool holds nothing.
PoolClean ==
    \A c \in Conn : out[c] = None => held[c] = NoLocks /\ ~shared[c] /\ ~exclusive[c]

\* The server's locks exclude each other.
LocksExclude ==
    \A c, d \in Conn :
        /\ exclusive[c] => ~shared[d] /\ (exclusive[d] => c = d)
        /\ \A n \in Ns : held[c][n] > 0 /\ held[d][n] > 0 => c = d

\* Nothing happens on a guard before its run starts; the finalize decides on a
\* session that is not lost, before the seal.
Phases ==
    \A g \in Guard :
        /\ pc[g] \in Unborn =>
               /\ permits[g] = {} /\ live[g] = {} /\ inflight[g] = {} /\ Asked(g) = {}
               /\ \A t \in Task : undo[g][t] = "none"
        /\ cas[g] # "no" <=> pc[g] = "cas"
        /\ cas[g] = "conn" => ~lost[g]
        /\ pc[g] \in {"idle", "locking", "start", "run", "cas"} => ~sealed[g]
        /\ pc[g] \in {"sealed", "tail", "gone"} \/ Released(g) => sealed[g]

\* A launch under way keeps the workflow that awaits it, and so the tail, until
\* the session is discarded: none is left when the permits are cleared.
LaunchesEnd ==
    \A g \in Guard :
        /\ pc[g] \in {"cas", "demote", "sealed", "tail"} /\ Asked(g) # {} => DriverLive(g)
        /\ pc[g] \in {"release", "draining", "unlock", "put"} \/ saver[g] = "pool" =>
               Asked(g) = {} /\ ~DriverLive(g)
        /\ pc[g] \in {"draining", "unlock", "put"} \/ saver[g] = "pool" => permits[g] = {}
        /\ pc[g] \in {"unlock", "put"} \/ saver[g] = "pool" => inflight[g] = {}

\* While the session lives, every permit and every write in flight has its lock,
\* with one more for a release under way.
InSession(g) == pc[g] \notin {"idle", "refused", "gone"} /\ alive[conn[g]]
Backed(g) ==
    /\ \A t \in permits[g] : held[conn[g]][t] > 0
    /\ \A n \in inflight[g] : held[conn[g]][n] > 0
    /\ Usable(g) => \A t \in Task : undo[g][t] # "none" =>
           /\ held[conn[g]][t] > 0
           /\ t \in permits[g] => held[conn[g]][t] > 1
           /\ undo[g][t] = "unlock" /\ t \in inflight[g] => t \in permits[g]
    /\ pc[g] \notin {"locking", "abort"} /\ ~sealed[g] =>
           held[conn[g]][Root] > 0 /\ shared[conn[g]]
    /\ permits[g] # {} \/ inflight[g] # {} \/ Asked(g) # {} => shared[conn[g]]
Covered == \A g \in Guard : InSession(g) => Backed(g)

\* Inductive when every launch is awaited (Stray is empty).
IInv == TypeOK /\ Pinned /\ PoolClean /\ LocksExclude /\ Phases /\ LaunchesEnd /\ Covered
=============================================================================
