----------------------------- MODULE HookOutbox -----------------------------
(* The hook outbox: durable jobs that finalize transactions leave behind,   *)
(* and the lease protocol of the drainers that execute them.                *)
(*                                                                          *)
(* A claim hands out a lease and a fence token <<job, attempts>>.  Executors *)
(* hold tokens, not rows: a lease may lapse under a paused executor, and an  *)
(* executor may outlive its claim, so every later statement is checked       *)
(* against the row.  A statement is one step; the two phases of a claim and  *)
(* the two ends of a teardown guard are steps of their own.                  *)
(****************************************************************************)
EXTENDS Integers, FiniteSets

CONSTANTS
    Job,          \* jobs that finalize transactions enqueue
    ReportBack,   \* the report_back jobs among them
    TaskBack,     \* the task_report_back jobs, which may be deferred
    WatchClear,   \* the watch_clear jobs
    Clear,        \* ids of the compensations of dead report_backs
    ClearOf,      \* [ReportBack -> Clear]
    Key,          \* ordering keys
    KeyOf,        \* [Job -> Key \cup {None}]: the key a job is enqueued under
    ChainOf,      \* [ReportBack \cup WatchClear -> Key]: the chain it belongs to
    Drainer,
    Batch,        \* claim_outbox_jobs(limit)
    MaxAttempts,  \* leases before a job is parked dead
    Ceiling,      \* leases a dead cleanup may be revived up to
    Id,           \* [Row -> Nat], the order of hook_outbox_id
    None

Row == Job \cup Clear
Cleanup == WatchClear \cup Clear
\* Jobs whose executor tears shared state down under fenced_job_guard.
Fenced == ReportBack \cup Cleanup
Token == 1 .. Ceiling

ASSUME JobAssumption ==
    /\ IsFiniteSet(Job) /\ Job \cap Clear = {} /\ Row \cap Drainer = {}
    /\ ReportBack \subseteq Job /\ TaskBack \subseteq Job /\ WatchClear \subseteq Job
    /\ ReportBack \cap WatchClear = {} /\ TaskBack \cap (ReportBack \cup WatchClear) = {}
ASSUME IdAssumption ==
    Id \in [Row -> Nat] /\ \A q, r \in Row : Id[q] = Id[r] => q = r
ASSUME ClearAssumption ==
    /\ ClearOf \in [ReportBack -> Clear]
    /\ \A q, r \in ReportBack : ClearOf[q] = ClearOf[r] => q = r
    /\ \A c \in Clear : \E r \in ReportBack : ClearOf[r] = c
ASSUME KeyAssumption ==
    /\ None \notin Key \cup Row \cup Drainer
    /\ KeyOf \in [Job -> Key \cup {None}]
    /\ \A j \in ReportBack \cup WatchClear : KeyOf[j] # None
    /\ ChainOf \in [ReportBack \cup WatchClear -> Key]
ASSUME LimitAssumption ==
    /\ Batch \in Nat \ {0} /\ MaxAttempts \in Nat \ {0}
    /\ Ceiling \in Nat /\ Ceiling >= MaxAttempts

VARIABLES
    st,        \* hook_outbox.status; "backoff" and "deferred" are pending rows
               \* whose next_retry_at is in the future or at infinity
    live,      \* lease_expires_at > clock_timestamp()
    attempts,  \* leases handed out
    key,       \* ordering_key
    pos,       \* created_at, the position in the chain
    now,       \* the clock created_at is read from
    lock,      \* holder of each per-key advisory lock: a drainer or a guarded row
    cand,      \* keys each drainer's phase 1 still has to try; None when idle
    exec,      \* executors by token: "none", "run", "guard", "fail",
               \* "did" or "out"
    effected   \* jobs whose effect some executor carried out

rowVars == <<st, live, attempts, key, pos, now>>
vars == <<rowVars, lock, cand, exec, effected>>

Waiting == {"pending", "backoff", "deferred"}
Closed == {"done", "dead"}

-----------------------------------------------------------------------------
(* Reads. *)

Leased(r) == st[r] = "claimed" /\ live[r]
Lapsed(r) == st[r] = "claimed" /\ ~live[r]

\* (created_at, hook_outbox_id) < (created_at, hook_outbox_id)
Older(p, r) == pos[p] < pos[r] \/ (pos[p] = pos[r] /\ Id[p] < Id[r])

\* What a claim may lease: a due row, or a lapsed one below the ceiling.
Due(r) == st[r] = "pending" \/ (Lapsed(r) /\ attempts[r] < MaxAttempts)

\* The gate: any live lease of the key blocks, and so does any older open row.
HeadOnly(p, r) ==  \* Mutant: a younger lease does not block.
    /\ p # r /\ key[p] = key[r] /\ Older(p, r)
    /\ st[p] \in Waiting \cup {"claimed"}
Blocks(p, r) ==
    /\ p # r /\ key[p] = key[r]
    /\ Leased(p) \/ (Older(p, r) /\ (st[p] \in Waiting \/ Lapsed(p)))

Claimable(r) == Due(r) /\ (key[r] = None \/ \A p \in Row : ~Blocks(p, r))

\* An executor owns its job while its token is current and its lease is live.
OwnsLapsed(r, a) == st[r] = "claimed" /\ attempts[r] = a  \* Mutant.
Owns(r, a) == Leased(r) /\ attempts[r] = a

\* The token still matches: all that ack, nack, defer and requeue ask.
Current(r, a) == st[r] = "claimed" /\ attempts[r] = a

\* Guards are the only locks a row holds.
InGuard(r) == \E a \in Token : exec[r][a] = "guard"

-----------------------------------------------------------------------------
Init ==
    /\ st = [r \in Row |-> "absent"]
    /\ live = [r \in Row |-> FALSE]
    /\ attempts = [r \in Row |-> 0]
    /\ key = [r \in Row |-> IF r \in Job THEN KeyOf[r] ELSE None]
    /\ pos = [r \in Row |-> 0]
    /\ now = 0
    /\ lock = [k \in Key |-> None]
    /\ cand = [d \in Drainer |-> {None}]
    /\ exec = [r \in Row |-> [a \in Token |-> "none"]]
    /\ effected = {}

-----------------------------------------------------------------------------
(* Enqueue: created_at is the start of the finalize transaction, the row is  *)
(* visible when it commits, so an older row may appear after a younger one.  *)

BeginFinalize(j) ==
    /\ st[j] = "absent" /\ j \in Job
    /\ st' = [st EXCEPT ![j] = "txn"]
    /\ now' = now + 1
    /\ pos' = [pos EXCEPT ![j] = now + 1]
    /\ UNCHANGED <<live, attempts, key, lock, cand, exec, effected>>

CommitFinalize(j) ==
    /\ st[j] = "txn"
    /\ \E s \in {"pending"} \cup (IF j \in TaskBack THEN {"deferred"} ELSE {}) :
         st' = [st EXCEPT ![j] = s]
    /\ UNCHANGED <<live, attempts, key, pos, now, lock, cand, exec, effected>>

\* release_deferred_jobs: a completed run of the thread flips them all due.
Release ==
    /\ \E j \in TaskBack : st[j] = "deferred"
    /\ st' = [r \in Row |-> IF st[r] = "deferred" THEN "pending" ELSE st[r]]
    /\ UNCHANGED <<live, attempts, key, pos, now, lock, cand, exec, effected>>

-----------------------------------------------------------------------------
(* Time. *)

BackoffEnds(r) ==
    /\ st[r] = "backoff"
    /\ st' = [st EXCEPT ![r] = "pending"]
    /\ UNCHANGED <<live, attempts, key, pos, now, lock, cand, exec, effected>>

LeaseLapses(r) ==
    /\ Leased(r)
    /\ live' = [live EXCEPT ![r] = FALSE]
    /\ UNCHANGED <<st, attempts, key, pos, now, lock, cand, exec, effected>>

-----------------------------------------------------------------------------
(* claim_outbox_jobs. *)

Held(d) == {k \in Key : lock[k] = d}

\* Phase 1, the discovery scan: keys with a claimable head, in its snapshot.
Discover(d) ==
    /\ cand[d] = {None}
    /\ cand' = [cand EXCEPT ![d] = {key[r] : r \in {r \in Row : Claimable(r)}} \ {None}]
    /\ UNCHANGED <<rowVars, lock, exec, effected>>

\* Phase 1, one try-lock; a held key is skipped.
TryKey(d, k) ==
    /\ k \in cand[d] /\ k # None /\ Cardinality(Held(d)) < Batch
    /\ cand' = [cand EXCEPT ![d] = @ \ {k}]
    /\ lock' = IF lock[k] = None THEN [lock EXCEPT ![k] = d] ELSE lock
    /\ UNCHANGED <<rowVars, exec, effected>>

\* Phase 2 and its commit: the gate again, on a fresh snapshot.
Offered(d) ==
    {r \in Row : Claimable(r) /\ (key[r] = None \/ key[r] \in Held(d)) /\ ~InGuard(r)}

Claim(d) ==
    /\ cand[d] = {} \/ (cand[d] # {None} /\ Cardinality(Held(d)) >= Batch)
    /\ \E some \in SUBSET Offered(d) :
         /\ Cardinality(some) <= Batch
         /\ Cardinality(some) = Batch \/ some = Offered(d)
         /\ \A r \in some, q \in Offered(d) \ some : Older(r, q)
         /\ st' = [r \in Row |-> IF r \in some THEN "claimed" ELSE st[r]]
         /\ live' = [r \in Row |-> r \in some \/ live[r]]
         /\ attempts' = [r \in Row |-> IF r \in some THEN attempts[r] + 1
                                                       ELSE attempts[r]]
         /\ exec' = [r \in Row |-> IF r \in some
                       THEN [exec[r] EXCEPT ![attempts[r] + 1] = "run"] ELSE exec[r]]
    /\ lock' = [k \in Key |-> IF lock[k] = d THEN None ELSE lock[k]]
    /\ cand' = [cand EXCEPT ![d] = {None}]
    /\ UNCHANGED <<key, pos, now, effected>>

\* A drainer dies in its claim: the transaction rolls back.
ClaimFails(d) ==
    /\ cand[d] # {None}
    /\ lock' = [k \in Key |-> IF lock[k] = d THEN None ELSE lock[k]]
    /\ cand' = [cand EXCEPT ![d] = {None}]
    /\ UNCHANGED <<rowVars, exec, effected>>

-----------------------------------------------------------------------------
(* Transitions out of a claim: the lease is gone.  A dead report_back leaves *)
(* its watch_clear in the same statement, at its own place in the chain.     *)

CompensationLast(r, s) ==  \* Mutant: the compensation queues at the tail.
    LET c == ClearOf[r] IN
    /\ live' = [live EXCEPT ![r] = FALSE]
    /\ IF s = "dead" /\ r \in ReportBack /\ st[c] = "absent"
       THEN /\ st' = [st EXCEPT ![r] = s, ![c] = "pending"]
            /\ key' = [key EXCEPT ![c] = key[r]]
            /\ pos' = [pos EXCEPT ![c] = now + 1] /\ now' = now + 1
       ELSE st' = [st EXCEPT ![r] = s] /\ UNCHANGED <<key, pos, now>>
Leaves(r, s) ==
    LET c == ClearOf[r] IN
    /\ live' = [live EXCEPT ![r] = FALSE]
    /\ IF s = "dead" /\ r \in ReportBack /\ st[c] = "absent"
       THEN /\ st' = [st EXCEPT ![r] = s, ![c] = "pending"]
            /\ key' = [key EXCEPT ![c] = key[r]]
            /\ pos' = [pos EXCEPT ![c] = pos[r]]
            /\ UNCHANGED now
       ELSE st' = [st EXCEPT ![r] = s] /\ UNCHANGED <<key, pos, now>>

\* park_exhausted_jobs, one row of it; it waits for a guard's row lock.
ParkLate(r) ==  \* Mutant: off by one, a job at its last lease is not parked.
    /\ Lapsed(r) /\ attempts[r] > MaxAttempts /\ ~InGuard(r)
    /\ Leaves(r, "dead")
    /\ UNCHANGED <<attempts, lock, cand, exec, effected>>
Park(r) ==
    /\ Lapsed(r) /\ attempts[r] >= MaxAttempts /\ ~InGuard(r)
    /\ Leaves(r, "dead")
    /\ UNCHANGED <<attempts, lock, cand, exec, effected>>

\* revive_dead_cleanup_jobs: one more lease, and the token counter goes on.
ReviveResets(r) ==  \* Mutant: a revived job starts counting again.
    /\ r \in Cleanup /\ st[r] = "dead" /\ attempts[r] < Ceiling
    /\ st' = [st EXCEPT ![r] = "pending"]
    /\ attempts' = [attempts EXCEPT ![r] = 0]
    /\ UNCHANGED <<live, key, pos, now, lock, cand, exec, effected>>
Revive(r) ==
    /\ r \in Cleanup /\ st[r] = "dead" /\ attempts[r] < Ceiling
    /\ st' = [st EXCEPT ![r] = "pending"]
    /\ UNCHANGED <<live, attempts, key, pos, now, lock, cand, exec, effected>>

-----------------------------------------------------------------------------
(* Executors: HookOutboxDrainer._execute and the executors it calls. *)

\* The flash thread whose chain a fenced job belongs to.
Chain(r) == IF r \in Clear THEN ChainOf[CHOOSE j \in ReportBack : ClearOf[j] = r]
                           ELSE ChainOf[r]

Becomes(r, a, phase) == exec' = [exec EXCEPT ![r][a] = phase]

\* A wake, a feed event, a posted turn, or the finding that nothing is owed.
\* extend_job_lease, called meanwhile by an owner, keeps a live lease live.
Effect(r, a) ==
    /\ exec[r][a] = "run"
    /\ Becomes(r, a, "did")
    /\ effected' = effected \cup {r}
    /\ UNCHANGED <<rowVars, lock, cand>>

\* extend_job_lease or fenced_job_guard answers "not owned": the executor
\* returns without touching anything.
StandDown(r, a) ==
    /\ exec[r][a] = "run" /\ r \in Fenced \cup TaskBack /\ ~Owns(r, a)
    /\ key[r] # None => lock[key[r]] = None
    /\ Becomes(r, a, "out")
    /\ UNCHANGED <<rowVars, lock, cand, effected>>

\* fenced_job_guard, entered as owner: key lock and row lock are held.
EnterGuard(r, a) ==
    /\ exec[r][a] = "run" /\ r \in Fenced /\ key[r] = Chain(r)
    /\ Owns(r, a) /\ lock[key[r]] = None
    /\ lock' = [lock EXCEPT ![key[r]] = r]
    /\ Becomes(r, a, "guard")
    /\ UNCHANGED <<rowVars, cand, effected>>

\* The end of the guard: the lease is renewed, the locks drop at commit.  A
\* report_back may go on from here to wait for its run, and guard again.
ExitGuard(r, a) ==
    /\ exec[r][a] = "guard"
    /\ live' = [live EXCEPT ![r] = TRUE]
    /\ lock' = [lock EXCEPT ![key[r]] = None]
    /\ \/ Becomes(r, a, "did") /\ effected' = effected \cup {r}
       \/ r \in ReportBack /\ Becomes(r, a, "run") /\ UNCHANGED effected
    /\ UNCHANGED <<st, attempts, key, pos, now, cand>>

\* The teardown raises or its session dies: rolled back, no renewal.
BreakGuard(r, a) ==
    /\ exec[r][a] = "guard"
    /\ lock' = [lock EXCEPT ![key[r]] = None]
    /\ Becomes(r, a, "fail")
    /\ UNCHANGED <<rowVars, cand, effected>>

\* The executor returned: ack_outbox_job, fenced by the token alone.
Ack(r, a) ==
    /\ exec[r][a] \in {"did", "out"}
    /\ IF Current(r, a) THEN Leaves(r, "done") ELSE UNCHANGED rowVars
    /\ Becomes(r, a, "none")
    /\ UNCHANGED <<attempts, lock, cand, effected>>

\* The executor raised: nack_outbox_job.
Nack(r, a) ==
    /\ exec[r][a] \in {"run", "fail"}
    /\ IF Current(r, a)
       THEN Leaves(r, IF attempts[r] >= MaxAttempts THEN "dead" ELSE "backoff")
       ELSE UNCHANGED rowVars
    /\ Becomes(r, a, "none")
    /\ UNCHANGED <<attempts, lock, cand, effected>>

\* defer_claimed_job: the thread waits for the user again.
Defer(r, a) ==
    /\ exec[r][a] = "run" /\ r \in TaskBack
    /\ IF Current(r, a)
       THEN Leaves(r, IF attempts[r] >= MaxAttempts THEN "dead" ELSE "deferred")
       ELSE UNCHANGED rowVars
    /\ Becomes(r, a, "out")
    /\ UNCHANGED <<attempts, lock, cand, effected>>

\* requeue_job_with_key: a job claimed under a stale key joins the tail of its
\* own chain, or dies there with its compensation.
Requeue(r, a) ==
    LET c == ClearOf[r]
        dies == attempts[r] >= MaxAttempts
        owes == dies /\ r \in ReportBack /\ st[c] = "absent"
    IN  /\ exec[r][a] = "run" /\ r \in Fenced /\ key[r] # Chain(r)
        /\ IF Current(r, a)
           THEN /\ live' = [live EXCEPT ![r] = FALSE]
                /\ st' = [q \in Row |-> IF q = r THEN IF dies THEN "dead" ELSE "pending"
                                        ELSE IF owes /\ q = c THEN "pending" ELSE st[q]]
                /\ key' = [q \in Row |-> IF q = r \/ (owes /\ q = c) THEN Chain(r)
                                                                   ELSE key[q]]
                /\ pos' = [q \in Row |-> IF q = r \/ (owes /\ q = c) THEN now + 1
                                                                   ELSE pos[q]]
                /\ now' = now + 1
           ELSE UNCHANGED rowVars
        /\ Becomes(r, a, "out")
        /\ UNCHANGED <<attempts, lock, cand, effected>>

\* The process of an executor dies, or is stopped; a guard it holds rolls back.
Die(r, a) ==
    /\ exec[r][a] # "none"
    /\ lock' = IF exec[r][a] = "guard" THEN [lock EXCEPT ![key[r]] = None] ELSE lock
    /\ Becomes(r, a, "none")
    /\ UNCHANGED <<rowVars, cand, effected>>

-----------------------------------------------------------------------------
Works(r, a) ==
    \/ Effect(r, a) \/ StandDown(r, a)
    \/ EnterGuard(r, a) \/ ExitGuard(r, a) \/ BreakGuard(r, a)
    \/ Ack(r, a) \/ Nack(r, a) \/ Defer(r, a) \/ Requeue(r, a)

Drains(d) ==
    \/ Discover(d) \/ (\E k \in Key : TryKey(d, k)) \/ Claim(d) \/ ClaimFails(d)

Sweeps(r) ==
    \/ BackoffEnds(r) \/ LeaseLapses(r) \/ Park(r) \/ Revive(r)

Next ==
    \/ \E j \in Job : BeginFinalize(j) \/ CommitFinalize(j)
    \/ Release
    \/ \E r \in Row : Sweeps(r)
    \/ \E d \in Drainer : Drains(d)
    \/ \E r \in Row, a \in Token : Works(r, a) \/ Die(r, a)

Spec == Init /\ [][Next]_vars

\* A live lease whose executor is gone.
Orphaned(r) == Leased(r) /\ exec[r][attempts[r]] = "none"

\* Every drainer polls, due time comes, the sweeps run, an executor ends one
\* way or another, and the lease of a dead one lapses.
Fairness ==
    /\ \A d \in Drainer : /\ WF_vars(Discover(d)) /\ SF_vars(Claim(d))
                          /\ SF_vars(\E k \in Key : TryKey(d, k))
    /\ \A r \in Row : /\ WF_vars(BackoffEnds(r)) /\ WF_vars(Park(r))
                      /\ WF_vars(Orphaned(r) /\ LeaseLapses(r))
    /\ \A r \in Row : /\ WF_vars(\E a \in Token : ExitGuard(r, a) \/ Ack(r, a))
                      /\ SF_vars(\E a \in Token : Effect(r, a) \/ Nack(r, a) \/ StandDown(r, a))

FairSpec == Spec /\ Fairness

-----------------------------------------------------------------------------
(* Properties. *)

TypeOK ==
    /\ st \in [Row -> Waiting \cup Closed \cup {"absent", "txn", "claimed"}]
    /\ live \in [Row -> BOOLEAN]
    /\ attempts \in [Row -> 0 .. Ceiling]
    /\ key \in [Row -> Key \cup {None}]
    /\ pos \in [Row -> Nat] /\ now \in Nat
    /\ lock \in [Key -> Row \cup Drainer \cup {None}]
    /\ cand \in [Drainer -> SUBSET (Key \cup {None})]
    /\ exec \in [Row -> [Token -> {"none", "run", "guard", "fail", "did", "out"}]]
    /\ effected \subseteq Row

\* Two jobs of one chain never have live leases at once, though a claim sees
\* neither uncommitted claims nor rows that commit late (claim_outbox_jobs).
OneLeasePerKey ==
    \A q, r \in Row : q # r /\ Leased(q) /\ Leased(r) /\ key[q] # None
                         => key[q] # key[r]

\* A teardown runs alone on its chain, even if its lease lapses meanwhile: no
\* other job of the chain is leased or torn down (fenced_job_guard).
GuardAlone ==
    \A r \in Row : InGuard(r) =>
        /\ st[r] = "claimed" /\ exec[r][attempts[r]] = "guard"
        /\ \A q \in Row : q # r /\ key[q] = key[r] => ~Leased(q) /\ ~InGuard(q)

Budget(r) == IF r \in Cleanup THEN Ceiling ELSE MaxAttempts

\* A job costs at most MaxAttempts leases, a cleanup at most its ceiling,
\* whatever crashes (park_exhausted_jobs, revive_dead_cleanup_jobs).
LeaseBudget ==
    \A r \in Row : attempts[r] <= Budget(r)

\* A claim never mints a token that some executor still holds, so a stale
\* executor can never pass for the owner (revive_dead_cleanup_jobs).
FreshTokens ==
    [][\A r \in Row : attempts'[r] # attempts[r] =>
          attempts'[r] > attempts[r] /\ exec[r][attempts'[r]] = "none"]_vars

\* A job behind a dead report_back is leased only after the cleanup the dead
\* one owes, as long as that cleanup is on their chain.
CleanupFirst ==
    [][\A r \in ReportBack, s \in Row :
          LET c == ClearOf[r] IN
          /\ st[r] = "dead" /\ s # c /\ key[s] = key[r] /\ pos[r] < pos[s]
          /\ attempts'[s] # attempts[s]
          => st[c] \in Closed \/ (st[c] # "absent" /\ key[c] # key[r])]_vars

\* A report_back requeued onto its own chain never starts while a job of that
\* chain holds a claim, not even a lapsed one, mid-effect (requeue_job_with_key).
\* A cleanup may, once it has died and been revived: it keeps its old place.
RequeueJoinsTail ==
    [][\A s \in ReportBack, q \in Row :
          s # q /\ key[s] # KeyOf[s] /\ key[q] = key[s] /\ st[q] = "claimed"
          => attempts'[s] = attempts[s]]_vars

\* A job done had its effect carried out: an executor that stands down leaves
\* it to the owner that reclaims it, and its own ack does nothing
\* (report_back/flash/executor.py, "The drainer's fenced ack no-ops").
EffectBeforeAck == \A r \in Row : st[r] = "done" => r \in effected

\* Every job that is due or leased is closed in the end, whatever lapses or
\* dies on the way, unless it waits behind a deferred job of its chain.
JobsSettle ==
    \A r \in Row : st[r] \in {"pending", "backoff", "claimed"} ~>
        st[r] \in Closed \/ \E p \in Row : st[p] = "deferred" /\ (p = r \/ key[p] = key[r])

-----------------------------------------------------------------------------
(* The inductive invariant behind the safety properties. *)

\* A row that may be leased again has a lease left.
LeaseLeft ==
    \A r \in Row : /\ st[r] \in {"absent", "txn"} => attempts[r] = 0
                   /\ st[r] \in Waiting => attempts[r] < Budget(r)

\* No executor holds a token that no claim has minted.
TokensSpent == \A r \in Row, a \in Token : exec[r][a] # "none" => a <= attempts[r]

\* A guard holds its key's lock and its row's current claim, and no sibling
\* holds a live lease: the lapsed owner may renew at its end.
GuardHolds ==
    \A r \in Row, a \in Token : exec[r][a] = "guard" =>
        /\ st[r] = "claimed" /\ attempts[r] = a
        /\ key[r] # None /\ lock[key[r]] = r
        /\ \A q \in Row : q # r /\ key[q] = key[r] => ~Leased(q)

IInv ==
    /\ TypeOK /\ LeaseBudget /\ LeaseLeft /\ TokensSpent
    /\ OneLeasePerKey /\ GuardHolds

\* A report_back leaves its compensation as it dies and not before, at its own
\* place of its chain; a requeue may move it to the chain they belong to.
CleanupOwed ==
    \A r \in ReportBack :
      LET c == ClearOf[r] IN
      /\ key[r] # None /\ st[c] # "txn"
      /\ st[r] # "dead" => st[c] = "absent"
      /\ st[r] = "dead" =>
           /\ st[c] # "absent"
           /\ \/ key[c] = key[r] /\ pos[c] = pos[r]
              \/ key[c] = ChainOf[r] /\ key[c] # key[r]

\* A requeue takes its place when it comes, behind whatever its chain has
\* started; nothing younger starts there before the report_back has closed.
TailHeld ==
    /\ \A r \in Row : pos[r] <= now
    /\ \A s \in ReportBack : st[s] \in {"absent", "txn"} => key[s] = KeyOf[s]
    /\ \A s \in ReportBack, q \in Row :
         /\ s # q /\ key[s] # KeyOf[s] /\ key[q] = key[s]
         /\ st[s] \notin Closed /\ st[q] = "claimed"
         => Older(q, s)
=============================================================================
