--------------------------- MODULE TaskReportBack ---------------------------
(***************************************************************************)
(* How a thread hears of the background subagents its turns launched.  A   *)
(* task run settles in one transaction with a task_report_back job; what   *)
(* the job owes is decided when an executor claims it, against the run row *)
(* and the latest turn; it is parked while that turn is live or waits for  *)
(* the user, and released by the next turn that ends dead; it is answered  *)
(* by a synthetic turn posted under a request key of its own.              *)
(* Executors are named by their fence token <<run, attempt>>, as in        *)
(* HookOutbox: a lease may lapse under one that is only slow, and then two *)
(* of them work on one job.                                                *)
(***************************************************************************)
EXTENDS Naturals, FiniteSets, Sequences

CONSTANTS
  Runs,         \* task runs; a job is named by the run it reports
  MaxAttempts,  \* leases before a job is parked dead
  MaxUserTurns, \* bound: turns the user starts
  MaxTrouble    \* bound: answers lost, leases lapsed, executors dead...

ASSUME BoundsAssumption ==
  /\ MaxAttempts \in Nat \ {0} /\ MaxUserTurns \in Nat /\ MaxTrouble \in Nat
  /\ IsFiniteSet(Runs) /\ "user" \notin Runs

VARIABLES
  turns,      \* the thread's attempts by run_seq: status ("ended" being completed
              \* or error), the run whose job posted it, cancel_requested_at, and
              \* what had settled by then
  run,        \* subagent_runs.status, "settled" being completed or error
  parent,     \* parent_run_id, as an index of turns
  delivered,  \* the runs with result_delivered_at
  born,       \* the jobs in the order they were enqueued
  job,        \* hook_outbox.status; "deferred" is pending with next_retry_at at infinity
  lease,      \* lease_expires_at is in the future
  attempts,   \* leases handed out
  ptr,        \* payload.dispatched_run_id
  exec,       \* what each executor does next
  knows,      \* the notification turn an executor knows of
  trouble,    \* how much of MaxTrouble has happened
  slipped     \* history: the jobs parked by the busy-wait cap, left parked by an
              \* executor that died before it read again, or acked by one that
              \* had lost the lease

turnVars == <<turns>>
runVars == <<run, parent, delivered>>
jobVars == <<born, job, lease, attempts, ptr>>
execVars == <<exec, knows>>
vars == <<turnVars, runVars, jobVars, execVars, trouble, slipped>>

Token == 1 .. MaxAttempts
NoTurn == 0
User == "user"
Open == {"pending", "deferred", "claimed"}
Troubled == trouble < MaxTrouble /\ trouble' = trouble + 1

-----------------------------------------------------------------------------
(* Reads. *)

Last == Len(turns)
Live == Last > 0 /\ turns[Last].status = "in_progress"
\* get_latest_attempt: a turn that may still fetch the result, or a pending
\* checkpoint that a POST would collide with.
Holds == Last > 0 /\ turns[Last].status \in {"in_progress", "interrupted"}
TurnsOf(r) == {i \in DOMAIN turns : turns[i].key = r}

Leased(r) == job[r] = "claimed" /\ lease[r]
Current(r, a) == job[r] = "claimed" /\ attempts[r] = a
Owns(r, a) == Current(r, a) /\ lease[r]
Before(q, r) == \E i, k \in DOMAIN born : i < k /\ born[i] = q /\ born[k] = r

\* _stop_already_covered, against the turn it is given.
CoveredByAny(r, i) ==  \* Mutant: any stopped turn covers what settled before it.
  i > 0 /\ turns[i].status = "cancelled" /\ r \in turns[i].saw
CoveredNever(r, i) == FALSE  \* Mutant: the stop is not looked at.
Covered(r, i) ==
  i > 0 /\ turns[i].status = "cancelled" /\ parent[r] = i /\ r \in turns[i].saw

-----------------------------------------------------------------------------
Init ==
  /\ turns = <<>>
  /\ run = [r \in Runs |-> "none"] /\ parent = [r \in Runs |-> NoTurn]
  /\ delivered = {} /\ born = <<>>
  /\ job = [r \in Runs |-> "none"] /\ lease = [r \in Runs |-> FALSE]
  /\ attempts = [r \in Runs |-> 0] /\ ptr = [r \in Runs |-> NoTurn]
  /\ exec = [r \in Runs |-> [a \in Token |-> "none"]]
  /\ knows = [r \in Runs |-> [a \in Token |-> NoTurn]]
  /\ trouble = 0 /\ slipped = {}

-----------------------------------------------------------------------------
(* The thread's turns. *)

NewTurn(key) == [status |-> "in_progress", key |-> key, stop |-> FALSE, saw |-> {}]

\* A message of the user, or the answer an interrupted turn waits for.
UserTurn ==
  /\ ~Live /\ Cardinality(TurnsOf(User)) < MaxUserTurns
  /\ turns' = Append(turns, NewTurn(User))
  /\ UNCHANGED <<runVars, jobVars, execVars, trouble, slipped>>

\* request_run_cancel: the stop is stamped before the turn unwinds.
Stop ==
  /\ Live /\ ~turns[Last].stop
  /\ turns' = [turns EXCEPT ![Last].stop = TRUE,
                            ![Last].saw = {r \in Runs : run[r] = "settled"}]
  /\ UNCHANGED <<runVars, jobVars, execVars, trouble, slipped>>

Released == [r \in Runs |-> IF job[r] = "deferred" THEN "pending" ELSE job[r]]

\* finalize_run: committed cancel intent wins, and a dead end releases the
\* thread's deferred jobs in the same transaction.
EndTurn(s) ==
  LET final == IF turns[Last].stop THEN "cancelled" ELSE s IN
  /\ Live
  /\ turns' = [turns EXCEPT ![Last].status = final, ![Last].stop = FALSE]
  /\ job' = IF final = "interrupted" THEN job ELSE Released
  /\ UNCHANGED <<runVars, born, lease, attempts, ptr, execVars, trouble, slipped>>

-----------------------------------------------------------------------------
(* Task runs. *)

Launch(r) ==
  /\ Live /\ run[r] = "none"
  /\ run' = [run EXCEPT ![r] = "in_progress"]
  /\ parent' = [parent EXCEPT ![r] = Last]
  /\ UNCHANGED <<turns, delivered, jobVars, execVars, trouble, slipped>>

\* finalize_task_run, with the job it leaves in its transaction.
Settle(r, s) ==
  /\ run[r] = "in_progress"
  /\ run' = [run EXCEPT ![r] = s]
  /\ IF s = "settled"
     THEN job' = [job EXCEPT ![r] = "pending"] /\ born' = Append(born, r)
     ELSE UNCHANGED <<job, born>>
  /\ UNCHANGED <<turns, parent, delivered, lease, attempts, ptr, execVars, trouble, slipped>>

\* TaskOutput in a live turn: the reply is the delivery, and is stamped.
Deliver(r) ==
  /\ Live /\ run[r] = "settled" /\ r \notin delivered
  /\ delivered' = delivered \cup {r}
  /\ UNCHANGED <<turns, run, parent, jobVars, execVars, trouble, slipped>>

-----------------------------------------------------------------------------
(* The drainer's statements. *)

\* claim_outbox_jobs, on the thread's own chain.
Claim(r) ==
  LET a == attempts[r] + 1 IN
  /\ job[r] = "pending" \/ (job[r] = "claimed" /\ ~lease[r])
  /\ a \in Token
  /\ \A q \in Runs \ {r} : ~Leased(q) /\ (Before(q, r) => job[q] \notin Open)
  /\ job' = [job EXCEPT ![r] = "claimed"]
  /\ lease' = [lease EXCEPT ![r] = TRUE]
  /\ attempts' = [attempts EXCEPT ![r] = a]
  /\ exec' = [exec EXCEPT ![r][a] = "look"]
  /\ knows' = [knows EXCEPT ![r][a] = ptr[r]]
  /\ slipped' = slipped \ {r}
  /\ UNCHANGED <<turnVars, runVars, born, ptr, trouble>>

\* A lease runs out: its executor is dead, or slow.
Lapse(r) ==
  /\ Leased(r)
  /\ IF exec[r][attempts[r]] = "none" THEN UNCHANGED trouble ELSE Troubled
  /\ lease' = [lease EXCEPT ![r] = FALSE]
  /\ UNCHANGED <<turnVars, runVars, born, job, attempts, ptr, execVars, slipped>>

\* park_exhausted_jobs
ParkExhausted(r) ==
  /\ job[r] = "claimed" /\ ~lease[r] /\ attempts[r] >= MaxAttempts
  /\ job' = [job EXCEPT ![r] = "dead"]
  /\ UNCHANGED <<turnVars, runVars, born, lease, attempts, ptr, execVars, trouble, slipped>>

Becomes(r, a, phase) == exec' = [exec EXCEPT ![r][a] = phase]
Leaves(r, s) == job' = [job EXCEPT ![r] = s] /\ lease' = [lease EXCEPT ![r] = FALSE]

\* The executor returned: the ack is fenced by the token.
Ack(r, a) ==
  /\ exec[r][a] \in {"out", "lost"}
  /\ IF Current(r, a) THEN Leaves(r, "done") ELSE UNCHANGED <<job, lease>>
  /\ slipped' = slipped \cup {q \in {r} : exec[r][a] = "lost" /\ Current(r, a)}
  /\ Becomes(r, a, "none") /\ knows' = [knows EXCEPT ![r][a] = NoTurn]
  /\ UNCHANGED <<turnVars, runVars, born, attempts, ptr, trouble>>

\* The process of an executor dies; its lease is left to lapse.
Die(r, a) ==
  /\ exec[r][a] # "none" /\ Troubled
  /\ slipped' = slipped \cup {q \in Runs : exec[r][a] = "reread" /\ job[q] = "deferred"}
  /\ Becomes(r, a, "none") /\ knows' = [knows EXCEPT ![r][a] = NoTurn]
  /\ UNCHANGED <<turnVars, runVars, jobVars>>

-----------------------------------------------------------------------------
(* execute_task_report_back. *)

\* A job that knows its notification turn resumes the wait; otherwise the run
\* row says whether anything is still owed.
Look(r, a) ==
  /\ exec[r][a] = "look"
  /\ Becomes(r, a, IF knows[r][a] # NoTurn THEN "wait"
                   ELSE IF r \in delivered THEN "out" ELSE "owed")
  /\ UNCHANGED <<turnVars, runVars, jobVars, knows, trouble, slipped>>

ReadLatest(r, a) ==
  /\ exec[r][a] = "owed"
  /\ Becomes(r, a, IF Holds THEN "park" ELSE IF Covered(r, Last) THEN "out" ELSE "post")
  /\ UNCHANGED <<turnVars, runVars, jobVars, knows, trouble, slipped>>

\* defer_claimed_job: fenced, and dead at the attempts ceiling.
Defers(r, a) ==
  IF Current(r, a)
  THEN Leaves(r, IF attempts[r] >= MaxAttempts THEN "dead" ELSE "deferred")
  ELSE UNCHANGED <<job, lease>>

\* _repark: what was parked has the latest turn read again.
ParkForGood(r, a) ==  \* Mutant: the latest turn is not read again.
  /\ exec[r][a] = "park"
  /\ Defers(r, a)
  /\ Becomes(r, a, "out")
  /\ UNCHANGED <<turnVars, runVars, born, attempts, ptr, knows, trouble, slipped>>
Park(r, a) ==
  /\ exec[r][a] = "park"
  /\ Defers(r, a)
  /\ Becomes(r, a, IF job'[r] = "deferred" /\ Current(r, a) THEN "reread" ELSE "out")
  /\ UNCHANGED <<turnVars, runVars, born, attempts, ptr, knows, trouble, slipped>>

\* A finalize between the read and the park saw no deferred row.
Reread(r, a) ==
  /\ exec[r][a] = "reread"
  /\ job' = IF Holds THEN job ELSE Released
  /\ Becomes(r, a, "out")
  /\ UNCHANGED <<turnVars, runVars, born, lease, attempts, ptr, knows, trouble, slipped>>

\* The POST of the synthetic turn meets the run its key already started, a
\* live turn, or a free slot, and its answer may be lost.
PostAnew(r, a) ==  \* Mutant: the request key is fresh on every POST.
  /\ exec[r][a] = "post"
  /\ IF Live
     THEN /\ Becomes(r, a, "busy") /\ UNCHANGED <<turns, knows, trouble>>
     ELSE /\ turns' = Append(turns, NewTurn(r))
          /\ \/ /\ Becomes(r, a, "merge") /\ knows' = [knows EXCEPT ![r][a] = Last + 1]
                /\ UNCHANGED trouble
             \/ Troubled /\ Becomes(r, a, "busy") /\ UNCHANGED knows
  /\ UNCHANGED <<runVars, jobVars, slipped>>
Post(r, a) ==
  /\ exec[r][a] = "post"
  /\ IF TurnsOf(r) # {}
     THEN /\ Becomes(r, a, "merge")
          /\ knows' = [knows EXCEPT ![r][a] = CHOOSE i \in TurnsOf(r) : TRUE]
          /\ UNCHANGED <<turns, trouble>>
     ELSE IF Live
     THEN /\ Becomes(r, a, "busy") /\ UNCHANGED <<turns, knows, trouble>>
     ELSE /\ turns' = Append(turns, NewTurn(r))
          /\ \/ /\ Becomes(r, a, "merge") /\ knows' = [knows EXCEPT ![r][a] = Last + 1]
                /\ UNCHANGED trouble
             \/ Troubled /\ Becomes(r, a, "busy") /\ UNCHANGED knows
  /\ UNCHANGED <<runVars, jobVars, slipped>>

\* One round of the defer loop: the heartbeat, and the POST again.
Again(r, a) ==
  /\ exec[r][a] = "busy"
  /\ Becomes(r, a, IF Owns(r, a) THEN "post" ELSE "lost")
  /\ UNCHANGED <<turnVars, runVars, jobVars, knows, trouble, slipped>>

\* The busy-wait cap: the job is parked, and nothing is read again.
Cap(r, a) ==
  /\ exec[r][a] = "busy"
  /\ Defers(r, a)
  /\ slipped' = slipped \cup {q \in {r} : Current(r, a) /\ job'[r] = "deferred"}
  /\ Becomes(r, a, "out")
  /\ UNCHANGED <<turnVars, runVars, born, attempts, ptr, knows, trouble>>

\* merge_job_payload, unfenced; the pointer is saved before the wait.
Merge(r, a) ==
  /\ exec[r][a] = "merge"
  /\ ptr' = [ptr EXCEPT ![r] = knows[r][a]]
  /\ Becomes(r, a, "wait")
  /\ UNCHANGED <<turnVars, runVars, born, job, lease, attempts, knows, trouble, slipped>>

\* It could not be saved: the executor raises and the job is nacked.
MergeFails(r, a) ==
  /\ exec[r][a] = "merge" /\ Troubled
  /\ IF Current(r, a) THEN Leaves(r, IF a >= MaxAttempts THEN "dead" ELSE "pending")
                      ELSE UNCHANGED <<job, lease>>
  /\ Becomes(r, a, "none") /\ knows' = [knows EXCEPT ![r][a] = NoTurn]
  /\ UNCHANGED <<turnVars, runVars, born, attempts, ptr, slipped>>

\* await_run_terminal: the chain stays held until the turn is over.
Await(r, a) ==
  /\ exec[r][a] = "wait"
  /\ ~Owns(r, a) \/ turns[knows[r][a]].status # "in_progress"
  /\ Becomes(r, a, "out")
  /\ UNCHANGED <<turnVars, runVars, jobVars, knows, trouble, slipped>>

\* The terminal wait cap: the job is acked all the same.
AwaitTimesOut(r, a) ==
  /\ exec[r][a] = "wait" /\ Troubled
  /\ Becomes(r, a, "out")
  /\ UNCHANGED <<turnVars, runVars, jobVars, knows, slipped>>

-----------------------------------------------------------------------------
Executes(r, a) ==
  \/ Look(r, a) \/ ReadLatest(r, a) \/ Park(r, a) \/ Reread(r, a)
  \/ Post(r, a) \/ Again(r, a) \/ Cap(r, a)
  \/ Merge(r, a) \/ MergeFails(r, a) \/ Await(r, a) \/ AwaitTimesOut(r, a)
  \/ Ack(r, a) \/ Die(r, a)

Next ==
  \/ UserTurn \/ Stop
  \/ \E s \in {"ended", "interrupted"} : EndTurn(s)
  \/ \E r \in Runs : Launch(r) \/ Deliver(r) \/ Claim(r) \/ Lapse(r) \/ ParkExhausted(r)
  \/ \E r \in Runs, s \in {"settled", "cancelled"} : Settle(r, s)
  \/ \E r \in Runs, a \in Token : Executes(r, a)

Spec == Init /\ [][Next]_vars

\* Turns end, the drainer polls and sweeps, and an executor goes on.
Fairness ==
  /\ WF_vars(\E s \in {"ended", "interrupted"} : EndTurn(s))
  /\ \A r \in Runs :
       /\ WF_vars(ParkExhausted(r)) /\ SF_vars(Claim(r))
       /\ WF_vars(Leased(r) /\ exec[r][attempts[r]] = "none" /\ Lapse(r))
       /\ \A a \in Token :
            WF_vars(\/ Look(r, a) \/ ReadLatest(r, a) \/ Park(r, a) \/ Reread(r, a)
                    \/ Post(r, a) \/ Again(r, a) \/ Merge(r, a) \/ Await(r, a) \/ Ack(r, a))

FairSpec == Spec /\ Fairness

-----------------------------------------------------------------------------
(* Properties. *)

TypeOK ==
  /\ turns \in Seq([status : {"in_progress", "ended", "interrupted", "cancelled"},
                    key : Runs \cup {User}, stop : BOOLEAN, saw : SUBSET Runs])
  /\ run \in [Runs -> {"none", "in_progress", "settled", "cancelled"}]
  /\ parent \in [Runs -> Nat] /\ delivered \subseteq Runs
  /\ born \in Seq(Runs)
  /\ job \in [Runs -> {"none", "done", "dead"} \cup Open] /\ lease \in [Runs -> BOOLEAN]
  /\ attempts \in [Runs -> 0 .. MaxAttempts] /\ ptr \in [Runs -> Nat]
  /\ exec \in [Runs -> [Token -> {"none", "look", "owed", "park", "reread", "post", "busy",
                                  "merge", "wait", "out", "lost"}]]
  /\ knows \in [Runs -> [Token -> Nat]]
  /\ trouble \in 0 .. MaxTrouble /\ slipped \subseteq Runs

\* A settled run opens at most one notification turn, however many answers
\* are lost and however many executors work on its job (request_key dedup).
OneTurnPerRun == \A r \in Runs : Cardinality(TurnsOf(r)) <= 1

\* A job that is done has an answer: the result was delivered, a turn was
\* opened for it, or the user's stop of the launching turn covered it. Only an
\* executor that acks after it lost the lease closes a job without one.
DoneMeansAnswered ==
  \A r \in Runs : job[r] = "done" =>
    \/ r \in delivered \/ TurnsOf(r) # {} \/ r \in slipped
    \/ \E i \in DOMAIN turns :
         turns[i].status = "cancelled" /\ parent[r] = i /\ r \in turns[i].saw

\* A stop is the last word on what had settled under the stopped turn: as
\* long as it is the latest turn, no notification opens on such a result.
StopOpensNothing ==
  [][\A r \in Runs : TurnsOf(r)' # TurnsOf(r) =>
       ~(Last > 0 /\ turns[Last].status = "cancelled" /\ parent[r] = Last
           /\ r \in turns[Last].saw)]_vars

Watched(r) ==
  job[r] = "deferred" => Holds \/ \E q \in Runs, a \in Token : exec[q][a] = "reread"

\* A parked job has somebody to release it: a turn that will still end, or an
\* executor about to read the latest turn again. Only the busy-wait cap, which
\* parks without that read, and a crash just before it leave one alone.
ParkedIsWatched == \A r \in Runs : Watched(r) \/ r \in slipped

\* What the comment on the release says (database/runs/lifecycle.py:488):
\* "... so a parked job can never be stranded".
NeverStranded == \A r \in Runs : Watched(r)

\* Every reportable outcome is answered in the end, unless its leases are used
\* up, the thread waits for the user, or a stranded job heads the chain.
AnsweredInTheEnd ==
  \A r \in Runs : run[r] = "settled" ~>
    \/ job[r] \in {"done", "dead"}
    \/ Last > 0 /\ turns[Last].status = "interrupted"
    \/ \E q \in slipped : q = r \/ Before(q, r)
=============================================================================
