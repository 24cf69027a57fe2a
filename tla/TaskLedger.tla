----------------------------- MODULE TaskLedger -----------------------------
(***************************************************************************)
(* What a thread's background subagents spend, and who bills it.  A task   *)
(* has a chain of runs, each with a row of its own; the records of what a  *)
(* run spent stay with the task in memory until a collector of the turn    *)
(* that owns the task takes them and writes a usage row, stamping the rows *)
(* billing-settled in the same transaction.  A resume steals the task from *)
(* the collector, an orphan collector goes on for what outlives the turn's *)
(* own, a turn that failed kills its tasks unbilled, a fork cascades rows  *)
(* away, and a sweep stamps what no collector is left to bill.             *)
(***************************************************************************)
EXTENDS Naturals, FiniteSets, Sequences

CONSTANTS
  Tasks,       \* the logical tasks of one thread
  MaxTurns,    \* bound: turns of the thread
  MaxRuns,     \* bound: runs of its tasks
  MaxTrouble   \* bound: crashes, usage rows that could not be written

ASSUME BoundsAssumption ==
  /\ MaxTurns \in Nat /\ MaxRuns \in Nat /\ MaxTrouble \in Nat
  /\ IsFiniteSet(Tasks)

VARIABLES
  turns,    \* status of the thread's turns: completed and interrupted are "done",
            \* error and cancelled "dead", truncated ones "gone"
  owes,     \* what a turn's executor still does after its terminal commit
  adrift,   \* the live turn has lost its process
  runs,     \* subagent_runs in the order they started
  stamped,  \* live runs with cancel_requested_at
  latest,   \* subagent_tasks.latest_run_id
  settled,  \* runs with usage_settled_at
  aged,     \* unsettled runs that ended, and turns of theirs that did, a grace ago
  mem,      \* the registry's entry of a task: its run, the runs whose records it
            \* holds, spawned_run_id and collector_response_id
  col,      \* the collectors, a turn's own and its orphan continuation
  billed,   \* how often the records of a run got into a usage row
  lost,     \* runs whose records died with their process, their turn or their write
  trouble   \* how much of MaxTrouble has happened

turnVars == <<turns, owes, adrift>>
rowVars == <<runs, stamped, latest>>
moneyVars == <<settled, billed, lost>>
memVars == <<mem, col>>
vars == <<turnVars, rowVars, moneyVars, aged, memVars, trouble>>

Turn == 1 .. MaxTurns
Run == 1 .. MaxRuns
Nobody == 0
Kind == {"turn", "orphan"}
NoEntry == [run |-> Nobody, holds |-> {}, owner |-> Nobody, claim |-> Nobody]
Idle == [phase |-> "idle", tasks |-> {}, taken |-> {}]
Troubled == trouble < MaxTrouble /\ trouble' = trouble + 1

-----------------------------------------------------------------------------
(* Reads. *)

LiveTurn == \E n \in DOMAIN turns : turns[n] = "live"
Current == Len(turns)
Ended(n) == n \in DOMAIN turns /\ turns[n] \in {"done", "dead"}
Running(k) == k \in DOMAIN runs /\ runs[k].status = "in_progress"
Terminal(k) == k \in DOMAIN runs /\ runs[k].status \in {"ended", "cancelled"}
RunsOf(t) == {k \in DOMAIN runs : runs[k].task = t /\ runs[k].status # "gone"}
\* A task's writer lives in the process that holds its registry entry.
Writes(t) == Running(mem[t].run)
Mine(n) == {t \in Tasks : mem[t].run # Nobody /\ mem[t].owner = n}
Claimed(n, kind) == {t \in col[n][kind].tasks : mem[t].claim = n}

RECENT(S) == IF S = {} THEN Nobody ELSE CHOOSE k \in S : \A j \in S : j <= k
\* The recursive query of settle_task_run, from the row it is given: the least
\* set of rows that has it and, with a row, its predecessor's.
Rows == {k \in DOMAIN runs : runs[k].status # "gone"}
Follows(S) == \A k \in S : runs[k].pred \in Rows => runs[k].pred \in S
Chain(k) == {j \in Rows : k \in Rows /\ \A S \in SUBSET Rows : k \in S /\ Follows(S) => j \in S}

-----------------------------------------------------------------------------
Init ==
  /\ turns = <<>> /\ owes = [n \in Turn |-> "nothing"] /\ adrift = FALSE
  /\ runs = <<>> /\ stamped = {} /\ latest = [t \in Tasks |-> Nobody]
  /\ settled = {} /\ billed = [k \in Run |-> 0] /\ lost = {}
  /\ aged = [turns |-> {}, runs |-> {}]
  /\ mem = [t \in Tasks |-> NoEntry]
  /\ col = [n \in Turn |-> [kind \in Kind |-> Idle]]
  /\ trouble = 0

-----------------------------------------------------------------------------
(* Turns. *)

StartTurn ==
  /\ ~LiveTurn /\ Current < MaxTurns
  /\ turns' = Append(turns, "live")
  /\ UNCHANGED <<owes, adrift, rowVars, moneyVars, aged, memVars, trouble>>

\* A fork refuses a live task run from its cut on, truncates the turns, whose
\* task runs cascade away, repairs the tasks' pointers and opens its own turn.
ForkUnrepaired(cut) ==  \* Mutant: the pointers of the tasks are left NULL.
  LET doomed == {k \in DOMAIN runs : runs[k].status # "gone" /\ runs[k].parent >= cut} IN
  /\ ~LiveTurn /\ cut \in DOMAIN turns /\ turns[cut] # "gone" /\ Current < MaxTurns
  /\ \A k \in doomed : ~Running(k)
  /\ turns' = Append([n \in DOMAIN turns |-> IF n >= cut THEN "gone" ELSE turns[n]], "live")
  /\ runs' = [k \in DOMAIN runs |-> IF k \in doomed THEN [runs[k] EXCEPT !.status = "gone"]
                                    ELSE runs[k]]
  /\ latest' = [t \in Tasks |-> IF latest[t] \in doomed THEN Nobody ELSE latest[t]]
  /\ settled' = settled \ doomed
  /\ aged' = [turns |-> aged.turns \ (cut .. Current), runs |-> aged.runs \ doomed]
  /\ UNCHANGED <<owes, adrift, stamped, billed, lost, memVars, trouble>>
Fork(cut) ==
  LET doomed == {k \in DOMAIN runs : runs[k].status # "gone" /\ runs[k].parent >= cut} IN
  /\ ~LiveTurn /\ cut \in DOMAIN turns /\ turns[cut] # "gone" /\ Current < MaxTurns
  /\ \A k \in doomed : ~Running(k)
  /\ turns' = Append([n \in DOMAIN turns |-> IF n >= cut THEN "gone" ELSE turns[n]], "live")
  /\ runs' = [k \in DOMAIN runs |-> IF k \in doomed THEN [runs[k] EXCEPT !.status = "gone"]
                                    ELSE runs[k]]
  /\ latest' = [t \in Tasks |-> IF latest[t] \in doomed THEN RECENT(RunsOf(t) \ doomed)
                                ELSE latest[t]]
  /\ settled' = settled \ doomed
  /\ aged' = [turns |-> aged.turns \ (cut .. Current), runs |-> aged.runs \ doomed]
  /\ UNCHANGED <<owes, adrift, stamped, billed, lost, memVars, trouble>>

\* The terminal commit: a collector follows a turn that completed or was
\* interrupted, the death of its tasks one that failed or was cancelled.
EndTurn(s) ==
  /\ LiveTurn /\ ~adrift
  /\ turns' = [turns EXCEPT ![Current] = s]
  /\ owes' = [owes EXCEPT ![Current] = IF s = "done" THEN "collect" ELSE "kill"]
  /\ UNCHANGED <<adrift, rowVars, moneyVars, aged, memVars, trouble>>

\* cancel_run_tasks: intent before the writers are signalled, and the entries
\* leave once they have unwound.
Kill(n) ==
  /\ owes[n] = "kill"
  /\ stamped' = stamped \cup {mem[t].run : t \in {u \in Mine(n) : Writes(u)}}
  /\ owes' = [owes EXCEPT ![n] = "evict"]
  /\ UNCHANGED <<turns, adrift, runs, latest, moneyVars, aged, memVars, trouble>>
Evict(n) ==
  /\ owes[n] = "evict" /\ \A t \in Mine(n) : ~Writes(t)
  /\ owes' = [owes EXCEPT ![n] = "nothing"]
  /\ lost' = lost \cup UNION {mem[t].holds : t \in Mine(n)}
  /\ mem' = [t \in Tasks |-> IF t \in Mine(n) THEN NoEntry ELSE mem[t]]
  /\ UNCHANGED <<turns, adrift, rowVars, settled, billed, aged, col, trouble>>

\* The process dies with everything it holds; recovery then settles the rows.
Crash ==
  /\ Troubled
  /\ adrift' = LiveTurn
  /\ lost' = lost \cup (UNION {mem[t].holds : t \in Tasks}) \cup
              (UNION {UNION {x.holds : x \in col[n][kind].taken} : n \in Turn, kind \in Kind})
  /\ mem' = [t \in Tasks |-> NoEntry]
  /\ col' = [n \in Turn |-> [kind \in Kind |-> Idle]]
  /\ owes' = [n \in Turn |-> "nothing"]
  /\ UNCHANGED <<turns, rowVars, settled, billed, aged>>
RecoverTurn ==
  /\ LiveTurn /\ adrift
  /\ turns' = [turns EXCEPT ![Current] = "dead"]
  /\ adrift' = FALSE
  /\ UNCHANGED <<owes, rowVars, moneyVars, aged, memVars, trouble>>
RecoverRun(k) ==
  /\ Running(k) /\ \A t \in Tasks : mem[t].run # k
  /\ runs' = [runs EXCEPT ![k].status = IF k \in stamped THEN "cancelled" ELSE "ended"]
  /\ stamped' = stamped \ {k} /\ lost' = lost \cup {k}
  /\ UNCHANGED <<turnVars, latest, settled, billed, aged, memVars, trouble>>

-----------------------------------------------------------------------------
(* Task runs. *)

NewRun(t, pred) ==
  /\ runs' = Append(runs, [task |-> t, status |-> "in_progress", parent |-> Current, pred |-> pred])
  /\ latest' = [latest EXCEPT ![t] = Len(runs) + 1]

Launch(t) ==
  /\ LiveTurn /\ ~adrift /\ Len(runs) < MaxRuns
  /\ latest[t] = Nobody /\ mem[t] = NoEntry
  /\ NewRun(t, Nobody)
  /\ mem' = [mem EXCEPT ![t] = [run |-> Len(runs) + 1, holds |-> {}, owner |-> Current,
                                claim |-> Nobody]]
  /\ UNCHANGED <<turnVars, stamped, moneyVars, aged, col, trouble>>

\* _handle_resume: a new run after the one the ledger calls the latest.  The
\* entry is stolen from its collector and keeps the records nobody has billed.
Resume(t) ==
  /\ LiveTurn /\ ~adrift /\ Len(runs) < MaxRuns
  /\ \E k \in DOMAIN runs : runs[k].task = t
  /\ ~Writes(t) /\ \A k \in RunsOf(t) : ~Running(k)
  /\ mem[t].run # Nobody => runs[mem[t].run].status # "cancelled"
  /\ latest[t] # Nobody => runs[latest[t]].status # "cancelled"
  /\ NewRun(t, latest[t])
  /\ mem' = [mem EXCEPT ![t] = [run |-> Len(runs) + 1, holds |-> mem[t].holds, owner |-> Current,
                                claim |-> Nobody]]
  /\ UNCHANGED <<turnVars, stamped, moneyVars, aged, col, trouble>>

\* The writer's end: records into the entry, then the one terminal CAS.
Finish(t, s) ==
  LET k == mem[t].run IN
  /\ Writes(t)
  /\ runs' = [runs EXCEPT ![k].status = IF k \in stamped THEN "cancelled" ELSE s]
  /\ stamped' = stamped \ {k}
  /\ mem' = [mem EXCEPT ![t].holds = @ \cup {k}]
  /\ UNCHANGED <<turnVars, latest, moneyVars, aged, col, trouble>>

-----------------------------------------------------------------------------
(* Collectors. *)

\* spawn_subagent_collector claims what its turn spawned and nobody has.
SpawnCollector(n) ==
  LET mine == {t \in Mine(n) : mem[t].claim = Nobody} IN
  /\ owes[n] = "collect"
  /\ owes' = [owes EXCEPT ![n] = "nothing"]
  /\ mem' = [t \in Tasks |-> IF t \in mine THEN [mem[t] EXCEPT !.claim = n] ELSE mem[t]]
  /\ col' = IF mine = {} THEN col
            ELSE [col EXCEPT ![n]["turn"] = [phase |-> "wait", tasks |-> mine, taken |-> {}]]
  /\ UNCHANGED <<turns, adrift, rowVars, moneyVars, aged, trouble>>

\* take_task_usage: records and run id leave the entry in one step, as long as
\* the claim holds.
Due(n, S) == {t \in S : mem[t].claim = n /\ mem[t].holds # {}}
Batch(n, S) ==
  [phase |-> "bill", tasks |-> S,
   taken |-> {[task |-> t, run |-> mem[t].run, holds |-> mem[t].holds] : t \in Due(n, S)}]
DrainedNever(n, S) == mem  \* Mutant: the records are copied, not taken.
Drained(n, S) ==
  [t \in Tasks |-> IF t \in Due(n, S) THEN [mem[t] EXCEPT !.holds = {}] ELSE mem[t]]

\* Everything claimed has settled: the batch is billed.
Collect(n, kind) ==
  /\ col[n][kind].phase = "wait" /\ \A t \in Claimed(n, kind) : ~Writes(t)
  /\ mem' = Drained(n, col[n][kind].tasks)
  /\ col' = [col EXCEPT ![n][kind] = Batch(n, col[n][kind].tasks)]
  /\ UNCHANGED <<turnVars, rowVars, moneyVars, aged, trouble>>

Pending(n, kind) == {t \in Claimed(n, kind) : Writes(t)}

\* The turn collector's deadline: what still runs goes to an orphan collector.
HandOff(n) ==
  LET rest == Claimed(n, "turn") \ Pending(n, "turn") IN
  /\ col[n]["turn"].phase = "wait" /\ Pending(n, "turn") # {}
  /\ mem' = Drained(n, rest)
  /\ col' = [col EXCEPT
       ![n] = [turn |-> Batch(n, rest),
               orphan |-> [phase |-> "wait", tasks |-> Pending(n, "turn"), taken |-> {}]]]
  /\ UNCHANGED <<turnVars, rowVars, moneyVars, aged, trouble>>

\* The orphan collector's idle timeout: what still runs is released.
GiveUp(n) ==
  LET rest == Claimed(n, "orphan") \ Pending(n, "orphan") IN
  /\ col[n]["orphan"].phase = "wait" /\ Pending(n, "orphan") # {}
  /\ mem' = [t \in Tasks |-> IF t \in Pending(n, "orphan") THEN [mem[t] EXCEPT !.claim = Nobody]
                             ELSE Drained(n, rest)[t]]
  /\ col' = [col EXCEPT ![n]["orphan"] = Batch(n, rest)]
  /\ UNCHANGED <<turnVars, rowVars, moneyVars, aged, trouble>>

\* What one usage transaction settles.
SettledByEntry(x) == Chain(mem[x.task].run)  \* Mutant: the run id is read again.
SettledBy(x) == Chain(x.run)

\* persist_usage: the usage row and the settle stamps, or neither.
Persist(n, kind, x) ==
  /\ x \in col[n][kind].taken
  /\ billed' = [k \in Run |-> IF k \in x.holds THEN billed[k] + 1 ELSE billed[k]]
  /\ settled' = settled \cup SettledBy(x)
  /\ aged' = [aged EXCEPT !.runs = @ \ SettledBy(x)]
  /\ col' = [col EXCEPT ![n][kind].taken = @ \ {x}]
  /\ UNCHANGED <<turnVars, rowVars, lost, mem, trouble>>
PersistFails(n, kind, x) ==
  /\ x \in col[n][kind].taken /\ Troubled
  /\ lost' = lost \cup x.holds
  /\ col' = [col EXCEPT ![n][kind].taken = @ \ {x}]
  /\ UNCHANGED <<turnVars, rowVars, settled, billed, aged, mem>>

\* await_drain_and_cleanup_tasks evicts what it still has the claim on.
CleanupAll(n, kind) ==  \* Mutant: the claim is not looked at again.
  /\ col[n][kind].phase = "bill" /\ col[n][kind].taken = {}
  /\ mem' = [t \in Tasks |-> IF t \in col[n][kind].tasks THEN NoEntry ELSE mem[t]]
  /\ col' = [col EXCEPT ![n][kind] = Idle]
  /\ UNCHANGED <<turnVars, rowVars, moneyVars, aged, trouble>>
Cleanup(n, kind) ==
  /\ col[n][kind].phase = "bill" /\ col[n][kind].taken = {}
  /\ mem' = [t \in Tasks |-> IF t \in Claimed(n, kind) THEN NoEntry ELSE mem[t]]
  /\ col' = [col EXCEPT ![n][kind] = Idle]
  /\ UNCHANGED <<turnVars, rowVars, moneyVars, aged, trouble>>

-----------------------------------------------------------------------------
(* The sweep. *)

\* Half an hour passes: longer than any step of a collector that has nothing
\* left to wait for, and than a turn's collector waits before it hands off.
GracePasses ==
  /\ \A n \in Turn :
       /\ owes[n] = "nothing"
       /\ \A kind \in Kind : col[n][kind].taken = {}
       /\ col[n]["turn"].phase # "wait"
       /\ col[n]["orphan"].phase = "wait" =>
            \E t \in Claimed(n, "orphan") : Writes(t)
  /\ LET open == {k \in DOMAIN runs : Terminal(k) /\ k \notin settled} IN
     aged' = [turns |-> {n \in DOMAIN turns : Ended(n) /\ \E k \in open : runs[k].parent = n},
              runs |-> open]
  /\ aged' # aged
  /\ UNCHANGED <<turnVars, rowVars, moneyVars, memVars, trouble>>

\* settle_abandoned("task")
AbandonedByAge == {k \in DOMAIN runs :  \* Mutant: the child's own age is enough.
  Terminal(k) /\ k \notin settled /\ k \in aged.runs}
AbandonedEnded == {k \in DOMAIN runs :  \* Mutant: a cancelled run is passed over.
  runs[k].status = "ended" /\ k \notin settled /\ k \in aged.runs /\ runs[k].parent \in aged.turns}
Abandoned == {k \in DOMAIN runs :
  Terminal(k) /\ k \notin settled /\ k \in aged.runs /\ runs[k].parent \in aged.turns}

Sweep ==
  /\ Abandoned # {}
  /\ settled' = settled \cup Abandoned
  /\ aged' = [turns |-> {}, runs |-> aged.runs \ Abandoned]
  /\ UNCHANGED <<turnVars, rowVars, billed, lost, memVars, trouble>>

-----------------------------------------------------------------------------
Works(n, kind) ==
  \/ Collect(n, kind) \/ Cleanup(n, kind)
  \/ \E x \in col[n][kind].taken : Persist(n, kind, x) \/ PersistFails(n, kind, x)

Next ==
  \/ StartTurn \/ \E cut \in Turn : Fork(cut)
  \/ \E s \in {"done", "dead"} : EndTurn(s)
  \/ \E n \in Turn : Kill(n) \/ Evict(n) \/ SpawnCollector(n) \/ HandOff(n) \/ GiveUp(n)
  \/ Crash \/ RecoverTurn \/ \E k \in Run : RecoverRun(k)
  \/ \E t \in Tasks : Launch(t) \/ Resume(t)
  \/ \E t \in Tasks, s \in {"ended", "cancelled"} : Finish(t, s)
  \/ \E n \in Turn, kind \in Kind : Works(n, kind)
  \/ GracePasses \/ Sweep

Spec == Init /\ [][Next]_vars

\* Turns and writers end, executors and collectors go on, recovery scans, time
\* passes.  Any one of them may starve another as long as the kind goes on.
Fairness ==
  /\ WF_vars(\E s \in {"done", "dead"} : EndTurn(s))
  /\ WF_vars(\E t \in Tasks, s \in {"ended", "cancelled"} : Finish(t, s))
  /\ WF_vars(\E n \in Turn : Kill(n) \/ Evict(n) \/ SpawnCollector(n))
  /\ WF_vars(\E n \in Turn, kind \in Kind : Works(n, kind))
  /\ WF_vars(RecoverTurn \/ \E k \in Run : RecoverRun(k))
  /\ WF_vars(GracePasses) /\ WF_vars(Sweep)

FairSpec == Spec /\ Fairness

-----------------------------------------------------------------------------
(* Properties. *)

TypeOK ==
  /\ turns \in Seq({"live", "done", "dead", "gone"}) /\ Len(turns) <= MaxTurns
  /\ owes \in [Turn -> {"nothing", "collect", "kill", "evict"}] /\ adrift \in BOOLEAN
  /\ runs \in Seq([task : Tasks, status : {"in_progress", "ended", "cancelled", "gone"},
                   parent : Turn, pred : Nat])
  /\ Len(runs) <= MaxRuns /\ stamped \subseteq Run
  /\ latest \in [Tasks -> {Nobody} \cup Run]
  /\ settled \subseteq Run /\ billed \in [Run -> Nat] /\ lost \subseteq Run
  /\ aged \in [turns : SUBSET Turn, runs : SUBSET Run]
  /\ mem \in [Tasks -> [run : {Nobody} \cup Run, holds : SUBSET Run,
                        owner : {Nobody} \cup Turn, claim : {Nobody} \cup Turn]]
  /\ col \in [Turn -> [Kind -> [phase : {"idle", "wait", "bill"}, tasks : SUBSET Tasks,
                taken : SUBSET [task : Tasks, run : {Nobody} \cup Run, holds : SUBSET Run]]]]
  /\ trouble \in 0 .. MaxTrouble

Held(k) == \E t \in Tasks : k \in mem[t].holds
Taken(k) == \E n \in Turn, kind \in Kind : \E x \in col[n][kind].taken : k \in x.holds

\* What a run spent is billed at most once, however often its task is resumed
\* and whoever steals it from whom.
BilledOnce == \A k \in Run : billed[k] <= 1

\* The spend of a run that has ended is somewhere: in memory, on its way into
\* a usage row, in one, or lost with a process, a killed turn or a failed write.
SpendAccounted ==
  \A k \in DOMAIN runs : Terminal(k) => Held(k) \/ Taken(k) \/ billed[k] > 0 \/ k \in lost

\* A later run of the same task was truncated.
Cut(k) == \E j \in DOMAIN runs : j > k /\ runs[j].task = runs[k].task /\ runs[j].status = "gone"

\* Stamps and bills go together: what is billed no longer counts as in flight,
\* unless a truncation took the run it was billed through
\* (credit_ledger.py:88, "nor billed while still counting as in-flight"), and a
\* live run is never stamped, its spend being still to come.
StampsFollowBills ==
  /\ \A k \in DOMAIN runs : billed[k] > 0 /\ Terminal(k) => k \in settled \/ Cut(k)
  /\ \A k \in settled : ~Running(k)

\* A resumed run follows the newest surviving run of its task.
ResumeChainsToNewest ==
  [][\A t \in Tasks : Len(runs') > Len(runs) /\ runs'[Len(runs')].task = t =>
       runs'[Len(runs')].pred = RECENT(RunsOf(t))]_vars

\* Records in an entry that a collector, or the owning turn's future one, bills.
Expected(t) ==
  \/ mem[t].claim # Nobody
  \/ mem[t].owner # Nobody /\ (owes[mem[t].owner] = "collect" \/ turns[mem[t].owner] = "live")

\* It has ended, and sits in the batch of an orphan collector that waits on.
Waits(t) == \E n \in Turn : col[n]["orphan"].phase = "wait" /\ t \in Claimed(n, "orphan")

\* The sweep never stamps the newest run of a task while a collector, or a turn
\* that will have one, is still to bill it (credit_ledger.py:118).
SweepSparesNewest ==
  [][Sweep => \A k \in settled' \ settled :
       /\ \A t \in Tasks : mem[t].run = k /\ k \in mem[t].holds => ~Expected(t) \/ Waits(t)
       /\ \A n \in Turn : \A x \in col[n]["turn"].taken : x.run # k]_vars

\* The sweep stamps only what no settle path reaches (credit_ledger.py:116).
SweepOnlyUnreachable ==
  [][Sweep => \A k \in settled' \ settled :
       ~Taken(k) /\ \A t \in Tasks : k \in mem[t].holds => ~Expected(t)]_vars

\* Whatever fails, the rows of all runs that ended are settled time and again.
AllSettle == []<>(\A k \in Run : Terminal(k) => k \in settled)

-----------------------------------------------------------------------------
(* The spend of a run, as the contract sees it. *)

PlaceOf(k) ==
  IF Held(k) \/ Taken(k) THEN "carried"
  ELSE IF billed[k] > 0 THEN "billed" ELSE IF k \in lost THEN "lost" ELSE "unrecorded"

Contract == INSTANCE SpendContract
  WITH place <- [k \in Run |-> PlaceOf(k)], bills <- billed, stamp <- settled

\* What a run spent is recorded once, billed once or lost for good, in whatever
\* hands its task is, and no run is settled whose spend is still to come
\* (take_task_usage, persist_usage; credit_ledger.py:88).
KeepsSpend == Contract!Spec

-----------------------------------------------------------------------------
(* What the proofs add to the properties to make them inductive. *)

\* Only the last turn is live.  What is left to do for a turn, and its
\* collectors, begin when it ends; its orphan collector with its own's hand-off.
TurnsInOrder ==
  /\ \A n \in DOMAIN turns : turns[n] = "live" => n = Current
  /\ \A n \in Turn : n \notin DOMAIN turns \/ turns[n] = "live" => owes[n] = "nothing"
  /\ \A n \in Turn : (n \notin DOMAIN turns \/ turns[n] = "live" \/ owes[n] = "collect") =>
       \A kind \in Kind : col[n][kind] = Idle
  /\ \A n \in Turn : col[n]["turn"].phase = "wait" => col[n]["orphan"] = Idle
  /\ \A n \in Turn, kind \in Kind :
       /\ col[n][kind].phase = "idle" => col[n][kind] = Idle
       /\ col[n][kind].phase = "wait" => col[n][kind].taken = {}

\* Rows are numbered as they start; a row follows an older one of its task that
\* no truncation took without it; and a live row is the newest of its task.
RowsLinked ==
  \A k \in DOMAIN runs :
    /\ runs[k].parent \in 1 .. Current
    /\ runs[k].pred < k
    /\ runs[k].pred # Nobody =>
         /\ runs[runs[k].pred].task = runs[k].task
         /\ runs[runs[k].pred].status = "gone" => runs[k].status = "gone"
    /\ \A j \in DOMAIN runs : j <= k => runs[j].parent <= runs[k].parent
    /\ Running(k) => \A j \in DOMAIN runs : runs[j].task = runs[k].task => j <= k

\* A task's pointer is its newest surviving run.
Newest(t, k) ==
  IF RunsOf(t) = {} THEN k = Nobody ELSE k \in RunsOf(t) /\ \A j \in RunsOf(t) : j <= k
LatestNewest == \A t \in Tasks : Newest(t, latest[t])

\* The chain of a row is every older surviving run of its task.
ChainsComplete ==
  \A k \in Rows : \A j \in RunsOf(runs[k].task) : j <= k => j \in Chain(k)

\* An entry is of its task's, holds records of runs up to its own, of its own
\* among them once that has ended, and none that was billed.
EntriesSound ==
  \A t \in Tasks :
    /\ mem[t].run = Nobody =>
         mem[t].holds = {} /\ mem[t].owner = Nobody /\ mem[t].claim = Nobody
    /\ mem[t].run # Nobody =>
         /\ mem[t].run \in DOMAIN runs /\ runs[mem[t].run].task = t
         /\ mem[t].owner = runs[mem[t].run].parent
         /\ ~Writes(t) /\ mem[t].holds # {} => mem[t].run \in mem[t].holds
    /\ \A k \in mem[t].holds :
         /\ k \in DOMAIN runs /\ runs[k].task = t /\ k <= mem[t].run
         /\ ~Running(k) /\ billed[k] = 0

\* A batch was taken from an entry that had ended, and the records of a run are
\* in one place: an entry, one batch, or a usage row.
BatchesSound ==
  \A n \in Turn, kind \in Kind : \A x \in col[n][kind].taken :
    /\ x.run \in DOMAIN runs /\ ~Running(x.run) /\ runs[x.run].task = x.task
    /\ \A k \in x.holds :
         /\ k \in DOMAIN runs /\ runs[k].task = x.task /\ k <= x.run
         /\ ~Running(k) /\ billed[k] = 0 /\ ~Held(k)
OneBatch ==
  \A n, m \in Turn, c, d \in Kind : \A x \in col[n][c].taken, y \in col[m][d].taken :
    x.holds \cap y.holds # {} => n = m /\ c = d /\ x = y

\* A claimed task is with a collector of the turn that claimed it; and nothing
\* is left of what a collector that bills still has the claim on.
ClaimsKnown ==
  \A t \in Tasks : mem[t].claim # Nobody =>
    \E kind \in Kind : t \in col[mem[t].claim][kind].tasks
ClaimsDrained ==
  \A n \in Turn, kind \in Kind : col[n][kind].phase = "bill" =>
    \A t \in Claimed(n, kind) : mem[t].holds = {} /\ ~Writes(t)

\* Nothing is billed, stamped or lost before it has ended.
MoneySound ==
  /\ \A k \in Run : k \notin DOMAIN runs \/ Running(k) => billed[k] = 0
  /\ \A k \in settled \cup aged.runs \cup lost : k \in DOMAIN runs /\ ~Running(k)

\* What is lost is nowhere else.
LostGone == \A k \in lost : ~Held(k) /\ ~Taken(k) /\ billed[k] = 0

\* What is aged has nobody but an orphan collector that waits to bill it.
AgedSound ==
  /\ \A n \in aged.turns : Ended(n) /\ owes[n] = "nothing"
  /\ \A k \in aged.runs : runs[k].parent \in aged.turns =>
       /\ \A t \in Tasks :
            mem[t].run = k /\ k \in mem[t].holds /\ mem[t].claim # Nobody => Waits(t)
       /\ \A n \in Turn : \A x \in col[n]["turn"].taken : x.run # k

IInv ==
  /\ TypeOK /\ TurnsInOrder /\ RowsLinked /\ LatestNewest /\ ChainsComplete
  /\ EntriesSound /\ BatchesSound /\ OneBatch /\ ClaimsKnown /\ ClaimsDrained
  /\ MoneySound /\ LostGone /\ AgedSound
  /\ BilledOnce /\ SpendAccounted /\ StampsFollowBills
=============================================================================
