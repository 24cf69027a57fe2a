-------------------------- MODULE TaskLedgerProofs --------------------------
(***************************************************************************)
(* The billing of TaskLedger, for every value of the constants: what a run *)
(* spent is billed at most once and is always somewhere, stamps and bills  *)
(* go together, a resume follows the newest run, and the sweep spares what *)
(* a collector is still to bill.                                           *)
(***************************************************************************)
EXTENDS TaskLedger, SequenceTheorems, WellFoundedInduction, TLAPS

USE DEF Turn, Run, Nobody, Kind, NoEntry, Idle

TurnStatus == {"live", "done", "dead", "gone"}
Row == [task : Tasks, status : {"in_progress", "ended", "cancelled", "gone"},
        parent : Turn, pred : Nat]
Entry == [run : {Nobody} \cup Run, holds : SUBSET Run,
          owner : {Nobody} \cup Turn, claim : {Nobody} \cup Turn]
Pack == [task : Tasks, run : {Nobody} \cup Run, holds : SUBSET Run]
Collector == [phase : {"idle", "wait", "bill"}, tasks : SUBSET Tasks, taken : SUBSET Pack]

-----------------------------------------------------------------------------
(* The newest of a set of rows. *)

\* A set of numbers has a least one: by well-founded induction.
LEMMA NatMin ==
    ASSUME NEW T \in SUBSET Nat, T # {}
    PROVE  \E m \in T : \A k \in T : m <= k
  <1>1. \E x \in T : \A y \in T : ~ (<<y, x>> \in OpToRel(<, Nat))
    BY NatLessThanWellFounded, WFMin
  <1>2. PICK x \in T : \A y \in T : ~ (<<y, x>> \in {ss \in Nat \X Nat : ss[1] < ss[2]})
    BY <1>1 DEF OpToRel
  <1>3. ASSUME NEW y \in T PROVE ~(y < x)
    <2>1. <<y, x>> \in Nat \X Nat
      OBVIOUS
    <2> QED
      BY <2>1, <1>2
  <1> QED
    BY <1>3

\* And a bounded one a greatest: reflect it and take the least.
LEMMA NatMax ==
    ASSUME NEW n \in Nat, NEW T \in SUBSET (0 .. n), T # {}
    PROVE  \E m \in T : \A k \in T : k <= m
  <1> DEFINE U == {m \in 0 .. n : n - m \in T}
  <1>1. U \in SUBSET Nat /\ U # {}
    <2>1. PICK t \in T : TRUE
      OBVIOUS
    <2>2. n - t \in U
      BY <2>1
    <2> QED
      BY <2>2
  <1>2. \A k \in T : n - k \in U
    OBVIOUS
  <1>3. \A k \in U : k \in 0 .. n /\ n - k \in T
    OBVIOUS
  <1> HIDE DEF U
  <1>4. PICK m \in U : \A k \in U : m <= k
    BY <1>1, NatMin
  <1>5. n - m \in T /\ \A k \in T : m <= n - k
    BY <1>2, <1>3, <1>4
  <1>6. \A k \in T : k \in 0 .. n /\ k <= n - m
    BY <1>3, <1>4, <1>5
  <1> QED
    BY <1>5, <1>6

\* RECENT picks the last of a set of rows, as ORDER BY started_at DESC does.
LEMMA RecentLast ==
    ASSUME NEW n \in Nat, NEW S \in SUBSET (1 .. n), S # {}
    PROVE  RECENT(S) \in S /\ \A j \in S : j <= RECENT(S)
  <1>1. S \in SUBSET (0 .. n)
    OBVIOUS
  <1>2. \E k \in S : \A j \in S : j <= k
    BY <1>1, NatMax
  <1> QED
    BY <1>2 DEF RECENT

-----------------------------------------------------------------------------
(* Types. *)

\* What the type invariant says of the sequences and functions, in one place.
LEMMA Shapes ==
    ASSUME TypeOK
    PROVE  /\ Len(turns) \in Nat /\ DOMAIN turns = 1 .. Len(turns)
           /\ turns \in [1 .. Len(turns) -> TurnStatus] /\ DOMAIN turns \subseteq Turn
           /\ Len(runs) \in Nat /\ DOMAIN runs = 1 .. Len(runs)
           /\ runs \in [1 .. Len(runs) -> Row] /\ DOMAIN runs \subseteq Run
           /\ mem \in [Tasks -> Entry] /\ col \in [Turn -> [Kind -> Collector]]
           /\ MaxTurns \in Nat /\ MaxRuns \in Nat
  <1>1. MaxTurns \in Nat /\ MaxRuns \in Nat
    BY BoundsAssumption
  <1>2. turns \in Seq(TurnStatus) /\ Len(turns) <= MaxTurns
    BY DEF TypeOK, TurnStatus
  <1>3. runs \in Seq(Row) /\ Len(runs) <= MaxRuns
    BY DEF TypeOK, Row
  <1>4. mem \in [Tasks -> Entry]
    BY DEF TypeOK, Entry
  <1>5. col \in [Turn -> [Kind -> Collector]]
    BY DEF TypeOK, Collector, Pack
  <1> QED
    BY <1>1, <1>2, <1>3, <1>4, <1>5

-----------------------------------------------------------------------------
(* What a step leaves of the turns and of the rows, entry by entry. *)

TurnOpened ==
  /\ turns' \in Seq(TurnStatus) /\ Len(turns') = Current + 1 /\ Current + 1 \in Turn
  /\ DOMAIN turns' = DOMAIN turns \cup {Current + 1} /\ Current + 1 \notin DOMAIN turns
  /\ turns'[Current + 1] = "live"

TurnClosed(s) ==
  /\ turns' \in Seq(TurnStatus) /\ Len(turns') = Current /\ DOMAIN turns' = DOMAIN turns
  /\ Current \in DOMAIN turns /\ turns'[Current] = s
  /\ \A n \in DOMAIN turns : n # Current => turns'[n] = turns[n]

RowOpened(t, p) ==
  LET new == Len(runs) + 1 IN
  /\ runs' \in Seq(Row) /\ Len(runs') = new /\ new \in Run /\ new \notin DOMAIN runs
  /\ DOMAIN runs' = DOMAIN runs \cup {new}
  /\ \A k \in DOMAIN runs : runs'[k] = runs[k] /\ k < new
  /\ runs'[new] = [task |-> t, status |-> "in_progress", parent |-> Current, pred |-> p]

RowClosed(k) ==
  /\ runs' \in Seq(Row) /\ Len(runs') = Len(runs) /\ DOMAIN runs' = DOMAIN runs
  /\ k \in DOMAIN runs /\ runs[k].status = "in_progress"
  /\ runs'[k].status \in {"ended", "cancelled"}
  /\ runs'[k].task = runs[k].task /\ runs'[k].parent = runs[k].parent
  /\ runs'[k].pred = runs[k].pred
  /\ \A j \in DOMAIN runs : j # k => runs'[j] = runs[j]

Doomed(cut) == {k \in DOMAIN runs : runs[k].status # "gone" /\ runs[k].parent >= cut}
RowsCut(cut) ==
  /\ runs' \in Seq(Row) /\ Len(runs') = Len(runs) /\ DOMAIN runs' = DOMAIN runs
  /\ \A k \in DOMAIN runs :
       /\ runs'[k].task = runs[k].task /\ runs'[k].parent = runs[k].parent
       /\ runs'[k].pred = runs[k].pred
       /\ runs'[k].status = IF k \in Doomed(cut) THEN "gone" ELSE runs[k].status

\* Changing an element keeps a sequence what it is.
LEMMA SeqExcept ==
    ASSUME NEW S, NEW s \in Seq(S), NEW i \in DOMAIN s, NEW v \in S
    PROVE  /\ [s EXCEPT ![i] = v] \in Seq(S) /\ Len([s EXCEPT ![i] = v]) = Len(s)
           /\ \A j \in DOMAIN s : [s EXCEPT ![i] = v][j] = IF j = i THEN v ELSE s[j]
  <1>1. DOMAIN s = 1 .. Len(s)
    OBVIOUS
  <1> QED
    BY <1>1, ExceptSeq

\* A live turn is one within the bound.
LEMMA LiveCurrent ==
    ASSUME TypeOK, LiveTurn
    PROVE  Current \in Turn /\ Current \in DOMAIN turns
  BY Shapes DEF LiveTurn, Current

\* start_run opens a turn and leaves the others.
LEMMA StartTurnEffect ==
    ASSUME TypeOK, StartTurn
    PROVE  TurnOpened /\ \A n \in DOMAIN turns : turns'[n] = turns[n]
  <1>1. turns \in Seq(TurnStatus) /\ "live" \in TurnStatus
    BY DEF TypeOK, TurnStatus
  <1>2. turns' = Append(turns, "live") /\ Len(turns) < MaxTurns
    BY DEF StartTurn, Current
  <1>3. /\ turns' \in Seq(TurnStatus) /\ Len(turns') = Len(turns) + 1
        /\ \A n \in 1 .. Len(turns) : turns'[n] = turns[n]
        /\ turns'[Len(turns) + 1] = "live"
    BY <1>1, <1>2, AppendProperties
  <1>4. DOMAIN turns' = 1 .. Len(turns')
    BY <1>3
  <1> QED
    BY <1>2, <1>3, <1>4, Shapes DEF TurnOpened, Current

\* A fork cuts turns and rows, re-points the tasks and spares live writers.
LEMMA ForkEffect ==
    ASSUME TypeOK, NEW cut \in Turn, Fork(cut)
    PROVE  /\ TurnOpened /\ RowsCut(cut)
           /\ \A n \in DOMAIN turns : turns'[n] = IF n >= cut THEN "gone" ELSE turns[n]
           /\ \A k \in Doomed(cut) : ~Running(k)
           /\ latest' = [t \in Tasks |-> IF latest[t] \in Doomed(cut)
                                         THEN RECENT(RunsOf(t) \ Doomed(cut)) ELSE latest[t]]
           /\ settled' = settled \ Doomed(cut)
           /\ aged' = [turns |-> aged.turns \ (cut .. Current),
                       runs |-> aged.runs \ Doomed(cut)]
           /\ UNCHANGED <<owes, adrift, stamped, billed, lost, memVars, trouble>>
  <1> DEFINE kept == [n \in DOMAIN turns |-> IF n >= cut THEN "gone" ELSE turns[n]]
  <1>1. /\ turns' = Append(kept, "live") /\ Len(turns) < MaxTurns
        /\ runs' = [k \in DOMAIN runs |-> IF k \in Doomed(cut)
                      THEN [runs[k] EXCEPT !.status = "gone"] ELSE runs[k]]
        /\ \A k \in Doomed(cut) : ~Running(k)
        /\ latest' = [t \in Tasks |-> IF latest[t] \in Doomed(cut)
                                      THEN RECENT(RunsOf(t) \ Doomed(cut)) ELSE latest[t]]
        /\ settled' = settled \ Doomed(cut)
        /\ aged' = [turns |-> aged.turns \ (cut .. Current),
                    runs |-> aged.runs \ Doomed(cut)]
        /\ UNCHANGED <<owes, adrift, stamped, billed, lost, memVars, trouble>>
    BY DEF Fork, Doomed, Current
  <1>2. kept \in Seq(TurnStatus) /\ Len(kept) = Len(turns) /\ "live" \in TurnStatus
    <2>1. kept \in [1 .. Len(turns) -> TurnStatus]
      BY Shapes DEF TurnStatus
    <2> QED
      BY <2>1, Shapes DEF TurnStatus
  <1>3. \A n \in DOMAIN turns : kept[n] = IF n >= cut THEN "gone" ELSE turns[n]
    OBVIOUS
  <1> HIDE DEF kept
  <1>4. /\ turns' \in Seq(TurnStatus) /\ Len(turns') = Len(turns) + 1
        /\ \A n \in 1 .. Len(turns) : turns'[n] = kept[n]
        /\ turns'[Len(turns) + 1] = "live"
    BY <1>1, <1>2, AppendProperties
  <1>5. DOMAIN turns' = 1 .. Len(turns')
    BY <1>4
  <1>6. TurnOpened /\ \A n \in DOMAIN turns : turns'[n] = kept[n]
    BY <1>1, <1>4, <1>5, Shapes DEF TurnOpened, Current
  <1>7. RowsCut(cut)
    <2>1. ASSUME NEW k \in DOMAIN runs
          PROVE  /\ runs'[k] \in Row
                 /\ runs'[k].task = runs[k].task /\ runs'[k].parent = runs[k].parent
                 /\ runs'[k].pred = runs[k].pred
                 /\ runs'[k].status = IF k \in Doomed(cut) THEN "gone" ELSE runs[k].status
      <3>1. runs[k] \in Row /\ runs'[k] = IF k \in Doomed(cut)
                      THEN [runs[k] EXCEPT !.status = "gone"] ELSE runs[k]
        BY <1>1, Shapes
      <3> QED
        BY <3>1 DEF Row
    <2>2. runs' \in [1 .. Len(runs) -> Row]
      BY <1>1, <2>1, Shapes
    <2>3. runs' \in Seq(Row) /\ Len(runs') = Len(runs) /\ DOMAIN runs' = DOMAIN runs
      BY <2>2, Shapes
    <2> QED
      BY <2>1, <2>3 DEF RowsCut
  <1> QED
    BY <1>1, <1>3, <1>6, <1>7

\* Only the last turn closes.
LEMMA TurnCloses ==
    ASSUME TypeOK, LiveTurn, NEW s \in TurnStatus, turns' = [turns EXCEPT ![Current] = s]
    PROVE  TurnClosed(s)
  <1>1. turns \in Seq(TurnStatus)
    BY DEF TypeOK, TurnStatus
  <1>2. /\ turns' \in Seq(TurnStatus) /\ Len(turns') = Len(turns)
        /\ \A n \in DOMAIN turns : turns'[n] = IF n = Current THEN s ELSE turns[n]
    BY <1>1, LiveCurrent, SeqExcept
  <1>3. DOMAIN turns' = DOMAIN turns
    OBVIOUS
  <1> QED
    BY <1>2, <1>3, LiveCurrent DEF TurnClosed, Current

\* start_task_run appends a row and points its task at it.
LEMMA RowOpens ==
    ASSUME TypeOK, LiveTurn, Len(runs) < MaxRuns, NEW t \in Tasks, NEW p \in Nat,
           NewRun(t, p)
    PROVE  RowOpened(t, p)
  <1> DEFINE new == [task |-> t, status |-> "in_progress", parent |-> Current, pred |-> p]
  <1>1. new \in Row
    BY LiveCurrent DEF Row
  <1>2. runs \in Seq(Row)
    BY DEF TypeOK, Row
  <1>3. runs' = Append(runs, new)
    BY DEF NewRun
  <1> HIDE DEF new
  <1>4. /\ runs' \in Seq(Row) /\ Len(runs') = Len(runs) + 1
        /\ \A n \in 1 .. Len(runs) : runs'[n] = runs[n]
        /\ runs'[Len(runs) + 1] = new
    BY <1>1, <1>2, <1>3, AppendProperties
  <1>5. DOMAIN runs' = 1 .. Len(runs')
    BY <1>4
  <1> QED
    BY <1>4, <1>5, Shapes DEF RowOpened, new

\* finalize_task_run changes the status of one live row.
LEMMA RowCloses ==
    ASSUME TypeOK, NEW k, Running(k), NEW s \in {"ended", "cancelled"},
           runs' = [runs EXCEPT ![k].status = s]
    PROVE  RowClosed(k)
  <1>1. k \in DOMAIN runs /\ runs[k].status = "in_progress"
    BY DEF Running
  <1>2. runs \in Seq(Row)
    BY DEF TypeOK, Row
  <1> DEFINE v == [runs[k] EXCEPT !.status = s]
  <1>3. /\ v \in Row /\ v.task = runs[k].task /\ v.parent = runs[k].parent
        /\ v.pred = runs[k].pred /\ v.status = s
    BY <1>1, Shapes DEF Row
  <1>4. runs' = [runs EXCEPT ![k] = v]
    OBVIOUS
  <1> HIDE DEF v
  <1>5. /\ runs' \in Seq(Row) /\ Len(runs') = Len(runs)
        /\ \A j \in DOMAIN runs : runs'[j] = IF j = k THEN v ELSE runs[j]
    BY <1>1, <1>2, <1>3, <1>4, SeqExcept
  <1>6. DOMAIN runs' = DOMAIN runs
    OBVIOUS
  <1> QED
    BY <1>1, <1>3, <1>5, <1>6 DEF RowClosed

-----------------------------------------------------------------------------
(* Which steps touch which variables. *)

TurnAct == StartTurn \/ (\E cut \in Turn : Fork(cut)) \/ (\E s \in {"done", "dead"} : EndTurn(s))
           \/ RecoverTurn
OwesAct == (\E s \in {"done", "dead"} : EndTurn(s)) \/ Crash
           \/ \E n \in Turn : Kill(n) \/ Evict(n) \/ SpawnCollector(n)
OpenAct == \E t \in Tasks : Launch(t) \/ Resume(t)
CloseAct == (\E k \in Run : RecoverRun(k))
            \/ \E t \in Tasks, s \in {"ended", "cancelled"} : Finish(t, s)
RowAct == (\E cut \in Turn : Fork(cut)) \/ OpenAct \/ CloseAct
TakeAct == \/ \E n \in Turn : HandOff(n) \/ GiveUp(n)
           \/ \E n \in Turn, kind \in Kind : Collect(n, kind)
CollectAct == TakeAct \/ (\E n \in Turn : SpawnCollector(n))
              \/ \E n \in Turn, kind \in Kind : Cleanup(n, kind)
MemAct == CollectAct \/ Crash \/ OpenAct \/ (\E n \in Turn : Evict(n))
          \/ \E t \in Tasks, s \in {"ended", "cancelled"} : Finish(t, s)
PersistAct == \E n \in Turn, kind \in Kind : \E x \in col[n][kind].taken : Persist(n, kind, x)
FailAct == \E n \in Turn, kind \in Kind : \E x \in col[n][kind].taken : PersistFails(n, kind, x)
ColAct == CollectAct \/ Crash \/ PersistAct \/ FailAct

\* Which actions change which variable.
LEMMA Frame ==
    ASSUME [Next]_vars
    PROVE  /\ turns' = turns \/ TurnAct
           /\ owes' = owes \/ OwesAct
           /\ adrift' = adrift \/ Crash \/ RecoverTurn
           /\ UNCHANGED <<runs, latest>> \/ RowAct
           /\ latest' = latest \/ OpenAct \/ \E cut \in Turn : Fork(cut)
           /\ stamped' = stamped \/ CloseAct \/ \E n \in Turn : Kill(n)
           /\ settled' = settled \/ (\E cut \in Turn : Fork(cut)) \/ PersistAct \/ Sweep
           /\ billed' = billed \/ PersistAct
           /\ \/ lost' = lost \/ Crash \/ FailAct
              \/ (\E n \in Turn : Evict(n)) \/ \E k \in Run : RecoverRun(k)
           /\ aged' = aged \/ (\E cut \in Turn : Fork(cut)) \/ PersistAct \/ GracePasses \/ Sweep
           /\ mem' = mem \/ MemAct
           /\ col' = col \/ ColAct
           /\ trouble' = trouble \/ Crash \/ FailAct
  <1> USE DEF TurnAct, OwesAct, OpenAct, CloseAct, RowAct, TakeAct, CollectAct, MemAct,
          PersistAct, FailAct, ColAct, vars, turnVars, rowVars, moneyVars, memVars
  <1>1. CASE UNCHANGED vars
    BY <1>1
  <1>2. CASE StartTurn
    BY <1>2 DEF StartTurn
  <1>3. ASSUME NEW cut \in Turn, Fork(cut) PROVE UNCHANGED <<owes, adrift, stamped, billed, lost, memVars, trouble>>
    BY <1>3 DEF Fork
  <1>4. ASSUME NEW s \in {"done", "dead"}, EndTurn(s)
        PROVE  UNCHANGED <<adrift, rowVars, moneyVars, aged, memVars, trouble>>
    BY <1>4 DEF EndTurn
  <1>5. ASSUME NEW n \in Turn, Kill(n)
        PROVE  UNCHANGED <<turns, adrift, runs, latest, moneyVars, aged, memVars, trouble>>
    BY <1>5 DEF Kill
  <1>6. ASSUME NEW n \in Turn, Evict(n)
        PROVE  UNCHANGED <<turns, adrift, rowVars, settled, billed, aged, col, trouble>>
    BY <1>6 DEF Evict
  <1>7. CASE Crash
    BY <1>7 DEF Crash
  <1>8. CASE RecoverTurn
    BY <1>8 DEF RecoverTurn
  <1>9. ASSUME NEW k \in Run, RecoverRun(k)
        PROVE  UNCHANGED <<turnVars, latest, settled, billed, aged, memVars, trouble>>
    BY <1>9 DEF RecoverRun
  <1>10. ASSUME NEW t \in Tasks, Launch(t) \/ Resume(t)
         PROVE  UNCHANGED <<turnVars, stamped, moneyVars, aged, col, trouble>>
    BY <1>10 DEF Launch, Resume
  <1>11. ASSUME NEW t \in Tasks, NEW s \in {"ended", "cancelled"}, Finish(t, s)
         PROVE  UNCHANGED <<turnVars, latest, moneyVars, aged, col, trouble>>
    BY <1>11 DEF Finish
  <1>12. ASSUME NEW n \in Turn, SpawnCollector(n)
         PROVE  UNCHANGED <<turns, adrift, rowVars, moneyVars, aged, trouble>>
    BY <1>12 DEF SpawnCollector
  <1>13. ASSUME NEW n \in Turn, NEW kind \in Kind,
                HandOff(n) \/ GiveUp(n) \/ Collect(n, kind) \/ Cleanup(n, kind)
         PROVE  UNCHANGED <<turnVars, rowVars, moneyVars, aged, trouble>>
    BY <1>13 DEF HandOff, GiveUp, Collect, Cleanup
  <1>14. ASSUME NEW n \in Turn, NEW kind \in Kind, NEW x \in col[n][kind].taken,
                Persist(n, kind, x)
         PROVE  UNCHANGED <<turnVars, rowVars, lost, mem, trouble>>
    BY <1>14 DEF Persist
  <1>15. ASSUME NEW n \in Turn, NEW kind \in Kind, NEW x \in col[n][kind].taken,
                PersistFails(n, kind, x)
         PROVE  UNCHANGED <<turnVars, rowVars, settled, billed, aged, mem>>
    BY <1>15 DEF PersistFails
  <1>16. CASE GracePasses
    BY <1>16 DEF GracePasses
  <1>17. CASE Sweep
    BY <1>17 DEF Sweep
  <1>18. CASE \E cut \in Turn : Fork(cut)
    BY <1>3, <1>18
  <1>19. CASE \E s \in {"done", "dead"} : EndTurn(s)
    BY <1>4, <1>19
  <1>20. CASE \E n \in Turn : Kill(n)
    BY <1>5, <1>20
  <1>21. CASE \E n \in Turn : Evict(n)
    BY <1>6, <1>21
  <1>22. CASE \E k \in Run : RecoverRun(k)
    BY <1>9, <1>22
  <1>23. CASE \E t \in Tasks : Launch(t) \/ Resume(t)
    BY <1>10, <1>23
  <1>24. CASE \E t \in Tasks, s \in {"ended", "cancelled"} : Finish(t, s)
    BY <1>11, <1>24
  <1>25. CASE \E n \in Turn : SpawnCollector(n)
    BY <1>12, <1>25
  <1>26. CASE TakeAct \/ \E n \in Turn, kind \in Kind : Cleanup(n, kind)
    BY <1>13, <1>26
  <1>27. CASE PersistAct
    BY <1>14, <1>27
  <1>28. CASE FailAct
    BY <1>15, <1>28
  <1> QED
    BY <1>1, <1>2, <1>7, <1>8, <1>16, <1>17, <1>18, <1>19, <1>20, <1>21, <1>22, <1>23, <1>24,
       <1>25, <1>26, <1>27, <1>28 DEF Next, Works

-----------------------------------------------------------------------------
(* What the steps of collectors do to entries and collectors. *)

\* A collector stops waiting for the tasks of S and takes their records; an
\* orphan's new collector goes on with the others, or they are released.
Taking(n, kind, S) ==
  /\ col[n][kind].phase = "wait"
  /\ S \subseteq col[n][kind].tasks /\ \A t \in S : mem[t].claim = n => ~Writes(t)
  /\ mem' \in [Tasks -> Entry] /\ col' \in [Turn -> [Kind -> Collector]]
  /\ col'[n][kind] = Batch(n, S)
  /\ \A m \in Turn, c \in Kind : m # n \/ c # kind =>
       \/ col'[m][c] = col[m][c]
       \/ /\ m = n /\ kind = "turn" /\ c = "orphan"
          /\ col'[m][c] = [phase |-> "wait", tasks |-> Pending(n, "turn"), taken |-> {}]
  /\ \A t \in Tasks :
       /\ mem'[t].run = mem[t].run /\ mem'[t].owner = mem[t].owner
       /\ mem'[t].holds = IF t \in Due(n, S) THEN {} ELSE mem[t].holds
       /\ \/ mem'[t].claim = mem[t].claim
          \/ mem'[t].claim = Nobody /\ t \in Pending(n, kind)
       /\ t \in col[n][kind].tasks \ S /\ mem'[t].claim = n =>
            kind = "turn" /\ t \in col'[n]["orphan"].tasks

\* A turn's collector is spawned, or finds nothing to claim.
Claiming(n) ==
  LET mine == {t \in Mine(n) : mem[t].claim = Nobody} IN
  /\ owes[n] = "collect" /\ owes' = [owes EXCEPT ![n] = "nothing"]
  /\ mem' \in [Tasks -> Entry] /\ col' \in [Turn -> [Kind -> Collector]]
  /\ \A t \in Tasks :
       /\ mem'[t].run = mem[t].run /\ mem'[t].owner = mem[t].owner
       /\ mem'[t].holds = mem[t].holds
       /\ mem'[t].claim = IF t \in mine THEN n ELSE mem[t].claim
  /\ \A m \in Turn, c \in Kind : m # n \/ c # "turn" => col'[m][c] = col[m][c]
  /\ \/ mine = {} /\ col' = col
     \/ col'[n]["turn"] = [phase |-> "wait", tasks |-> mine, taken |-> {}]

\* The entries of a set of tasks leave the registry.
Leaving(T) ==
  /\ mem' \in [Tasks -> Entry]
  /\ \A t \in Tasks : mem'[t] = IF t \in T THEN NoEntry ELSE mem[t]

\* One batch leaves its collector.
Leaves(n, kind, x) ==
  /\ col' \in [Turn -> [Kind -> Collector]]
  /\ \A m \in Turn, c \in Kind :
       /\ col'[m][c].phase = col[m][c].phase /\ col'[m][c].tasks = col[m][c].tasks
       /\ col'[m][c].taken =
            IF m = n /\ c = kind THEN col[m][c].taken \ {x} ELSE col[m][c].taken
       /\ m # n \/ c # kind => col'[m][c] = col[m][c]

\* A batch is a collector's.
LEMMA BatchTyped ==
    ASSUME TypeOK, NEW n \in Turn, NEW S \in SUBSET Tasks
    PROVE  Batch(n, S) \in Collector
  <1>1. \A t \in Tasks : [task |-> t, run |-> mem[t].run, holds |-> mem[t].holds] \in Pack
    BY Shapes DEF Entry, Pack
  <1>2. Due(n, S) \subseteq Tasks
    BY DEF Due
  <1> QED
    BY <1>1, <1>2 DEF Batch, Collector

\* The collector's own take.
LEMMA CollectTakes ==
    ASSUME TypeOK, NEW n \in Turn, NEW kind \in Kind, Collect(n, kind)
    PROVE  Taking(n, kind, col[n][kind].tasks)
  <1> DEFINE S == col[n][kind].tasks
  <1>1. S \in SUBSET Tasks
    BY Shapes DEF Collector
  <1>2. Batch(n, S) \in Collector
    BY <1>1, BatchTyped
  <1>3. /\ col[n][kind].phase = "wait" /\ \A t \in Claimed(n, kind) : ~Writes(t)
        /\ mem' = [t \in Tasks |-> IF t \in Due(n, S) THEN [mem[t] EXCEPT !.holds = {}]
                                   ELSE mem[t]]
        /\ col' = [col EXCEPT ![n][kind] = Batch(n, S)]
    BY DEF Collect, Drained
  <1> HIDE DEF S
  <1>4. ASSUME NEW t \in Tasks
        PROVE  /\ mem'[t] \in Entry /\ mem'[t].run = mem[t].run /\ mem'[t].owner = mem[t].owner
               /\ mem'[t].holds = IF t \in Due(n, S) THEN {} ELSE mem[t].holds
               /\ mem'[t].claim = mem[t].claim
    <2>1. mem[t] \in Entry /\ mem'[t] = IF t \in Due(n, S) THEN [mem[t] EXCEPT !.holds = {}]
                                        ELSE mem[t]
      BY <1>3, Shapes
    <2> QED
      BY <2>1 DEF Entry
  <1>5. /\ mem' \in [Tasks -> Entry]
        /\ col' \in [Turn -> [Kind -> Collector]] /\ col'[n][kind] = Batch(n, S)
        /\ \A m \in Turn, c \in Kind : m # n \/ c # kind => col'[m][c] = col[m][c]
    BY <1>2, <1>3, <1>4, Shapes
  <1>6. \A t \in S : mem[t].claim = n => ~Writes(t)
    BY <1>3 DEF S, Claimed
  <1> QED
    BY <1>1, <1>3, <1>4, <1>5, <1>6 DEF Taking, S

\* The take of a collector that hands on what still runs.
LEMMA HandOffTakes ==
    ASSUME TypeOK, NEW n \in Turn, HandOff(n)
    PROVE  Taking(n, "turn", Claimed(n, "turn") \ Pending(n, "turn"))
  <1> DEFINE S == Claimed(n, "turn") \ Pending(n, "turn")
             orphan == [phase |-> "wait", tasks |-> Pending(n, "turn"), taken |-> {}]
  <1>1. /\ col[n]["turn"].tasks \in SUBSET Tasks /\ S \subseteq col[n]["turn"].tasks
        /\ Pending(n, "turn") \in SUBSET Tasks
    BY Shapes DEF Collector, Claimed, Pending
  <1>2. Batch(n, S) \in Collector /\ orphan \in Collector
    BY <1>1, BatchTyped DEF Collector
  <1>3. /\ col[n]["turn"].phase = "wait"
        /\ mem' = [t \in Tasks |-> IF t \in Due(n, S) THEN [mem[t] EXCEPT !.holds = {}]
                                   ELSE mem[t]]
        /\ col' = [col EXCEPT ![n] = [turn |-> Batch(n, S), orphan |-> orphan]]
    BY DEF HandOff, Drained
  <1>4. \A t \in S : ~Writes(t)
    BY DEF Pending
  <1>5. \A t \in col[n]["turn"].tasks \ S : mem[t].claim = n => t \in orphan.tasks
    BY DEF Pending, Claimed
  <1>6. orphan.tasks = Pending(n, "turn")
    OBVIOUS
  <1>7. [turn |-> Batch(n, S), orphan |-> orphan] \in [Kind -> Collector]
    BY <1>2
  <1> HIDE DEF S, orphan
  <1>8. ASSUME NEW t \in Tasks
        PROVE  /\ mem'[t] \in Entry /\ mem'[t].run = mem[t].run /\ mem'[t].owner = mem[t].owner
               /\ mem'[t].holds = IF t \in Due(n, S) THEN {} ELSE mem[t].holds
               /\ mem'[t].claim = mem[t].claim
    <2>1. mem[t] \in Entry /\ mem'[t] = IF t \in Due(n, S) THEN [mem[t] EXCEPT !.holds = {}]
                                        ELSE mem[t]
      BY <1>3, Shapes
    <2> QED
      BY <2>1 DEF Entry
  <1>9. /\ mem' \in [Tasks -> Entry]
        /\ col' \in [Turn -> [Kind -> Collector]]
        /\ col'[n]["turn"] = Batch(n, S) /\ col'[n]["orphan"] = orphan
        /\ \A m \in Turn, c \in Kind : m # n => col'[m][c] = col[m][c]
    BY <1>3, <1>7, <1>8, Shapes
  <1>10. \A m \in Turn, c \in Kind : m # n \/ c # "turn" =>
           \/ col'[m][c] = col[m][c]
           \/ /\ m = n /\ "turn" = "turn" /\ c = "orphan"
              /\ col'[m][c] = [phase |-> "wait", tasks |-> Pending(n, "turn"), taken |-> {}]
    BY <1>9 DEF orphan
  <1> QED
    BY <1>1, <1>3, <1>4, <1>5, <1>8, <1>9, <1>10 DEF Taking, S

\* The take of an orphan collector at its deadline.
LEMMA GiveUpTakes ==
    ASSUME TypeOK, NEW n \in Turn, GiveUp(n)
    PROVE  Taking(n, "orphan", Claimed(n, "orphan") \ Pending(n, "orphan"))
  <1> DEFINE S == Claimed(n, "orphan") \ Pending(n, "orphan")
  <1>1. /\ col[n]["orphan"].tasks \in SUBSET Tasks /\ S \subseteq col[n]["orphan"].tasks
        /\ Pending(n, "orphan") \in SUBSET Tasks
    BY Shapes DEF Collector, Claimed, Pending
  <1>2. Batch(n, S) \in Collector
    BY <1>1, BatchTyped
  <1>3. /\ col[n]["orphan"].phase = "wait"
        /\ mem' = [t \in Tasks |->
                     IF t \in Pending(n, "orphan") THEN [mem[t] EXCEPT !.claim = Nobody]
                     ELSE Drained(n, S)[t]]
        /\ col' = [col EXCEPT ![n]["orphan"] = Batch(n, S)]
    BY DEF GiveUp
  <1>4. \A t \in S : ~Writes(t)
    BY DEF Pending
  <1>5. /\ \A t \in col[n]["orphan"].tasks \ S : mem[t].claim = n => t \in Pending(n, "orphan")
        /\ \A t \in Pending(n, "orphan") : t \notin Due(n, S)
    BY DEF Pending, Claimed, Due
  <1> HIDE DEF S
  <1>6. ASSUME NEW t \in Tasks
        PROVE  /\ mem'[t] \in Entry /\ mem'[t].run = mem[t].run /\ mem'[t].owner = mem[t].owner
               /\ mem'[t].holds = IF t \in Due(n, S) THEN {} ELSE mem[t].holds
               /\ mem'[t].claim = IF t \in Pending(n, "orphan") THEN Nobody ELSE mem[t].claim
    <2>1. mem[t] \in Entry /\ mem'[t] = IF t \in Pending(n, "orphan")
                                        THEN [mem[t] EXCEPT !.claim = Nobody]
                                        ELSE IF t \in Due(n, S) THEN [mem[t] EXCEPT !.holds = {}]
                                        ELSE mem[t]
      BY <1>3, Shapes DEF Drained
    <2> QED
      BY <1>5, <2>1 DEF Entry
  <1>7. /\ mem' \in [Tasks -> Entry]
        /\ col' \in [Turn -> [Kind -> Collector]] /\ col'[n]["orphan"] = Batch(n, S)
        /\ \A m \in Turn, c \in Kind : m # n \/ c # "orphan" => col'[m][c] = col[m][c]
    BY <1>2, <1>3, <1>6, Shapes
  <1>8. \A t \in col[n]["orphan"].tasks \ S : mem'[t].claim # n
    <2> TAKE t \in col[n]["orphan"].tasks \ S
    <2>1. t \in Tasks
      BY <1>1
    <2> QED
      BY <1>5, <1>6, <2>1
  <1> QED
    BY <1>1, <1>3, <1>4, <1>6, <1>7, <1>8 DEF Taking, S

\* Every take moves records from entries into one collector's batch.
LEMMA TakeEffect ==
    ASSUME TypeOK, TakeAct
    PROVE  \E n \in Turn, kind \in Kind : \E S : Taking(n, kind, S)
  <1>1. CASE \E n \in Turn, kind \in Kind : Collect(n, kind)
    BY <1>1, CollectTakes
  <1>2. CASE \E n \in Turn : HandOff(n)
    BY <1>2, HandOffTakes
  <1>3. CASE \E n \in Turn : GiveUp(n)
    BY <1>3, GiveUpTakes
  <1> QED
    BY <1>1, <1>2, <1>3 DEF TakeAct

\* spawn_subagent_collector claims entries and starts a collector.
LEMMA SpawnEffect ==
    ASSUME TypeOK, NEW n \in Turn, SpawnCollector(n)
    PROVE  Claiming(n)
  <1> DEFINE mine == {t \in Mine(n) : mem[t].claim = Nobody}
             own == [phase |-> "wait", tasks |-> mine, taken |-> {}]
  <1>1. mine \in SUBSET Tasks
    BY DEF Mine
  <1>2. own \in Collector
    BY <1>1 DEF Collector
  <1>3. /\ owes[n] = "collect" /\ owes' = [owes EXCEPT ![n] = "nothing"]
        /\ mem' = [t \in Tasks |-> IF t \in mine THEN [mem[t] EXCEPT !.claim = n] ELSE mem[t]]
        /\ col' = IF mine = {} THEN col ELSE [col EXCEPT ![n]["turn"] = own]
    BY DEF SpawnCollector
  <1> HIDE DEF own, mine
  <1>4. ASSUME NEW t \in Tasks
        PROVE  /\ mem'[t] \in Entry /\ mem'[t].run = mem[t].run /\ mem'[t].owner = mem[t].owner
               /\ mem'[t].holds = mem[t].holds
               /\ mem'[t].claim = IF t \in mine THEN n ELSE mem[t].claim
    <2>1. mem[t] \in Entry /\ mem'[t] = IF t \in mine THEN [mem[t] EXCEPT !.claim = n]
                                        ELSE mem[t]
      BY <1>3, Shapes
    <2> QED
      BY <2>1 DEF Entry
  <1>5. mem' \in [Tasks -> Entry]
    BY <1>3, <1>4
  <1>6. /\ col' \in [Turn -> [Kind -> Collector]]
        /\ \A m \in Turn, c \in Kind : m # n \/ c # "turn" => col'[m][c] = col[m][c]
        /\ \/ mine = {} /\ col' = col
           \/ col'[n]["turn"] = own
    BY <1>2, <1>3, Shapes
  <1> QED
    BY <1>3, <1>4, <1>5, <1>6 DEF Claiming, mine, own

\* An evicted entry is one of the registry's.
LEMMA NoEntryTyped == NoEntry \in Entry
  BY DEF Entry

\* Evicting entries leaves the registry typed.
LEMMA LeavingTyped ==
    ASSUME TypeOK, NEW T, mem' = [t \in Tasks |-> IF t \in T THEN NoEntry ELSE mem[t]]
    PROVE  Leaving(T)
  <1>1. \A t \in Tasks : mem[t] \in Entry
    BY Shapes
  <1> QED
    BY <1>1, NoEntryTyped DEF Leaving

\* A usage row, written or not, ends one pack of one batch.
LEMMA PersistLeaves ==
    ASSUME TypeOK, NEW n \in Turn, NEW kind \in Kind, NEW x,
           Persist(n, kind, x) \/ PersistFails(n, kind, x)
    PROVE  Leaves(n, kind, x)
  <1> DEFINE rest == [col[n][kind] EXCEPT !.taken = @ \ {x}]
  <1>1. col[n][kind] \in Collector
    BY Shapes
  <1>2. /\ rest \in Collector /\ rest.phase = col[n][kind].phase
        /\ rest.tasks = col[n][kind].tasks /\ rest.taken = col[n][kind].taken \ {x}
    BY <1>1 DEF Collector
  <1>3. col' = [col EXCEPT ![n][kind] = rest]
    BY DEF Persist, PersistFails
  <1>4. rest \in Collector
    BY <1>2
  <1> HIDE DEF rest
  <1>5. /\ col' \in [Turn -> [Kind -> Collector]] /\ col'[n][kind] = rest
        /\ \A m \in Turn, c \in Kind : m # n \/ c # kind => col'[m][c] = col[m][c]
    BY <1>3, <1>4, Shapes
  <1>6. ASSUME NEW m \in Turn, NEW c \in Kind
        PROVE  /\ col'[m][c].phase = col[m][c].phase /\ col'[m][c].tasks = col[m][c].tasks
               /\ col'[m][c].taken =
                    IF m = n /\ c = kind THEN col[m][c].taken \ {x} ELSE col[m][c].taken
               /\ m # n \/ c # kind => col'[m][c] = col[m][c]
    <2>1. CASE m = n /\ c = kind
      BY <1>2, <1>5, <2>1
    <2>2. CASE m # n \/ c # kind
      BY <1>5, <2>2
    <2> QED
      BY <2>1, <2>2
  <1> QED
    BY <1>5, <1>6 DEF Leaves

\* The end of a collector evicts its tasks and touches no other collector.
LEMMA CleanupEffect ==
    ASSUME TypeOK, NEW n \in Turn, NEW kind \in Kind, Cleanup(n, kind)
    PROVE  /\ Leaving(Claimed(n, kind)) /\ col'[n][kind] = Idle
           /\ col' \in [Turn -> [Kind -> Collector]]
           /\ \A m \in Turn, c \in Kind : m # n \/ c # kind => col'[m][c] = col[m][c]
  <1>1. Leaving(Claimed(n, kind))
    BY LeavingTyped DEF Cleanup
  <1>2. Idle \in Collector
    BY DEF Collector
  <1>3. col' = [col EXCEPT ![n][kind] = Idle]
    BY DEF Cleanup
  <1> HIDE DEF Idle
  <1> QED
    BY <1>1, <1>2, <1>3, Shapes

\* A crash empties the registry and every collector.
LEMMA CrashEffect ==
    ASSUME TypeOK, Crash
    PROVE  /\ Leaving(Tasks) /\ owes' = [n \in Turn |-> "nothing"]
           /\ \A n \in Turn, kind \in Kind : col'[n][kind] = Idle
           /\ col' \in [Turn -> [Kind -> Collector]]
  <1>1. mem' = [t \in Tasks |-> IF t \in Tasks THEN NoEntry ELSE mem[t]]
    BY DEF Crash
  <1>2. Idle \in Collector
    BY DEF Collector
  <1> HIDE DEF Idle
  <1> QED
    BY <1>1, <1>2, LeavingTyped DEF Crash

\* A crash loses what entries and batches had.
LEMMA CrashLoses ==
    ASSUME Crash, NEW k
    PROVE  k \in lost' <=> k \in lost \/ Held(k) \/ Taken(k)
  <1> DEFINE g(n, kind) == UNION {x.holds : x \in col[n][kind].taken}
             A == UNION {mem[t].holds : t \in Tasks}
             B == UNION {g(n, kind) : n \in Turn, kind \in Kind}
  <1>1. lost' = lost \cup A \cup B
    BY DEF Crash
  <1>2. k \in A <=> \E t \in Tasks : k \in mem[t].holds
    OBVIOUS
  <1>3. \A n \in Turn, kind \in Kind :
          k \in g(n, kind) <=> \E x \in col[n][kind].taken : k \in x.holds
    OBVIOUS
  <1>4. k \in B <=> \E n \in Turn, kind \in Kind : k \in g(n, kind)
    <2> HIDE DEF g
    <2>1. ASSUME k \in B PROVE \E n \in Turn, kind \in Kind : k \in g(n, kind)
      <3>1. PICK y \in {g(n, kind) : n \in Turn, kind \in Kind} : k \in y
        BY <2>1
      <3>2. PICK n \in Turn, kind \in Kind : y = g(n, kind)
        BY <3>1
      <3> QED
        BY <3>1, <3>2
    <2>2. ASSUME NEW n \in Turn, NEW kind \in Kind, k \in g(n, kind) PROVE k \in B
      <3>1. g(n, kind) \in {g(m, c) : m \in Turn, c \in Kind}
        OBVIOUS
      <3> QED
        BY <2>2, <3>1
    <2> QED
      BY <2>1, <2>2
  <1>5. k \in B <=> \E n \in Turn, kind \in Kind : \E x \in col[n][kind].taken : k \in x.holds
    <2> HIDE DEF B, g
    <2> QED
      BY <1>3, <1>4
  <1> HIDE DEF A, B, g
  <1>6. (k \in A <=> Held(k)) /\ (k \in B <=> Taken(k))
    BY <1>2, <1>5, Zenon DEF Held, Taken
  <1> QED
    BY <1>1, <1>6

\* A killed turn loses what its entries had.
LEMMA EvictLoses ==
    ASSUME NEW n \in Turn, Evict(n), NEW k
    PROVE  k \in lost' <=> k \in lost \/ \E t \in Mine(n) : k \in mem[t].holds
  <1> DEFINE A == UNION {mem[t].holds : t \in Mine(n)}
  <1>1. lost' = lost \cup A
    BY DEF Evict
  <1>2. k \in A <=> \E t \in Mine(n) : k \in mem[t].holds
    OBVIOUS
  <1> HIDE DEF A
  <1> QED
    BY <1>1, <1>2

\* The opening of a run: where it comes from, and its entry.
Opens(t) ==
  /\ LiveTurn /\ ~adrift /\ RowOpened(t, latest[t])
  /\ \A k \in RunsOf(t) : ~Running(k)
  /\ \A u \in Tasks : latest'[u] = IF u = t THEN Len(runs) + 1 ELSE latest[u]
  /\ mem' \in [Tasks -> Entry] /\ \A u \in Tasks : u # t => mem'[u] = mem[u]
  /\ mem'[t] = [run |-> Len(runs) + 1, holds |-> mem[t].holds, owner |-> Current,
                claim |-> Nobody]

\* A launch opens the first run of a task.
LEMMA LaunchOpens ==
    ASSUME TypeOK, LatestNewest, NEW t \in Tasks, Launch(t)
    PROVE  Opens(t)
  <1>1. /\ LiveTurn /\ ~adrift /\ Len(runs) < MaxRuns /\ NewRun(t, Nobody)
        /\ latest[t] = Nobody /\ mem[t] = NoEntry
        /\ mem' = [mem EXCEPT ![t] = [run |-> Len(runs) + 1, holds |-> {}, owner |-> Current,
                                      claim |-> Nobody]]
    BY DEF Launch
  <1>2. RowOpened(t, latest[t])
    BY <1>1, RowOpens
  <1>3. RunsOf(t) = {}
    BY <1>1, Shapes DEF LatestNewest, Newest, RunsOf
  <1>4. latest' = [latest EXCEPT ![t] = Len(runs) + 1] /\ latest \in [Tasks -> {Nobody} \cup Run]
    BY <1>1 DEF NewRun, TypeOK
  <1> DEFINE e == [run |-> Len(runs) + 1, holds |-> mem[t].holds, owner |-> Current,
                   claim |-> Nobody]
  <1>5. e \in Entry /\ mem' = [mem EXCEPT ![t] = e]
    <2>1. e = [run |-> Len(runs) + 1, holds |-> {}, owner |-> Current, claim |-> Nobody]
      BY <1>1
    <2>2. Len(runs) + 1 \in Run
      BY <1>2 DEF RowOpened
    <2> QED
      BY <1>1, <2>1, <2>2, LiveCurrent DEF Entry
  <1> HIDE DEF e
  <1>6. mem' \in [Tasks -> Entry] /\ mem'[t] = e /\ \A u \in Tasks : u # t => mem'[u] = mem[u]
    BY <1>5, Shapes
  <1> QED
    BY <1>1, <1>2, <1>3, <1>4, <1>6 DEF Opens, e

\* A resume opens a run of a task that nobody writes for.
LEMMA ResumeOpens ==
    ASSUME TypeOK, NEW t \in Tasks, Resume(t)
    PROVE  Opens(t) /\ ~Writes(t)
  <1>1. /\ LiveTurn /\ ~adrift /\ Len(runs) < MaxRuns /\ NewRun(t, latest[t]) /\ ~Writes(t)
        /\ \A k \in RunsOf(t) : ~Running(k)
        /\ mem' = [mem EXCEPT ![t] = [run |-> Len(runs) + 1, holds |-> mem[t].holds,
                                      owner |-> Current, claim |-> Nobody]]
    BY DEF Resume
  <1>2. latest[t] \in Nat
    BY Shapes DEF TypeOK
  <1>3. RowOpened(t, latest[t])
    BY <1>1, <1>2, RowOpens
  <1>4. latest' = [latest EXCEPT ![t] = Len(runs) + 1] /\ latest \in [Tasks -> {Nobody} \cup Run]
    BY <1>1 DEF NewRun, TypeOK
  <1> DEFINE e == [run |-> Len(runs) + 1, holds |-> mem[t].holds, owner |-> Current,
                   claim |-> Nobody]
  <1>5. e \in Entry /\ mem' = [mem EXCEPT ![t] = e]
    <2>1. Len(runs) + 1 \in Run
      BY <1>3 DEF RowOpened
    <2>2. mem[t] \in Entry
      BY Shapes
    <2> QED
      BY <1>1, <2>1, <2>2, LiveCurrent DEF Entry
  <1> HIDE DEF e
  <1>6. mem' \in [Tasks -> Entry] /\ mem'[t] = e /\ \A u \in Tasks : u # t => mem'[u] = mem[u]
    BY <1>5, Shapes
  <1> QED
    BY <1>1, <1>3, <1>4, <1>6 DEF Opens, e

\* The end of a run by its writer: its records are in the entry.
Finishes(t) ==
  /\ Writes(t) /\ RowClosed(mem[t].run)
  /\ mem' \in [Tasks -> Entry] /\ \A u \in Tasks : u # t => mem'[u] = mem[u]
  /\ mem'[t].run = mem[t].run /\ mem'[t].owner = mem[t].owner /\ mem'[t].claim = mem[t].claim
  /\ mem'[t].holds = mem[t].holds \cup {mem[t].run}

\* A writer that settles its run puts the records into the entry.
LEMMA FinishEffect ==
    ASSUME TypeOK, NEW t \in Tasks, NEW s \in {"ended", "cancelled"}, Finish(t, s)
    PROVE  Finishes(t)
  <1> DEFINE k == mem[t].run
             e == [mem[t] EXCEPT !.holds = @ \cup {k}]
  <1>1. /\ Running(k) /\ mem' = [mem EXCEPT ![t] = e]
        /\ runs' = [runs EXCEPT ![k].status = IF k \in stamped THEN "cancelled" ELSE s]
    BY DEF Finish, Writes
  <1>2. RowClosed(k)
    BY <1>1, RowCloses
  <1>3. k \in Run
    BY <1>1, Shapes DEF Running
  <1>4. /\ e \in Entry /\ e.run = k /\ e.owner = mem[t].owner /\ e.claim = mem[t].claim
        /\ e.holds = mem[t].holds \cup {k}
    <2>1. mem[t] \in Entry
      BY Shapes
    <2> QED
      BY <1>3, <2>1 DEF Entry
  <1> HIDE DEF e
  <1>5. mem' \in [Tasks -> Entry] /\ mem'[t] = e /\ \A u \in Tasks : u # t => mem'[u] = mem[u]
    BY <1>1, <1>4, Shapes
  <1> QED
    BY <1>1, <1>2, <1>4, <1>5 DEF Finishes, Writes

\* Recovery settles the run of a dead process, whose records are lost.
LEMMA RecoverEffect ==
    ASSUME TypeOK, NEW k \in Run, RecoverRun(k)
    PROVE  /\ RowClosed(k) /\ \A t \in Tasks : mem[t].run # k
           /\ lost' = lost \cup {k}
  <1>1. /\ Running(k) /\ lost' = lost \cup {k} /\ \A t \in Tasks : mem[t].run # k
        /\ runs' = [runs EXCEPT ![k].status = IF k \in stamped THEN "cancelled" ELSE "ended"]
    BY DEF RecoverRun
  <1>2. RowClosed(k)
    BY <1>1, RowCloses
  <1> QED
    BY <1>1, <1>2

-----------------------------------------------------------------------------
(* Type correctness. *)

\* The initial state is well typed.
LEMMA TypeInit == Init => TypeOK
  <1> SUFFICES ASSUME Init PROVE TypeOK
    OBVIOUS
  <1>1. /\ MaxTurns \in Nat /\ MaxRuns \in Nat /\ MaxTrouble \in Nat
        /\ turns \in Seq(TurnStatus) /\ Len(turns) = 0 /\ runs \in Seq(Row) /\ Len(runs) = 0
    BY BoundsAssumption DEF Init
  <1>2. mem \in [Tasks -> Entry]
    BY NoEntryTyped DEF Init
  <1>3. Idle \in Collector
    BY DEF Collector
  <1>4. col \in [Turn -> [Kind -> Collector]]
    BY <1>3 DEF Init
  <1>5. /\ mem \in [Tasks -> [run : {Nobody} \cup Run, holds : SUBSET Run,
                             owner : {Nobody} \cup Turn, claim : {Nobody} \cup Turn]]
        /\ col \in [Turn -> [Kind -> [phase : {"idle", "wait", "bill"}, tasks : SUBSET Tasks,
                taken : SUBSET [task : Tasks, run : {Nobody} \cup Run, holds : SUBSET Run]]]]
    BY <1>2, <1>4 DEF Entry, Collector, Pack
  <1>6. /\ turns \in Seq({"live", "done", "dead", "gone"}) /\ Len(turns) <= MaxTurns
        /\ runs \in Seq([task : Tasks, status : {"in_progress", "ended", "cancelled", "gone"},
                          parent : Turn, pred : Nat]) /\ Len(runs) <= MaxRuns
    BY <1>1 DEF TurnStatus, Row
  <1>7. /\ owes \in [Turn -> {"nothing", "collect", "kill", "evict"}] /\ adrift \in BOOLEAN
        /\ stamped \subseteq Run /\ latest \in [Tasks -> {Nobody} \cup Run]
        /\ settled \subseteq Run /\ billed \in [Run -> Nat] /\ lost \subseteq Run
        /\ aged \in [turns : SUBSET Turn, runs : SUBSET Run] /\ trouble \in 0 .. MaxTrouble
    <2>1. aged \in [turns : SUBSET Turn, runs : SUBSET Run]
      BY DEF Init
    <2>2. /\ owes \in [Turn -> {"nothing", "collect", "kill", "evict"}]
          /\ latest \in [Tasks -> {Nobody} \cup Run] /\ billed \in [Run -> Nat]
      BY DEF Init
    <2>3. stamped = {} /\ settled = {} /\ lost = {} /\ trouble \in 0 .. MaxTrouble
      BY <1>1 DEF Init
    <2>4. adrift \in BOOLEAN
      BY DEF Init
    <2> QED
      BY <2>1, <2>2, <2>3, <2>4
  <1> QED
    BY <1>5, <1>6, <1>7 DEF TypeOK

\* The surviving runs of a task are rows.
LEMMA RunsTyped ==
    ASSUME TypeOK, NEW t \in Tasks
    PROVE  RunsOf(t) \in SUBSET (1 .. Len(runs))
  BY Shapes DEF RunsOf

\* The newest of some rows is a run, of none it is nobody.
LEMMA RecentTyped ==
    ASSUME TypeOK, NEW S \in SUBSET (1 .. Len(runs))
    PROVE  RECENT(S) \in {Nobody} \cup Run
  <1>1. CASE S = {}
    BY <1>1 DEF RECENT
  <1>2. CASE S # {}
    BY <1>2, RecentLast, Shapes
  <1> QED
    BY <1>1, <1>2

\* Every step keeps the types.
LEMMA TypeStep == TypeOK /\ [Next]_vars => TypeOK'
  <1> SUFFICES ASSUME TypeOK, [Next]_vars PROVE TypeOK'
    OBVIOUS
  <1>1. turns' \in Seq(TurnStatus) /\ Len(turns') <= MaxTurns
    <2>1. turns \in Seq(TurnStatus) /\ Len(turns) <= MaxTurns /\ Len(turns) \in Nat
          /\ MaxTurns \in Nat
      BY Shapes DEF TypeOK, TurnStatus
    <2>2. CASE StartTurn
      BY <2>1, <2>2, StartTurnEffect DEF TurnOpened, Current
    <2>3. CASE \E cut \in Turn : Fork(cut)
      BY <2>1, <2>3, ForkEffect DEF TurnOpened, Current
    <2>4. ASSUME NEW s \in {"done", "dead"}, EndTurn(s)
          PROVE  turns' \in Seq(TurnStatus) /\ Len(turns') <= MaxTurns
      BY <2>1, <2>4, TurnCloses DEF EndTurn, TurnStatus, TurnClosed, Current
    <2>5. CASE RecoverTurn
      BY <2>1, <2>5, TurnCloses DEF RecoverTurn, TurnStatus, TurnClosed, Current
    <2> QED
      BY <2>1, <2>2, <2>3, <2>4, <2>5, Frame DEF TurnAct
  <1>2. owes' \in [Turn -> {"nothing", "collect", "kill", "evict"}]
    <2>1. owes \in [Turn -> {"nothing", "collect", "kill", "evict"}]
      BY DEF TypeOK
    <2>2. CASE \E s \in {"done", "dead"} : EndTurn(s)
      BY <2>1, <2>2 DEF EndTurn
    <2>3. CASE Crash
      BY <2>3 DEF Crash
    <2>4. CASE \E n \in Turn : Kill(n)
      BY <2>1, <2>4 DEF Kill
    <2>5. CASE \E n \in Turn : Evict(n)
      BY <2>1, <2>5 DEF Evict
    <2>6. CASE \E n \in Turn : SpawnCollector(n)
      BY <2>1, <2>6 DEF SpawnCollector
    <2> QED
      BY <2>1, <2>2, <2>3, <2>4, <2>5, <2>6, Frame DEF OwesAct
  <1>3. adrift' \in BOOLEAN
    <2>1. LiveTurn \in BOOLEAN /\ adrift \in BOOLEAN
      BY DEF TypeOK, LiveTurn
    <2>2. CASE Crash
      BY <2>1, <2>2 DEF Crash
    <2>3. CASE RecoverTurn
      BY <2>3 DEF RecoverTurn
    <2> QED
      BY <2>1, <2>2, <2>3, Frame
  <1>4. OpenAct => \E t \in Tasks : \E p : RowOpened(t, p) /\ LiveTurn
          /\ latest' = [latest EXCEPT ![t] = Len(runs) + 1] /\ Len(runs) < MaxRuns
    <2> SUFFICES ASSUME NEW t \in Tasks, Launch(t) \/ Resume(t)
                 PROVE  \E p : RowOpened(t, p) /\ LiveTurn
                          /\ latest' = [latest EXCEPT ![t] = Len(runs) + 1] /\ Len(runs) < MaxRuns
      BY DEF OpenAct
    <2>1. latest[t] \in Nat /\ Nobody \in Nat
      BY Shapes DEF TypeOK
    <2>2. /\ LiveTurn /\ Len(runs) < MaxRuns
          /\ NewRun(t, Nobody) \/ NewRun(t, latest[t])
      BY DEF Launch, Resume
    <2>3. latest' = [latest EXCEPT ![t] = Len(runs) + 1]
      BY <2>2 DEF NewRun
    <2> QED
      BY <2>1, <2>2, <2>3, RowOpens
  <1>5. CloseAct => \E k : RowClosed(k)
    BY RecoverEffect, FinishEffect DEF CloseAct, Finishes
  <1>6. runs' \in Seq(Row) /\ Len(runs') <= MaxRuns
    <2>1. runs \in Seq(Row) /\ Len(runs) <= MaxRuns /\ Len(runs) \in Nat /\ MaxRuns \in Nat
      BY Shapes DEF TypeOK, Row
    <2>2. CASE \E cut \in Turn : Fork(cut)
      BY <2>1, <2>2, ForkEffect DEF RowsCut
    <2>3. CASE OpenAct
      <3>1. PICK t \in Tasks : \E p : RowOpened(t, p) /\ LiveTurn
              /\ latest' = [latest EXCEPT ![t] = Len(runs) + 1] /\ Len(runs) < MaxRuns
        BY <2>3, <1>4
      <3> QED
        BY <2>1, <3>1 DEF RowOpened
    <2>4. CASE CloseAct
      BY <2>1, <2>4, <1>5 DEF RowClosed
    <2> QED
      BY <2>1, <2>2, <2>3, <2>4, Frame DEF RowAct
  <1>7. latest' \in [Tasks -> {Nobody} \cup Run]
    <2>1. latest \in [Tasks -> {Nobody} \cup Run]
      BY DEF TypeOK
    <2>2. CASE \E cut \in Turn : Fork(cut)
      <3>1. PICK cut \in Turn : Fork(cut)
        BY <2>2
      <3>2. latest' = [t \in Tasks |-> IF latest[t] \in Doomed(cut)
                         THEN RECENT(RunsOf(t) \ Doomed(cut)) ELSE latest[t]]
        BY <3>1, ForkEffect
      <3>3. \A t \in Tasks : RECENT(RunsOf(t) \ Doomed(cut)) \in {Nobody} \cup Run
        <4> TAKE t \in Tasks
        <4>1. RunsOf(t) \ Doomed(cut) \in SUBSET (1 .. Len(runs))
          BY RunsTyped
        <4> QED
          BY <4>1, RecentTyped
      <3> QED
        BY <2>1, <3>2, <3>3
    <2>3. CASE OpenAct
      BY <2>1, <2>3, <1>4 DEF RowOpened
    <2> QED
      BY <2>1, <2>2, <2>3, Frame
  <1>8. settled' \subseteq Run
    <2>1. settled \subseteq Run /\ \A k : Chain(k) \subseteq Run
      BY Shapes DEF TypeOK, Chain, Rows
    <2>2. CASE \E cut \in Turn : Fork(cut)
      BY <2>1, <2>2, ForkEffect
    <2>3. CASE PersistAct
      BY <2>1, <2>3 DEF PersistAct, Persist, SettledBy
    <2>4. CASE Sweep
      BY <2>1, <2>4, Shapes DEF Sweep, Abandoned
    <2> QED
      BY <2>1, <2>2, <2>3, <2>4, Frame
  <1>9. billed' \in [Run -> Nat]
    <2>1. billed \in [Run -> Nat]
      BY DEF TypeOK
    <2>2. CASE PersistAct
      BY <2>1, <2>2 DEF PersistAct, Persist
    <2> QED
      BY <2>1, <2>2, Frame
  <1>10. /\ \A n \in Turn, kind \in Kind : \A x \in col[n][kind].taken : x.holds \subseteq Run
         /\ \A t \in Tasks : mem[t].holds \subseteq Run
    <2>1. ASSUME NEW n \in Turn, NEW kind \in Kind, NEW x \in col[n][kind].taken
          PROVE  x.holds \subseteq Run
      <3>1. col[n][kind] \in Collector
        BY Shapes
      <3>2. x \in Pack
        BY <3>1 DEF Collector
      <3> QED
        BY <3>2 DEF Pack
    <2>2. ASSUME NEW t \in Tasks PROVE mem[t].holds \subseteq Run
      <3>1. mem[t] \in Entry
        BY Shapes
      <3> QED
        BY <3>1 DEF Entry
    <2> QED
      BY <2>1, <2>2
  <1>11. lost' \subseteq Run
    <2>1. lost \subseteq Run
      BY DEF TypeOK
    <2>2. CASE \E cut \in Turn : Fork(cut)
      BY <2>1, <2>2, ForkEffect
    <2>3. CASE Crash
      BY <2>1, <2>3, <1>10, CrashLoses DEF Held, Taken
    <2>4. CASE FailAct
      BY <2>1, <2>4, <1>10 DEF FailAct, PersistFails
    <2>5. CASE \E n \in Turn : Evict(n)
      BY <2>1, <2>5, <1>10, EvictLoses DEF Mine
    <2>6. CASE \E k \in Run : RecoverRun(k)
      BY <2>1, <2>6 DEF RecoverRun
    <2> QED
      BY <2>1, <2>2, <2>3, <2>4, <2>5, <2>6, Frame
  <1>12. aged' \in [turns : SUBSET Turn, runs : SUBSET Run]
    <2>1. aged \in [turns : SUBSET Turn, runs : SUBSET Run]
      BY DEF TypeOK
    <2>2. CASE \E cut \in Turn : Fork(cut)
      BY <2>1, <2>2, ForkEffect
    <2>3. CASE PersistAct
      BY <2>1, <2>3 DEF PersistAct, Persist
    <2>4. CASE GracePasses
      BY <2>1, <2>4, Shapes DEF GracePasses
    <2>5. CASE Sweep
      BY <2>1, <2>5 DEF Sweep
    <2> QED
      BY <2>1, <2>2, <2>3, <2>4, <2>5, Frame
  <1>13. mem' \in [Tasks -> Entry]
    <2>1. mem \in [Tasks -> Entry]
      BY Shapes
    <2>2. CASE TakeAct
      BY <2>2, TakeEffect DEF Taking
    <2>3. CASE \E n \in Turn : SpawnCollector(n)
      BY <2>3, SpawnEffect DEF Claiming
    <2>4. CASE \E n \in Turn, kind \in Kind : Cleanup(n, kind)
      BY <2>4, CleanupEffect DEF Leaving
    <2>5. CASE Crash
      BY <2>5, CrashEffect DEF Leaving
    <2>6. ASSUME NEW t \in Tasks, Launch(t) \/ Resume(t) PROVE mem' \in [Tasks -> Entry]
      <3> DEFINE e == [run |-> Len(runs) + 1, holds |-> mem[t].holds, owner |-> Current,
                       claim |-> Nobody]
                 f == [run |-> Len(runs) + 1, holds |-> {}, owner |-> Current,
                       claim |-> Nobody]
      <3>1. mem' = [mem EXCEPT ![t] = e] \/ mem' = [mem EXCEPT ![t] = f]
        BY <2>6 DEF Launch, Resume
      <3>2. Len(runs) + 1 \in Run /\ Current \in Turn
        BY <2>6, <1>4, LiveCurrent DEF OpenAct, RowOpened
      <3>3. mem[t] \in Entry
        BY Shapes
      <3>4. e \in Entry /\ f \in Entry
        BY <3>2, <3>3 DEF Entry
      <3> HIDE DEF e, f
      <3> QED
        BY <2>1, <3>1, <3>4
    <2>7. CASE \E n \in Turn : Evict(n)
      BY <2>7, LeavingTyped DEF Evict, Leaving
    <2>8. CASE \E t \in Tasks, s \in {"ended", "cancelled"} : Finish(t, s)
      BY <2>8, FinishEffect DEF Finishes
    <2> QED
      BY <2>1, <2>2, <2>3, <2>4, <2>5, <2>6, <2>7, <2>8, Frame DEF MemAct, CollectAct, OpenAct
  <1>14. col' \in [Turn -> [Kind -> Collector]]
    <2>1. col \in [Turn -> [Kind -> Collector]]
      BY Shapes
    <2>2. CASE TakeAct
      BY <2>2, TakeEffect DEF Taking
    <2>3. CASE \E n \in Turn : SpawnCollector(n)
      BY <2>3, SpawnEffect DEF Claiming
    <2>4. CASE \E n \in Turn, kind \in Kind : Cleanup(n, kind)
      BY <2>4, CleanupEffect
    <2>5. CASE Crash
      BY <2>5, CrashEffect
    <2>6. CASE PersistAct \/ FailAct
      BY <2>6, PersistLeaves DEF PersistAct, FailAct, Leaves
    <2> QED
      BY <2>1, <2>2, <2>3, <2>4, <2>5, <2>6, Frame DEF ColAct, CollectAct
  <1>15. trouble' \in 0 .. MaxTrouble
    BY BoundsAssumption, Frame DEF TypeOK, FailAct, PersistFails, Crash, Troubled
  <1>16. stamped' \subseteq Run
    <2>1. stamped \subseteq Run
      BY DEF TypeOK
    <2>2. CASE CloseAct
      BY <2>1, <2>2 DEF CloseAct, RecoverRun, Finish
    <2>3. CASE \E n \in Turn : Kill(n)
      <3>1. \A t \in Tasks : Writes(t) => mem[t].run \in Run
        BY Shapes DEF Writes, Running
      <3> QED
        BY <2>1, <2>3, <3>1 DEF Kill, Mine
    <2> QED
      BY <2>1, <2>2, <2>3, Frame
  <1>17. /\ turns' \in Seq({"live", "done", "dead", "gone"})
         /\ runs' \in Seq([task : Tasks, status : {"in_progress", "ended", "cancelled", "gone"},
                           parent : Turn, pred : Nat])
    BY <1>1, <1>6 DEF TurnStatus, Row
  <1>18. mem' \in [Tasks -> [run : {Nobody} \cup Run, holds : SUBSET Run,
                             owner : {Nobody} \cup Turn, claim : {Nobody} \cup Turn]]
    BY <1>13 DEF Entry
  <1>19. col' \in [Turn -> [Kind -> [phase : {"idle", "wait", "bill"}, tasks : SUBSET Tasks,
                taken : SUBSET [task : Tasks, run : {Nobody} \cup Run, holds : SUBSET Run]]]]
    BY <1>14 DEF Collector, Pack
  <1> QED
    BY <1>1, <1>2, <1>3, <1>6, <1>7, <1>8, <1>9, <1>11, <1>12, <1>15, <1>16, <1>17, <1>18,
       <1>19 DEF TypeOK

\* The model has no ill-typed state.
THEOREM TypeCorrect == Spec => []TypeOK
  <1> QED
    BY TypeInit, TypeStep, PTL DEF Spec

-----------------------------------------------------------------------------
(* Rows, the tasks' pointers and the chains. *)

\* Launch and resume open a row.
LEMMA OpenEffect ==
    ASSUME TypeOK, LatestNewest, OpenAct
    PROVE  \E t \in Tasks : Opens(t)
  BY LaunchOpens, ResumeOpens DEF OpenAct

\* Finish and recovery close one.
LEMMA CloseEffect ==
    ASSUME TypeOK, CloseAct
    PROVE  \E k : RowClosed(k)
  BY RecoverEffect, FinishEffect DEF CloseAct, Finishes

\* What the reads see of a row that opens.
LEMMA OpenedRows ==
    ASSUME TypeOK, NEW t \in Tasks, NEW p, RowOpened(t, p)
    PROVE  /\ Rows' = Rows \cup {Len(runs) + 1}
           /\ \A u \in Tasks : RunsOf(u)' = IF u = t THEN RunsOf(u) \cup {Len(runs) + 1}
                                            ELSE RunsOf(u)
           /\ \A k \in DOMAIN runs : (Running(k)' <=> Running(k)) /\ (Terminal(k)' <=> Terminal(k))
           /\ \A k : k = Len(runs) + 1 => Running(k)' /\ ~Terminal(k)'
  <1>1. Rows' = Rows \cup {Len(runs) + 1}
    BY DEF RowOpened, Rows
  <1>2. \A u \in Tasks : RunsOf(u)' = IF u = t THEN RunsOf(u) \cup {Len(runs) + 1} ELSE RunsOf(u)
    BY DEF RowOpened, RunsOf
  <1>3. /\ \A k \in DOMAIN runs : /\ Running(k)' <=> Running(k)
                                  /\ Terminal(k)' <=> Terminal(k)
        /\ \A k : k = Len(runs) + 1 => Running(k)' /\ ~Terminal(k)'
    <2>1. /\ DOMAIN runs' = DOMAIN runs \cup {Len(runs) + 1} /\ Len(runs') = Len(runs) + 1
          /\ \A k \in DOMAIN runs : runs'[k] = runs[k]
          /\ runs'[Len(runs) + 1].status = "in_progress"
      BY DEF RowOpened
    <2>2. \A k : k = Len(runs) + 1 => Running(k)' /\ ~Terminal(k)'
      BY <2>1 DEF Running, Terminal
    <2> QED
      BY <2>1, <2>2 DEF Running, Terminal
  <1> QED
    BY <1>1, <1>2, <1>3

\* What the reads see of a row that closes.
LEMMA ClosedRows ==
    ASSUME TypeOK, NEW k, RowClosed(k)
    PROVE  /\ Rows' = Rows /\ \A u \in Tasks : RunsOf(u)' = RunsOf(u)
           /\ \A j \in DOMAIN runs : /\ Running(j)' <=> Running(j) /\ j # k
                                     /\ Terminal(j)' <=> Terminal(j) \/ j = k
           /\ Running(k) /\ ~Terminal(k)
           /\ \A j \in DOMAIN runs : /\ runs'[j].task = runs[j].task
                                     /\ runs'[j].parent = runs[j].parent
                                     /\ runs'[j].pred = runs[j].pred
                                     /\ runs'[j].status = "gone" <=> runs[j].status = "gone"
  <1>1. \A j \in DOMAIN runs : /\ runs'[j].task = runs[j].task
                               /\ runs'[j].parent = runs[j].parent
                               /\ runs'[j].pred = runs[j].pred
                               /\ runs'[j].status = "gone" <=> runs[j].status = "gone"
    BY DEF RowClosed
  <1>2. Rows' = Rows
    BY <1>1 DEF Rows, RowClosed
  <1>3. \A u \in Tasks : RunsOf(u)' = RunsOf(u)
    BY <1>1 DEF RunsOf, RowClosed
  <1>4. /\ Running(k) /\ ~Terminal(k)
        /\ \A j \in DOMAIN runs : /\ Running(j)' <=> Running(j) /\ j # k
                                  /\ Terminal(j)' <=> Terminal(j) \/ j = k
    BY DEF Running, Terminal, RowClosed
  <1> QED
    BY <1>1, <1>2, <1>3, <1>4

\* What the reads see of a cut.
LEMMA CutRows ==
    ASSUME TypeOK, NEW cut \in Turn, RowsCut(cut), \A k \in Doomed(cut) : ~Running(k)
    PROVE  /\ Rows' = Rows \ Doomed(cut)
           /\ \A u \in Tasks : RunsOf(u)' = RunsOf(u) \ Doomed(cut)
           /\ \A k \in DOMAIN runs : /\ Running(k)' <=> Running(k)
                                     /\ Terminal(k)' <=> Terminal(k) /\ k \notin Doomed(cut)
  <1>1. Rows' = Rows \ Doomed(cut) /\ \A u \in Tasks : RunsOf(u)' = RunsOf(u) \ Doomed(cut)
    BY DEF RowsCut, Rows, RunsOf, Doomed
  <1> QED
    BY <1>1 DEF RowsCut, Running, Terminal

\* The pointer of a task is its newest surviving row, or nobody.
LEMMA NewestRow ==
    ASSUME TypeOK, LatestNewest, NEW t \in Tasks
    PROVE  /\ latest[t] = Nobody => RunsOf(t) = {}
           /\ latest[t] # Nobody => /\ latest[t] \in DOMAIN runs /\ runs[latest[t]].task = t
                                    /\ runs[latest[t]].status # "gone"
                                    /\ \A j \in RunsOf(t) : j <= latest[t]
  BY Shapes DEF LatestNewest, Newest, RunsOf

\* A new row follows the newest, and a cut takes whole tails of chains.
LEMMA RowsLinkedStep ==
    ASSUME TypeOK, LatestNewest, RowsLinked, [Next]_vars
    PROVE  RowsLinked'
  <1>1. Current \in Nat /\ Current' \in Nat /\ Current <= Current'
    <2>1. CASE \E cut \in Turn : Fork(cut)
      BY <2>1, ForkEffect, Shapes DEF TurnOpened, Current
    <2>2. CASE StartTurn
      BY <2>2, StartTurnEffect, Shapes DEF TurnOpened, Current
    <2>3. CASE EndTurn("done") \/ EndTurn("dead") \/ RecoverTurn
      BY <2>3, TurnCloses, Shapes DEF TurnClosed, Current, EndTurn, RecoverTurn, TurnStatus
    <2> QED
      BY <2>1, <2>2, <2>3, Frame, Shapes DEF TurnAct, Current
  <1>2. CASE runs' = runs
    BY <1>1, <1>2, Shapes DEF RowsLinked, Running, Row
  <1>3. CASE \E cut \in Turn : Fork(cut)
    <2>1. PICK cut \in Turn : Fork(cut)
      BY <1>3
    <2>2. RowsCut(cut) /\ \A k \in Doomed(cut) : ~Running(k)
      BY <2>1, ForkEffect
    <2>3. ASSUME NEW k \in DOMAIN runs, runs'[k].pred # Nobody,
                 runs'[runs'[k].pred].status = "gone"
          PROVE  runs'[k].status = "gone"
      <3>1. /\ runs[k].pred \in DOMAIN runs /\ runs[k].pred < k
            /\ runs[runs[k].pred].parent <= runs[k].parent
        <4>1. runs[k].pred \in Nat /\ runs[k].pred # Nobody /\ runs[k].pred < k
          BY <2>2, <2>3, Shapes DEF RowsLinked, RowsCut, Row
        <4>2. runs[k].pred \in DOMAIN runs /\ runs[k].pred <= k
          BY <4>1, Shapes
        <4> QED
          BY <4>1, <4>2 DEF RowsLinked
      <3>2. CASE runs[runs[k].pred].status = "gone"
        BY <2>2, <2>3, <3>1, <3>2 DEF RowsLinked, RowsCut
      <3>3. CASE runs[k].pred \in Doomed(cut)
        <4>1. runs[k].parent >= cut
          BY <3>1, <3>3, Shapes DEF Doomed, Row
        <4> QED
          BY <2>2, <4>1 DEF RowsCut, Doomed
      <3> QED
        BY <2>2, <2>3, <3>1, <3>2, <3>3 DEF RowsCut
    <2>4. \A k \in DOMAIN runs : Running(k)' <=> Running(k)
      BY <2>2, CutRows
    <2>5. DOMAIN runs' = DOMAIN runs
      BY <2>2 DEF RowsCut
    <2>6. ASSUME NEW k \in DOMAIN runs
          PROVE  /\ runs'[k].parent \in 1 .. Current' /\ runs'[k].pred < k
                 /\ runs'[k].pred # Nobody => runs'[runs'[k].pred].task = runs'[k].task
                 /\ \A j \in DOMAIN runs' : j <= k => runs'[j].parent <= runs'[k].parent
                 /\ Running(k)' => \A j \in DOMAIN runs' : runs'[j].task = runs'[k].task => j <= k
      <3>1. runs[k].pred # Nobody => runs[k].pred \in DOMAIN runs
        BY Shapes DEF RowsLinked, Row
      <3> QED
        BY <1>1, <2>2, <2>4, <2>5, <3>1 DEF RowsLinked, RowsCut
    <2> QED
      BY <2>3, <2>5, <2>6 DEF RowsLinked
  <1>4. CASE OpenAct
    <2>1. PICK t \in Tasks : Opens(t)
      BY <1>4, OpenEffect
    <2> DEFINE new == Len(runs) + 1
    <2>2. /\ DOMAIN runs' = DOMAIN runs \cup {new} /\ new \notin DOMAIN runs
          /\ \A k \in DOMAIN runs : runs'[k] = runs[k] /\ k < new
          /\ runs'[new] = [task |-> t, status |-> "in_progress", parent |-> Current,
                           pred |-> latest[t]]
          /\ \A k \in RunsOf(t) : ~Running(k)
          /\ new \in Nat
      BY <2>1, Shapes DEF Opens, RowOpened
    <2>3. /\ \A k \in DOMAIN runs : Running(k)' <=> Running(k)
      BY <2>1, OpenedRows DEF Opens
    <2> HIDE DEF new
    <2>4. Current \in 1 .. Current'
      BY <1>1, <2>1, LiveCurrent DEF Opens
    <2>5. \A k \in DOMAIN runs : runs[k].pred # Nobody => runs[k].pred \in DOMAIN runs
      BY Shapes DEF RowsLinked, Row
    <2>6. ASSUME NEW k \in DOMAIN runs
          PROVE  /\ runs'[k].parent \in 1 .. Current' /\ runs'[k].pred < k
                 /\ runs'[k].pred # Nobody =>
                      /\ runs'[runs'[k].pred].task = runs'[k].task
                      /\ runs'[runs'[k].pred].status = "gone" => runs'[k].status = "gone"
                 /\ \A j \in DOMAIN runs' : j <= k => runs'[j].parent <= runs'[k].parent
                 /\ Running(k)' => \A j \in DOMAIN runs' : runs'[j].task = runs'[k].task => j <= k
      <3>1. ~(new <= k)
        BY <2>2, Shapes
      <3>2. Running(k) => runs[k].task # t
        BY <2>2 DEF Running, RunsOf
      <3> QED
        BY <1>1, <2>2, <2>3, <2>5, <3>1, <3>2 DEF RowsLinked
    <2>7. /\ runs'[new].parent \in 1 .. Current' /\ runs'[new].pred < new
          /\ runs'[new].pred # Nobody =>
               /\ runs'[runs'[new].pred].task = runs'[new].task
               /\ runs'[runs'[new].pred].status # "gone"
          /\ \A j \in DOMAIN runs' : j <= new /\ runs'[j].parent <= runs'[new].parent
      <3>1. latest[t] # Nobody => /\ latest[t] \in DOMAIN runs /\ runs[latest[t]].task = t
                                  /\ runs[latest[t]].status # "gone"
        BY NewestRow
      <3>2. new > 0
        BY <2>2, Shapes DEF new
      <3>3. \A j \in DOMAIN runs : runs[j].parent <= Current
        BY Shapes DEF RowsLinked
      <3>4. runs'[new].pred = latest[t] /\ runs'[new].task = t /\ runs'[new].parent = Current
        BY <2>2
      <3>5. \A j \in DOMAIN runs' : j <= new /\ runs'[j].parent <= runs'[new].parent
        BY <2>2, <3>3, <3>4, Shapes DEF Current
      <3>6. latest[t] # Nobody => /\ runs'[latest[t]] = runs[latest[t]] /\ latest[t] < new
        BY <2>2, <3>1
      <3> QED
        BY <2>4, <3>1, <3>2, <3>4, <3>5, <3>6
    <2> QED
      BY <2>2, <2>6, <2>7 DEF RowsLinked
  <1>5. CASE CloseAct
    <2>1. PICK k : RowClosed(k)
      BY <1>5, CloseEffect
    <2>2. /\ DOMAIN runs' = DOMAIN runs
          /\ \A j \in DOMAIN runs : /\ runs'[j].task = runs[j].task
                                    /\ runs'[j].parent = runs[j].parent
                                    /\ runs'[j].pred = runs[j].pred
                                    /\ runs'[j].status = "gone" <=> runs[j].status = "gone"
                                    /\ Running(j)' => Running(j)
      BY <2>1, ClosedRows DEF RowClosed
    <2>3. \A j \in DOMAIN runs : runs[j].pred # Nobody => runs[j].pred \in DOMAIN runs
      BY Shapes DEF RowsLinked, Row
    <2> QED
      BY <1>1, <2>2, <2>3 DEF RowsLinked
  <1> QED
    BY <1>2, <1>3, <1>4, <1>5, Frame DEF RowAct

\* start_task_run moves the pointer on, repair_task_chains moves it back.
LEMMA LatestNewestStep ==
    ASSUME TypeOK, LatestNewest, [Next]_vars
    PROVE  LatestNewest'
  <1>1. CASE UNCHANGED <<runs, latest>>
    BY <1>1 DEF LatestNewest, Newest, RunsOf
  <1>2. CASE \E cut \in Turn : Fork(cut)
    <2>1. PICK cut \in Turn : Fork(cut)
      BY <1>2
    <2>2. /\ \A u \in Tasks : RunsOf(u)' = RunsOf(u) \ Doomed(cut)
          /\ latest' = [t \in Tasks |-> IF latest[t] \in Doomed(cut)
                         THEN RECENT(RunsOf(t) \ Doomed(cut)) ELSE latest[t]]
      BY <2>1, ForkEffect, CutRows
    <2>3. ASSUME NEW t \in Tasks PROVE Newest(t, latest[t])'
      <3>1. RunsOf(t) \ Doomed(cut) \in SUBSET (1 .. Len(runs))
        BY RunsTyped
      <3>2. CASE latest[t] \notin Doomed(cut)
        BY <2>2, <3>2, NewestRow, Shapes DEF Newest, RunsOf, LatestNewest
      <3>3. CASE latest[t] \in Doomed(cut) /\ RunsOf(t) \ Doomed(cut) = {}
        BY <2>2, <3>3 DEF Newest, RECENT
      <3>4. CASE latest[t] \in Doomed(cut) /\ RunsOf(t) \ Doomed(cut) # {}
        BY <2>2, <3>1, <3>4, RecentLast, Shapes DEF Newest
      <3> QED
        BY <3>2, <3>3, <3>4
    <2> QED
      BY <2>3 DEF LatestNewest
  <1>3. CASE OpenAct
    <2>1. PICK t \in Tasks : Opens(t)
      BY <1>3, OpenEffect
    <2>2. /\ \A u \in Tasks : RunsOf(u)' = IF u = t THEN RunsOf(u) \cup {Len(runs) + 1}
                                           ELSE RunsOf(u)
          /\ \A u \in Tasks : latest'[u] = IF u = t THEN Len(runs) + 1 ELSE latest[u]
          /\ \A k \in DOMAIN runs : k <= Len(runs) + 1
      BY <2>1, OpenedRows, Shapes DEF Opens
    <2>3. Len(runs) + 1 <= Len(runs) + 1 /\ RunsOf(t) \subseteq DOMAIN runs
      BY Shapes DEF RunsOf
    <2> QED
      BY <2>2, <2>3 DEF LatestNewest, Newest
  <1>4. CASE CloseAct
    <2>1. \A u \in Tasks : RunsOf(u)' = RunsOf(u)
      BY <1>4, CloseEffect, ClosedRows
    <2>2. latest' = latest
      <3>1. CASE \E k \in Run : RecoverRun(k)
        BY <3>1 DEF RecoverRun
      <3>2. CASE \E t \in Tasks, s \in {"ended", "cancelled"} : Finish(t, s)
        BY <3>2 DEF Finish
      <3> QED
        BY <1>4, <3>1, <3>2 DEF CloseAct
    <2> QED
      BY <2>1, <2>2 DEF LatestNewest, Newest
  <1> QED
    BY <1>1, <1>2, <1>3, <1>4, Frame DEF RowAct

\* What the recursive query returns are rows of the same task, none of them newer.
LEMMA ChainBound ==
    ASSUME TypeOK, RowsLinked, NEW k, NEW j \in Chain(k)
    PROVE  /\ k \in Rows /\ j \in Rows /\ j <= k /\ runs[j].task = runs[k].task
  <1> DEFINE S == {i \in Rows : i <= k /\ runs[i].task = runs[k].task}
  <1>1. k \in Rows /\ j \in Rows
    BY DEF Chain
  <1>2. k \in S
    BY <1>1, Shapes DEF Rows
  <1>3. Follows(S)
    <2> SUFFICES ASSUME NEW i \in S, runs[i].pred \in Rows PROVE runs[i].pred \in S
      BY DEF Follows
    <2>1. i \in DOMAIN runs /\ runs[i].pred \in DOMAIN runs /\ runs[i].pred # Nobody
      BY Shapes DEF Rows
    <2>2. runs[i].pred < i /\ runs[runs[i].pred].task = runs[i].task
      BY <2>1 DEF RowsLinked
    <2>3. i <= k /\ k \in DOMAIN runs /\ runs[i].task = runs[k].task
      BY <1>1 DEF Rows
    <2> QED
      BY <2>1, <2>2, <2>3, Shapes
  <1>4. S \in SUBSET Rows
    OBVIOUS
  <1> HIDE DEF S
  <1>5. j \in S
    BY <1>2, <1>3, <1>4 DEF Chain
  <1> QED
    BY <1>1, <1>5 DEF S

\* A step that keeps the rows, or adds one, keeps what is in a chain.
LEMMA ChainGrows ==
    ASSUME NEW k, NEW j \in Chain(k), Rows \subseteq Rows',
           \A i \in Rows : runs'[i].pred = runs[i].pred
    PROVE  (j \in Chain(k))'
  <1>1. k \in Rows /\ j \in Rows
    BY DEF Chain
  <1>2. ASSUME NEW S \in SUBSET Rows', k \in S, Follows(S)' PROVE j \in S
    <2> DEFINE old == S \cap Rows
    <2>1. old \in SUBSET Rows /\ k \in old
      BY <1>1, <1>2
    <2>2. Follows(old)
      BY <1>2 DEF Follows
    <2> HIDE DEF old
    <2>3. j \in old
      BY <2>1, <2>2 DEF Chain
    <2> QED
      BY <2>3 DEF old
  <1>3. k \in Rows' /\ j \in Rows'
    BY <1>1
  <1> QED
    BY <1>2, <1>3 DEF Chain

\* A row that opens has the pointer's chain behind it; a cut leaves prefixes.
LEMMA ChainsCompleteStep ==
    ASSUME TypeOK, LatestNewest, RowsLinked, ChainsComplete, [Next]_vars
    PROVE  ChainsComplete'
  <1>1. CASE runs' = runs
    BY <1>1 DEF ChainsComplete, Chain, Rows, RunsOf, Follows
  <1>2. CASE \E cut \in Turn : Fork(cut)
    <2>1. PICK cut \in Turn : Fork(cut)
      BY <1>2
    <2>2. RowsCut(cut) /\ \A k \in Doomed(cut) : ~Running(k)
      BY <2>1, ForkEffect
    <2>3. Rows' = Rows \ Doomed(cut) /\ Rows \subseteq DOMAIN runs
      BY <2>2, CutRows DEF Rows
    <2>4. \A k \in DOMAIN runs : runs'[k].pred = runs[k].pred /\ runs'[k].task = runs[k].task
      BY <2>2 DEF RowsCut
    <2>5. ASSUME NEW k \in Rows', NEW j \in Rows', runs'[j].task = runs'[k].task, j <= k
          PROVE  (j \in Chain(k))'
      <3>1. k \in Rows /\ j \in RunsOf(runs[k].task)
        BY <2>3, <2>4, <2>5 DEF RunsOf, Rows
      <3>2. j \in Chain(k)
        BY <2>5, <3>1 DEF ChainsComplete
      <3>3. ASSUME NEW S \in SUBSET Rows', k \in S, Follows(S)' PROVE j \in S
        <4>1. ASSUME NEW i \in S, runs[i].pred \in Rows PROVE runs[i].pred \in S
          <5>1. i \in DOMAIN runs /\ i \notin Doomed(cut) /\ i \in Rows
            BY <2>3
          <5>2. runs[i].pred \in DOMAIN runs /\ runs[i].pred <= i
            BY <4>1, <5>1, Shapes DEF Rows, RowsLinked, Row
          <5>3. runs[runs[i].pred].parent <= runs[i].parent
            BY <5>1, <5>2 DEF RowsLinked
          <5>4. runs[i].pred \notin Doomed(cut)
            <6>1. runs[i] \in Row /\ runs[runs[i].pred] \in Row /\ cut \in Nat
              BY <5>1, <5>2, Shapes
            <6> QED
              BY <5>1, <5>3, <6>1 DEF Doomed, Rows, Row
          <5>5. runs'[i].pred \in Rows'
            BY <2>3, <2>4, <4>1, <5>1, <5>4
          <5> QED
            BY <2>4, <3>3, <5>1, <5>5 DEF Follows
        <4>2. Follows(S) /\ S \in SUBSET Rows
          BY <2>3, <4>1 DEF Follows
        <4> QED
          BY <3>2, <3>3, <4>2 DEF Chain
      <3> QED
        BY <3>3 DEF Chain
    <2> QED
      BY <2>5 DEF ChainsComplete, RunsOf, Rows
  <1>3. CASE OpenAct
    <2>1. PICK t \in Tasks : Opens(t)
      BY <1>3, OpenEffect
    <2> DEFINE new == Len(runs) + 1
    <2>2. /\ Rows' = Rows \cup {new}
          /\ \A u \in Tasks : RunsOf(u)' = IF u = t THEN RunsOf(u) \cup {new} ELSE RunsOf(u)
      BY <2>1, OpenedRows DEF Opens
    <2>3. /\ \A k \in DOMAIN runs : runs'[k] = runs[k] /\ k < new
          /\ runs'[new].task = t /\ runs'[new].pred = latest[t]
      BY <2>1 DEF Opens, RowOpened
    <2>4. new \notin DOMAIN runs /\ Rows \subseteq DOMAIN runs /\ new \in Nat
      BY Shapes DEF Rows
    <2> HIDE DEF new
    <2>5. ASSUME NEW k \in Rows, NEW j \in RunsOf(runs[k].task)', j <= k
          PROVE  (j \in Chain(k))'
      <3>1. k < new /\ k \in DOMAIN runs /\ runs[k].task \in Tasks /\ j # new
        BY <2>3, <2>4, <2>5, Shapes DEF Row
      <3>2. j \in RunsOf(runs[k].task)
        <4>1. \A u \in Tasks : u = runs[k].task => j \in RunsOf(u)'
          BY <2>3, <2>5, <3>1 DEF RunsOf
        <4> QED
          BY <2>2, <3>1, <4>1
      <3>3. j \in Chain(k)
        BY <2>5, <3>2 DEF ChainsComplete
      <3> QED
        BY <2>2, <2>3, <2>4, <3>3, ChainGrows
    <2>6. ASSUME NEW j \in RunsOf(t)' PROVE \A k : k = new => (j \in Chain(k))'
      <3>1. CASE j = new
        BY <2>2, <3>1 DEF Chain
      <3>2. CASE j \in RunsOf(t)
        <4>1. latest[t] \in Rows /\ runs[latest[t]].task = t /\ j <= latest[t]
          BY <3>2, NewestRow DEF Rows
        <4>2. j \in Chain(latest[t])
          BY <3>2, <4>1 DEF ChainsComplete
        <4>3. \A l : l = latest[t] => (j \in Chain(l))'
          BY <2>2, <2>3, <2>4, <4>2, ChainGrows
        <4>4. \A l : l = latest[t] => \A S \in SUBSET Rows' : l \in S /\ Follows(S)' => j \in S
          BY <4>3 DEF Chain
        <4>5. ASSUME NEW S \in SUBSET Rows', new \in S, Follows(S)' PROVE j \in S
          <5>1. runs'[new].pred \in Rows'
            BY <2>2, <2>3, <4>1
          <5>2. latest[t] \in S
            BY <2>3, <4>5, <5>1 DEF Follows
          <5> QED
            BY <4>4, <4>5, <5>2
        <4>6. j \in Rows' /\ new \in Rows'
          BY <2>2, <3>2 DEF RunsOf, Rows
        <4> QED
          BY <4>5, <4>6 DEF Chain
      <3> QED
        BY <2>2, <2>6, <3>1, <3>2
    <2>7. ASSUME NEW k \in Rows', NEW j \in RunsOf(runs[k].task)', j <= k
          PROVE  (j \in Chain(k))'
      <3>1. CASE k = new
        BY <2>3, <2>6, <2>7, <3>1
      <3>2. CASE k \in Rows
        <4>1. runs'[k] = runs[k]
          BY <2>3, <2>4, <3>2
        <4> QED
          BY <2>5, <2>7, <3>2, <4>1 DEF RunsOf
      <3> QED
        BY <2>2, <3>1, <3>2
    <2> QED
      BY <2>7 DEF ChainsComplete
  <1>4. CASE CloseAct
    <2>1. PICK i : RowClosed(i)
      BY <1>4, CloseEffect
    <2>2. /\ Rows' = Rows /\ \A u \in Tasks : RunsOf(u)' = RunsOf(u)
          /\ \A j \in DOMAIN runs : runs'[j].task = runs[j].task /\ runs'[j].pred = runs[j].pred
      BY <2>1, ClosedRows
    <2>3. ASSUME NEW k \in Rows', NEW j \in RunsOf(runs[k].task)', j <= k
          PROVE  (j \in Chain(k))'
      <3>1. k \in Rows /\ runs'[k].task = runs[k].task /\ runs[k].task \in Tasks
        BY <2>2, Shapes DEF Rows, Row
      <3>2. j \in RunsOf(runs[k].task)
        BY <2>2, <2>3, <3>1 DEF RunsOf
      <3>3. j \in Chain(k)
        BY <2>3, <3>1, <3>2 DEF ChainsComplete
      <3> QED
        BY <2>2, <3>3, ChainGrows DEF Rows
    <2> QED
      BY <2>3 DEF ChainsComplete
  <1> QED
    BY <1>1, <1>2, <1>3, <1>4, Frame DEF RowAct

-----------------------------------------------------------------------------
(* Turns and the phases of their collectors. *)

\* A batch is billed next.
LEMMA BatchPhase ==
    ASSUME NEW n, NEW S
    PROVE  Batch(n, S).phase = "bill" /\ Batch(n, S).tasks = S
  BY DEF Batch

\* Nothing but its own steps takes a turn out of the turns that have ended, and
\* only the live turn ends.
LEMMA TurnMoves ==
    ASSUME TypeOK, TurnsInOrder, [Next]_vars, turns' # turns
    PROVE  /\ DOMAIN turns' \subseteq Turn /\ DOMAIN turns \subseteq DOMAIN turns'
           /\ \A n \in DOMAIN turns' : turns'[n] = "live" => n = Len(turns')
           /\ \A n \in Turn : n \notin DOMAIN turns' \/ turns'[n] = "live" =>
                                n \notin DOMAIN turns \/ turns[n] = "live"
           /\ \A n \in DOMAIN turns : turns[n] # "live" => turns'[n] \in {turns[n], "gone"}
  <1> USE DEF Current
  <1>1. CASE StartTurn
    <2>1. TurnOpened /\ \A n \in DOMAIN turns : turns'[n] = turns[n]
      BY <1>1, StartTurnEffect
    <2>2. \A n \in DOMAIN turns : turns[n] # "live"
      BY <1>1 DEF StartTurn, LiveTurn
    <2> QED
      BY <2>1, <2>2, Shapes DEF TurnOpened
  <1>2. CASE \E cut \in Turn : Fork(cut)
    <2>1. PICK cut \in Turn : Fork(cut)
      BY <1>2
    <2>2. /\ TurnOpened
          /\ \A n \in DOMAIN turns : turns'[n] = IF n >= cut THEN "gone" ELSE turns[n]
      BY <2>1, ForkEffect
    <2>3. \A n \in DOMAIN turns : turns[n] # "live"
      BY <2>1 DEF Fork, LiveTurn
    <2> QED
      BY <2>2, <2>3, Shapes DEF TurnOpened
  <1>3. CASE RecoverTurn \/ \E s \in {"done", "dead"} : EndTurn(s)
    <2>1. PICK s \in {"done", "dead"} : TurnClosed(s)
      BY <1>3, TurnCloses DEF RecoverTurn, EndTurn, TurnStatus
    <2>2. LiveTurn
      BY <1>3 DEF RecoverTurn, EndTurn
    <2>3. Current \in DOMAIN turns /\ turns[Current] = "live"
      BY <2>2 DEF LiveTurn, TurnsInOrder
    <2> QED
      BY <2>1, <2>3, Shapes DEF TurnClosed, TurnsInOrder
  <1> QED
    BY <1>1, <1>2, <1>3, Frame DEF TurnAct

\* Collectors begin when their turn ends, orphans with the hand-off.
LEMMA TurnsInOrderStep ==
    ASSUME TypeOK, TurnsInOrder, [Next]_vars
    PROVE  TurnsInOrder'
  <1>1. TypeOK'
    BY TypeStep
  <1>2. \A n \in DOMAIN turns' : turns'[n] = "live" => n = Current'
    BY TurnMoves DEF TurnsInOrder, Current
  <1>3. ASSUME NEW n \in Turn, n \notin DOMAIN turns' \/ turns'[n] = "live"
        PROVE  owes'[n] = "nothing"
    <2>1. n \notin DOMAIN turns \/ turns[n] = "live"
      BY <1>3, TurnMoves
    <2>2. owes[n] = "nothing" /\ owes \in [Turn -> {"nothing", "collect", "kill", "evict"}]
      BY <2>1 DEF TurnsInOrder, TypeOK
    <2>3. CASE \E s \in {"done", "dead"} : EndTurn(s)
      <3>1. PICK s \in {"done", "dead"} : EndTurn(s)
        BY <2>3
      <3>2. TurnClosed(s)
        BY <3>1, TurnCloses DEF EndTurn, TurnStatus
      <3>3. n # Current
        BY <1>3, <3>2 DEF TurnClosed
      <3> QED
        BY <2>2, <3>1, <3>3 DEF EndTurn
    <2>4. CASE Crash
      BY <2>4 DEF Crash
    <2>5. ASSUME NEW m \in Turn, Kill(m) \/ Evict(m) \/ SpawnCollector(m)
          PROVE  owes'[n] = "nothing"
      BY <2>2, <2>5 DEF Kill, Evict, SpawnCollector
    <2> QED
      BY <2>2, <2>3, <2>4, <2>5, Frame DEF OwesAct
  <1>4. /\ \A n \in Turn : (n \notin DOMAIN turns' \/ turns'[n] = "live" \/ owes'[n] = "collect") =>
             \A kind \in Kind : col'[n][kind] = Idle
        /\ \A n \in Turn : col'[n]["turn"].phase = "wait" => col'[n]["orphan"] = Idle
        /\ \A n \in Turn, kind \in Kind :
             /\ col'[n][kind].phase = "idle" => col'[n][kind] = Idle
             /\ col'[n][kind].phase = "wait" => col'[n][kind].taken = {}
    <2>1. \A n \in Turn : n \notin DOMAIN turns' \/ turns'[n] = "live" =>
                            n \notin DOMAIN turns \/ turns[n] = "live"
      BY TurnMoves
    <2>2. ASSUME NEW n \in Turn, owes'[n] = "collect"
          PROVE  \A kind \in Kind : col[n][kind] = Idle
      <3>1. owes \in [Turn -> {"nothing", "collect", "kill", "evict"}]
        BY DEF TypeOK
      <3>2. CASE owes[n] = "collect"
        BY <3>2 DEF TurnsInOrder
      <3>3. CASE \E s \in {"done", "dead"} : EndTurn(s)
        <4>1. (n = Current /\ LiveTurn) \/ owes[n] = "collect"
          BY <2>2, <3>1, <3>3 DEF EndTurn
        <4>2. LiveTurn => turns[Current] = "live"
          BY DEF LiveTurn, TurnsInOrder
        <4> QED
          BY <3>2, <4>1, <4>2 DEF TurnsInOrder
      <3>4. CASE ~(\E s \in {"done", "dead"} : EndTurn(s))
        <4>1. ASSUME NEW m \in Turn, Kill(m) \/ Evict(m) \/ SpawnCollector(m)
              PROVE  owes[n] = "collect"
          <5>1. owes' = [owes EXCEPT ![m] = "evict"] \/ owes' = [owes EXCEPT ![m] = "nothing"]
            BY <4>1 DEF Kill, Evict, SpawnCollector
          <5> QED
            BY <2>2, <3>1, <5>1
        <4>2. ~Crash
          BY <2>2, CrashEffect
        <4> QED
          BY <2>2, <3>2, <3>4, <4>1, <4>2, Frame DEF OwesAct
      <3> QED
        BY <3>3, <3>4
    <2>3. ASSUME NEW n \in Turn,
                 n \notin DOMAIN turns' \/ turns'[n] = "live" \/ owes'[n] = "collect"
          PROVE  \A kind \in Kind : col[n][kind] = Idle
      BY <2>1, <2>2, <2>3 DEF TurnsInOrder
    <2>4. /\ \A n \in Turn : col[n]["turn"].phase = "wait" => col[n]["orphan"] = Idle
          /\ \A n \in Turn, kind \in Kind :
               /\ col[n][kind].phase = "idle" => col[n][kind] = Idle
               /\ col[n][kind].phase = "wait" => col[n][kind].taken = {}
      BY DEF TurnsInOrder
    <2>5. CASE col' = col
      BY <2>3, <2>4, <2>5
    <2>6. CASE Crash
      BY <2>6, CrashEffect
    <2>7. CASE TakeAct
      <3>a. PICK n \in Turn, kind \in Kind : \E S : Taking(n, kind, S)
        BY <2>7, TakeEffect
      <3>1. PICK S : Taking(n, kind, S)
        BY <3>a
      <3>2. /\ col[n][kind].phase = "wait" /\ col'[n][kind].phase = "bill"
            /\ \A m \in Turn, c \in Kind : m # n \/ c # kind =>
                 \/ col'[m][c] = col[m][c]
                 \/ /\ m = n /\ kind = "turn" /\ c = "orphan"
                    /\ col'[m][c] = [phase |-> "wait", tasks |-> Pending(n, "turn"), taken |-> {}]
        <4>1. col'[n][kind] = Batch(n, S)
          BY <3>1 DEF Taking
        <4>2. col'[n][kind].phase = "bill"
          BY <4>1, BatchPhase
        <4> QED
          BY <3>1, <4>2 DEF Taking
      <3>3. ~(n \notin DOMAIN turns' \/ turns'[n] = "live" \/ owes'[n] = "collect")
        BY <2>3, <3>2
      <3>4. ASSUME NEW m \in Turn, NEW c \in Kind
            PROVE  /\ col'[m][c].phase = "idle" => col'[m][c] = Idle
                   /\ col'[m][c].phase = "wait" => col'[m][c].taken = {}
        BY <2>4, <3>2
      <3>5. ASSUME NEW m \in Turn, col'[m]["turn"].phase = "wait"
            PROVE  col'[m]["orphan"] = Idle
        BY <2>4, <3>2, <3>5
      <3>6. ASSUME NEW m \in Turn,
                   n # m
            PROVE  \A c \in Kind : col'[m][c] = col[m][c]
        BY <3>2, <3>6
      <3> QED
        BY <2>3, <3>3, <3>4, <3>5, <3>6
    <2>8. CASE \E n \in Turn : SpawnCollector(n)
      <3>1. PICK n \in Turn : SpawnCollector(n)
        BY <2>8
      <3>2. /\ owes[n] = "collect" /\ owes' = [owes EXCEPT ![n] = "nothing"] /\ turns' = turns
            /\ \A m \in Turn, c \in Kind : m # n \/ c # "turn" => col'[m][c] = col[m][c]
            /\ \/ col' = col
               \/ col'[n]["turn"].phase = "wait" /\ col'[n]["turn"].taken = {}
        BY <3>1, SpawnEffect DEF Claiming, SpawnCollector
      <3>3. /\ \A c \in Kind : col[n][c] = Idle
            /\ n \in DOMAIN turns /\ turns[n] # "live" /\ owes'[n] = "nothing"
        BY <3>2 DEF TurnsInOrder, TypeOK
      <3> QED
        BY <2>3, <2>4, <3>2, <3>3
    <2>9. CASE \E n \in Turn, kind \in Kind : Cleanup(n, kind)
      <3>1. PICK n \in Turn, kind \in Kind : Cleanup(n, kind)
        BY <2>9
      <3>2. /\ col'[n][kind] = Idle
            /\ \A m \in Turn, c \in Kind : m # n \/ c # kind => col'[m][c] = col[m][c]
        BY <3>1, CleanupEffect
      <3>3. col[n][kind].phase = "bill"
        BY <3>1 DEF Cleanup
      <3> QED
        BY <2>3, <2>4, <3>2, <3>3
    <2>10. CASE PersistAct \/ FailAct
      <3>a. PICK n \in Turn, kind \in Kind : \E x \in col[n][kind].taken : Leaves(n, kind, x)
        BY <2>10, PersistLeaves DEF PersistAct, FailAct
      <3>1. PICK x \in col[n][kind].taken : Leaves(n, kind, x)
        BY <3>a
      <3>2. col[n][kind].phase \notin {"idle", "wait"}
        BY <2>4, <3>1
      <3>3. \A m \in Turn, c \in Kind : m # n \/ c # kind => col'[m][c] = col[m][c]
        BY <3>1 DEF Leaves
      <3>4. col'[n][kind].phase \notin {"idle", "wait"} /\ col[n][kind] # Idle
        <4>1. col'[n][kind].phase = col[n][kind].phase
          BY <3>1 DEF Leaves
        <4>2. Idle.phase = "idle"
          OBVIOUS
        <4> HIDE DEF Idle
        <4> QED
          BY <3>2, <4>1, <4>2
      <3> QED
        BY <2>3, <2>4, <3>2, <3>3, <3>4
    <2> QED
      BY <2>5, <2>6, <2>7, <2>8, <2>9, <2>10, Frame DEF ColAct, CollectAct
  <1> QED
    BY <1>2, <1>3, <1>4 DEF TurnsInOrder

-----------------------------------------------------------------------------
(* Entries, batches and bills. *)

\* Rows are never taken back: what has ended never runs again.
LEMMA RowMoves ==
    ASSUME TypeOK, LatestNewest, [Next]_vars
    PROVE  /\ DOMAIN runs \subseteq DOMAIN runs'
           /\ \A k \in DOMAIN runs :
                /\ runs'[k].task = runs[k].task /\ runs'[k].parent = runs[k].parent
                /\ runs[k].status = "gone" => runs'[k].status = "gone"
                /\ Running(k)' => Running(k)
           /\ \A k : k \in DOMAIN runs' \ DOMAIN runs => Running(k)'
  <1>1. CASE runs' = runs
    BY <1>1 DEF Running
  <1>2. CASE \E cut \in Turn : Fork(cut)
    <2>1. PICK cut \in Turn : RowsCut(cut) /\ \A k \in Doomed(cut) : ~Running(k)
      BY <1>2, ForkEffect
    <2>2. \A k \in DOMAIN runs : Running(k)' => Running(k)
      BY <2>1, CutRows
    <2> QED
      BY <2>1, <2>2 DEF RowsCut
  <1>3. CASE OpenAct
    <2>1. PICK t \in Tasks : Opens(t)
      BY <1>3, OpenEffect
    <2>2. /\ \A k \in DOMAIN runs : Running(k)' => Running(k)
          /\ \A k : k = Len(runs) + 1 => Running(k)'
      BY <2>1, OpenedRows DEF Opens
    <2> QED
      BY <2>1, <2>2 DEF Opens, RowOpened
  <1>4. CASE CloseAct
    <2>1. PICK k : RowClosed(k)
      BY <1>4, CloseEffect
    <2>2. DOMAIN runs' = DOMAIN runs
      BY <2>1 DEF RowClosed
    <2> QED
      BY <2>1, <2>2, ClosedRows
  <1> QED
    BY <1>1, <1>2, <1>3, <1>4, Frame DEF RowAct

EntryKept(t) ==
  /\ mem'[t].run = mem[t].run /\ mem'[t].owner = mem[t].owner
  /\ mem'[t].holds = mem[t].holds \/ mem'[t].holds = {}
  /\ mem'[t].claim = mem[t].claim \/ mem'[t].claim = Nobody \/ mem[t].run # Nobody
  /\ Writes(t)' <=> Writes(t)

\* A writer is left alone by all but its own end.
LEMMA WritesKept ==
    ASSUME TypeOK, LatestNewest, EntriesSound, [Next]_vars, NEW t \in Tasks,
           mem'[t].run = mem[t].run, ~Finishes(t)
    PROVE  Writes(t)' <=> Writes(t)
  <1>1. /\ mem[t].run \in DOMAIN runs \/ mem[t].run = Nobody
        /\ mem[t].run \in DOMAIN runs => runs[mem[t].run].task = t
        /\ Nobody \notin DOMAIN runs /\ Nobody \notin DOMAIN runs'
    <2>1. TypeOK'
      BY TypeStep
    <2>2. DOMAIN runs' = 1 .. Len(runs')
      BY <2>1 DEF TypeOK
    <2> QED
      BY <2>2, Shapes DEF EntriesSound
  <1>2. ASSUME \A k \in DOMAIN runs : k = mem[t].run => (Running(k)' <=> Running(k))
        PROVE  Writes(t)' <=> Writes(t)
    <2>1. CASE mem[t].run = Nobody
      BY <1>1, <2>1 DEF Writes, Running
    <2>2. CASE mem[t].run \in DOMAIN runs
      BY <1>2, <2>2 DEF Writes
    <2> QED
      BY <1>1, <2>1, <2>2
  <1>3. CASE runs' = runs
    BY <1>2, <1>3 DEF Running
  <1>4. CASE \E cut \in Turn : Fork(cut)
    BY <1>2, <1>4, ForkEffect, CutRows
  <1>5. CASE OpenAct
    BY <1>2, <1>5, OpenEffect, OpenedRows DEF Opens
  <1>6. CASE \E k \in Run : RecoverRun(k)
    BY <1>2, <1>6, RecoverEffect, ClosedRows
  <1>7. CASE \E u \in Tasks, s \in {"ended", "cancelled"} : Finish(u, s)
    <2>1. PICK u \in Tasks : Finishes(u)
      BY <1>7, FinishEffect
    <2>2. u # t /\ RowClosed(mem[u].run) /\ mem[u].run \in DOMAIN runs
      BY <2>1 DEF Finishes, RowClosed
    <2>3. runs[mem[u].run].task = u
      BY <2>1, <2>2, Shapes DEF EntriesSound
    <2>4. mem[u].run # mem[t].run
      BY <1>1, <2>2, <2>3
    <2> QED
      BY <1>2, <2>2, <2>4, ClosedRows
  <1> QED
    BY <1>3, <1>4, <1>5, <1>6, <1>7, Frame DEF RowAct, CloseAct

\* What a step may do to an entry.
LEMMA EntryMoves ==
    ASSUME TypeOK, LatestNewest, EntriesSound, [Next]_vars, NEW t \in Tasks
    PROVE  Opens(t) \/ Finishes(t) \/ mem'[t] = NoEntry \/ EntryKept(t)
  <1> DEFINE Same == /\ mem'[t].run = mem[t].run /\ mem'[t].owner = mem[t].owner
                     /\ mem'[t].holds = mem[t].holds \/ mem'[t].holds = {}
                     /\ \/ mem'[t].claim = mem[t].claim \/ mem'[t].claim = Nobody
                        \/ mem[t].run # Nobody
  <1>1. Opens(t) \/ Finishes(t) \/ mem'[t] = NoEntry \/ Same
    <2>1. CASE mem' = mem
      BY <2>1
    <2>2. CASE TakeAct
      BY <2>2, TakeEffect DEF Taking
    <2>3. CASE \E n \in Turn : SpawnCollector(n)
      BY <2>3, SpawnEffect DEF Claiming, Mine
    <2>4. CASE \E n \in Turn, kind \in Kind : Cleanup(n, kind)
      BY <2>4, CleanupEffect DEF Leaving
    <2>5. CASE Crash
      BY <2>5, CrashEffect DEF Leaving
    <2>6. CASE OpenAct
      <3>1. PICK u \in Tasks : Opens(u)
        BY <2>6, OpenEffect
      <3>2. u # t => mem'[t] = mem[t]
        BY <3>1 DEF Opens
      <3> QED
        BY <3>1, <3>2
    <2>7. CASE \E n \in Turn : Evict(n)
      BY <2>7, LeavingTyped DEF Evict, Leaving
    <2>8. CASE \E u \in Tasks, s \in {"ended", "cancelled"} : Finish(u, s)
      BY <2>8, FinishEffect DEF Finishes
    <2> QED
      BY <2>1, <2>2, <2>3, <2>4, <2>5, <2>6, <2>7, <2>8, Frame DEF MemAct, CollectAct
  <1>2. Same /\ ~Finishes(t) => EntryKept(t)
    BY WritesKept DEF EntryKept
  <1> QED
    BY <1>1, <1>2

\* The members of a chain have ended if its head has: a run that is running is
\* the newest of its task.
LEMMA ChainEnded ==
    ASSUME TypeOK, RowsLinked, NEW k, ~Running(k), NEW j \in Chain(k)
    PROVE  j \in DOMAIN runs /\ ~Running(j)
  <1>1. /\ k \in DOMAIN runs /\ j \in DOMAIN runs /\ j <= k /\ runs[j].task = runs[k].task
    BY ChainBound DEF Rows
  <1>2. Running(j) => k <= j
    BY <1>1 DEF RowsLinked
  <1> QED
    BY <1>1, <1>2, Shapes

\* Nothing has been spent.
LEMMA MoneyInit == Init => MoneySound /\ BilledOnce /\ EntriesSound /\ BatchesSound /\ OneBatch
  BY DEF Init, MoneySound, BilledOnce, EntriesSound, BatchesSound, OneBatch

\* A usage row bills records that were taken once, of runs that have ended.
LEMMA PersistBills ==
    ASSUME TypeOK, RowsLinked, BatchesSound, NEW n \in Turn, NEW kind \in Kind,
           NEW x \in col[n][kind].taken, Persist(n, kind, x)
    PROVE  /\ \A k \in Run : billed'[k] = IF k \in x.holds THEN 1 ELSE billed[k]
           /\ \A k \in x.holds : k \in DOMAIN runs /\ ~Running(k) /\ ~Held(k)
           /\ settled' = settled \cup Chain(x.run)
           /\ \A k \in Chain(x.run) : k \in DOMAIN runs /\ ~Running(k)
           /\ aged'.turns = aged.turns /\ aged'.runs = aged.runs \ Chain(x.run)
  <1>1. /\ billed' = [k \in Run |-> IF k \in x.holds THEN billed[k] + 1 ELSE billed[k]]
        /\ settled' = settled \cup Chain(x.run)
        /\ aged' = [aged EXCEPT !.runs = @ \ Chain(x.run)]
    BY DEF Persist, SettledBy
  <1>2. aged'.turns = aged.turns /\ aged'.runs = aged.runs \ Chain(x.run)
    <2>1. aged \in [turns : SUBSET Turn, runs : SUBSET Run]
      BY DEF TypeOK
    <2> QED
      BY <1>1, <2>1
  <1>3. /\ ~Running(x.run)
        /\ \A k \in x.holds : k \in DOMAIN runs /\ ~Running(k) /\ ~Held(k) /\ billed[k] = 0
    BY DEF BatchesSound
  <1> QED
    BY <1>1, <1>2, <1>3, ChainEnded

\* A usage row bills what a batch holds, and that was not billed or lost.
LEMMA MoneyStep ==
    ASSUME TypeOK, LatestNewest, RowsLinked, EntriesSound, BatchesSound, MoneySound, BilledOnce,
           [Next]_vars
    PROVE  MoneySound' /\ BilledOnce'
  <1>1. BilledOnce'
    <2>1. CASE PersistAct
      BY <2>1, PersistBills DEF PersistAct, BilledOnce
    <2> QED
      BY <2>1, Frame DEF BilledOnce
  <1>2. ASSUME NEW k \in Run, k \notin DOMAIN runs' \/ Running(k)' PROVE billed'[k] = 0
    <2>1. k \notin DOMAIN runs \/ Running(k)
      BY <1>2, RowMoves
    <2>2. billed[k] = 0
      BY <2>1 DEF MoneySound
    <2>3. CASE PersistAct
      BY <2>1, <2>2, <2>3, PersistBills DEF PersistAct
    <2> QED
      BY <2>2, <2>3, Frame
  <1>3. ASSUME NEW k \in settled' \cup aged'.runs PROVE k \in DOMAIN runs /\ ~Running(k)
    <2>1. CASE k \in settled \/ k \in aged.runs
      BY <2>1 DEF MoneySound
    <2>2. CASE \E cut \in Turn : Fork(cut)
      BY <1>3, <2>1, <2>2, ForkEffect
    <2>3. CASE PersistAct
      BY <1>3, <2>1, <2>3, PersistBills DEF PersistAct
    <2>4. CASE Sweep
      BY <1>3, <2>1, <2>4 DEF Sweep, Abandoned, Terminal, Running
    <2>5. CASE GracePasses
      BY <1>3, <2>1, <2>5 DEF GracePasses, moneyVars, Terminal, Running
    <2> QED
      BY <1>3, <2>1, <2>2, <2>3, <2>4, <2>5, Frame
  <1>4. \A k \in settled' \cup aged'.runs : k \in DOMAIN runs' /\ ~Running(k)'
    BY <1>3, RowMoves
  <1>5. ASSUME NEW k \in lost' PROVE k \in DOMAIN runs' /\ ~Running(k)'
    <2>1. CASE k \in lost
      BY <2>1, RowMoves DEF MoneySound
    <2>2. CASE Held(k) \/ Taken(k)
      <3>1. k \in DOMAIN runs /\ ~Running(k)
        BY <2>2 DEF Held, Taken, EntriesSound, BatchesSound
      <3> QED
        BY <3>1, RowMoves
    <2>3. CASE Crash
      BY <1>5, <2>1, <2>2, <2>3, CrashLoses
    <2>4. ASSUME NEW n \in Turn, Evict(n) PROVE k \in lost \/ Held(k)
      BY <1>5, <2>4, EvictLoses DEF Mine, Held
    <2>5. FailAct => k \in lost \/ Taken(k)
      BY <1>5 DEF FailAct, PersistFails, Taken
    <2>6. ASSUME NEW j \in Run, RecoverRun(j) PROVE k \in DOMAIN runs' /\ ~Running(k)'
      BY <1>5, <2>1, <2>6, RecoverEffect, ClosedRows DEF RowClosed, Running
    <2> QED
      BY <1>5, <2>1, <2>2, <2>3, <2>4, <2>5, <2>6, Frame
  <1> QED
    BY <1>1, <1>2, <1>4, <1>5 DEF MoneySound

\* An entry comes to hold the records of its own run alone, as that ends.
LEMMA HoldsMove ==
    ASSUME TypeOK, LatestNewest, EntriesSound, [Next]_vars, NEW t \in Tasks,
           NEW k \in mem'[t].holds
    PROVE  k \in mem[t].holds \/ (Finishes(t) /\ k = mem[t].run)
  <1>1. CASE Opens(t)
    BY <1>1 DEF Opens
  <1>2. CASE Finishes(t)
    BY <1>2 DEF Finishes
  <1>3. CASE mem'[t] = NoEntry
    BY <1>3
  <1>4. CASE EntryKept(t)
    BY <1>4 DEF EntryKept
  <1> QED
    BY <1>1, <1>2, <1>3, <1>4, EntryMoves

\* What an entry holds is not in the usage row a step writes.
LEMMA HeldUnbilled ==
    ASSUME TypeOK, RowsLinked, BatchesSound, [Next]_vars, NEW k \in Run, Held(k)
    PROVE  billed'[k] = billed[k]
  <1>1. CASE PersistAct
    BY <1>1, PersistBills DEF PersistAct
  <1> QED
    BY <1>1, Frame

\* An entry holds nothing billed: what is taken leaves it at once.
LEMMA EntriesSoundStep ==
    ASSUME TypeOK, LatestNewest, RowsLinked, EntriesSound, BatchesSound, MoneySound, [Next]_vars
    PROVE  EntriesSound'
  <1> SUFFICES ASSUME NEW t \in Tasks
               PROVE  /\ mem'[t].run = Nobody =>
                           mem'[t].holds = {} /\ mem'[t].owner = Nobody /\ mem'[t].claim = Nobody
                      /\ mem'[t].run # Nobody =>
                           /\ mem'[t].run \in DOMAIN runs' /\ runs'[mem'[t].run].task = t
                           /\ mem'[t].owner = runs'[mem'[t].run].parent
                           /\ ~Writes(t)' /\ mem'[t].holds # {} => mem'[t].run \in mem'[t].holds
                      /\ \A k \in mem'[t].holds :
                           /\ k \in DOMAIN runs' /\ runs'[k].task = t /\ k <= mem'[t].run
                           /\ ~Running(k)' /\ billed'[k] = 0
    BY DEF EntriesSound
  <1>1. /\ mem[t].run = Nobody =>
             mem[t].holds = {} /\ mem[t].owner = Nobody /\ mem[t].claim = Nobody
        /\ mem[t].run # Nobody =>
             /\ mem[t].run \in DOMAIN runs /\ runs[mem[t].run].task = t
             /\ mem[t].owner = runs[mem[t].run].parent
             /\ ~Writes(t) /\ mem[t].holds # {} => mem[t].run \in mem[t].holds
    BY DEF EntriesSound
  <1>2. ASSUME NEW k \in mem[t].holds
        PROVE  /\ k \in DOMAIN runs' /\ runs'[k].task = t /\ k <= mem[t].run
               /\ ~Running(k)' /\ billed'[k] = 0
    <2>1. /\ k \in DOMAIN runs /\ runs[k].task = t /\ k <= mem[t].run
          /\ ~Running(k) /\ billed[k] = 0
      BY DEF EntriesSound
    <2>2. k \in Run /\ Held(k)
      BY <2>1, Shapes DEF Held
    <2> QED
      BY <2>1, <2>2, RowMoves, HeldUnbilled
  <1>3. CASE Opens(t)
    <2> DEFINE new == Len(runs) + 1
    <2>1. /\ new \in DOMAIN runs' /\ runs'[new].task = t /\ runs'[new].parent = Current
          /\ runs'[new].status = "in_progress" /\ \A k \in DOMAIN runs : k < new
          /\ new > 0
      BY <1>3, Shapes DEF Opens, RowOpened
    <2>2. mem'[t].run = new /\ mem'[t].owner = Current /\ mem'[t].holds = mem[t].holds
      BY <1>3 DEF Opens
    <2> HIDE DEF new
    <2>3. Writes(t)'
      BY <2>1, <2>2 DEF Writes, Running
    <2>4. ASSUME NEW k \in mem[t].holds PROVE k <= new
      <3>1. k \in DOMAIN runs
        BY DEF EntriesSound
      <3> QED
        BY <2>1, <3>1, Shapes
    <2> QED
      BY <1>2, <2>1, <2>2, <2>3, <2>4
  <1>4. CASE Finishes(t)
    <2>1. /\ RowClosed(mem[t].run) /\ mem'[t].run = mem[t].run /\ mem'[t].owner = mem[t].owner
          /\ mem'[t].holds = mem[t].holds \cup {mem[t].run}
      BY <1>4 DEF Finishes
    <2>2. /\ mem[t].run \in DOMAIN runs /\ mem[t].run # Nobody
      BY <2>1, Shapes DEF RowClosed
    <2>3. Running(mem[t].run) /\ billed[mem[t].run] = 0 /\ billed' = billed
      <3>1. Running(mem[t].run)
        BY <2>1, ClosedRows
      <3>2. billed' = billed
        BY <1>4, <2>1, <3>1, Frame, PersistBills DEF PersistAct, Persist, rowVars, RowClosed, Running
      <3> QED
        BY <2>2, <3>1, <3>2, Shapes DEF MoneySound
    <2>4. \A k : k = mem[t].run => ~Running(k)'
      BY <2>1, <2>2, ClosedRows
    <2>5. mem[t].run <= mem[t].run
      BY <2>2, Shapes
    <2> QED
      BY <1>1, <1>2, <2>1, <2>2, <2>3, <2>4, <2>5, RowMoves
  <1>5. CASE mem'[t] = NoEntry
    BY <1>5
  <1>6. CASE EntryKept(t)
    BY <1>1, <1>2, <1>6, RowMoves DEF EntryKept
  <1> QED
    BY <1>3, <1>4, <1>5, <1>6, EntryMoves

Fresh(t, x) ==
  /\ x = [task |-> t, run |-> mem[t].run, holds |-> mem[t].holds] /\ mem[t].holds # {}
  /\ ~Writes(t) /\ mem'[t].holds = {}

\* A batch was there, or was just taken from an entry.
LEMMA TakenFresh ==
    ASSUME TypeOK, NEW n \in Turn, NEW kind \in Kind, NEW S, Taking(n, kind, S),
           NEW x \in col'[n][kind].taken
    PROVE  \E t \in Tasks : Fresh(t, x) /\ mem[t].claim = n /\ t \in S
  <1>1. col'[n][kind] = Batch(n, S) /\ S \subseteq col[n][kind].tasks
    BY DEF Taking
  <1>2. S \subseteq Tasks
    BY <1>1, Shapes DEF Collector
  <1>3. PICK t \in Due(n, S) : x = [task |-> t, run |-> mem[t].run, holds |-> mem[t].holds]
    BY <1>1 DEF Batch
  <1>4. t \in S /\ mem[t].claim = n /\ mem[t].holds # {}
    BY <1>3 DEF Due
  <1>5. ~Writes(t) /\ mem'[t].holds = {}
    BY <1>2, <1>3, <1>4 DEF Taking
  <1> QED
    BY <1>2, <1>3, <1>4, <1>5 DEF Fresh

\* Only a take fills a batch.
LEMMA TakenOld ==
    ASSUME TypeOK, [Next]_vars, ~TakeAct, NEW m \in Turn, NEW c \in Kind,
           NEW x \in col'[m][c].taken
    PROVE  x \in col[m][c].taken
  <1>1. CASE col' = col
    BY <1>1
  <1>2. CASE Crash
    BY <1>2, CrashEffect
  <1>3. CASE \E n \in Turn : SpawnCollector(n)
    <2>1. PICK n \in Turn : Claiming(n)
      BY <1>3, SpawnEffect
    <2>2. CASE m # n \/ c # "turn"
      BY <2>1, <2>2 DEF Claiming
    <2>3. CASE m = n /\ c = "turn"
      <3>1. col' = col \/ col'[n]["turn"].taken = {}
        BY <2>1 DEF Claiming
      <3> QED
        BY <2>1, <2>3, <3>1
    <2> QED
      BY <2>2, <2>3
  <1>4. CASE \E n \in Turn, kind \in Kind : Cleanup(n, kind)
    BY <1>4, CleanupEffect
  <1>5. CASE PersistAct \/ FailAct
    <2>1. PICK n \in Turn, kind \in Kind : \E y \in col[n][kind].taken : Leaves(n, kind, y)
      BY <1>5, PersistLeaves DEF PersistAct, FailAct
    <2>2. \E y : col'[m][c].taken = col[m][c].taken \ {y} \/ col'[m][c].taken = col[m][c].taken
      BY <2>1 DEF Leaves
    <2> QED
      BY <2>1, <2>2
  <1> QED
    BY <1>1, <1>2, <1>3, <1>4, <1>5, Frame DEF ColAct, CollectAct

\* It fills one, from entries.
LEMMA BatchMoves ==
    ASSUME TypeOK, [Next]_vars
    PROVE  \E n, kind : \A m \in Turn, c \in Kind : \A x \in col'[m][c].taken :
             \/ x \in col[m][c].taken
             \/ m = n /\ c = kind /\ \E t \in Tasks : Fresh(t, x)
  <1>1. CASE TakeAct
    <2>1. PICK n \in Turn, kind \in Kind : \E S : Taking(n, kind, S)
      BY <1>1, TakeEffect
    <2>2. PICK S : Taking(n, kind, S)
      BY <2>1
    <2>3. ASSUME NEW m \in Turn, NEW c \in Kind, NEW x \in col'[m][c].taken, m # n \/ c # kind
          PROVE  x \in col[m][c].taken
      <3>1. \/ col'[m][c] = col[m][c]
            \/ col'[m][c] = [phase |-> "wait", tasks |-> Pending(n, "turn"), taken |-> {}]
        BY <2>2, <2>3 DEF Taking
      <3> QED
        BY <2>3, <3>1
    <2>4. ASSUME NEW m \in Turn, NEW c \in Kind, NEW x \in col'[m][c].taken, m = n /\ c = kind
          PROVE  \E t \in Tasks : Fresh(t, x)
      <3>1. x \in col'[n][kind].taken
        BY <2>4
      <3> QED
        BY <2>2, <3>1, TakenFresh
    <2> QED
      BY <2>3, <2>4
  <1>2. CASE ~TakeAct
    BY <1>2, TakenOld
  <1> QED
    BY <1>1, <1>2

\* A batch holds what entries held, unbilled.
LEMMA BatchesSoundStep ==
    ASSUME TypeOK, LatestNewest, RowsLinked, EntriesSound, BatchesSound, OneBatch, [Next]_vars
    PROVE  BatchesSound'
  <1> SUFFICES ASSUME NEW n \in Turn, NEW kind \in Kind, NEW x \in col'[n][kind].taken
               PROVE  /\ x.run \in DOMAIN runs' /\ runs'[x.run].task = x.task
                      /\ ~Running(x.run)'
                      /\ \A k \in x.holds :
                           /\ k \in DOMAIN runs' /\ runs'[k].task = x.task /\ k <= x.run
                           /\ ~Running(k)' /\ billed'[k] = 0 /\ ~Held(k)'
    BY DEF BatchesSound
  <1>1. CASE x \in col[n][kind].taken
    <2>1. /\ x.run \in DOMAIN runs /\ ~Running(x.run) /\ runs[x.run].task = x.task
          /\ \A k \in x.holds :
               /\ k \in DOMAIN runs /\ runs[k].task = x.task /\ k <= x.run
               /\ ~Running(k) /\ billed[k] = 0 /\ ~Held(k)
      BY <1>1 DEF BatchesSound
    <2>2. ASSUME NEW k \in x.holds PROVE billed'[k] = 0
      <3>1. CASE PersistAct
        <4>1. PICK m \in Turn, c \in Kind : \E y \in col[m][c].taken : Persist(m, c, y)
          BY <3>1 DEF PersistAct
        <4>2. PICK y \in col[m][c].taken : Persist(m, c, y)
          BY <4>1
        <4>3. y # x \/ n # m \/ kind # c
          <5>1. Leaves(m, c, y)
            BY <4>2, PersistLeaves
          <5>2. col'[m][c].taken = col[m][c].taken \ {y}
            BY <5>1 DEF Leaves
          <5> QED
            BY <5>2
        <4>4. k \notin y.holds
          BY <1>1, <4>3 DEF OneBatch
        <4> QED
          BY <2>1, <4>2, <4>4, PersistBills, Shapes
      <3> QED
        BY <2>1, <3>1, Frame
    <2>3. ASSUME NEW k \in x.holds, NEW t \in Tasks PROVE k \notin mem'[t].holds
      <3>1. k \notin mem[t].holds /\ ~Running(k)
        BY <2>1 DEF Held
      <3>2. Finishes(t) => Running(mem[t].run)
        BY DEF Finishes, Writes
      <3> QED
        BY <3>1, <3>2, HoldsMove
    <2>4. \A k \in x.holds : ~Held(k)'
      BY <2>3 DEF Held
    <2> QED
      BY <2>1, <2>2, <2>4, RowMoves
  <1>2. ASSUME NEW t \in Tasks, Fresh(t, x)
        PROVE  /\ x.run \in DOMAIN runs' /\ runs'[x.run].task = x.task
               /\ ~Running(x.run)'
               /\ \A k \in x.holds :
                    /\ k \in DOMAIN runs' /\ runs'[k].task = x.task /\ k <= x.run
                    /\ ~Running(k)' /\ billed'[k] = 0 /\ ~Held(k)'
    <2>1. /\ x.task = t /\ x.run = mem[t].run /\ x.holds = mem[t].holds /\ x.holds # {}
          /\ ~Running(x.run) /\ mem'[t].holds = {}
      BY <1>2 DEF Fresh, Writes
    <2>2. x.run \in DOMAIN runs /\ runs[x.run].task = t
      BY <2>1 DEF EntriesSound
    <2>3. \A k \in x.holds : /\ k \in DOMAIN runs /\ runs[k].task = t /\ k <= x.run
                             /\ ~Running(k) /\ billed[k] = 0 /\ Held(k)
      BY <2>1 DEF EntriesSound, Held
    <2>4. ASSUME NEW k \in x.holds PROVE billed'[k] = 0
      BY <2>3, HeldUnbilled, Shapes
    <2>5. ASSUME NEW k \in x.holds, NEW u \in Tasks PROVE k \notin mem'[u].holds
      <3>1. CASE u = t
        BY <2>1, <3>1
      <3>2. CASE u # t
        <4>1. k \notin mem[u].holds /\ ~Running(k)
          BY <2>3, <3>2 DEF EntriesSound
        <4>2. Finishes(u) => Running(mem[u].run)
          BY DEF Finishes, Writes
        <4> QED
          BY <4>1, <4>2, HoldsMove
      <3> QED
        BY <3>1, <3>2
    <2>6. \A k \in x.holds : ~Held(k)'
      BY <2>5 DEF Held
    <2> QED
      BY <2>1, <2>2, <2>3, <2>4, <2>6, RowMoves
  <1> QED
    BY <1>1, <1>2, BatchMoves

\* No two packs hold one run: a take empties the entry.
LEMMA OneBatchStep ==
    ASSUME TypeOK, EntriesSound, BatchesSound, OneBatch, [Next]_vars
    PROVE  OneBatch'
  <1> SUFFICES ASSUME NEW n \in Turn, NEW m \in Turn, NEW c \in Kind, NEW d \in Kind,
                      NEW x \in col'[n][c].taken, NEW y \in col'[m][d].taken,
                      NEW k \in x.holds, k \in y.holds
               PROVE  n = m /\ c = d /\ x = y
    BY DEF OneBatch
  <1>1. PICK nf, cf : \A l \in Turn, e \in Kind : \A z \in col'[l][e].taken :
             \/ z \in col[l][e].taken
             \/ l = nf /\ e = cf /\ \E t \in Tasks : Fresh(t, z)
    BY BatchMoves
  <1>2. ASSUME NEW t \in Tasks, NEW z, Fresh(t, z), k \in z.holds PROVE Held(k) /\ runs[k].task = t
    BY <1>2 DEF Fresh, Held, EntriesSound
  <1>3. \A l \in Turn, e \in Kind : \A z \in col[l][e].taken : k \in z.holds => ~Held(k)
    BY DEF BatchesSound
  <1>4. CASE x \in col[n][c].taken /\ y \in col[m][d].taken
    BY <1>4 DEF OneBatch
  <1>5. CASE ~(x \in col[n][c].taken) /\ ~(y \in col[m][d].taken)
    <2>1. /\ n = nf /\ c = cf /\ \E t \in Tasks : Fresh(t, x)
          /\ m = nf /\ d = cf /\ \E t \in Tasks : Fresh(t, y)
      BY <1>1, <1>5
    <2>2. PICK t \in Tasks : Fresh(t, x)
      BY <2>1
    <2>3. PICK u \in Tasks : Fresh(u, y)
      BY <2>1
    <2>4. t = u
      BY <1>2, <2>2, <2>3
    <2> QED
      BY <2>1, <2>2, <2>3, <2>4 DEF Fresh
  <1> QED
    BY <1>1, <1>2, <1>3, <1>4, <1>5

-----------------------------------------------------------------------------
(* Claims. *)

\* A claim names a collector at work, until a resume or its end.
LEMMA ClaimsKnownStep ==
    ASSUME TypeOK, LatestNewest, TurnsInOrder, ClaimsKnown, [Next]_vars
    PROVE  ClaimsKnown'
  <1> SUFFICES ASSUME NEW t \in Tasks, mem'[t].claim # Nobody
               PROVE  \E kind \in Kind : t \in col'[mem'[t].claim][kind].tasks
    BY DEF ClaimsKnown
  <1> DEFINE n == mem'[t].claim
  <1>1. n \in Turn
    BY TypeStep, Shapes DEF TypeOK
  <1>2. CASE TakeAct
    <2>1. PICK m \in Turn, c \in Kind : \E S : Taking(m, c, S)
      BY <1>2, TakeEffect
    <2>2. PICK S : Taking(m, c, S)
      BY <2>1
    <2>3. /\ col[m][c].phase = "wait" /\ mem'[t].claim = mem[t].claim
          /\ col'[m][c] = Batch(m, S)
          /\ t \in col[m][c].tasks \ S /\ n = m => c = "turn" /\ t \in col'[m]["orphan"].tasks
          /\ \A l \in Turn, d \in Kind : l # m \/ d # c =>
               \/ col'[l][d] = col[l][d]
               \/ l = m /\ c = "turn" /\ d = "orphan"
      BY <2>2 DEF Taking
    <2>4. col'[m][c].tasks = S
      BY <2>3, BatchPhase
    <2>5. PICK d \in Kind : t \in col[n][d].tasks
      BY <2>3 DEF ClaimsKnown
    <2>6. CASE n = m /\ d = c
      BY <2>3, <2>4, <2>5, <2>6
    <2>7. CASE n = m /\ c = "turn" /\ d = "orphan"
      <3>1. col[n][d] = Idle
        BY <1>1, <2>3, <2>7 DEF TurnsInOrder
      <3> QED
        BY <2>5, <3>1
    <2>8. CASE ~(n = m /\ d = c) /\ ~(n = m /\ c = "turn" /\ d = "orphan")
      BY <1>1, <2>3, <2>5, <2>8
    <2> QED
      BY <2>6, <2>7, <2>8
  <1>3. CASE \E m \in Turn : SpawnCollector(m)
    <2>1. PICK m \in Turn : Claiming(m)
      BY <1>3, SpawnEffect
    <2> DEFINE mine == {u \in Mine(m) : mem[u].claim = Nobody}
    <2>2. /\ owes[m] = "collect" /\ n = IF t \in mine THEN m ELSE mem[t].claim
          /\ \A l \in Turn, d \in Kind : l # m \/ d # "turn" => col'[l][d] = col[l][d]
          /\ \/ mine = {} /\ col' = col
             \/ col'[m]["turn"].tasks = mine
      BY <2>1 DEF Claiming
    <2> HIDE DEF mine
    <2>3. CASE t \in mine
      BY <2>2, <2>3
    <2>4. CASE t \notin mine
      <3>1. PICK d \in Kind : t \in col[n][d].tasks
        BY <2>2, <2>4 DEF ClaimsKnown
      <3>2. col[m]["turn"] = Idle
        BY <2>2 DEF TurnsInOrder
      <3> QED
        BY <1>1, <2>2, <3>1, <3>2
    <2> QED
      BY <2>3, <2>4
  <1>4. CASE \E m \in Turn, c \in Kind : Cleanup(m, c)
    <2>1. PICK m \in Turn, c \in Kind : Cleanup(m, c)
      BY <1>4
    <2>2. /\ Leaving(Claimed(m, c))
          /\ \A l \in Turn, d \in Kind : l # m \/ d # c => col'[l][d] = col[l][d]
      BY <2>1, CleanupEffect
    <2>3. t \notin Claimed(m, c) /\ mem'[t] = mem[t]
      BY <2>2 DEF Leaving
    <2>4. PICK d \in Kind : t \in col[n][d].tasks
      BY <2>3 DEF ClaimsKnown
    <2>5. n # m \/ d # c
      BY <2>3, <2>4 DEF Claimed
    <2> QED
      BY <1>1, <2>2, <2>4, <2>5
  <1>5. CASE PersistAct \/ FailAct
    <2>1. mem' = mem
      BY <1>5 DEF PersistAct, FailAct, Persist, PersistFails
    <2>2. \A l \in Turn, d \in Kind : col'[l][d].tasks = col[l][d].tasks
      <3>1. PICK m \in Turn, c \in Kind : \E x \in col[m][c].taken : Leaves(m, c, x)
        BY <1>5, PersistLeaves DEF PersistAct, FailAct
      <3> QED
        BY <3>1 DEF Leaves
    <2> QED
      BY <1>1, <2>1, <2>2 DEF ClaimsKnown
  <1>6. CASE Crash
    BY <1>6, CrashEffect DEF Leaving
  <1>7. CASE col' = col /\ mem'[t].claim = mem[t].claim
    BY <1>7 DEF ClaimsKnown
  <1>8. CASE OpenAct
    <2>1. PICK u \in Tasks : Opens(u)
      BY <1>8, OpenEffect
    <2>2. mem'[t].claim = mem[t].claim
      BY <2>1 DEF Opens
    <2>3. col' = col
      BY <1>8 DEF OpenAct, Launch, Resume
    <2> QED
      BY <1>7, <2>2, <2>3
  <1>9. CASE \E m \in Turn : Evict(m)
    <2>1. PICK m \in Turn : Evict(m)
      BY <1>9
    <2>2. Leaving(Mine(m)) /\ col' = col
      BY <2>1, LeavingTyped DEF Evict
    <2> QED
      BY <1>7, <2>2 DEF Leaving
  <1>10. CASE \E u \in Tasks, s \in {"ended", "cancelled"} : Finish(u, s)
    <2>1. PICK u \in Tasks : Finishes(u)
      BY <1>10, FinishEffect
    <2>2. mem'[t].claim = mem[t].claim
      BY <2>1 DEF Finishes
    <2>3. col' = col
      BY <1>10 DEF Finish
    <2> QED
      BY <1>7, <2>2, <2>3
  <1> QED
    BY <1>2, <1>3, <1>4, <1>5, <1>6, <1>7, <1>8, <1>9, <1>10, Frame
       DEF ColAct, CollectAct, MemAct

\* A collector past its wait has left nothing it claims in an entry.
LEMMA ClaimsDrainedStep ==
    ASSUME TypeOK, LatestNewest, TurnsInOrder, EntriesSound, ClaimsDrained, [Next]_vars
    PROVE  ClaimsDrained'
  <1> SUFFICES ASSUME NEW n \in Turn, NEW kind \in Kind, NEW t \in col'[n][kind].tasks,
                      col'[n][kind].phase = "bill", mem'[t].claim = n
               PROVE  mem'[t].holds = {} /\ ~Writes(t)'
    BY DEF ClaimsDrained, Claimed
  <1>1. t \in Tasks /\ n # Nobody
    <2>1. TypeOK'
      BY TypeStep
    <2>2. col' \in [Turn -> [Kind -> Collector]]
      BY <2>1 DEF TypeOK, Collector, Pack
    <2>3. col'[n][kind] \in Collector
      BY <2>2
    <2> QED
      BY <2>3, Shapes DEF Collector
  <1>2. ASSUME mem[t].claim = n, t \in col[n][kind].tasks, col[n][kind].phase = "bill",
               ~Opens(t), mem'[t] # NoEntry
        PROVE  mem'[t].holds = {} /\ ~Writes(t)'
    <2>1. mem[t].holds = {} /\ ~Writes(t)
      BY <1>2 DEF ClaimsDrained, Claimed
    <2>2. EntryKept(t)
      BY <1>1, <1>2, <2>1, EntryMoves DEF Finishes
    <2> QED
      BY <2>1, <2>2 DEF EntryKept
  <1>3. ~Opens(t) /\ mem'[t] # NoEntry
    BY <1>1 DEF Opens
  <1>4. CASE TakeAct
    <2>1. PICK m \in Turn, c \in Kind : \E S : Taking(m, c, S)
      BY <1>4, TakeEffect
    <2>2. PICK S : Taking(m, c, S)
      BY <2>1
    <2>3. /\ mem'[t].claim = mem[t].claim /\ mem'[t].run = mem[t].run
          /\ mem'[t].holds = IF t \in Due(m, S) THEN {} ELSE mem[t].holds
          /\ col'[m][c] = Batch(m, S) /\ \A u \in S : mem[u].claim = m => ~Writes(u)
          /\ \A l \in Turn, d \in Kind : l # m \/ d # c =>
               \/ col'[l][d] = col[l][d] \/ col'[l][d].phase = "wait"
      BY <1>1, <2>2 DEF Taking
    <2>4. CASE n = m /\ kind = c
      <3>1. t \in S
        <4>1. col'[m][c] = Batch(m, S)
          BY <2>3
        <4>2. col'[m][c].tasks = S
          BY <4>1, BatchPhase
        <4> QED
          BY <2>4, <4>2
      <3>2. ~Writes(t) /\ mem'[t].holds = {}
        BY <2>3, <2>4, <3>1 DEF Due
      <3>3. ~Finishes(t)
        BY <3>2 DEF Finishes
      <3> QED
        BY <1>1, <2>3, <3>2, <3>3, WritesKept
    <2>5. CASE n # m \/ kind # c
      BY <1>2, <1>3, <2>3, <2>5
    <2> QED
      BY <2>4, <2>5
  <1>5. CASE \E m \in Turn : SpawnCollector(m)
    <2>1. PICK m \in Turn : Claiming(m)
      BY <1>5, SpawnEffect
    <2>2. /\ owes[m] = "collect"
          /\ mem'[t].claim = m \/ mem'[t].claim = mem[t].claim
          /\ \A l \in Turn, d \in Kind : l # m \/ d # "turn" => col'[l][d] = col[l][d]
          /\ col' = col \/ col'[m]["turn"].phase = "wait"
      BY <1>1, <2>1 DEF Claiming
    <2>3. \A c \in Kind : col[m][c] = Idle
      BY <2>2 DEF TurnsInOrder
    <2>4. n # m
      BY <2>2, <2>3
    <2> QED
      BY <1>2, <1>3, <2>2, <2>4
  <1>6. CASE \E m \in Turn, c \in Kind : Cleanup(m, c)
    <2>1. PICK m \in Turn, c \in Kind : Cleanup(m, c)
      BY <1>6
    <2>2. /\ Leaving(Claimed(m, c)) /\ col'[m][c] = Idle
          /\ \A l \in Turn, d \in Kind : l # m \/ d # c => col'[l][d] = col[l][d]
      BY <2>1, CleanupEffect
    <2>3. mem'[t] = mem[t]
      BY <1>1, <1>3, <2>2 DEF Leaving
    <2>4. col'[n][kind] = col[n][kind]
      BY <2>2
    <2> QED
      BY <1>2, <1>3, <2>3, <2>4
  <1>7. CASE PersistAct \/ FailAct
    <2>1. mem' = mem
      BY <1>7 DEF PersistAct, FailAct, Persist, PersistFails
    <2>2. PICK m \in Turn, c \in Kind : \E x \in col[m][c].taken : Leaves(m, c, x)
      BY <1>7, PersistLeaves DEF PersistAct, FailAct
    <2>3. col'[n][kind].phase = col[n][kind].phase /\ col'[n][kind].tasks = col[n][kind].tasks
      BY <2>2 DEF Leaves
    <2> QED
      BY <1>2, <1>3, <2>1, <2>3
  <1>8. CASE Crash
    BY <1>1, <1>3, <1>8, CrashEffect DEF Leaving
  <1>9. CASE col' = col /\ mem'[t].claim = mem[t].claim
    BY <1>2, <1>3, <1>9
  <1>10. ASSUME OpenAct \/ (\E m \in Turn : Evict(m)) \/
                (\E u \in Tasks, s \in {"ended", "cancelled"} : Finish(u, s))
         PROVE  col' = col /\ mem'[t].claim = mem[t].claim
    <2>1. col' = col
      BY <1>10 DEF OpenAct, Launch, Resume, Evict, Finish
    <2>2. CASE OpenAct
      <3>1. PICK u \in Tasks : Opens(u)
        BY <2>2, OpenEffect
      <3> QED
        BY <1>1, <1>3, <2>1, <3>1 DEF Opens
    <2>3. CASE \E m \in Turn : Evict(m)
      BY <1>1, <1>3, <2>1, <2>3, LeavingTyped DEF Evict, Leaving
    <2>4. CASE \E u \in Tasks, s \in {"ended", "cancelled"} : Finish(u, s)
      BY <1>1, <2>1, <2>4, FinishEffect DEF Finishes
    <2> QED
      BY <1>10, <2>2, <2>3, <2>4
  <1> QED
    BY <1>4, <1>5, <1>6, <1>7, <1>8, <1>9, <1>10, Frame DEF ColAct, CollectAct, MemAct

-----------------------------------------------------------------------------
(* Nothing a run spent gets away, and stamps follow bills. *)

\* Records stay where they are, go into a batch, or die with their entry.
LEMMA HeldMoves ==
    ASSUME TypeOK, LatestNewest, EntriesSound, ClaimsDrained, [Next]_vars,
           NEW t \in Tasks, NEW k \in mem[t].holds
    PROVE  k \in mem'[t].holds \/ Taken(k)' \/ k \in lost'
  <1>1. CASE mem'[t].holds = mem[t].holds
    BY <1>1
  <1>2. CASE TakeAct
    <2>1. PICK n \in Turn, kind \in Kind : \E S : Taking(n, kind, S)
      BY <1>2, TakeEffect
    <2>2. PICK S : Taking(n, kind, S)
      BY <2>1
    <2>3. CASE t \in Due(n, S)
      <3> DEFINE x == [task |-> t, run |-> mem[t].run, holds |-> mem[t].holds]
      <3>1. x \in col'[n][kind].taken
        BY <2>2, <2>3 DEF Taking, Batch
      <3>2. k \in x.holds
        OBVIOUS
      <3> HIDE DEF x
      <3> QED
        BY <3>1, <3>2 DEF Taken
    <2> QED
      BY <1>1, <2>2, <2>3 DEF Taking
  <1>3. CASE \E n \in Turn, kind \in Kind : Cleanup(n, kind)
    <2>1. PICK n \in Turn, kind \in Kind : Cleanup(n, kind)
      BY <1>3
    <2>2. col[n][kind].phase = "bill" /\ Leaving(Claimed(n, kind))
      BY <2>1, CleanupEffect DEF Cleanup
    <2>3. t \notin Claimed(n, kind)
      BY <2>2 DEF ClaimsDrained
    <2> QED
      BY <2>2, <2>3 DEF Leaving
  <1>4. CASE \E n \in Turn : SpawnCollector(n)
    BY <1>1, <1>4, SpawnEffect DEF Claiming
  <1>5. CASE Crash
    BY <1>5, CrashLoses DEF Held
  <1>6. CASE OpenAct
    <2>1. PICK u \in Tasks : Opens(u)
      BY <1>6, OpenEffect
    <2>2. mem'[t].holds = mem[t].holds
      BY <2>1 DEF Opens
    <2> QED
      BY <1>1, <2>2
  <1>7. CASE \E n \in Turn : Evict(n)
    <2>1. PICK n \in Turn : Evict(n)
      BY <1>7
    <2>2. Leaving(Mine(n))
      BY <2>1, LeavingTyped DEF Evict
    <2>3. t \in Mine(n) => k \in lost'
      BY <2>1, EvictLoses
    <2> QED
      BY <2>2, <2>3 DEF Leaving
  <1>8. CASE \E u \in Tasks, s \in {"ended", "cancelled"} : Finish(u, s)
    BY <1>8, FinishEffect DEF Finishes
  <1> QED
    BY <1>1, <1>2, <1>3, <1>4, <1>5, <1>6, <1>7, <1>8, Frame DEF MemAct, CollectAct

\* A batch stays with its collector until it is billed, or lost.
LEMMA TakenMoves ==
    ASSUME TypeOK, TurnsInOrder, RowsLinked, BatchesSound, [Next]_vars,
           NEW k \in Run, Taken(k)
    PROVE  Taken(k)' \/ billed'[k] > 0 \/ k \in lost'
  <1>1. PICK n \in Turn, kind \in Kind : \E x \in col[n][kind].taken : k \in x.holds
    BY DEF Taken
  <1>2. PICK x \in col[n][kind].taken : k \in x.holds
    BY <1>1
  <1>3. col[n][kind].phase \notin {"idle", "wait"} /\ col[n][kind] # Idle
    BY <1>2 DEF TurnsInOrder
  <1>4. x \in col'[n][kind].taken => Taken(k)'
    BY <1>2 DEF Taken
  <1>5. CASE col'[n][kind] = col[n][kind]
    BY <1>2, <1>4, <1>5
  <1>6. CASE TakeAct
    <2>1. PICK m \in Turn, c \in Kind : \E S : Taking(m, c, S)
      BY <1>6, TakeEffect
    <2>2. PICK S : Taking(m, c, S)
      BY <2>1
    <2>3. /\ col[m][c].phase = "wait"
          /\ \A l \in Turn, d \in Kind : l # m \/ d # c =>
               col'[l][d] = col[l][d] \/ (l = m /\ c = "turn" /\ d = "orphan")
      BY <2>2 DEF Taking
    <2>4. c = "turn" => col[m]["orphan"] = Idle
      BY <2>3 DEF TurnsInOrder
    <2>5. col'[n][kind] = col[n][kind]
      BY <1>3, <2>3, <2>4
    <2> QED
      BY <1>5, <2>5
  <1>7. CASE \E m \in Turn : SpawnCollector(m)
    <2>1. PICK m \in Turn : Claiming(m)
      BY <1>7, SpawnEffect
    <2>2. /\ owes[m] = "collect"
          /\ \A l \in Turn, d \in Kind : l # m \/ d # "turn" => col'[l][d] = col[l][d]
      BY <2>1 DEF Claiming
    <2>3. col[m]["turn"] = Idle
      BY <2>2 DEF TurnsInOrder
    <2>4. col'[n][kind] = col[n][kind]
      BY <1>3, <2>2, <2>3
    <2> QED
      BY <1>5, <2>4
  <1>8. CASE \E m \in Turn, c \in Kind : Cleanup(m, c)
    <2>1. PICK m \in Turn, c \in Kind : Cleanup(m, c)
      BY <1>8
    <2>2. col[m][c].taken = {}
      BY <2>1 DEF Cleanup
    <2>3. col'[n][kind] = col[n][kind]
      BY <1>2, <2>1, <2>2, CleanupEffect
    <2> QED
      BY <1>5, <2>3
  <1>9. CASE Crash
    BY <1>9, CrashLoses
  <1>10. CASE PersistAct
    <2>1. PICK m \in Turn, c \in Kind : \E y \in col[m][c].taken : Persist(m, c, y)
      BY <1>10 DEF PersistAct
    <2>2. PICK y \in col[m][c].taken : Persist(m, c, y)
      BY <2>1
    <2>3. CASE y = x
      BY <1>2, <2>2, <2>3, PersistBills
    <2>4. CASE y # x
      <3>1. Leaves(m, c, y)
        BY <2>2, PersistLeaves
      <3>2. x \in col'[n][kind].taken
        BY <1>2, <2>4, <3>1 DEF Leaves
      <3> QED
        BY <1>4, <3>2
    <2> QED
      BY <2>3, <2>4
  <1>11. CASE FailAct
    <2>1. PICK m \in Turn, c \in Kind : \E y \in col[m][c].taken : PersistFails(m, c, y)
      BY <1>11 DEF FailAct
    <2>2. PICK y \in col[m][c].taken : PersistFails(m, c, y)
      BY <2>1
    <2>3. CASE y = x
      BY <1>2, <2>2, <2>3 DEF PersistFails
    <2>4. CASE y # x
      <3>1. Leaves(m, c, y)
        BY <2>2, PersistLeaves
      <3>2. x \in col'[n][kind].taken
        BY <1>2, <2>4, <3>1 DEF Leaves
      <3> QED
        BY <1>4, <3>2
    <2> QED
      BY <2>3, <2>4
  <1> QED
    BY <1>5, <1>6, <1>7, <1>8, <1>9, <1>10, <1>11, Frame DEF ColAct, CollectAct

\* What has ended had ended before, or ends in this step.
LEMMA TerminalMoves ==
    ASSUME TypeOK, LatestNewest, [Next]_vars, NEW k, Terminal(k)'
    PROVE  /\ k \in DOMAIN runs
           /\ Terminal(k) \/ (CloseAct /\ Running(k))
           /\ \A cut \in Turn : Fork(cut) => k \notin Doomed(cut)
  <1>1. CASE runs' = runs
    <2>1. Terminal(k)
      BY <1>1 DEF Terminal
    <2>2. ASSUME NEW cut \in Turn, Fork(cut) PROVE k \notin Doomed(cut)
      BY <2>2, <1>1, ForkEffect DEF RowsCut, Doomed
    <2> QED
      BY <2>1, <2>2 DEF Terminal
  <1>2. CASE \E cut \in Turn : Fork(cut)
    <2>1. ASSUME NEW cut \in Turn, Fork(cut)
          PROVE  k \in DOMAIN runs /\ Terminal(k) /\ k \notin Doomed(cut)
      BY <2>1, ForkEffect, CutRows DEF Terminal, RowsCut
    <2> QED
      BY <1>2, <2>1
  <1>3. ASSUME OpenAct \/ CloseAct
        PROVE  \A cut \in Turn : ~Fork(cut) \/ k \notin Doomed(cut)
    <2>1. ASSUME NEW cut \in Turn, Fork(cut), k \in Doomed(cut) PROVE FALSE
      BY <2>1, ForkEffect, CutRows DEF Terminal, RowsCut
    <2> QED
      BY <2>1
  <1>4. CASE OpenAct
    <2>1. PICK t \in Tasks : Opens(t)
      BY <1>4, OpenEffect
    <2>2. k # Len(runs) + 1
      BY <2>1, OpenedRows DEF Opens
    <2>3. k \in DOMAIN runs
      BY <2>1, <2>2 DEF Opens, RowOpened, Terminal
    <2>4. Terminal(k)
      BY <2>1, <2>3, OpenedRows DEF Opens
    <2> QED
      BY <1>3, <1>4, <2>3, <2>4
  <1>5. CASE CloseAct
    <2>1. PICK j : RowClosed(j)
      BY <1>5, CloseEffect
    <2>2. k \in DOMAIN runs
      BY <2>1 DEF RowClosed, Terminal
    <2>3. Terminal(k) \/ Running(k)
      BY <2>1, <2>2, ClosedRows
    <2> QED
      BY <1>3, <1>5, <2>2, <2>3
  <1> QED
    BY <1>1, <1>2, <1>4, <1>5, Frame DEF RowAct

\* Records move from entry to batch to usage row, or are counted as lost.
LEMMA SpendAccountedStep ==
    ASSUME TypeOK, TurnsInOrder, LatestNewest, RowsLinked, EntriesSound, BatchesSound,
           ClaimsDrained, SpendAccounted, [Next]_vars
    PROVE  SpendAccounted'
  <1> SUFFICES ASSUME NEW k \in DOMAIN runs', Terminal(k)'
               PROVE  Held(k)' \/ Taken(k)' \/ billed'[k] > 0 \/ k \in lost'
    BY DEF SpendAccounted
  <1>1. /\ k \in DOMAIN runs /\ k \in Run
        /\ Terminal(k) \/ (CloseAct /\ Running(k))
        /\ \A cut \in Turn : Fork(cut) => k \notin Doomed(cut)
    BY TerminalMoves, Shapes
  <1>2. CASE Terminal(k)
    <2>1. Held(k) \/ Taken(k) \/ billed[k] > 0 \/ k \in lost
      BY <1>1, <1>2 DEF SpendAccounted
    <2>2. CASE Held(k)
      <3>1. PICK t \in Tasks : k \in mem[t].holds
        BY <2>2 DEF Held
      <3>2. k \in mem'[t].holds => Held(k)'
        BY DEF Held
      <3> QED
        BY <3>1, <3>2, HeldMoves
    <2>3. CASE Taken(k)
      BY <1>1, <2>3, TakenMoves
    <2>4. CASE billed[k] > 0
      <3>1. CASE PersistAct
        BY <1>1, <2>4, <3>1, PersistBills DEF PersistAct
      <3> QED
        BY <2>4, <3>1, Frame
    <2>5. CASE k \in lost
      <3>1. CASE \E cut \in Turn : Fork(cut)
        BY <1>1, <2>5, <3>1, ForkEffect
      <3>2. CASE Crash
        BY <2>5, <3>2, CrashLoses
      <3>3. CASE FailAct
        BY <2>5, <3>3 DEF FailAct, PersistFails
      <3>4. CASE \E n \in Turn : Evict(n)
        BY <2>5, <3>4, EvictLoses
      <3>5. CASE \E j \in Run : RecoverRun(j)
        BY <2>5, <3>5 DEF RecoverRun
      <3> QED
        BY <2>5, <3>1, <3>2, <3>3, <3>4, <3>5, Frame
    <2> QED
      BY <2>1, <2>2, <2>3, <2>4, <2>5
  <1>3. CASE CloseAct /\ Running(k)
    <2>1. CASE \E j \in Run : RecoverRun(j)
      <3>1. PICK j \in Run : RecoverRun(j)
        BY <2>1
      <3>2. RowClosed(j) /\ lost' = lost \cup {j}
        BY <3>1, RecoverEffect
      <3>3. k = j
        <4>1. ~Running(k)'
          BY DEF Running, Terminal
        <4> QED
          BY <1>1, <1>3, <3>2, <4>1, ClosedRows
      <3> QED
        BY <3>2, <3>3
    <2>2. CASE \E t \in Tasks, s \in {"ended", "cancelled"} : Finish(t, s)
      <3>1. PICK t \in Tasks : Finishes(t)
        BY <2>2, FinishEffect
      <3>2. k = mem[t].run
        <4>1. ~Running(k)'
          BY DEF Running, Terminal
        <4> QED
          BY <1>1, <1>3, <3>1, <4>1, ClosedRows DEF Finishes
      <3>3. k \in mem'[t].holds
        BY <3>1, <3>2 DEF Finishes
      <3> QED
        BY <3>3 DEF Held
    <2> QED
      BY <1>3, <2>1, <2>2 DEF CloseAct
  <1> QED
    BY <1>1, <1>2, <1>3

\* Every run a usage row bills is stamped with it, or was billed through a run a
\* truncation has taken.
LEMMA BilledStamped ==
    ASSUME TypeOK, RowsLinked, ChainsComplete, BatchesSound, NEW n \in Turn, NEW kind \in Kind,
           NEW x \in col[n][kind].taken, NEW k \in x.holds, Terminal(k)
    PROVE  k \in Chain(x.run) \/ Cut(k)
  <1>1. /\ x.run \in DOMAIN runs /\ runs[x.run].task = x.task
        /\ k \in DOMAIN runs /\ runs[k].task = x.task /\ k <= x.run
    BY DEF BatchesSound
  <1>2. runs[k].status # "gone"
    BY DEF Terminal
  <1>3. CASE x.run \in Rows
    <2>1. k \in RunsOf(runs[x.run].task)
      BY <1>1, <1>2 DEF RunsOf
    <2> QED
      BY <1>1, <1>3, <2>1 DEF ChainsComplete
  <1>4. CASE x.run \notin Rows
    <2>1. runs[x.run].status = "gone" /\ x.run # k
      BY <1>1, <1>2, <1>4 DEF Rows
    <2>2. x.run > k
      BY <1>1, <2>1, Shapes
    <2> QED
      BY <1>1, <2>1, <2>2 DEF Cut
  <1> QED
    BY <1>3, <1>4

\* settle_task_run stamps the chain of what it bills: runs that have all ended.
LEMMA StampsFollowBillsStep ==
    ASSUME TypeOK, LatestNewest, RowsLinked, ChainsComplete, EntriesSound, BatchesSound,
           MoneySound, BilledOnce, StampsFollowBills, [Next]_vars
    PROVE  StampsFollowBills'
  <1>1. \A k \in settled' : ~Running(k)'
    BY MoneyStep DEF MoneySound
  <1>2. ASSUME NEW k \in DOMAIN runs', billed'[k] > 0, Terminal(k)'
        PROVE  k \in settled' \/ Cut(k)'
    <2>1. /\ k \in DOMAIN runs /\ k \in Run
          /\ Terminal(k) \/ (CloseAct /\ Running(k))
          /\ \A cut \in Turn : Fork(cut) => k \notin Doomed(cut)
      BY <1>2, TerminalMoves, Shapes
    <2>2. Cut(k) => Cut(k)'
      BY <2>1, RowMoves DEF Cut
    <2>3. k \in settled => k \in settled'
      <3>1. CASE \E cut \in Turn : Fork(cut)
        BY <2>1, <3>1, ForkEffect
      <3>2. CASE PersistAct
        BY <3>2, PersistBills DEF PersistAct
      <3>3. CASE Sweep
        BY <3>3 DEF Sweep
      <3> QED
        BY <3>1, <3>2, <3>3, Frame
    <2>4. CASE PersistAct
      <3>1. PICK n \in Turn, kind \in Kind : \E x \in col[n][kind].taken : Persist(n, kind, x)
        BY <2>4 DEF PersistAct
      <3>2. PICK x \in col[n][kind].taken : Persist(n, kind, x)
        BY <3>1
      <3>3. runs' = runs
        BY <3>2 DEF Persist, rowVars
      <3>4. Terminal(k)
        BY <1>2, <3>3 DEF Terminal
      <3>5. CASE k \in x.holds
        BY <2>2, <3>2, <3>4, <3>5, BilledStamped, PersistBills
      <3>6. CASE k \notin x.holds
        <4>1. billed[k] > 0
          BY <1>2, <2>1, <3>2, <3>6, PersistBills
        <4> QED
          BY <2>1, <2>2, <2>3, <3>4, <4>1 DEF StampsFollowBills
      <3> QED
        BY <3>5, <3>6
    <2>5. CASE ~PersistAct
      <3>1. billed[k] > 0
        BY <1>2, <2>5, Frame
      <3>2. ~Running(k)
        BY <2>1, <3>1 DEF MoneySound
      <3> QED
        BY <2>1, <2>2, <2>3, <3>1, <3>2 DEF StampsFollowBills
    <2> QED
      BY <2>4, <2>5
  <1> QED
    BY <1>1, <1>2 DEF StampsFollowBills

-----------------------------------------------------------------------------
(* Records are in one place. *)

FinishAct == \E t \in Tasks, s \in {"ended", "cancelled"} : Finish(t, s)

\* Only the end of a run puts records into an entry.
LEMMA HoldsKept ==
    ASSUME TypeOK, LatestNewest, [Next]_vars, ~FinishAct, NEW t \in Tasks
    PROVE  mem'[t].holds \subseteq mem[t].holds
  <1>1. CASE mem' = mem
    BY <1>1
  <1>2. CASE TakeAct
    BY <1>2, TakeEffect DEF Taking
  <1>3. CASE \E n \in Turn : SpawnCollector(n)
    BY <1>3, SpawnEffect DEF Claiming
  <1>4. CASE \E n \in Turn, kind \in Kind : Cleanup(n, kind)
    BY <1>4, CleanupEffect DEF Leaving, NoEntry
  <1>5. CASE Crash
    BY <1>5, CrashEffect DEF Leaving, NoEntry
  <1>6. CASE \E n \in Turn : Evict(n)
    BY <1>6, LeavingTyped DEF Evict, Leaving, NoEntry
  <1>7. CASE OpenAct
    <2>1. PICK u \in Tasks : Opens(u)
      BY <1>7, OpenEffect
    <2> QED
      BY <2>1 DEF Opens
  <1> QED
    BY <1>1, <1>2, <1>3, <1>4, <1>5, <1>6, <1>7, Frame DEF MemAct, CollectAct, FinishAct

Carried(k) == Held(k) \/ Taken(k)

\* What an entry or a batch carries has ended and was not billed.
LEMMA CarriedUnbilled ==
    ASSUME EntriesSound, BatchesSound, NEW k, Carried(k)
    PROVE  k \in DOMAIN runs /\ ~Running(k) /\ billed[k] = 0
  BY DEF Carried, Held, Taken, EntriesSound, BatchesSound

\* A batch holds what an entry held.
LEMMA CarriedBefore ==
    ASSUME TypeOK, LatestNewest, [Next]_vars, ~FinishAct, NEW k, Carried(k)'
    PROVE  Carried(k)
  <1>1. CASE Held(k)'
    BY <1>1, HoldsKept DEF Carried, Held
  <1>2. CASE Taken(k)'
    <2>1. PICK n \in Turn, kind \in Kind : \E x \in col'[n][kind].taken : k \in x.holds
      BY <1>2 DEF Taken
    <2>2. PICK x \in col'[n][kind].taken : k \in x.holds
      BY <2>1
    <2>3. x \in col[n][kind].taken \/ \E t \in Tasks : Fresh(t, x)
      BY <2>2, BatchMoves
    <2> QED
      BY <2>2, <2>3 DEF Fresh, Carried, Held, Taken
  <1> QED
    BY <1>1, <1>2 DEF Carried

\* What is carried goes on to be, until it is billed or lost.
LEMMA CarriedOn ==
    ASSUME TypeOK, TurnsInOrder, LatestNewest, RowsLinked, EntriesSound, BatchesSound,
           ClaimsDrained, [Next]_vars, NEW k \in Run, Carried(k)
    PROVE  Carried(k)' \/ billed'[k] > 0 \/ k \in lost'
  BY HeldMoves, TakenMoves DEF Carried, Held

\* The records a collector gives up were in its batch alone.
LEMMA BatchAlone ==
    ASSUME TypeOK, BatchesSound, OneBatch, NEW n \in Turn, NEW kind \in Kind,
           NEW x \in col[n][kind].taken, Leaves(n, kind, x), mem' = mem, NEW k \in x.holds
    PROVE  ~Carried(k)'
  <1>1. ~Held(k)'
    BY DEF BatchesSound, Held
  <1>2. ASSUME NEW m \in Turn, NEW c \in Kind, NEW y \in col'[m][c].taken, k \in y.holds
        PROVE  FALSE
    <2>1. y \in col[m][c].taken /\ ~(m = n /\ c = kind /\ y = x)
      BY <1>2 DEF Leaves
    <2>2. x.holds \cap y.holds # {}
      BY <1>2
    <2> QED
      BY <2>1, <2>2 DEF OneBatch
  <1> QED
    BY <1>1, <1>2 DEF Carried, Taken

\* What is lost is in no entry and no batch.
LEMMA LostGoneStep ==
    ASSUME TypeOK, LatestNewest, RowsLinked, EntriesSound, BatchesSound, OneBatch, MoneySound,
           LostGone, [Next]_vars
    PROVE  LostGone'
  <1> SUFFICES ASSUME NEW k \in lost' PROVE ~Carried(k)' /\ billed'[k] = 0
    BY DEF LostGone, Carried
  <1>1. CASE k \in lost
    <2>1. ~Carried(k) /\ billed[k] = 0 /\ k \in DOMAIN runs /\ ~Running(k) /\ k \in Run
      BY <1>1 DEF LostGone, MoneySound, Carried, TypeOK
    <2>2. ASSUME NEW t \in Tasks, NEW s \in {"ended", "cancelled"}, Finish(t, s)
          PROVE  ~Carried(k)'
      <3>1. Finishes(t) /\ col' = col
        BY <2>2, FinishEffect DEF Finish
      <3>2. k # mem[t].run
        BY <2>1, <3>1 DEF Finishes, Writes
      <3>3. \A u \in Tasks : k \in mem'[u].holds => k \in mem[u].holds
        BY <3>1, <3>2 DEF Finishes
      <3> QED
        BY <2>1, <3>1, <3>3 DEF Carried, Held, Taken
    <2>3. ~Carried(k)'
      BY <2>1, <2>2, CarriedBefore DEF FinishAct
    <2>4. CASE PersistAct
      <3>1. PICK n \in Turn, kind \in Kind : \E x \in col[n][kind].taken : Persist(n, kind, x)
        BY <2>4 DEF PersistAct
      <3>2. PICK x \in col[n][kind].taken : Persist(n, kind, x)
        BY <3>1
      <3>3. k \notin x.holds
        BY <2>1, <3>2 DEF Carried, Taken
      <3> QED
        BY <2>1, <2>3, <3>2, <3>3, PersistBills
    <2> QED
      BY <2>1, <2>3, <2>4, Frame
  <1>2. CASE Crash
    <2>1. Carried(k) \/ k \in lost
      BY <1>2, CrashLoses DEF Carried
    <2>2. \A t \in Tasks : mem'[t].holds = {}
      BY <1>2, CrashEffect DEF Leaving, NoEntry
    <2>3. \A n \in Turn, kind \in Kind : col'[n][kind].taken = {}
      BY <1>2 DEF Crash, Idle
    <2>4. billed' = billed
      BY <1>2 DEF Crash
    <2> QED
      BY <1>1, <2>1, <2>2, <2>3, <2>4, CarriedUnbilled DEF Carried, Held, Taken
  <1>3. ASSUME NEW n \in Turn, Evict(n), k \notin lost PROVE ~Carried(k)' /\ billed'[k] = 0
    <2>1. PICK t \in Mine(n) : k \in mem[t].holds
      BY <1>3, EvictLoses
    <2>2. t \in Tasks /\ runs[k].task = t /\ Held(k)
      BY <2>1 DEF Mine, EntriesSound, Held
    <2>3. Leaving(Mine(n)) /\ col' = col /\ billed' = billed
      BY <1>3, LeavingTyped DEF Evict
    <2>4. \A u \in Tasks : k \in mem'[u].holds => k \in mem[u].holds /\ u \notin Mine(n)
      BY <2>3 DEF Leaving, NoEntry
    <2>5. ~Held(k)'
      BY <2>1, <2>2, <2>4 DEF Held, EntriesSound
    <2>6. ~Taken(k)'
      BY <2>2, <2>3 DEF Taken, BatchesSound
    <2> QED
      BY <2>2, <2>3, <2>5, <2>6, CarriedUnbilled DEF Carried
  <1>4. CASE FailAct /\ k \notin lost
    <2>1. PICK n \in Turn, kind \in Kind : \E x \in col[n][kind].taken : PersistFails(n, kind, x)
      BY <1>4 DEF FailAct
    <2>2. PICK x \in col[n][kind].taken : PersistFails(n, kind, x)
      BY <2>1
    <2>3. k \in x.holds /\ mem' = mem /\ billed' = billed
      BY <1>4, <2>2 DEF PersistFails
    <2>4. Leaves(n, kind, x)
      BY <2>2, PersistLeaves
    <2>5. billed[k] = 0
      BY <2>3 DEF BatchesSound
    <2> QED
      BY <2>3, <2>4, <2>5, BatchAlone
  <1>5. ASSUME NEW j \in Run, RecoverRun(j), k \notin lost PROVE ~Carried(k)' /\ billed'[k] = 0
    <2>1. k = j /\ Running(k) /\ UNCHANGED <<mem, col, billed>>
      BY <1>5 DEF RecoverRun, memVars
    <2>2. ~Carried(k) /\ billed[k] = 0
      BY <2>1, <1>5, CarriedUnbilled DEF MoneySound
    <2> QED
      BY <2>1, <2>2 DEF Carried, Held, Taken
  <1> QED
    BY <1>1, <1>2, <1>3, <1>4, <1>5, Frame

-----------------------------------------------------------------------------
(* What the sweep may stamp. *)

\* Only time takes a turn or a run among the aged.
LEMMA AgedMoves ==
    ASSUME TypeOK, TurnsInOrder, AgedSound, [Next]_vars
    PROVE  /\ \A n \in aged'.turns : (Ended(n) /\ owes[n] = "nothing")'
           /\ ~GracePasses => aged'.turns \subseteq aged.turns /\ aged'.runs \subseteq aged.runs
  <1>1. aged \in [turns : SUBSET Turn, runs : SUBSET Run]
    BY DEF TypeOK
  <1>2. CASE \E cut \in Turn : Fork(cut)
    <2>1. PICK cut \in Turn : Fork(cut)
      BY <1>2
    <2>2. /\ aged' = [turns |-> aged.turns \ (cut .. Current), runs |-> aged.runs \ Doomed(cut)]
          /\ TurnOpened /\ owes' = owes
          /\ \A n \in DOMAIN turns : turns'[n] = IF n >= cut THEN "gone" ELSE turns[n]
      BY <2>1, ForkEffect
    <2>3. aged'.turns = aged.turns \ (cut .. Current) /\ aged'.runs = aged.runs \ Doomed(cut)
      BY <2>2
    <2>4. ASSUME NEW n \in aged'.turns PROVE (Ended(n) /\ owes[n] = "nothing")'
      <3>1. Ended(n) /\ owes[n] = "nothing" /\ n \notin cut .. Current
        BY <2>3, <2>4 DEF AgedSound
      <3>2. n \in DOMAIN turns /\ ~(n >= cut)
        BY <3>1, Shapes DEF Ended, Current
      <3> QED
        BY <2>2, <3>1, <3>2 DEF Ended, TurnOpened
    <2>5. aged'.turns \subseteq aged.turns /\ aged'.runs \subseteq aged.runs
      BY <2>3
    <2> QED
      BY <2>4, <2>5
  <1>3. ASSUME ~(\E cut \in Turn : Fork(cut)), NEW n, Ended(n), owes[n] = "nothing", n \in Turn
        PROVE  (Ended(n) /\ owes[n] = "nothing")'
    <2>1. turns[n] # "live" /\ n \in DOMAIN turns /\ turns[n] \in {"done", "dead"}
      BY <1>3 DEF Ended
    <2>2. n \in DOMAIN turns' /\ turns'[n] = turns[n]
      <3>1. CASE StartTurn
        BY <2>1, <3>1, StartTurnEffect DEF TurnOpened
      <3>2. CASE RecoverTurn \/ \E s \in {"done", "dead"} : EndTurn(s)
        <4>1. PICK s \in {"done", "dead"} : TurnClosed(s)
          BY <3>2, TurnCloses DEF RecoverTurn, EndTurn, TurnStatus
        <4>2. LiveTurn
          BY <3>2 DEF RecoverTurn, EndTurn
        <4>3. turns[Current] = "live"
          BY <4>2 DEF LiveTurn, TurnsInOrder
        <4> QED
          BY <2>1, <4>1, <4>3 DEF TurnClosed
      <3> QED
        BY <1>3, <2>1, <3>1, <3>2, Frame DEF TurnAct
    <2>3. owes'[n] = "nothing"
      <3>1. owes \in [Turn -> {"nothing", "collect", "kill", "evict"}]
        BY DEF TypeOK
      <3>2. CASE \E s \in {"done", "dead"} : EndTurn(s)
        <4>1. LiveTurn
          BY <3>2 DEF EndTurn
        <4>2. turns[Current] = "live"
          BY <4>1 DEF LiveTurn, TurnsInOrder
        <4> QED
          BY <1>3, <2>1, <3>1, <3>2, <4>2 DEF EndTurn
      <3>3. CASE Crash
        BY <1>3, <3>3, CrashEffect
      <3>4. ASSUME NEW m \in Turn, Kill(m) \/ Evict(m) \/ SpawnCollector(m)
            PROVE  owes'[n] = "nothing"
        <4>1. /\ owes[m] # "nothing"
              /\ owes' = [owes EXCEPT ![m] = "evict"] \/ owes' = [owes EXCEPT ![m] = "nothing"]
          BY <3>4 DEF Kill, Evict, SpawnCollector
        <4> QED
          BY <1>3, <3>1, <4>1
      <3> QED
        BY <1>3, <3>2, <3>3, <3>4, Frame DEF OwesAct
    <2> QED
      BY <2>1, <2>2, <2>3 DEF Ended
  <1>4. CASE GracePasses
    <2>1. /\ \A n \in Turn : owes[n] = "nothing"
          /\ \A n \in aged'.turns : Ended(n)
          /\ turns' = turns /\ owes' = owes
      BY <1>4 DEF GracePasses, turnVars
    <2>2. \A n \in aged'.turns : n \in Turn
      BY <2>1, Shapes DEF Ended
    <2> QED
      BY <1>4, <2>1, <2>2 DEF Ended
  <1>5. CASE ~GracePasses /\ ~(\E cut \in Turn : Fork(cut))
    <2>1. aged'.turns \subseteq aged.turns /\ aged'.runs \subseteq aged.runs
      <3>1. CASE PersistAct
        <4>1. PICK n \in Turn, kind \in Kind : \E x \in col[n][kind].taken : Persist(n, kind, x)
          BY <3>1 DEF PersistAct
        <4>2. PICK x : aged' = [aged EXCEPT !.runs = @ \ SettledBy(x)]
          BY <4>1 DEF Persist
        <4> QED
          BY <1>1, <4>2
      <3>2. CASE Sweep
        BY <3>2 DEF Sweep
      <3> QED
        BY <1>5, <3>1, <3>2, Frame
    <2>2. \A n \in aged.turns : n \in Turn /\ Ended(n) /\ owes[n] = "nothing"
      BY <1>1 DEF AgedSound
    <2> QED
      BY <1>3, <1>5, <2>1, <2>2
  <1> QED
    BY <1>2, <1>4, <1>5

\* An entry whose collector waits on goes on waiting, loses its records to the
\* batch, or leaves.
LEMMA WaitsMove ==
    ASSUME TypeOK, TurnsInOrder, [Next]_vars, NEW t \in Tasks, Waits(t),
           mem'[t].claim = mem[t].claim, mem'[t].claim # Nobody, mem'[t].holds # {}
    PROVE  Waits(t)'
  <1>1. PICK n \in Turn : col[n]["orphan"].phase = "wait" /\ t \in Claimed(n, "orphan")
    BY DEF Waits
  <1>2. t \in col[n]["orphan"].tasks /\ mem[t].claim = n
    BY <1>1 DEF Claimed
  <1>3. ASSUME col'[n]["orphan"].phase = "wait", col'[n]["orphan"].tasks = col[n]["orphan"].tasks
        PROVE  Waits(t)'
    BY <1>2, <1>3 DEF Waits, Claimed
  <1>4. CASE TakeAct
    <2>1. PICK m \in Turn, c \in Kind : \E S : Taking(m, c, S)
      BY <1>4, TakeEffect
    <2>2. PICK S : Taking(m, c, S)
      BY <2>1
    <2>3. /\ col[m][c].phase = "wait"
          /\ mem'[t].holds = IF t \in Due(m, S) THEN {} ELSE mem[t].holds
          /\ t \in col[m][c].tasks \ S /\ mem'[t].claim = m => c = "turn"
          /\ \A l \in Turn, d \in Kind : l # m \/ d # c =>
               col'[l][d] = col[l][d] \/ (l = m /\ c = "turn" /\ d = "orphan")
      BY <2>2 DEF Taking
    <2>4. ~(n = m /\ c = "turn")
      <3>1. c = "turn" => col[m]["orphan"] = Idle
        BY <2>3 DEF TurnsInOrder
      <3> QED
        BY <1>1, <3>1
    <2>5. ~(n = m /\ c = "orphan")
      <3>1. n = m /\ c = "orphan" => t \in S
        BY <1>2, <2>3
      <3>2. t \in S /\ n = m => t \in Due(m, S)
        BY <1>2, <2>3 DEF Due
      <3> QED
        BY <2>3, <3>1, <3>2
    <2>6. col'[n]["orphan"] = col[n]["orphan"]
      BY <2>3, <2>4, <2>5
    <2> QED
      BY <1>1, <1>3, <2>6
  <1>5. CASE \E m \in Turn : SpawnCollector(m)
    BY <1>1, <1>3, <1>5, SpawnEffect DEF Claiming
  <1>6. CASE \E m \in Turn, c \in Kind : Cleanup(m, c)
    <2>1. PICK m \in Turn, c \in Kind : Cleanup(m, c)
      BY <1>6
    <2>2. col[m][c].phase = "bill"
      BY <2>1 DEF Cleanup
    <2>3. col'[n]["orphan"] = col[n]["orphan"]
      BY <1>1, <2>1, <2>2, CleanupEffect
    <2> QED
      BY <1>1, <1>3, <2>3
  <1>7. CASE PersistAct \/ FailAct
    <2>1. PICK m \in Turn, c \in Kind : \E x \in col[m][c].taken : Leaves(m, c, x)
      BY <1>7, PersistLeaves DEF PersistAct, FailAct
    <2> QED
      BY <1>1, <1>3, <2>1 DEF Leaves
  <1>8. CASE Crash
    BY <1>8, CrashEffect DEF Leaving
  <1>9. CASE col' = col
    BY <1>1, <1>3, <1>9
  <1> QED
    BY <1>4, <1>5, <1>6, <1>7, <1>8, <1>9, Frame DEF ColAct, CollectAct

\* A claim is new only for a turn that has just ended.
LEMMA ClaimMoves ==
    ASSUME TypeOK, LatestNewest, [Next]_vars, NEW t \in Tasks,
           mem'[t].claim # Nobody, mem'[t].claim # mem[t].claim
    PROVE  mem[t].owner \in Turn /\ owes[mem[t].owner] = "collect"
  <1>1. CASE TakeAct
    <2>1. PICK m \in Turn, c \in Kind : \E S : Taking(m, c, S)
      BY <1>1, TakeEffect
    <2> QED
      BY <2>1 DEF Taking
  <1>2. CASE \E m \in Turn : SpawnCollector(m)
    BY <1>2, SpawnEffect DEF Claiming, Mine
  <1>3. CASE \E m \in Turn, c \in Kind : Cleanup(m, c)
    BY <1>3, CleanupEffect DEF Leaving
  <1>4. CASE Crash
    BY <1>4, CrashEffect DEF Leaving
  <1>5. CASE OpenAct
    <2>1. PICK u \in Tasks : Opens(u)
      BY <1>5, OpenEffect
    <2> QED
      BY <2>1 DEF Opens
  <1>6. CASE \E m \in Turn : Evict(m)
    BY <1>6, LeavingTyped DEF Evict, Leaving
  <1>7. CASE \E u \in Tasks, s \in {"ended", "cancelled"} : Finish(u, s)
    BY <1>7, FinishEffect DEF Finishes
  <1> QED
    BY <1>1, <1>2, <1>3, <1>4, <1>5, <1>6, <1>7, Frame DEF MemAct, CollectAct

\* What has aged is past its collector, unless an orphan still waits.
LEMMA AgedSoundStep ==
    ASSUME TypeOK, TurnsInOrder, LatestNewest, RowsLinked, EntriesSound, ClaimsKnown,
           ClaimsDrained, MoneySound, AgedSound, [Next]_vars
    PROVE  AgedSound'
  <1>1. \A n \in aged'.turns : (Ended(n) /\ owes[n] = "nothing")'
    BY AgedMoves
  <1>2. CASE GracePasses
    <2>1. /\ UNCHANGED <<mem, col>>
          /\ \A n \in Turn : \A kind \in Kind : col[n][kind].taken = {}
          /\ \A n \in Turn : col[n]["turn"].phase # "wait"
      BY <1>2 DEF GracePasses, memVars
    <2>2. ASSUME NEW t \in Tasks, mem[t].claim # Nobody, mem[t].holds # {} PROVE Waits(t)
      <3>1. mem[t].claim \in Turn
        BY <2>2, Shapes DEF Entry
      <3>2. PICK kind \in Kind : t \in col[mem[t].claim][kind].tasks
        BY <2>2 DEF ClaimsKnown
      <3>3. t \in Claimed(mem[t].claim, kind)
        BY <3>2 DEF Claimed
      <3>4. col[mem[t].claim][kind].phase # "idle"
        <4>1. col[mem[t].claim][kind].phase = "idle" => col[mem[t].claim][kind] = Idle
          BY <3>1 DEF TurnsInOrder
        <4> QED
          BY <3>2, <4>1
      <3>5. col[mem[t].claim][kind].phase # "bill"
        BY <2>2, <3>1, <3>3 DEF ClaimsDrained
      <3>6. col[mem[t].claim][kind].phase = "wait"
        BY <3>1, <3>4, <3>5, Shapes DEF Collector
      <3>7. kind = "orphan"
        BY <2>1, <3>1, <3>6
      <3> QED
        BY <3>1, <3>3, <3>6, <3>7 DEF Waits
    <2>3. \A t \in Tasks : Waits(t)' = Waits(t)
      BY <2>1 DEF Waits, Claimed
    <2> QED
      BY <1>1, <2>1, <2>2, <2>3 DEF AgedSound
  <1>3. CASE ~GracePasses
    <2> SUFFICES ASSUME NEW k \in aged'.runs, runs'[k].parent \in aged'.turns
                 PROVE  /\ \A t \in Tasks : mem'[t].run = k /\ k \in mem'[t].holds
                                            /\ mem'[t].claim # Nobody => Waits(t)'
                        /\ \A n \in Turn : \A x \in col'[n]["turn"].taken : x.run # k
      BY <1>1 DEF AgedSound
    <2>1. k \in aged.runs /\ k \in DOMAIN runs /\ ~Running(k)
      BY <1>3, AgedMoves DEF MoneySound
    <2>2. runs[k].parent \in aged.turns
      BY <1>3, <2>1, AgedMoves, RowMoves
    <2>3. ASSUME NEW t \in Tasks, mem'[t].run = k, k \in mem'[t].holds, mem'[t].claim # Nobody
          PROVE  Waits(t)'
      <3>1. EntryKept(t)
        <4>1. ~Opens(t)
          BY <2>3 DEF Opens
        <4>2. ~Finishes(t)
          BY <2>1, <2>3 DEF Finishes, Writes
        <4>3. mem'[t] # NoEntry
          BY <2>3
        <4> QED
          BY <4>1, <4>2, <4>3, EntryMoves
      <3>2. mem[t].run = k /\ k \in mem[t].holds
        BY <2>3, <3>1 DEF EntryKept
      <3>3. mem[t].owner = runs[k].parent
        BY <2>1, <3>2, Shapes DEF EntriesSound
      <3>4. owes[mem[t].owner] = "nothing"
        BY <2>2, <3>3 DEF AgedSound
      <3>5. mem'[t].claim = mem[t].claim
        BY <2>3, <3>4, ClaimMoves
      <3>6. Waits(t)
        BY <2>1, <2>2, <2>3, <3>2, <3>5 DEF AgedSound
      <3> QED
        BY <2>3, <3>5, <3>6, WaitsMove
    <2>4. ASSUME NEW n \in Turn, NEW x \in col'[n]["turn"].taken PROVE x.run # k
      <3>1. CASE x \in col[n]["turn"].taken
        BY <2>1, <2>2, <3>1 DEF AgedSound
      <3>2. CASE x \notin col[n]["turn"].taken
        <4>1. TakeAct
          BY <2>4, <3>2, TakenOld
        <4>2. PICK m \in Turn, c \in Kind : \E S : Taking(m, c, S)
          BY <4>1, TakeEffect
        <4>3. PICK S : Taking(m, c, S)
          BY <4>2
        <4>4. n = m /\ c = "turn"
          BY <2>4, <3>2, <4>3 DEF Taking
        <4>5. PICK t \in Tasks : Fresh(t, x) /\ mem[t].claim = n
          BY <2>4, <4>3, <4>4, TakenFresh
        <4>6. x.run = mem[t].run /\ mem[t].holds # {} /\ ~Writes(t)
          BY <4>5 DEF Fresh
        <4>7. mem[t].run \in mem[t].holds
          BY <4>6 DEF EntriesSound
        <4>8. x.run = k => Waits(t)
          <5> SUFFICES ASSUME x.run = k PROVE Waits(t)
            OBVIOUS
          <5>1. mem[t].run = k /\ k \in mem[t].holds
            BY <4>6, <4>7
          <5>2. mem[t].claim # Nobody
            BY <4>5 DEF Turn, Nobody
          <5> QED
            BY <2>1, <2>2, <5>1, <5>2 DEF AgedSound
        <4>9. col[n]["turn"].phase = "wait"
          BY <4>3, <4>4 DEF Taking
        <4>10. col[n]["orphan"] = Idle
          BY <4>9 DEF TurnsInOrder
        <4>11. ~Waits(t)
          BY <4>5, <4>10 DEF Waits, Claimed
        <4> QED
          BY <4>8, <4>11
      <3> QED
        BY <3>1, <3>2
    <2> QED
      BY <2>3, <2>4
  <1> QED
    BY <1>2, <1>3


-----------------------------------------------------------------------------
(* The inductive invariant, and what follows from it. *)

\* The invariant holds at first.
LEMMA InitInv == Init => IInv
  <1> SUFFICES ASSUME Init PROVE IInv
    OBVIOUS
  <1>1. TypeOK
    BY TypeInit
  <1>2. DOMAIN turns = {} /\ DOMAIN runs = {}
    BY DEF Init
  <1>3. TurnsInOrder
    BY <1>2 DEF Init, TurnsInOrder, Idle
  <1>4. RowsLinked
    BY <1>2 DEF RowsLinked
  <1>5. LatestNewest
    BY <1>2 DEF Init, LatestNewest, Newest, RunsOf
  <1>6. ChainsComplete
    BY <1>2 DEF ChainsComplete, Rows
  <1>7. EntriesSound /\ BatchesSound /\ OneBatch /\ MoneySound /\ BilledOnce
    BY MoneyInit
  <1>8. ClaimsKnown
    BY DEF Init, ClaimsKnown, NoEntry
  <1>9. ClaimsDrained
    BY DEF Init, ClaimsDrained, Idle
  <1>10. AgedSound
    BY DEF Init, AgedSound
  <1>11. SpendAccounted
    BY <1>2 DEF SpendAccounted
  <1>12. StampsFollowBills
    BY <1>2 DEF Init, StampsFollowBills
  <1>13. LostGone
    BY DEF Init, LostGone
  <1> QED
    BY <1>1, <1>3, <1>4, <1>5, <1>6, <1>7, <1>8, <1>9, <1>10, <1>11, <1>12, <1>13 DEF IInv

\* Every step keeps it.
LEMMA NextInv == IInv /\ [Next]_vars => IInv'
  <1> SUFFICES ASSUME IInv, [Next]_vars PROVE IInv'
    OBVIOUS
  <1>1. /\ TypeOK /\ TurnsInOrder /\ RowsLinked /\ LatestNewest /\ ChainsComplete
        /\ EntriesSound /\ BatchesSound /\ OneBatch /\ ClaimsKnown /\ ClaimsDrained
        /\ MoneySound /\ LostGone /\ AgedSound
        /\ BilledOnce /\ SpendAccounted /\ StampsFollowBills
    BY DEF IInv
  <1>2. TypeOK' /\ TurnsInOrder' /\ RowsLinked' /\ LatestNewest'
    BY <1>1, TypeStep, TurnsInOrderStep, RowsLinkedStep, LatestNewestStep
  <1>3. ChainsComplete'
    BY <1>1, ChainsCompleteStep
  <1>4. EntriesSound' /\ BatchesSound' /\ OneBatch'
    BY <1>1, EntriesSoundStep, BatchesSoundStep, OneBatchStep
  <1>5. ClaimsKnown' /\ ClaimsDrained'
    BY <1>1, ClaimsKnownStep, ClaimsDrainedStep
  <1>6. MoneySound' /\ BilledOnce'
    BY <1>1, MoneyStep
  <1>7. AgedSound'
    BY <1>1, AgedSoundStep
  <1>8. SpendAccounted'
    BY <1>1, SpendAccountedStep
  <1>9. StampsFollowBills'
    BY <1>1, StampsFollowBillsStep
  <1>10. LostGone'
    BY <1>1, LostGoneStep
  <1> QED
    BY <1>2, <1>3, <1>4, <1>5, <1>6, <1>7, <1>8, <1>9, <1>10 DEF IInv

\* Rows, entries, batches and claims keep what billing and the sweep rely on,
\* whatever turns, writers, collectors, crashes and truncations do.
THEOREM IInvHolds == Spec => []IInv
  <1> QED
    BY InitInv, NextInv, PTL DEF Spec

\* No run's records get into two usage rows: take_task_usage takes them from
\* the entry at once, and a resume keeps what nobody has taken yet.
THEOREM BilledTheorem == Spec => []BilledOnce
  <1>1. IInv => BilledOnce
    BY DEF IInv
  <1> QED
    BY <1>1, IInvHolds, PTL

\* No run's records vanish: they are in an entry, in a batch, in a usage row,
\* or gone with a process, a killed turn or a usage row that was not written.
THEOREM AccountedTheorem == Spec => []SpendAccounted
  <1>1. IInv => SpendAccounted
    BY DEF IInv
  <1> QED
    BY <1>1, IInvHolds, PTL

\* The stamps of settle_task_run follow the bill: what was billed is settled,
\* a live run never is.
THEOREM StampsTheorem == Spec => []StampsFollowBills
  <1>1. IInv => StampsFollowBills
    BY DEF IInv
  <1> QED
    BY <1>1, IInvHolds, PTL

\* A task's pointer is the newest of its surviving runs.
LEMMA LatestIsRecent ==
    ASSUME TypeOK, LatestNewest, NEW t \in Tasks
    PROVE  latest[t] = RECENT(RunsOf(t))
  <1>1. CASE RunsOf(t) = {}
    BY <1>1 DEF LatestNewest, Newest, RECENT
  <1>2. CASE RunsOf(t) # {}
    <2>1. RunsOf(t) \in SUBSET (1 .. Len(runs)) /\ Len(runs) \in Nat
      BY RunsTyped, Shapes
    <2>2. /\ RECENT(RunsOf(t)) \in RunsOf(t)
          /\ \A j \in RunsOf(t) : j <= RECENT(RunsOf(t))
      BY <1>2, <2>1, RecentLast
    <2>3. latest[t] \in RunsOf(t) /\ \A j \in RunsOf(t) : j <= latest[t]
      BY <1>2 DEF LatestNewest, Newest
    <2> QED
      BY <2>1, <2>2, <2>3
  <1> QED
    BY <1>1, <1>2

\* _handle_resume opens the new run after the newest surviving run of its task.
THEOREM NewestTheorem == Spec => ResumeChainsToNewest
  <1>1. ASSUME IInv, [Next]_vars, NEW t \in Tasks, Len(runs') > Len(runs),
               runs'[Len(runs')].task = t
        PROVE  runs'[Len(runs')].pred = RECENT(RunsOf(t))
    <2>1. TypeOK /\ LatestNewest
      BY <1>1 DEF IInv
    <2>2. OpenAct
      <3>1. runs' # runs
        BY <1>1, <2>1, Shapes
      <3>2. CASE \E cut \in Turn : Fork(cut)
        BY <1>1, <2>1, <3>2, ForkEffect, Shapes DEF RowsCut
      <3>3. CASE CloseAct
        BY <1>1, <2>1, <3>3, CloseEffect, Shapes DEF RowClosed
      <3> QED
        BY <1>1, <3>1, <3>2, <3>3, Frame DEF RowAct
    <2>3. PICK u \in Tasks : Opens(u)
      BY <2>1, <2>2, OpenEffect
    <2>4. runs'[Len(runs')] = [task |-> u, status |-> "in_progress", parent |-> Current,
                               pred |-> latest[u]]
      BY <2>3 DEF Opens, RowOpened
    <2>5. u = t /\ runs'[Len(runs')].pred = latest[t]
      BY <1>1, <2>4
    <2> QED
      BY <2>1, <2>5, LatestIsRecent
  <1>2. IInv /\ [Next]_vars =>
          [\A t \in Tasks : Len(runs') > Len(runs) /\ runs'[Len(runs')].task = t =>
             runs'[Len(runs')].pred = RECENT(RunsOf(t))]_vars
    BY <1>1
  <1> QED
    BY <1>2, IInvHolds, PTL DEF Spec, ResumeChainsToNewest

\* settle_abandoned("task") never stamps the newest run of a task while
\* somebody but an orphan collector that still waits is to bill it.
THEOREM SweepTheorem == Spec => SweepSparesNewest
  <1>1. ASSUME IInv, Sweep, NEW k \in settled' \ settled
        PROVE  /\ \A t \in Tasks : mem[t].run = k /\ k \in mem[t].holds => ~Expected(t) \/ Waits(t)
               /\ \A n \in Turn : \A x \in col[n]["turn"].taken : x.run # k
    <2>1. TypeOK /\ EntriesSound /\ AgedSound
      BY <1>1 DEF IInv
    <2>2. k \in DOMAIN runs /\ k \in aged.runs /\ runs[k].parent \in aged.turns
      BY <1>1 DEF Sweep, Abandoned
    <2>3. \A n \in Turn : \A x \in col[n]["turn"].taken : x.run # k
      BY <2>1, <2>2 DEF AgedSound
    <2>4. ASSUME NEW t \in Tasks, mem[t].run = k, k \in mem[t].holds, ~Waits(t)
          PROVE  ~Expected(t)
      <3>1. mem[t].claim = Nobody
        BY <2>1, <2>2, <2>4 DEF AgedSound
      <3>2. mem[t].owner = runs[k].parent
        BY <2>1, <2>2, <2>4, Shapes DEF EntriesSound
      <3>3. Ended(mem[t].owner) /\ owes[mem[t].owner] = "nothing"
        BY <2>1, <2>2, <3>2 DEF AgedSound
      <3> QED
        BY <3>1, <3>3 DEF Expected, Ended
    <2> QED
      BY <2>3, <2>4
  <1>2. IInv =>
          [Sweep => \A k \in settled' \ settled :
             /\ \A t \in Tasks : mem[t].run = k /\ k \in mem[t].holds => ~Expected(t) \/ Waits(t)
             /\ \A n \in Turn : \A x \in col[n]["turn"].taken : x.run # k]_vars
    BY <1>1
  <1> QED
    BY <1>2, IInvHolds, PTL DEF Spec, SweepSparesNewest


-----------------------------------------------------------------------------
(* The ledger implements SpendContract. *)

\* How one run's place may change in a step.
Stays(k) == PlaceOf(k)' = PlaceOf(k) /\ billed'[k] = billed[k]
Falls(k) ==
  /\ k \in lost' \ lost /\ PlaceOf(k) \in {"unrecorded", "carried"} /\ PlaceOf(k)' = "lost"
  /\ billed'[k] = billed[k]

\* The contract's carried spend is in an entry or a batch.
LEMMA PlaceCarried ==
    ASSUME NEW k
    PROVE  PlaceOf(k) = "carried" <=> Carried(k)
  BY DEF PlaceOf, Carried

\* Of a run that goes on, or has not begun, nothing is known.
LEMMA LivePlace ==
    ASSUME IInv, NEW k \in Run, k \notin DOMAIN runs \/ Running(k)
    PROVE  PlaceOf(k) = "unrecorded" /\ k \notin lost
  <1>1. ~Carried(k)
    BY CarriedUnbilled DEF IInv
  <1>2. billed[k] = 0 /\ k \notin lost
    BY DEF IInv, MoneySound
  <1> QED
    BY <1>1, <1>2 DEF PlaceOf, Carried

\* What may be stamped is known.
LEMMA EndedPlace ==
    ASSUME IInv, NEW k, Terminal(k)
    PROVE  k \in Run /\ PlaceOf(k) # "unrecorded"
  <1>1. k \in Run
    BY Shapes DEF IInv, Terminal
  <1> QED
    BY <1>1 DEF IInv, SpendAccounted, PlaceOf, Terminal

\* A run that is not billed in a step of the others stays, or is lost.
LEMMA PlaceMoves ==
    ASSUME IInv, IInv', [Next]_vars, ~FinishAct, NEW k \in Run, billed'[k] = billed[k]
    PROVE  Stays(k) \/ Falls(k)
  <1>1. /\ TypeOK /\ TurnsInOrder /\ LatestNewest /\ RowsLinked /\ EntriesSound
        /\ BatchesSound /\ ClaimsDrained /\ LostGone
    BY DEF IInv
  <1>2. /\ \A j \in lost : ~Carried(j) /\ billed[j] = 0
        /\ \A j \in lost' : ~Carried(j)' /\ billed'[j] = 0
    BY DEF IInv, LostGone, Carried
  <1>3. Carried(k)' => Carried(k)
    BY <1>1, CarriedBefore
  <1>4. Carried(k) => Carried(k)' \/ k \in lost'
    <2>1. Carried(k) => billed[k] = 0
      BY <1>1, CarriedUnbilled
    <2> QED
      BY <1>1, <2>1, CarriedOn
  <1>5. k \in lost => k \in lost'
    <2>1. CASE \E n \in Turn : Evict(n)
      BY <2>1, EvictLoses
    <2>2. CASE Crash
      BY <2>2, CrashLoses
    <2>3. CASE FailAct
      BY <2>3 DEF FailAct, PersistFails
    <2>4. CASE \E j \in Run : RecoverRun(j)
      BY <2>4 DEF RecoverRun
    <2> QED
      BY <2>1, <2>2, <2>3, <2>4, Frame
  <1>6. CASE k \in lost' \ lost
    <2>1. PlaceOf(k)' = "lost"
      BY <1>2, <1>6 DEF PlaceOf, Carried
    <2>2. PlaceOf(k) \in {"unrecorded", "carried"}
      BY <1>2, <1>6 DEF PlaceOf, Carried
    <2> QED
      BY <1>6, <2>1, <2>2 DEF Falls
  <1>7. CASE k \in lost' <=> k \in lost
    <2>1. Carried(k)' <=> Carried(k)
      BY <1>2, <1>3, <1>4, <1>7
    <2> QED
      BY <1>7, <2>1 DEF Stays, PlaceOf, Carried
  <1> QED
    BY <1>5, <1>6, <1>7

\* The end of a run is the recording of its spend.
LEMMA FinishRecords ==
    ASSUME IInv, NEW t \in Tasks, NEW s \in {"ended", "cancelled"}, Finish(t, s)
    PROVE  \E k \in Run : Contract!Record(k)
  <1>1. Finishes(t) /\ UNCHANGED <<settled, billed, lost, col>> /\ TypeOK
    BY FinishEffect DEF Finish, moneyVars, IInv
  <1>0. PICK k : k = mem[t].run
    OBVIOUS
  <1>2. k \in Run /\ PlaceOf(k) = "unrecorded"
    BY <1>0, <1>1, Shapes, LivePlace DEF Finishes, Writes, Running
  <1>3. PlaceOf(k)' = "carried"
    <2>1. \E u \in Tasks : k \in mem'[u].holds
      BY <1>0, <1>1 DEF Finishes
    <2> QED
      BY <2>1 DEF PlaceOf, Held
  <1>4. ASSUME NEW j \in Run, j # k PROVE PlaceOf(j)' = PlaceOf(j)
    <2>1. Held(j)' <=> Held(j)
      BY <1>0, <1>1, <1>4 DEF Finishes, Held
    <2> QED
      BY <1>1, <2>1 DEF PlaceOf, Taken
  <1> QED
    BY <1>1, <1>2, <1>3, <1>4 DEF Contract!Record

\* A usage row bills what its batch has, and stamps rows whose spend is known.
LEMMA PersistBillsContract ==
    ASSUME IInv, IInv', [Next]_vars, NEW n \in Turn, NEW kind \in Kind,
           NEW x \in col[n][kind].taken, Persist(n, kind, x)
    PROVE  Contract!Bill
  <1>1. /\ TypeOK /\ RowsLinked /\ EntriesSound /\ BatchesSound /\ OneBatch
    BY DEF IInv
  <1>2. /\ \A k \in Run : billed'[k] = IF k \in x.holds THEN billed[k] + 1 ELSE billed[k]
        /\ billed' \in [Run -> Nat]
        /\ settled' = settled \cup Chain(x.run) /\ UNCHANGED <<lost, mem, runs>>
    BY DEF Persist, SettledBy, rowVars, IInv, TypeOK
  <1>3. ~FinishAct
    <2> SUFFICES ASSUME NEW t \in Tasks, NEW s \in {"ended", "cancelled"}, Finish(t, s)
                 PROVE  FALSE
      BY DEF FinishAct
    <2>1. Finishes(t)
      BY <1>1, FinishEffect
    <2> QED
      BY <1>2, <2>1 DEF Finishes, RowClosed
  <1>4. ASSUME NEW k \in Run, k \notin x.holds PROVE PlaceOf(k)' = PlaceOf(k)
    <2>1. billed'[k] = billed[k]
      BY <1>2, <1>4
    <2> QED
      BY <1>2, <1>3, <2>1, PlaceMoves DEF Stays, Falls
  <1>5. ASSUME NEW k \in x.holds
        PROVE  k \in Run /\ PlaceOf(k) = "carried" /\ PlaceOf(k)' = "billed"
    <2>1. Carried(k)
      BY DEF Carried, Taken
    <2>2. k \in Run /\ billed[k] = 0
      BY <1>1, <2>1, Shapes, CarriedUnbilled
    <2>3. ~Carried(k)'
      <3>1. Leaves(n, kind, x)
        BY <1>1, PersistLeaves
      <3> QED
        BY <1>1, <1>2, <3>1, BatchAlone
    <2>4. billed'[k] > 0
      BY <1>2, <2>2
    <2>5. PlaceOf(k) = "carried"
      BY <2>1, PlaceCarried
    <2> QED
      BY <2>2, <2>3, <2>4, <2>5 DEF PlaceOf, Carried
  <1>6. ASSUME NEW k \in Chain(x.run) PROVE k \in Run /\ PlaceOf(k) # "unrecorded"
    <2>1. k \in DOMAIN runs /\ ~Running(k) /\ k \in Rows
      BY <1>1, ChainEnded, ChainBound DEF BatchesSound
    <2>2. Terminal(k)
      BY <1>1, <2>1, Shapes DEF Rows, Running, Terminal, Row
    <2> QED
      BY <2>2, EndedPlace
  <1> DEFINE places == [k \in Run |-> PlaceOf(k)]
  <1>7. x.holds \in SUBSET Contract!At({"carried"})
    BY <1>5 DEF Contract!At
  <1>8. Chain(x.run) \in SUBSET Contract!Known
    <2>1. \A k \in Run : PlaceOf(k) \in {"carried", "billed", "lost", "unrecorded"}
      BY DEF PlaceOf
    <2> QED
      BY <1>6, <2>1 DEF Contract!Known, Contract!At
  <1>9. [k \in Run |-> PlaceOf(k)]' =
          [k \in Run |-> IF k \in x.holds THEN "billed" ELSE [j \in Run |-> PlaceOf(j)][k]]
    BY <1>4, <1>5
  <1>10. billed' = [k \in Run |-> IF k \in x.holds THEN billed[k] + 1 ELSE billed[k]]
    BY <1>2
  <1> QED
    BY <1>2, <1>7, <1>8, <1>9, <1>10 DEF Contract!Bill

\* Every other step loses some, stamps or unstamps some, or is not seen.
LEMMA OtherSteps ==
    ASSUME IInv, IInv', [Next]_vars, ~FinishAct, ~PersistAct
    PROVE  [Contract!Next]_Contract!contractVars
  <1>1. TypeOK /\ billed' = billed
    BY Frame DEF IInv
  <1>2. \A k \in Run : Stays(k) \/ Falls(k)
    BY <1>1, PlaceMoves
  <1>3. CASE lost' = lost
    <2>1. [k \in Run |-> PlaceOf(k)]' = [k \in Run |-> PlaceOf(k)]
      BY <1>2, <1>3 DEF Stays, Falls
    <2>2. CASE settled' = settled
      BY <1>1, <2>1, <2>2 DEF Contract!contractVars
    <2>3. CASE \E cut \in Turn : Fork(cut)
      <3>1. PICK cut \in Turn : settled' = settled \ Doomed(cut)
        BY <1>1, <2>3, ForkEffect
      <3>2. settled' = settled \ (settled \cap Doomed(cut))
        BY <3>1
      <3> QED
        BY <1>1, <2>1, <3>2 DEF Contract!Next, Contract!Truncate
    <2>4. CASE Sweep
      <3>1. settled' = settled \cup Abandoned /\ \A k \in Abandoned : Terminal(k)
        BY <2>4 DEF Sweep, Abandoned
      <3>2. Abandoned \in SUBSET Contract!Known
        <4>1. \A k \in Run : PlaceOf(k) \in {"carried", "billed", "lost", "unrecorded"}
          BY DEF PlaceOf
        <4> QED
          BY <3>1, <4>1, EndedPlace DEF Contract!Known, Contract!At
      <3> QED
        BY <1>1, <2>1, <3>1, <3>2 DEF Contract!Next, Contract!WriteOff
    <2> QED
      BY <2>2, <2>3, <2>4, Frame
  <1>4. CASE lost' # lost
    <2>1. settled' = settled
      <3>1. ASSUME NEW n \in Turn, Evict(n) PROVE settled' = settled
        BY <3>1 DEF Evict
      <3>2. CASE Crash
        BY <3>2 DEF Crash
      <3>3. CASE FailAct
        BY <3>3 DEF FailAct, PersistFails
      <3>4. ASSUME NEW k \in Run, RecoverRun(k) PROVE settled' = settled
        BY <3>4 DEF RecoverRun
      <3> QED
        BY <1>4, <3>1, <3>2, <3>3, <3>4, Frame
    <2> DEFINE some == {k \in Run : Falls(k)}
    <2>2. some \in SUBSET Contract!At({"unrecorded", "carried"})
      BY DEF Contract!At, Falls
    <2>3. [k \in Run |-> PlaceOf(k)]' =
            [k \in Run |-> IF k \in some THEN "lost" ELSE [j \in Run |-> PlaceOf(j)][k]]
      BY <1>2 DEF Stays, Falls
    <2> HIDE DEF some
    <2> QED
      BY <1>1, <2>1, <2>2, <2>3 DEF Contract!Next, Contract!Lose
  <1> QED
    BY <1>3, <1>4

\* What a run spent is recorded as it ends, billed once or lost for good, and
\* nothing is settled before: every step of the ledger is a step of the contract.
THEOREM ContractTheorem == Spec => KeepsSpend
  <1>1. Init => Contract!Init
    <2> SUFFICES ASSUME Init PROVE Contract!Init
      OBVIOUS
    <2>1. \A k \in Run : ~Held(k) /\ ~Taken(k)
      BY DEF Init, Held, Taken, NoEntry, Idle
    <2> QED
      BY <2>1 DEF Init, Contract!Init, PlaceOf
  <1>2. IInv /\ [Next]_vars => [Contract!Next]_Contract!contractVars
    <2> SUFFICES ASSUME IInv, [Next]_vars PROVE [Contract!Next]_Contract!contractVars
      OBVIOUS
    <2>1. IInv'
      BY NextInv
    <2>2. CASE FinishAct
      BY <2>2, FinishRecords DEF FinishAct, Contract!Next
    <2>3. CASE PersistAct
      BY <2>1, <2>3, PersistBillsContract DEF PersistAct, Contract!Next
    <2> QED
      BY <2>1, <2>2, <2>3, OtherSteps
  <1> QED
    BY <1>1, <1>2, IInvHolds, PTL DEF Spec, KeepsSpend, Contract!Spec

=============================================================================
