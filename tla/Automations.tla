----------------------------- MODULE Automations -----------------------------
(***************************************************************************)
(* One automation and its firings.  A schedule, a price monitor or a user  *)
(* opens a firing; an executor holds it, waits in line while its thread    *)
(* has a turn, starts a turn of its own and leaves the firing to that run. *)
(* A firing ends once, in a transaction that also writes what it leaves on *)
(* the automation, and four parties race to end it: the executor, a user's *)
(* skip, the finalize job of its run, and a sweep of firings whose process *)
(* went quiet.  Meanwhile the user pauses, resumes and reschedules.        *)
(***************************************************************************)
EXTENDS Naturals

CONSTANTS
  Kinds,        \* trigger types this instance starts from: "cron", "once",
                \* "price" (re-arming) and "alert" (a one-shot price)
  Pinned,       \* values of "the firings share a thread" it starts from
  Endings,      \* how a live run may end
  MaxFailures,  \* max_failures
  MaxFirings,   \* bound: firings
  MaxEvents     \* bound: requests about the automation, turns of the reader,
                \* and crashes, stops, stalls, jobs and reads that fail

ASSUME BoundsAssumption ==
  /\ {MaxFailures, MaxFirings, MaxEvents} \subseteq Nat
  /\ Kinds \subseteq {"cron", "once", "price", "alert"} /\ Pinned \subseteq BOOLEAN
  /\ Endings \subseteq {"completed", "error", "key", "ours", "limited", "stopped", "shutdown"}

VARIABLES
  auto,      \* the automations row; next is when it is due, last the firing whose
             \* claim wrote last_run_at
  pausing,   \* a pause has read the row and has not written yet
  resuming,  \* so has a resume: the time it will write
  fire,      \* automation_executions: the row's status, or the outcome it ended as
  hold,      \* the executor of a firing: where it stands, the automation's status as
             \* it last read it, whether it has recorded the thread, and whether it has
             \* seen its run in the ledger
  linked,    \* firings whose row names its run
  run,       \* the ledger's row of a firing's run
  orphan,    \* live runs whose process died
  job,       \* the automation_settle job of a finalized run
  quiet,     \* firings whose heartbeat is old enough for the sweep
  listed,    \* what a sweep in flight has read of a firing
  reader,    \* the reader's own turn is live on the shared thread
  events     \* how much of MaxEvents has happened

userVars == <<pausing, resuming>>
runVars == <<run, orphan, job>>
sweepVars == <<quiet, listed>>
vars == <<auto, userVars, fire, hold, linked, runVars, sweepVars, reader, events>>

Firing == 1 .. MaxFirings
Unsettled == {"pending", "waiting", "running"}
Outcomes == {"completed", "failed", "key_rejected", "limited", "failed_ours",
             "interrupted", "stopped", "skipped"}
RunEnded == {"completed", "error", "key", "ours", "limited", "stopped", "shutdown", "recovered"}
Nobody == [at |-> "none", read |-> "active", resolved |-> FALSE, admitted |-> FALSE]
Held(f) == hold[f] # Nobody
Happens == events < MaxEvents /\ events' = events + 1

-----------------------------------------------------------------------------
(* What an outcome means. *)

Price == auto.kind \in {"price", "alert"}

\* _POLICIES: where an outcome may end a firing from, and its strike.
FromStatuses(o) ==
  CASE o \in {"completed", "stopped"} -> {"running"}
    [] o = "skipped"                  -> {"waiting"}
    [] o = "interrupted"              -> {"pending", "running"}
    [] OTHER                          -> Unsettled
Strike(o) ==
  CASE o = "failed"       -> "count"
    [] o = "key_rejected" -> "fuse"
    [] o = "completed"    -> "reset"
    [] OTHER              -> "none"

\* _schedule_action: a firing that counts closes a one-time automation or a
\* one-shot alert; every other price firing goes back to watching.
ScheduleActionForgets(o) ==  \* Mutant: an interrupted firing leaves the schedule alone.
  LET counts == o \in {"completed", "stopped", "skipped"}
      closes == \/ auto.kind \in {"once", "alert"} /\ counts
                \/ auto.kind = "alert" /\ o = "limited"
  IN CASE closes                               -> "close"
       [] ~closes /\ Price /\ o # "interrupted" -> "rearm"
       [] OTHER                                -> "none"
ScheduleAction(o) ==
  LET counts == o \in {"completed", "stopped", "skipped"}
      closes == \/ auto.kind \in {"once", "alert"} /\ counts
                \/ auto.kind = "alert" /\ o = "limited"
  IN CASE closes           -> "close"
       [] ~closes /\ Price -> "rearm"
       [] OTHER            -> "none"

\* ledger_outcome.
LedgerOutcome(r) ==
  CASE r = "completed"                -> "completed"
    [] r = "stopped"                  -> "stopped"
    [] r = "limited"                  -> "limited"
    [] r = "key"                      -> "key_rejected"
    [] r = "ours"                     -> "failed_ours"
    [] r = "error"                    -> "failed"
    [] r \in {"shutdown", "recovered"} -> "interrupted"

\* _count_strike, and the reset that spares a disabled automation.
Struck(o) ==
  LET count == auto.count + 1
      disables == /\ Strike(o) = "fuse" \/ (Strike(o) = "count" /\ count >= MaxFailures)
                  /\ auto.status \in {"active", "executing"}
  IN CASE Strike(o) = "none" -> auto
       [] Strike(o) = "reset" -> IF auto.status = "disabled" THEN auto
                                 ELSE [auto EXCEPT !.count = 0]
       [] disables /\ auto.kind # "once" ->
            [auto EXCEPT !.count = count, !.status = "disabled", !.next = "none"]
       [] disables /\ auto.kind = "once" ->
            [auto EXCEPT !.count = count, !.status = "disabled"]
       [] OTHER -> [auto EXCEPT !.count = count]

\* _SCHEDULE_SQL: only the firing that claimed the automation, and only while
\* the automation is still on it.
StillOnAnyFiring(a, f, status) == a.status = status  \* Mutant: the claim's stamp is not compared.
StillOn(a, f, status) == a.status = status /\ a.last = f
Scheduled(a, f, o) ==
  CASE ScheduleAction(o) = "close" /\ ~Price /\ StillOn(a, f, "active") /\ a.next = "none" ->
         [a EXCEPT !.status = "completed"]
    [] ScheduleAction(o) = "close" /\ Price /\ StillOn(a, f, "executing") ->
         [a EXCEPT !.status = "completed", !.next = "none"]
    [] ScheduleAction(o) = "rearm" /\ StillOn(a, f, "executing") ->
         [a EXCEPT !.status = "active"]
    [] OTHER -> a

\* settle: the row, the strike and the schedule in one transaction, or nothing
\* when somebody else ended the firing.
Settle(f, o) ==
  IF fire[f] \in FromStatuses(o)
  THEN /\ fire' = [fire EXCEPT ![f] = o]
       /\ auto' = Scheduled(Struck(o), f, o)
       /\ quiet' = quiet \ {f} /\ listed' = [listed EXCEPT ![f] = "no"]
  ELSE UNCHANGED <<fire, auto, sweepVars>>

-----------------------------------------------------------------------------
Init ==
  /\ \E kind \in Kinds, pinned \in Pinned :
       auto = [kind |-> kind, pinned |-> pinned, status |-> "active", count |-> 0, last |-> 0,
               next |-> IF kind \in {"cron", "once"} THEN "later" ELSE "none"]
  /\ pausing = FALSE /\ resuming = "no"
  /\ fire = [f \in Firing |-> "none"] /\ hold = [f \in Firing |-> Nobody] /\ linked = {}
  /\ run = [f \in Firing |-> "none"] /\ orphan = {} /\ job = [f \in Firing |-> "none"]
  /\ quiet = {} /\ listed = [f \in Firing |-> "no"]
  /\ reader = FALSE /\ events = 0

-----------------------------------------------------------------------------
(* Opening a firing. *)

Goes(f, where) == hold' = [hold EXCEPT ![f].at = where]
Leaves(f) == hold' = [hold EXCEPT ![f] = Nobody]

Opens(f, stands, read) ==
  /\ fire[f] = "none" /\ \A g \in 1 .. f - 1 : fire[g] # "none"
  /\ fire' = [fire EXCEPT ![f] = "pending"]
  /\ hold' = [hold EXCEPT ![f].at = stands, ![f].read = read]
  /\ UNCHANGED <<userVars, linked, runVars, sweepVars, reader, events>>

\* claim_due_automations, and then _poll_once gives a cron its next time.
ClaimDue(f) ==
  /\ auto.status = "active" /\ auto.next = "due"
  /\ auto' = [auto EXCEPT !.next = "none", !.last = f]
  /\ Opens(f, IF auto.kind = "cron" THEN "claimed" ELSE "queued", "active")
Reschedule(f) ==
  /\ hold[f].at = "claimed"
  /\ Goes(f, "queued")
  /\ \/ auto' = [auto EXCEPT !.next = "later"] /\ UNCHANGED events
     \/ Happens /\ UNCHANGED auto
  /\ UNCHANGED <<userVars, fire, linked, runVars, sweepVars, reader>>

\* claim_price_firing: the monitor's list may be old, so the claim asks again.
ClaimPrice(f) ==
  /\ Price /\ auto.status = "active"
  /\ auto' = [auto EXCEPT !.status = "executing", !.next = "none", !.last = f]
  /\ Opens(f, "queued", "active")

\* trigger_automation: a manual run leaves the schedule and its stamp alone.
Trigger(f) ==
  /\ auto.status \in {"active", "paused", "completed"}
  /\ Opens(f, "queued", auto.status)
  /\ UNCHANGED auto

-----------------------------------------------------------------------------
(* The user, who reads the row first and writes it unconditionally later. *)

AskPause ==
  /\ Happens /\ ~pausing /\ auto.status = "active"
  /\ pausing' = TRUE
  /\ UNCHANGED <<auto, resuming, fire, hold, linked, runVars, sweepVars, reader>>
Pause ==
  /\ pausing /\ pausing' = FALSE
  /\ auto' = [auto EXCEPT !.status = "paused", !.next = IF auto.kind = "once" THEN @ ELSE "none"]
  /\ UNCHANGED <<resuming, fire, hold, linked, runVars, sweepVars, reader, events>>

\* A one-time automation resumes at the time it kept, if that is still to come;
\* one that was disabled resumes without a time, a paused one is refused.
AskResume ==
  /\ Happens /\ resuming = "no" /\ auto.status \in {"paused", "disabled"}
  /\ auto.kind = "once" => auto.next = "later" \/ auto.status = "disabled"
  /\ resuming' = CASE auto.kind = "once" -> IF auto.next = "later" THEN "later" ELSE "none"
                   [] auto.kind = "cron" -> "later"
                   [] OTHER              -> "keep"
  /\ UNCHANGED <<auto, pausing, fire, hold, linked, runVars, sweepVars, reader>>
Resume ==
  /\ resuming # "no" /\ resuming' = "no"
  /\ auto' = [auto EXCEPT !.status = "active", !.count = 0,
                          !.next = IF resuming = "keep" THEN @ ELSE resuming]
  /\ UNCHANGED <<pausing, fire, hold, linked, runVars, sweepVars, reader, events>>

\* update_automation with a new time.  A cron takes one only if it was active when
\* it was read, which may have been before anything else happened.
Edit ==
  /\ Happens /\ auto.kind \in {"once", "cron"}
  /\ auto' = [auto EXCEPT !.next = "later"]
  /\ UNCHANGED <<pausing, resuming, fire, hold, linked, runVars, sweepVars, reader>>

\* skip_execution
Skip(f) ==
  /\ fire[f] = "waiting"
  /\ Settle(f, "skipped")
  /\ UNCHANGED <<userVars, hold, linked, runVars, reader, events>>

\* The time comes that the row, or a resume about to write it, carries.
TimeComes ==
  /\ auto.next = "later" \/ resuming = "later"
  /\ auto' = [auto EXCEPT !.next = IF @ = "later" THEN "due" ELSE @]
  /\ resuming' = IF resuming = "later" THEN "due" ELSE resuming
  /\ UNCHANGED <<pausing, fire, hold, linked, runVars, sweepVars, reader, events>>

\* The reader's turns on the thread the firings share.
Busy == reader \/ \E f \in Firing : run[f] = "live"
ReaderStarts ==
  /\ auto.pinned /\ ~Busy /\ Happens
  /\ reader' = TRUE
  /\ UNCHANGED <<auto, userVars, fire, hold, linked, runVars, sweepVars>>
ReaderEnds ==
  /\ reader /\ reader' = FALSE
  /\ UNCHANGED <<auto, userVars, fire, hold, linked, runVars, sweepVars, events>>

-----------------------------------------------------------------------------
(* The executor of a firing. *)

\* Its first write may find the firing settled by the sweep.
Execute(f) ==
  /\ hold[f].at = "queued"
  /\ IF fire[f] = "pending" THEN fire' = [fire EXCEPT ![f] = "running"] /\ Goes(f, "start")
                            ELSE Leaves(f) /\ UNCHANGED fire
  /\ UNCHANGED <<auto, userVars, linked, runVars, sweepVars, reader, events>>

JoinLine(f) ==
  IF fire[f] \in {"pending", "running"}
  THEN fire' = [fire EXCEPT ![f] = "waiting"] /\ Goes(f, "line")
  ELSE Leaves(f) /\ UNCHANGED fire

Begin(f) ==
  /\ hold[f].at = "start"
  /\ IF auto.pinned /\ Busy THEN JoinLine(f) ELSE Goes(f, "gate") /\ UNCHANGED fire
  /\ UNCHANGED <<auto, userVars, linked, runVars, sweepVars, reader, events>>

\* _look_again, up to its last write.  "thread_busy" at the deadline, which may
\* have passed at any look.
Ahead(f) == \E g \in 1 .. f - 1 : fire[g] = "waiting"
MayRun(f) == auto.status \in {"active", "executing", hold[f].read}
EndsWait(f) ==
  \/ fire[f] # "waiting" /\ UNCHANGED <<fire, auto, sweepVars>>
  \/ fire[f] = "waiting" /\ (Ahead(f) \/ Busy \/ ~MayRun(f)) /\ Settle(f, "skipped")
Look(f) ==
  /\ hold[f].at = "line"
  /\ \/ EndsWait(f) /\ Leaves(f)
     \/ /\ fire[f] = "waiting" /\ ~Ahead(f) /\ ~Busy /\ MayRun(f)
        /\ hold' = [hold EXCEPT ![f].at = "enter", ![f].read = auto.status]
        /\ UNCHANGED <<fire, auto, sweepVars>>
  /\ UNCHANGED <<userVars, linked, runVars, reader, events>>
Enter(f) ==
  /\ hold[f].at = "enter"
  /\ IF fire[f] = "waiting" THEN fire' = [fire EXCEPT ![f] = "running"] /\ Goes(f, "gate")
                            ELSE Leaves(f) /\ UNCHANGED fire
  /\ UNCHANGED <<auto, userVars, linked, runVars, sweepVars, reader, events>>

\* The credit gate and whatever else fails before the turn is in the ledger.
Refused(f) ==
  /\ hold[f].at \in {"start", "gate", "turn"}
  /\ \E o \in {"limited", "failed", "failed_ours"} : Settle(f, o)
  /\ Leaves(f)
  /\ UNCHANGED <<userVars, linked, runVars, reader, events>>
\* The thread is recorded on a firing that still runs; a firing that lost its
\* thread and waited from within its turn has that behind it.
Gate(f) ==
  /\ hold[f].at = "gate"
  /\ IF hold[f].resolved \/ fire[f] = "running"
     THEN hold' = [hold EXCEPT ![f].at = "turn", ![f].resolved = TRUE]
     ELSE Leaves(f)
  /\ UNCHANGED <<auto, userVars, fire, linked, runVars, sweepVars, reader, events>>

\* START on a free thread, or back in line behind whoever took it.
Admit(f) ==
  /\ hold[f].at = "turn"
  /\ \/ /\ ~(auto.pinned /\ Busy)
        /\ run' = [run EXCEPT ![f] = "live"]
        /\ hold' = [hold EXCEPT ![f] = [Nobody EXCEPT !.at = "drain"]] /\ UNCHANGED fire
     \/ auto.pinned /\ Busy /\ JoinLine(f) /\ UNCHANGED run
  /\ UNCHANGED <<auto, userVars, linked, orphan, job, sweepVars, reader, events>>

\* _link_run: the one writer of the link.
LinkRun(f) == linked' = IF fire[f] = "running" THEN linked \cup {f} ELSE linked

\* _note_admission, at an event of the run.
NoteAdmission(f) ==
  /\ hold[f].at = "drain" /\ ~hold[f].admitted /\ run[f] \notin {"stopped", "shutdown"}
  /\ LinkRun(f) /\ hold' = [hold EXCEPT ![f].admitted = TRUE]
  /\ UNCHANGED <<auto, userVars, fire, runVars, sweepVars, reader, events>>

\* The firing is left to its run: when the drain ends, and when it breaks or the
\* server stops while the run goes on, where the last link may fail too
\* (_hand_to_run, _left_to_run).
HandToRun(f) ==
  /\ hold[f].at = "drain" /\ Leaves(f)
  /\ \/ run[f] = "live" /\ Happens /\ (LinkRun(f) \/ UNCHANGED linked)
     \/ /\ run[f] # "live" /\ UNCHANGED events
        /\ IF hold[f].admitted THEN UNCHANGED linked ELSE LinkRun(f)
  /\ UNCHANGED <<auto, userVars, fire, runVars, sweepVars, reader>>
\* The drain breaks and the ledger cannot be read either.
LosesRun(f) ==
  /\ hold[f].at = "drain" /\ ~hold[f].admitted /\ Happens
  /\ Settle(f, "failed") /\ Leaves(f)
  /\ UNCHANGED <<userVars, linked, runVars, reader>>

\* The server stops, and the executor with it, short of its run.
StopOutcome(f) == IF hold[f].at \in {"line", "enter"} THEN "skipped" ELSE "interrupted"
Interrupt(f) ==
  /\ hold[f].at \notin {"none", "drain"} /\ Happens
  /\ IF hold[f].at \in {"claimed", "queued"} THEN UNCHANGED <<fire, auto, sweepVars>>
                                             ELSE Settle(f, StopOutcome(f))
  /\ Leaves(f)
  /\ UNCHANGED <<userVars, linked, runVars, reader>>

\* A process dies with the executors and the runs it held.
Crash(S) ==
  /\ S # {} /\ \A f \in S : Held(f) \/ (run[f] = "live" /\ f \notin orphan)
  /\ Happens
  /\ hold' = [f \in Firing |-> IF f \in S THEN Nobody ELSE hold[f]]
  /\ orphan' = orphan \cup {f \in S : run[f] = "live"}
  /\ UNCHANGED <<auto, userVars, fire, linked, run, job, sweepVars, reader>>

-----------------------------------------------------------------------------
(* Runs, and the job their finalize leaves in the outbox. *)

RunEnds(f, e) ==
  /\ run[f] = "live" /\ f \notin orphan
  /\ run' = [run EXCEPT ![f] = e] /\ job' = [job EXCEPT ![f] = "queued"]
  /\ UNCHANGED <<auto, userVars, fire, hold, linked, orphan, sweepVars, reader, events>>
Recover(f) ==
  /\ f \in orphan
  /\ \E e \in {"recovered", "stopped"} : run' = [run EXCEPT ![f] = e]
  /\ job' = [job EXCEPT ![f] = "queued"] /\ orphan' = orphan \ {f}
  /\ UNCHANGED <<auto, userVars, fire, hold, linked, sweepVars, reader, events>>

\* _settle_finished_run, which the outbox may also give up on.
Deliver(f) ==
  /\ job[f] = "queued" /\ job' = [job EXCEPT ![f] = "done"]
  /\ Settle(f, LedgerOutcome(run[f]))
  /\ UNCHANGED <<userVars, hold, linked, run, orphan, reader, events>>
JobDies(f) ==
  /\ job[f] = "queued" /\ Happens /\ job' = [job EXCEPT ![f] = "done"]
  /\ UNCHANGED <<auto, userVars, fire, hold, linked, run, orphan, sweepVars, reader>>

-----------------------------------------------------------------------------
(* Heartbeats and the sweep. *)

\* Five minutes without a beat: nobody holds the firing, or its process stalls.
GoesQuiet(f) ==
  /\ fire[f] \in Unsettled /\ f \notin quiet
  /\ Held(f) => Happens
  /\ ~Held(f) => UNCHANGED events
  /\ quiet' = quiet \cup {f}
  /\ UNCHANGED <<auto, userVars, fire, hold, linked, runVars, listed, reader>>
\* touch_execution
Beat(f) ==
  /\ f \in quiet /\ hold[f].at \notin {"none", "claimed", "queued"} /\ fire[f] \in Unsettled
  /\ quiet' = quiet \ {f}
  /\ UNCHANGED <<auto, userVars, fire, hold, linked, runVars, listed, reader, events>>

\* list_abandoned_executions leaves out a firing whose linked run goes on.
ListAbandoned(f) ==
  /\ listed[f] = "no" /\ f \in quiet /\ fire[f] \in Unsettled
  /\ f \in linked => run[f] # "live"
  /\ listed' = [listed EXCEPT ![f] = IF fire[f] = "waiting" THEN "waiting"
                                     ELSE IF f \in linked THEN "linked" ELSE "unlinked"]
  /\ UNCHANGED <<auto, userVars, fire, hold, linked, runVars, quiet, reader, events>>

\* settle_abandoned, from the row the sweep listed.
SweepOutcomeOfWait(f) ==  \* Mutant: a wait is settled like any other firing.
  IF listed[f] = "linked" THEN LedgerOutcome(run[f]) ELSE "interrupted"
SweepOutcome(f) ==
  CASE listed[f] = "waiting"  -> "skipped"
    [] listed[f] = "linked"   -> LedgerOutcome(run[f])
    [] listed[f] = "unlinked" -> "interrupted"
StillQuietAsListed(f) == TRUE  \* Mutant: the heartbeat is not looked at again.
StillQuiet(f) == f \in quiet
Sweep(f) ==
  /\ listed[f] # "no"
  /\ \/ StillQuiet(f) /\ fire[f] \in FromStatuses(SweepOutcome(f)) /\ Settle(f, SweepOutcome(f))
     \/ /\ ~(StillQuiet(f) /\ fire[f] \in FromStatuses(SweepOutcome(f)))
        /\ listed' = [listed EXCEPT ![f] = "no"] /\ UNCHANGED <<fire, auto, quiet>>
  /\ UNCHANGED <<userVars, hold, linked, runVars, reader, events>>

-----------------------------------------------------------------------------
Executes(f) ==
  \/ Reschedule(f) \/ Execute(f) \/ Begin(f) \/ Look(f) \/ Enter(f) \/ Refused(f) \/ Gate(f)
  \/ Admit(f) \/ (HandToRun(f) /\ run[f] # "live")

RunGoesOn(f) == (\E e \in Endings : RunEnds(f, e)) \/ Recover(f) \/ Deliver(f)
SweepComes(f) == (~Held(f) /\ GoesQuiet(f)) \/ ListAbandoned(f) \/ Sweep(f)

Next ==
  \/ \E f \in Firing :
       \/ ClaimDue(f) \/ ClaimPrice(f) \/ Trigger(f) \/ Skip(f)
       \/ Executes(f) \/ NoteAdmission(f) \/ HandToRun(f) \/ LosesRun(f) \/ Interrupt(f)
       \/ RunGoesOn(f) \/ JobDies(f) \/ SweepComes(f) \/ GoesQuiet(f) \/ Beat(f)
  \/ \E S \in SUBSET Firing : Crash(S)
  \/ AskPause \/ Pause \/ AskResume \/ Resume \/ Edit \/ TimeComes
  \/ ReaderStarts \/ ReaderEnds

Spec == Init /\ [][Next]_vars

\* Executors, runs, recovery, the outbox and the sweep go on; time passes; the
\* reader's turn ends.
Fairness ==
  /\ \A f \in Firing : WF_vars(Executes(f)) /\ WF_vars(RunGoesOn(f)) /\ WF_vars(SweepComes(f))
  /\ WF_vars(ReaderEnds)

FairSpec == Spec /\ Fairness

-----------------------------------------------------------------------------
(* Properties. *)

AutoType == [kind : {"cron", "once", "price", "alert"}, pinned : BOOLEAN,
             status : {"active", "paused", "disabled", "completed", "executing"},
             count : Nat, last : {0} \cup Firing, next : {"none", "later", "due"}]
BeforeItsRun == {"claimed", "queued", "start", "line", "enter", "gate", "turn"}
HoldType == [at : {"none", "drain"} \cup BeforeItsRun,
             read : {"active", "paused", "disabled", "completed", "executing"},
             resolved : BOOLEAN, admitted : BOOLEAN]

TypeOK ==
  /\ auto \in AutoType
  /\ pausing \in BOOLEAN /\ resuming \in {"no", "keep", "none", "later", "due"}
  /\ fire \in [Firing -> {"none"} \cup Unsettled \cup Outcomes]
  /\ hold \in [Firing -> HoldType]
  /\ linked \subseteq Firing
  /\ run \in [Firing -> {"none", "live"} \cup RunEnded] /\ orphan \subseteq Firing
  /\ job \in [Firing -> {"none", "queued", "done"}]
  /\ quiet \subseteq Firing /\ listed \in [Firing -> {"no", "waiting", "linked", "unlinked"}]
  /\ reader \in BOOLEAN /\ events \in 0 .. MaxEvents

\* A price alert is never left executing behind a settled firing: the one that
\* claimed it is still to end, and will re-arm or close it (settle_execution).
ExecutingIsFired == auto.status = "executing" => auto.last # 0 /\ fire[auto.last] \in Unsettled

Settles(f) == fire[f] \in Unsettled /\ fire'[f] \in Outcomes

\* A pause or a disable stands until a resume, whatever is still running; and a
\* firing that did not claim the automation, a manual run or one a later claim
\* has replaced, never closes or re-arms it (_SCHEDULE_SQL).
ScheduleStands ==
  [][/\ auto.status \in {"paused", "disabled"} /\ auto'.status \in {"active", "executing"}
          => resuming # "no" /\ resuming' = "no"
     /\ \A f \in Firing : Settles(f) /\ auto.last # f
          => auto'.status \in {auto.status, "disabled"}]_vars

\* A firing whose row names its run ends when that run has and as it did, unless
\* a sweep read the row before the link; and one a process holds and beats for
\* is ended by that process, by a skip of its wait, or by its finished run.
EndsAsItsRun ==
  [][\A f \in Firing : Settles(f) =>
       /\ f \in linked /\ listed[f] # "unlinked"
            => run[f] \in RunEnded /\ fire'[f] = LedgerOutcome(run[f])
       /\ Held(f) /\ hold'[f].at = hold[f].at /\ f \notin quiet
            => fire'[f] = "skipped" \/ run[f] \in RunEnded]_vars

\* Whatever crashes, stops or stalls, every firing ends.
FiringsSettle == \A f \in Firing : fire[f] \in Unsettled ~> fire[f] \in Outcomes

\* A cron that is active has a next time, or its scheduler is about to write one
\* (claim_due_automations, "will be recalculated externally").
CronKeepsTime ==
  auto.kind = "cron" /\ auto.status = "active" =>
    auto.next # "none" \/ \E f \in Firing : hold[f].at = "claimed"

(* The inductive invariant. *)

\* Only a price alert is ever executing.
OnlyAlertsExecute == auto.status = "executing" => Price

\* A firing that is not open has neither executor nor run.
Unborn == \A f \in Firing : fire[f] = "none" => hold[f] = Nobody /\ run[f] = "none"

\* An executor short of its drain has no run, one in its drain has.
RunsFollowStart ==
  \A f \in Firing : /\ hold[f].at \in BeforeItsRun => run[f] = "none"
                    /\ hold[f].at = "drain" => run[f] # "none"

\* A link is to a run that started, of a firing that waits no more; and an
\* executor in its drain knows of it.
LinksHold ==
  \A f \in linked : /\ run[f] # "none" /\ fire[f] \in {"running"} \cup Outcomes
                    /\ hold[f].at = "drain" => hold[f].admitted

\* A run without a process is live; a settle job, and a sweep that goes by a run,
\* are of one that ended.
RunsEndOnce ==
  /\ \A f \in orphan : run[f] = "live"
  /\ \A f \in Firing : job[f] = "queued" \/ listed[f] = "linked" => run[f] \in RunEnded

IInv == TypeOK /\ OnlyAlertsExecute /\ ExecutingIsFired /\ Unborn /\ RunsFollowStart
          /\ LinksHold /\ RunsEndOnce
=============================================================================
