-------------------------- MODULE AutomationsProofs --------------------------
(***************************************************************************)
(* Theorems about Automations.  The invariant IInv is inductive: the steps *)
(* are grouped by what they leave alone, every step that ends a firing is  *)
(* one application of SettleKeeps, and the action properties follow from   *)
(* what a settling step writes (SettlingSteps, SettleFacts).               *)
(***************************************************************************)
EXTENDS Automations, TLAPS

-----------------------------------------------------------------------------
(* What a settlement does. *)

\* Every outcome settles a firing that is not settled.
LEMMA FromUnsettled == \A o \in Outcomes : FromStatuses(o) \subseteq Unsettled
  BY DEF Outcomes, FromStatuses, Unsettled

\* Every way a run ends is an outcome of its firing.
LEMMA OutcomeOfRun == \A r \in RunEnded : LedgerOutcome(r) \in Outcomes
  BY DEF RunEnded, LedgerOutcome, Outcomes

\* The strike: it may disable an automation that is at work, and moves nothing else
\* that a firing is recognised by.
LEMMA StrikeFacts ==
  ASSUME TypeOK, NEW o \in Outcomes
  PROVE  /\ Struck(o) \in AutoType
         /\ Struck(o).kind = auto.kind /\ Struck(o).last = auto.last
         /\ \/ Struck(o).status = auto.status
            \/ Struck(o).status = "disabled" /\ auto.status \in {"active", "executing"}
<1> DEFINE count == auto.count + 1
           disables == /\ Strike(o) = "fuse" \/ (Strike(o) = "count" /\ count >= MaxFailures)
                       /\ auto.status \in {"active", "executing"}
<1>1. auto \in AutoType /\ count \in Nat
  BY DEF TypeOK, AutoType
<1>2. Strike(o) \in {"none", "reset", "fuse", "count"}
  BY DEF Strike
<1>3. CASE Strike(o) = "none"
  BY <1>1, <1>3 DEF Struck
<1>4. CASE Strike(o) = "reset" /\ auto.status = "disabled"
  BY <1>1, <1>4 DEF Struck
<1>5. CASE Strike(o) = "reset" /\ auto.status # "disabled"
  <2>1. Struck(o) = [auto EXCEPT !.count = 0]
    BY <1>5 DEF Struck
  <2>2. QED
    BY <1>1, <2>1 DEF AutoType
<1>6. CASE Strike(o) \in {"fuse", "count"}
  <2>1. CASE disables /\ auto.kind # "once"
    <3>1. Struck(o) = [auto EXCEPT !.count = count, !.status = "disabled", !.next = "none"]
      BY <1>6, <2>1 DEF Struck
    <3> HIDE DEF count
    <3>2. QED
      BY <1>1, <2>1, <3>1 DEF AutoType
  <2>2. CASE disables /\ auto.kind = "once"
    <3>1. Struck(o) = [auto EXCEPT !.count = count, !.status = "disabled"]
      BY <1>6, <2>2 DEF Struck
    <3> HIDE DEF count
    <3>2. QED
      BY <1>1, <2>2, <3>1 DEF AutoType
  <2>3. CASE ~disables
    <3>1. Struck(o) = [auto EXCEPT !.count = count]
      BY <1>6, <2>3 DEF Struck
    <3> HIDE DEF count, disables
    <3>2. QED
      BY <1>1, <3>1 DEF AutoType
  <2>4. QED
    BY <2>1, <2>2, <2>3
<1>7. QED
  BY <1>2, <1>3, <1>4, <1>5, <1>6

\* The schedule: only the firing that claimed the automation closes or re-arms it,
\* only while it is at work, and an alert it claimed does not stay executing.
LEMMA ScheduleFacts ==
  ASSUME NEW a \in AutoType, a.kind = auto.kind, NEW f \in Firing, NEW o \in Outcomes
  PROVE  /\ Scheduled(a, f, o) \in AutoType
         /\ Scheduled(a, f, o).kind = a.kind /\ Scheduled(a, f, o).last = a.last
         /\ \/ Scheduled(a, f, o).status = a.status
            \/ /\ Scheduled(a, f, o).status \in {"active", "completed"} /\ a.last = f
               /\ a.status \in {"active", "executing"}
         /\ Price /\ a.last = f => Scheduled(a, f, o).status # "executing"
<1> DEFINE closes == ScheduleAction(o) = "close" 
           rearms == ScheduleAction(o) = "rearm"
<1>1. Price => closes \/ rearms
  BY DEF ScheduleAction, Price
<1>2. CASE closes /\ ~Price /\ StillOn(a, f, "active") /\ a.next = "none"
  <2>1. Scheduled(a, f, o) = [a EXCEPT !.status = "completed"]
    BY <1>2 DEF Scheduled
  <2>2. QED
    BY <1>2, <2>1 DEF AutoType, StillOn
<1>3. CASE closes /\ Price /\ StillOn(a, f, "executing")
  <2>1. Scheduled(a, f, o) = [a EXCEPT !.status = "completed", !.next = "none"]
    BY <1>3 DEF Scheduled
  <2>2. QED
    BY <1>3, <2>1 DEF AutoType, StillOn
<1>4. CASE rearms /\ StillOn(a, f, "executing")
  <2>1. Scheduled(a, f, o) = [a EXCEPT !.status = "active"]
    BY <1>4 DEF Scheduled
  <2>2. QED
    BY <1>4, <2>1 DEF AutoType, StillOn
<1>5. CASE /\ ~(closes /\ ~Price /\ StillOn(a, f, "active") /\ a.next = "none")
           /\ ~(closes /\ Price /\ StillOn(a, f, "executing"))
           /\ ~(rearms /\ StillOn(a, f, "executing"))
  <2>1. Scheduled(a, f, o) = a
    BY <1>5 DEF Scheduled
  <2>2. QED
    BY <1>1, <1>5, <2>1 DEF StillOn
<1>6. QED
  BY <1>2, <1>3, <1>4, <1>5

\* A settlement ends the firing and writes the automation, or does nothing.
LEMMA SettleFacts ==
  ASSUME TypeOK, NEW f \in Firing, NEW o \in Outcomes, Settle(f, o)
  PROVE  \/ UNCHANGED <<fire, auto, sweepVars>>
         \/ /\ fire[f] \in FromStatuses(o) /\ fire' = [fire EXCEPT ![f] = o]
            /\ quiet' = quiet \ {f} /\ listed' = [listed EXCEPT ![f] = "no"]
            /\ auto' \in AutoType /\ auto'.kind = auto.kind /\ auto'.last = auto.last
            /\ \/ auto'.status = auto.status
               \/ auto'.status = "disabled" /\ auto.status \in {"active", "executing"}
               \/ /\ auto'.status \in {"active", "completed"} /\ auto.last = f
                  /\ auto.status \in {"active", "executing"}
            /\ Price /\ auto.last = f => auto'.status # "executing"
<1>1. CASE fire[f] \in FromStatuses(o)
  <2> DEFINE a == Struck(o)
  <2>1. /\ a \in AutoType /\ a.kind = auto.kind /\ a.last = auto.last
        /\ \/ a.status = auto.status
           \/ a.status = "disabled" /\ auto.status \in {"active", "executing"}
    BY StrikeFacts
  <2>2. auto' = Scheduled(a, f, o)
    BY <1>1 DEF Settle
  <2> HIDE DEF a
  <2>3. /\ auto' \in AutoType /\ auto'.kind = a.kind /\ auto'.last = a.last
        /\ \/ auto'.status = a.status
           \/ /\ auto'.status \in {"active", "completed"} /\ a.last = f
              /\ a.status \in {"active", "executing"}
        /\ Price /\ a.last = f => auto'.status # "executing"
    BY <2>1, <2>2, ScheduleFacts
  <2>4. QED
    BY <1>1, <2>1, <2>3 DEF Settle
<1>2. CASE fire[f] \notin FromStatuses(o)
  BY <1>2 DEF Settle
<1>3. QED
  BY <1>1, <1>2

\* What a settlement leaves for the invariant: the alert it ends stops executing, and
\* it opens no firing, sends none back to its wait, and lists none.
LEMMA SettleKeeps ==
  ASSUME IInv, NEW f \in Firing, NEW o \in Outcomes, Settle(f, o)
  PROVE  /\ auto' \in AutoType /\ OnlyAlertsExecute' /\ ExecutingIsFired'
         /\ fire' \in [Firing -> {"none"} \cup Unsettled \cup Outcomes]
         /\ quiet' \subseteq Firing
         /\ listed' \in [Firing -> {"no", "waiting", "linked", "unlinked"}]
         /\ \A g \in Firing :
              /\ fire'[g] = "none" => fire[g] = "none"
              /\ fire[g] \in {"running"} \cup Outcomes => fire'[g] \in {"running"} \cup Outcomes
              /\ listed'[g] = "linked" => listed[g] = "linked"
<1>1. CASE UNCHANGED <<fire, auto, sweepVars>>
  BY <1>1 DEF IInv, TypeOK, OnlyAlertsExecute, ExecutingIsFired, Price, sweepVars
<1>2. CASE /\ fire[f] \in FromStatuses(o) /\ fire' = [fire EXCEPT ![f] = o]
           /\ quiet' = quiet \ {f} /\ listed' = [listed EXCEPT ![f] = "no"]
           /\ auto' \in AutoType /\ auto'.kind = auto.kind /\ auto'.last = auto.last
           /\ auto'.status = "executing" => auto.status = "executing"
           /\ Price /\ auto.last = f => auto'.status # "executing"
  <2>1. OnlyAlertsExecute' /\ (auto'.status = "executing" => auto.last # f)
    BY <1>2 DEF IInv, OnlyAlertsExecute, Price
  <2>2. ExecutingIsFired'
    BY <1>2, <2>1 DEF IInv, TypeOK, AutoType, ExecutingIsFired
  <2>3. /\ fire' \in [Firing -> {"none"} \cup Unsettled \cup Outcomes]
        /\ quiet' \subseteq Firing
        /\ listed' \in [Firing -> {"no", "waiting", "linked", "unlinked"}]
    BY <1>2 DEF IInv, TypeOK
  <2>4. o # "none"
    BY DEF Outcomes
  <2>5. ASSUME NEW g \in Firing
        PROVE  /\ fire'[g] = "none" => fire[g] = "none"
               /\ fire[g] \in {"running"} \cup Outcomes => fire'[g] \in {"running"} \cup Outcomes
               /\ listed'[g] = "linked" => listed[g] = "linked"
    BY <1>2, <2>4 DEF IInv, TypeOK
  <2>6. QED
    BY <1>2, <2>1, <2>2, <2>3, <2>5
<1>3. QED
  BY <1>1, <1>2, SettleFacts DEF IInv

-----------------------------------------------------------------------------
(* The invariant is inductive. *)

\* A firing may be held by nobody.
LEMMA NobodyType == Nobody \in HoldType
  BY DEF Nobody, HoldType

\* Nothing has fired.
LEMMA InitIInv == Init => IInv
<1> SUFFICES ASSUME Init PROVE IInv
  OBVIOUS
<1>1. /\ auto \in AutoType /\ auto.status = "active"
  BY BoundsAssumption DEF Init, AutoType
<1>2. TypeOK
  <2>1. MaxEvents \in Nat
    BY BoundsAssumption
  <2>2. /\ resuming \in {"no", "keep", "none", "later", "due"}
        /\ linked \subseteq Firing /\ orphan \subseteq Firing /\ quiet \subseteq Firing
        /\ events \in 0 .. MaxEvents
    BY <2>1 DEF Init
  <2>3. pausing \in BOOLEAN /\ reader \in BOOLEAN
    BY DEF Init
  <2>4. /\ fire \in [Firing -> {"none"} \cup Unsettled \cup Outcomes]
        /\ hold \in [Firing -> HoldType]
    BY NobodyType DEF Init
  <2>5. /\ run \in [Firing -> {"none", "live"} \cup RunEnded]
        /\ job \in [Firing -> {"none", "queued", "done"}]
        /\ listed \in [Firing -> {"no", "waiting", "linked", "unlinked"}]
    BY DEF Init
  <2>6. QED
    BY <1>1, <2>2, <2>4, <2>5, <2>3 DEF TypeOK
<1>3. OnlyAlertsExecute /\ ExecutingIsFired
  BY <1>1 DEF OnlyAlertsExecute, ExecutingIsFired
<1>4. Unborn /\ RunsFollowStart /\ LinksHold /\ RunsEndOnce
  BY DEF Init, Unborn, RunsFollowStart, LinksHold, RunsEndOnce, Nobody, BeforeItsRun
<1>5. QED
  BY <1>2, <1>3, <1>4 DEF IInv

\* A step that leaves the firings, their runs and their links alone.
LEMMA ElsewhereKeeps ==
  ASSUME IInv, UNCHANGED <<fire, hold, linked, runVars, listed>>, TypeOK',
         auto'.status = "executing" => UNCHANGED auto.status /\ UNCHANGED auto.last,
         UNCHANGED auto.kind
  PROVE  IInv'
<1>1. OnlyAlertsExecute' /\ ExecutingIsFired'
  BY DEF IInv, OnlyAlertsExecute, ExecutingIsFired, Price
<1>2. Unborn' /\ RunsFollowStart' /\ LinksHold' /\ RunsEndOnce'
  BY DEF IInv, Unborn, RunsFollowStart, LinksHold, RunsEndOnce, runVars
<1>3. QED
  BY <1>1, <1>2 DEF IInv

\* A step that ends a firing, or finds that somebody else did, and whose executor, if
\* it had one, leaves.
LEMMA EndingKeeps ==
  ASSUME IInv, NEW f \in Firing, NEW o \in Outcomes, Settle(f, o),
         hold' = hold \/ Leaves(f),
         UNCHANGED <<userVars, linked, run, orphan, reader>>,
         job' \in [Firing -> {"none", "queued", "done"}],
         \A g \in Firing : job'[g] = "queued" => job[g] = "queued",
         events' \in 0 .. MaxEvents
  PROVE  IInv'
<1>1. hold' \in [Firing -> HoldType] /\ \A g \in Firing : hold'[g] = hold[g] \/ hold'[g] = Nobody
  <2>1. CASE hold' = hold
    BY <2>1 DEF IInv, TypeOK
  <2>2. CASE Leaves(f)
    BY <2>2, NobodyType DEF IInv, TypeOK, Leaves
  <2>3. QED
    BY <2>1, <2>2
<1>2. TypeOK' /\ OnlyAlertsExecute' /\ ExecutingIsFired'
  BY <1>1, SettleKeeps DEF IInv, TypeOK, userVars
<1>3. Unborn' /\ RunsFollowStart'
  BY <1>1, SettleKeeps DEF IInv, Unborn, RunsFollowStart, Nobody, BeforeItsRun
<1>4. LinksHold'
  BY <1>1, SettleKeeps DEF IInv, TypeOK, LinksHold, Nobody
<1>5. RunsEndOnce'
  BY SettleKeeps DEF IInv, RunsEndOnce
<1>6. QED
  BY <1>2, <1>3, <1>4, <1>5 DEF IInv

\* A schedule, a price or a user opens a firing.
LEMMA OpeningKeeps ==
  ASSUME IInv, NEW f \in Firing,
         ClaimDue(f) \/ ClaimPrice(f) \/ Trigger(f)
  PROVE  IInv'
<1>1. /\ fire[f] = "none" /\ fire' = [fire EXCEPT ![f] = "pending"]
      /\ UNCHANGED <<userVars, linked, runVars, sweepVars, reader, events>>
  BY DEF ClaimDue, ClaimPrice, Trigger, Opens
<1>2. PICK at \in {"claimed", "queued"},
           read \in {"active", "paused", "disabled", "completed", "executing"} :
        hold' = [hold EXCEPT ![f].at = at, ![f].read = read]
  BY DEF ClaimDue, ClaimPrice, Trigger, Opens
<1>3. /\ auto' \in AutoType /\ auto'.kind = auto.kind
      /\ auto'.status = "executing" =>
           \/ auto.status = "executing" /\ auto'.last = auto.last
           \/ Price /\ auto'.last = f
  BY DEF IInv, TypeOK, AutoType, ClaimDue, ClaimPrice, Trigger
<1>4. hold[f] = Nobody /\ run[f] = "none" /\ f \notin linked
  BY <1>1 DEF IInv, Unborn, LinksHold, Outcomes
<1>5. hold' \in [Firing -> HoldType] /\ hold'[f].at \in {"claimed", "queued"}
  BY <1>2 DEF IInv, TypeOK, HoldType, BeforeItsRun
<1>6. TypeOK'
  BY <1>1, <1>3, <1>5 DEF IInv, TypeOK, Unsettled, userVars, runVars, sweepVars
<1>7. OnlyAlertsExecute' /\ ExecutingIsFired'
  <2>1. OnlyAlertsExecute'
    BY <1>3 DEF IInv, OnlyAlertsExecute, Price
  <2>2. ExecutingIsFired'
    BY <1>1, <1>3 DEF IInv, TypeOK, AutoType, ExecutingIsFired, Unsettled, Firing
  <2>3. QED
    BY <2>1, <2>2
<1>8. Unborn' /\ RunsFollowStart'
  BY <1>1, <1>2, <1>4, <1>5 DEF IInv, TypeOK, Unborn, RunsFollowStart, runVars
<1>9. LinksHold' /\ RunsEndOnce'
  BY <1>1, <1>2, <1>4 DEF IInv, TypeOK, LinksHold, RunsEndOnce, runVars, sweepVars
<1>10. QED
  BY <1>6, <1>7, <1>8, <1>9 DEF IInv

\* What the user, the reader and the clock do keeps the invariant.
LEMMA UserKeeps ==
  ASSUME IInv,
         \/ AskPause \/ Pause \/ AskResume \/ Resume \/ Edit \/ TimeComes
         \/ ReaderStarts \/ ReaderEnds
         \/ \E f \in Firing : GoesQuiet(f) \/ Beat(f)
  PROVE  IInv'
<1>1. CASE AskPause \/ Pause
  <2>1. /\ auto' \in AutoType /\ auto'.kind = auto.kind
        /\ auto'.status = "paused" \/ UNCHANGED auto
    BY <1>1 DEF IInv, TypeOK, AutoType, AskPause, Pause
  <2>2. events' \in 0 .. MaxEvents
    BY <1>1, BoundsAssumption DEF IInv, TypeOK, AskPause, Pause, Happens
  <2>3. /\ pausing' \in BOOLEAN
        /\ UNCHANGED <<resuming, fire, hold, linked, runVars, sweepVars, reader>>
    BY <1>1 DEF AskPause, Pause
  <2>4. QED
    BY <2>1, <2>2, <2>3, ElsewhereKeeps DEF IInv, TypeOK, runVars, sweepVars
<1>2. CASE AskResume
  <2>1. /\ resuming' \in {"no", "keep", "none", "later", "due"} /\ events' \in 0 .. MaxEvents
        /\ UNCHANGED <<auto, pausing, fire, hold, linked, runVars, sweepVars, reader>>
    BY <1>2, BoundsAssumption DEF IInv, TypeOK, AskResume, Happens
  <2>2. QED
    BY <2>1, ElsewhereKeeps DEF IInv, TypeOK, runVars, sweepVars
<1>3. CASE Resume
  <2>1. auto' \in AutoType /\ auto'.kind = auto.kind /\ auto'.status = "active"
    BY <1>3 DEF IInv, TypeOK, AutoType, Resume
  <2>2. QED
    BY <1>3, <2>1, ElsewhereKeeps DEF IInv, TypeOK, Resume, runVars, sweepVars
<1>4. CASE Edit
  <2>1. /\ auto' \in AutoType /\ auto'.kind = auto.kind /\ auto'.status = auto.status
        /\ auto'.last = auto.last /\ events' \in 0 .. MaxEvents
    BY <1>4, BoundsAssumption DEF IInv, TypeOK, AutoType, Edit, Happens
  <2>2. QED
    BY <1>4, <2>1, ElsewhereKeeps DEF IInv, TypeOK, Edit, runVars, sweepVars
<1>5. CASE TimeComes
  <2>1. /\ auto' \in AutoType /\ auto'.kind = auto.kind /\ auto'.status = auto.status
        /\ auto'.last = auto.last
        /\ resuming' \in {"no", "keep", "none", "later", "due"}
    BY <1>5 DEF IInv, TypeOK, AutoType, TimeComes
  <2>2. QED
    BY <1>5, <2>1, ElsewhereKeeps DEF IInv, TypeOK, TimeComes, runVars, sweepVars
<1>6. CASE ReaderStarts \/ ReaderEnds
  <2>1. events' \in 0 .. MaxEvents
    BY <1>6, BoundsAssumption DEF IInv, TypeOK, ReaderStarts, ReaderEnds, Happens
  <2>2. /\ reader' \in BOOLEAN
        /\ UNCHANGED <<auto, userVars, fire, hold, linked, runVars, sweepVars>>
    BY <1>6 DEF ReaderStarts, ReaderEnds
  <2>3. QED
    BY <2>1, <2>2, ElsewhereKeeps DEF IInv, TypeOK, userVars, runVars, sweepVars
<1>7. CASE \E f \in Firing : GoesQuiet(f) \/ Beat(f)
  <2>1. /\ UNCHANGED <<auto, userVars, fire, hold, linked, runVars, listed, reader>>
        /\ quiet' \subseteq Firing /\ events' \in 0 .. MaxEvents
    BY <1>7, BoundsAssumption DEF IInv, TypeOK, GoesQuiet, Beat, Happens
  <2>2. QED
    BY <2>1, ElsewhereKeeps DEF IInv, TypeOK, userVars, runVars
<1>8. QED
  BY <1>1, <1>2, <1>3, <1>4, <1>5, <1>6, <1>7

\* An executor's step short of the end of its firing: it moves on or leaves, the row
\* stays one that is open, and it waits only if it has no run.
LEMMA ExecutorMoves ==
  ASSUME IInv, NEW f \in Firing, hold[f].at \in BeforeItsRun,
         NEW x \in HoldType, hold' = [hold EXCEPT ![f] = x], x.at # "drain",
         NEW s \in Unsettled,
         fire' = fire \/ (fire[f] \in Unsettled /\ fire' = [fire EXCEPT ![f] = s]),
         auto' \in AutoType, auto'.kind = auto.kind, auto'.status = auto.status,
         auto'.last = auto.last, events' \in 0 .. MaxEvents,
         UNCHANGED <<userVars, linked, runVars, sweepVars, reader>>
  PROVE  IInv'
<1>1. run[f] = "none" /\ f \notin linked /\ fire[f] # "none"
  BY DEF IInv, RunsFollowStart, LinksHold, Unborn, Nobody, BeforeItsRun
<1>2. /\ fire' \in [Firing -> {"none"} \cup Unsettled \cup Outcomes]
      /\ \A g \in Firing : /\ g # f => fire'[g] = fire[g] /\ hold'[g] = hold[g]
                           /\ fire[g] \in Unsettled => fire'[g] \in Unsettled
                           /\ fire'[g] = "none" => fire[g] = "none"
  <2>1. CASE fire' = fire
    BY <2>1 DEF IInv, TypeOK
  <2>2. CASE fire[f] \in Unsettled /\ fire' = [fire EXCEPT ![f] = s]
    BY <2>2 DEF IInv, TypeOK, Unsettled
  <2>3. QED
    BY <2>1, <2>2
<1>3. TypeOK'
  BY <1>2 DEF IInv, TypeOK, userVars, runVars, sweepVars
<1>4. OnlyAlertsExecute' /\ ExecutingIsFired'
  BY <1>2 DEF IInv, TypeOK, AutoType, OnlyAlertsExecute, ExecutingIsFired, Price
<1>5. Unborn' /\ RunsFollowStart'
  BY <1>1, <1>2 DEF IInv, TypeOK, Unborn, RunsFollowStart, runVars
<1>6. LinksHold' /\ RunsEndOnce'
  BY <1>1, <1>2 DEF IInv, TypeOK, LinksHold, RunsEndOnce, runVars, sweepVars
<1>7. QED
  BY <1>3, <1>4, <1>5, <1>6 DEF IInv

\* The steps of an executor before its run that end nothing.
LEMMA WaitingKeeps ==
  ASSUME IInv, NEW f \in Firing,
         \/ Reschedule(f) \/ Execute(f) \/ Begin(f) \/ Enter(f) \/ Gate(f)
         \/ Admit(f) /\ UNCHANGED run
  PROVE  IInv'
<1>1. hold[f] \in HoldType /\ hold \in [Firing -> HoldType] /\ auto \in AutoType
      /\ events \in 0 .. MaxEvents
  BY DEF IInv, TypeOK
<1>2. hold[f].at \in BeforeItsRun
  BY DEF Reschedule, Execute, Begin, Enter, Gate, Admit, BeforeItsRun
<1>3. PICK x \in HoldType : hold' = [hold EXCEPT ![f] = x] /\ x.at # "drain"
  <2>1. CASE \E at \in BeforeItsRun : hold' = [hold EXCEPT ![f].at = at]
    <3>1. PICK at \in BeforeItsRun : hold' = [hold EXCEPT ![f].at = at]
      BY <2>1
    <3>2. [hold[f] EXCEPT !.at = at] \in HoldType /\ at # "drain"
          /\ [hold[f] EXCEPT !.at = at].at = at
      BY <1>1 DEF HoldType, BeforeItsRun
    <3>3. QED
      BY <1>1, <3>1, <3>2
  <2>2. CASE hold' = [hold EXCEPT ![f] = Nobody]
    BY <2>2, NobodyType DEF Nobody
  <2>3. CASE hold' = [hold EXCEPT ![f].at = "turn", ![f].resolved = TRUE]
    <3>1. [hold[f] EXCEPT !.at = "turn", !.resolved = TRUE] \in HoldType
          /\ [hold[f] EXCEPT !.at = "turn", !.resolved = TRUE].at = "turn"
      BY <1>1 DEF HoldType, BeforeItsRun
    <3>2. QED
      BY <1>1, <2>3, <3>1
  <2>4. \/ \E at \in BeforeItsRun : hold' = [hold EXCEPT ![f].at = at]
        \/ hold' = [hold EXCEPT ![f] = Nobody]
        \/ hold' = [hold EXCEPT ![f].at = "turn", ![f].resolved = TRUE]
    <3>1. CASE Reschedule(f)
      BY <3>1 DEF Reschedule, Goes, BeforeItsRun
    <3>2. CASE Execute(f) \/ Begin(f) \/ Enter(f)
      BY <3>2 DEF Execute, Begin, Enter, JoinLine, Goes, Leaves, BeforeItsRun
    <3>3. CASE Gate(f)
      BY <3>3 DEF Gate, Leaves
    <3>4. CASE Admit(f) /\ UNCHANGED run
      <4>1. run[f] = "none"
        BY <1>2 DEF IInv, RunsFollowStart
      <4>2. JoinLine(f)
        BY <3>4, <4>1 DEF Admit, IInv, TypeOK
      <4>3. QED
        BY <4>2 DEF JoinLine, Goes, Leaves, BeforeItsRun
    <3>5. QED
      BY <3>1, <3>2, <3>3, <3>4
  <2>5. QED
    BY <2>1, <2>2, <2>3, <2>4
<1>4. PICK s \in Unsettled :
        fire' = fire \/ (fire[f] \in Unsettled /\ fire' = [fire EXCEPT ![f] = s])
  <2>1. CASE Admit(f) /\ UNCHANGED run
    BY <2>1 DEF Admit, JoinLine, Unsettled
  <2>2. CASE Reschedule(f) \/ Execute(f) \/ Begin(f) \/ Enter(f) \/ Gate(f)
    BY <2>2 DEF Reschedule, Execute, Begin, Enter, Gate, JoinLine, Unsettled
  <2>3. QED
    BY <2>1, <2>2
<1>5. /\ auto' \in AutoType /\ auto'.kind = auto.kind /\ auto'.status = auto.status
      /\ auto'.last = auto.last /\ events' \in 0 .. MaxEvents
      /\ UNCHANGED <<userVars, linked, runVars, sweepVars, reader>>
  BY <1>1, BoundsAssumption
  DEF Reschedule, Execute, Begin, Enter, Gate, Admit, Happens, AutoType, runVars
<1>6. QED
  BY <1>2, <1>3, <1>4, <1>5, ExecutorMoves

\* START: the run begins, and its executor drains it.
LEMMA StartKeeps ==
  ASSUME IInv, NEW f \in Firing, Admit(f), run' # run
  PROVE  IInv'
<1>1. /\ run' = [run EXCEPT ![f] = "live"] /\ fire' = fire
      /\ hold' = [hold EXCEPT ![f] = [Nobody EXCEPT !.at = "drain"]]
      /\ UNCHANGED <<auto, userVars, linked, orphan, job, sweepVars, reader, events>>
  BY DEF Admit
<1>2. hold[f].at \in BeforeItsRun /\ hold[f] # Nobody
  BY DEF Admit, BeforeItsRun, Nobody
<1>3. run[f] = "none" /\ f \notin linked /\ fire[f] # "none"
  BY <1>2 DEF IInv, RunsFollowStart, LinksHold, Unborn
<1>4. [Nobody EXCEPT !.at = "drain"] \in HoldType /\ [Nobody EXCEPT !.at = "drain"].at = "drain"
  BY DEF Nobody, HoldType
<1>5. TypeOK'
  BY <1>1, <1>4 DEF IInv, TypeOK, userVars, sweepVars
<1>6. OnlyAlertsExecute' /\ ExecutingIsFired'
  BY <1>1 DEF IInv, OnlyAlertsExecute, ExecutingIsFired, Price
<1>7. Unborn' /\ RunsFollowStart'
  BY <1>1, <1>3, <1>4 DEF IInv, TypeOK, Unborn, RunsFollowStart, BeforeItsRun
<1>8. LinksHold' /\ RunsEndOnce'
  BY <1>1, <1>3 DEF IInv, TypeOK, LinksHold, RunsEndOnce, sweepVars, RunEnded
<1>9. QED
  BY <1>5, <1>6, <1>7, <1>8 DEF IInv

\* The link, from an executor in its drain.
LEMMA LinkKeeps ==
  ASSUME IInv, NEW f \in Firing, NoteAdmission(f) \/ HandToRun(f)
  PROVE  IInv'
<1>1. /\ UNCHANGED <<auto, userVars, fire, runVars, sweepVars, reader>>
      /\ events' \in 0 .. MaxEvents /\ hold[f].at = "drain" /\ run[f] # "none"
  BY BoundsAssumption
  DEF NoteAdmission, HandToRun, Happens, IInv, TypeOK, RunsFollowStart
<1>2. linked' = linked \/ (linked' = linked \cup {f} /\ fire[f] = "running")
  BY DEF NoteAdmission, HandToRun, LinkRun
<1>3. /\ hold' \in [Firing -> HoldType]
      /\ \A g \in Firing \ {f} : hold'[g] = hold[g]
      /\ hold'[f] = Nobody \/ (hold'[f].at = "drain" /\ hold'[f].admitted = TRUE)
  <2>1. CASE NoteAdmission(f)
    BY <1>1, <2>1 DEF IInv, TypeOK, HoldType, NoteAdmission
  <2>2. CASE HandToRun(f)
    BY <2>2, NobodyType DEF IInv, TypeOK, HandToRun, Leaves
  <2>3. QED
    BY <2>1, <2>2
<1>4. TypeOK'
  BY <1>1, <1>2, <1>3 DEF IInv, TypeOK, userVars, runVars, sweepVars
<1>5. OnlyAlertsExecute' /\ ExecutingIsFired'
  BY <1>1 DEF IInv, OnlyAlertsExecute, ExecutingIsFired, Price
<1>6. Unborn'
  BY <1>1, <1>3 DEF IInv, TypeOK, Unborn, Nobody, runVars
<1>7. RunsFollowStart'
  BY <1>1, <1>3 DEF IInv, RunsFollowStart, Nobody, BeforeItsRun, runVars
<1>8. LinksHold' /\ RunsEndOnce'
  BY <1>1, <1>2, <1>3 DEF IInv, TypeOK, LinksHold, RunsEndOnce, Nobody, runVars, sweepVars
<1>9. QED
  BY <1>4, <1>5, <1>6, <1>7, <1>8 DEF IInv

\* A process dies with the firings it held.
LEMMA CrashKeeps ==
  ASSUME IInv, NEW S \in SUBSET Firing, Crash(S)
  PROVE  IInv'
<1>1. /\ UNCHANGED <<auto, userVars, fire, linked, run, job, sweepVars, reader>>
      /\ events' \in 0 .. MaxEvents
      /\ orphan' \subseteq Firing /\ \A g \in orphan' : run[g] = "live"
  BY BoundsAssumption DEF Crash, Happens, IInv, TypeOK, RunsEndOnce
<1>2. /\ hold' \in [Firing -> HoldType]
      /\ \A g \in Firing : hold'[g] = hold[g] \/ hold'[g] = Nobody
  BY NobodyType DEF Crash, IInv, TypeOK
<1>3. TypeOK'
  BY <1>1, <1>2 DEF IInv, TypeOK, userVars, sweepVars
<1>4. OnlyAlertsExecute' /\ ExecutingIsFired'
  BY <1>1 DEF IInv, OnlyAlertsExecute, ExecutingIsFired, Price
<1>5. Unborn' /\ RunsFollowStart'
  BY <1>1, <1>2 DEF IInv, Unborn, RunsFollowStart, Nobody, BeforeItsRun
<1>6. LinksHold' /\ RunsEndOnce'
  BY <1>1, <1>2 DEF IInv, TypeOK, LinksHold, RunsEndOnce, Nobody, sweepVars
<1>7. QED
  BY <1>3, <1>4, <1>5, <1>6 DEF IInv

\* A run ends, on its own or by recovery.
LEMMA RunEndKeeps ==
  ASSUME IInv, NEW f \in Firing, (\E e \in Endings : RunEnds(f, e)) \/ Recover(f)
  PROVE  IInv'
<1>1. PICK e \in RunEnded : run' = [run EXCEPT ![f] = e]
  BY BoundsAssumption DEF RunEnds, Recover, RunEnded
<1>2. /\ run[f] = "live" /\ job' = [job EXCEPT ![f] = "queued"]
      /\ orphan' \subseteq orphan \ {f}
      /\ UNCHANGED <<auto, userVars, fire, hold, linked, sweepVars, reader, events>>
  BY DEF RunEnds, Recover, IInv, RunsEndOnce
<1>3. e \notin {"none", "live"}
  BY DEF RunEnded
<1>4. TypeOK'
  BY <1>1, <1>2 DEF IInv, TypeOK, userVars, sweepVars
<1>5. OnlyAlertsExecute' /\ ExecutingIsFired'
  BY <1>2 DEF IInv, OnlyAlertsExecute, ExecutingIsFired, Price
<1>6. Unborn' /\ RunsFollowStart'
  BY <1>1, <1>2, <1>3 DEF IInv, TypeOK, Unborn, RunsFollowStart
<1>7. LinksHold' /\ RunsEndOnce'
  BY <1>1, <1>2, <1>3 DEF IInv, TypeOK, LinksHold, RunsEndOnce, sweepVars
<1>8. QED
  BY <1>4, <1>5, <1>6, <1>7 DEF IInv

\* The steps that end a firing, with the outcome each of them writes.
Ends(f, o) ==
  \/ o = "skipped" /\ Skip(f)
  \/ o = "skipped" /\ Look(f) /\ Settle(f, o)
  \/ o \in {"limited", "failed", "failed_ours"} /\ Refused(f) /\ Settle(f, o)
  \/ o = "failed" /\ LosesRun(f)
  \/ o = StopOutcome(f) /\ Interrupt(f) /\ Settle(f, o)
  \/ o = LedgerOutcome(run[f]) /\ Deliver(f)
  \/ o = SweepOutcome(f) /\ Sweep(f) /\ Settle(f, o)

\* Whatever ends a firing settles it with an outcome.
LEMMA EndingOutcomes ==
  ASSUME IInv, NEW f \in Firing, NEW o, Ends(f, o)
  PROVE  o \in Outcomes /\ Settle(f, o)
<1>1. CASE o = LedgerOutcome(run[f]) /\ Deliver(f)
  BY <1>1, OutcomeOfRun DEF IInv, RunsEndOnce, Deliver
<1>2. CASE o = SweepOutcome(f) /\ Sweep(f) /\ Settle(f, o)
  <2>1. CASE listed[f] = "linked"
    BY <1>2, <2>1, OutcomeOfRun DEF IInv, RunsEndOnce, SweepOutcome
  <2>2. CASE listed[f] \in {"waiting", "unlinked"}
    BY <1>2, <2>2 DEF SweepOutcome, Outcomes
  <2>3. QED
    BY <1>2, <2>1, <2>2 DEF Sweep, IInv, TypeOK
<1>3. QED
  BY <1>1, <1>2 DEF Ends, Skip, LosesRun, StopOutcome, Outcomes

\* Every ending keeps the invariant.
LEMMA EndsKeeps ==
  ASSUME IInv, NEW f \in Firing, NEW o, Ends(f, o)
  PROVE  IInv'
<1>1. o \in Outcomes /\ Settle(f, o)
  BY EndingOutcomes
<1>2. hold' = hold \/ Leaves(f)
  <2>1. CASE Look(f) /\ Settle(f, "skipped")
    <3>1. ~(fire[f] = "waiting" /\ UNCHANGED fire)
      BY <2>1 DEF Settle, FromStatuses, IInv, TypeOK
    <3>2. QED
      BY <2>1, <3>1 DEF Look
  <2>2. CASE ~(Look(f) /\ Settle(f, "skipped"))
    BY <2>2 DEF Ends, Skip, Refused, LosesRun, Interrupt, Deliver, Sweep
  <2>3. QED
    BY <2>1, <2>2
<1>3. /\ UNCHANGED <<userVars, linked, run, orphan, reader>>
      /\ events' \in 0 .. MaxEvents
      /\ job' \in [Firing -> {"none", "queued", "done"}]
      /\ \A g \in Firing : job'[g] = "queued" => job[g] = "queued"
  BY BoundsAssumption
  DEF Ends, Skip, Look, Refused, LosesRun, Interrupt, Deliver, Sweep, IInv, TypeOK, Happens, runVars
<1>4. QED
  BY <1>1, <1>2, <1>3, EndingKeeps

\* The executor's steps keep it.
LEMMA ExecutorKeeps ==
  ASSUME IInv, NEW f \in Firing,
         Executes(f) \/ NoteAdmission(f) \/ HandToRun(f) \/ LosesRun(f) \/ Interrupt(f)
  PROVE  IInv'
<1>1. CASE Reschedule(f) \/ Execute(f) \/ Begin(f) \/ Enter(f) \/ Gate(f)
  BY <1>1, WaitingKeeps
<1>2. CASE Admit(f)
  BY <1>2, WaitingKeeps, StartKeeps
<1>3. CASE NoteAdmission(f) \/ HandToRun(f)
  BY <1>3, LinkKeeps
<1>4. CASE Refused(f)
  <2>1. PICK o \in {"limited", "failed", "failed_ours"} : Settle(f, o)
    BY <1>4 DEF Refused
  <2>2. Ends(f, o)
    BY <1>4, <2>1 DEF Ends
  <2>3. QED
    BY <2>2, EndsKeeps
<1>5. CASE LosesRun(f)
  BY <1>5, EndsKeeps DEF Ends
<1>6. CASE Look(f)
  <2>1. CASE fire[f] = "waiting" /\ Settle(f, "skipped")
    BY <1>6, <2>1, EndsKeeps DEF Ends
  <2>2. CASE UNCHANGED <<fire, auto, sweepVars>>
    <3>1. /\ hold[f] \in HoldType
          /\ auto.status \in {"active", "paused", "disabled", "completed", "executing"}
      BY DEF IInv, TypeOK, AutoType
    <3>2. PICK x \in HoldType : hold' = [hold EXCEPT ![f] = x] /\ x.at # "drain"
      <4>1. CASE Leaves(f)
        BY <4>1, NobodyType DEF Leaves, Nobody
      <4>2. CASE hold' = [hold EXCEPT ![f].at = "enter", ![f].read = auto.status]
        <5>1. /\ [hold[f] EXCEPT !.at = "enter", !.read = auto.status] \in HoldType
              /\ [hold[f] EXCEPT !.at = "enter", !.read = auto.status].at = "enter"
          BY <3>1 DEF HoldType, BeforeItsRun
        <5>2. QED
          BY <4>2, <5>1 DEF IInv, TypeOK
      <4>3. QED
        BY <1>6, <4>1, <4>2 DEF Look
    <3>3. hold[f].at \in BeforeItsRun /\ auto' \in AutoType /\ events' \in 0 .. MaxEvents
      BY <1>6, <2>2 DEF Look, BeforeItsRun, IInv, TypeOK
    <3>4. "pending" \in Unsettled /\ UNCHANGED <<userVars, linked, runVars, sweepVars, reader>>
      BY <1>6, <2>2 DEF Look, Unsettled
    <3>5. QED
      BY <2>2, <3>2, <3>3, <3>4, ExecutorMoves
  <2>3. QED
    BY <1>6, <2>1, <2>2 DEF Look, EndsWait
<1>7. CASE Interrupt(f)
  <2>1. CASE UNCHANGED <<fire, auto, sweepVars>>
    <3>1. /\ hold[f].at \in BeforeItsRun /\ hold' = [hold EXCEPT ![f] = Nobody]
          /\ auto' \in AutoType /\ events' \in 0 .. MaxEvents
      BY <1>7, <2>1, BoundsAssumption
      DEF Interrupt, Leaves, Happens, IInv, TypeOK, HoldType, BeforeItsRun
    <3>2. "pending" \in Unsettled /\ UNCHANGED <<userVars, linked, runVars, sweepVars, reader>>
          /\ Nobody.at # "drain"
      BY <1>7, <2>1 DEF Interrupt, Unsettled, Nobody
    <3>3. QED
      BY <2>1, <3>1, <3>2, NobodyType, ExecutorMoves
  <2>2. CASE Settle(f, StopOutcome(f))
    BY <1>7, <2>2, EndsKeeps DEF Ends
  <2>3. QED
    BY <1>7, <2>1, <2>2 DEF Interrupt
<1>8. QED
  BY <1>1, <1>2, <1>3, <1>4, <1>5, <1>6, <1>7 DEF Executes

\* Runs, jobs, beats and the sweep keep it.
LEMMA OutsideKeeps ==
  ASSUME IInv, NEW f \in Firing,
         RunGoesOn(f) \/ JobDies(f) \/ SweepComes(f) \/ GoesQuiet(f) \/ Beat(f) \/ Skip(f)
  PROVE  IInv'
<1>1. CASE (\E e \in Endings : RunEnds(f, e)) \/ Recover(f)
  BY <1>1, RunEndKeeps
<1>2. CASE Deliver(f) \/ Skip(f)
  BY <1>2, EndsKeeps DEF Ends
<1>3. CASE JobDies(f)
  <2>1. /\ events' \in 0 .. MaxEvents /\ job' \in [Firing -> {"none", "queued", "done"}]
        /\ \A g \in Firing : job'[g] = "queued" => job[g] = "queued"
    BY <1>3, BoundsAssumption DEF JobDies, Happens, IInv, TypeOK
  <2>2. UNCHANGED <<auto, userVars, fire, hold, linked, run, orphan, sweepVars, reader>>
    BY <1>3 DEF JobDies
  <2>3. TypeOK'
    BY <2>1, <2>2 DEF IInv, TypeOK, userVars, sweepVars
  <2>4. OnlyAlertsExecute' /\ ExecutingIsFired' /\ Unborn' /\ RunsFollowStart' /\ LinksHold'
    BY <2>2 DEF IInv, OnlyAlertsExecute, ExecutingIsFired, Price, Unborn, RunsFollowStart, LinksHold
  <2>5. RunsEndOnce'
    BY <2>1, <2>2 DEF IInv, RunsEndOnce, sweepVars
  <2>6. QED
    BY <2>3, <2>4, <2>5 DEF IInv
<1>4. CASE GoesQuiet(f) \/ Beat(f)
  BY <1>4, UserKeeps
<1>5. CASE ListAbandoned(f) \/ (Sweep(f) /\ UNCHANGED <<fire, auto, quiet>>)
  <2>1. /\ UNCHANGED <<auto, userVars, fire, hold, linked, runVars, quiet, reader, events>>
        /\ listed' \in [Firing -> {"no", "waiting", "linked", "unlinked"}]
        /\ \A g \in Firing : listed'[g] = "linked" =>
             \/ listed[g] = "linked"
             \/ g = f /\ f \in linked /\ run[f] # "live"
    BY <1>5 DEF ListAbandoned, Sweep, Settle, IInv, TypeOK, sweepVars
  <2>2. f \in linked => run[f] # "none"
    BY DEF IInv, LinksHold
  <2>3. TypeOK'
    BY <2>1 DEF IInv, TypeOK, userVars, runVars
  <2>4. OnlyAlertsExecute' /\ ExecutingIsFired' /\ Unborn' /\ RunsFollowStart' /\ LinksHold'
    BY <2>1
    DEF IInv, OnlyAlertsExecute, ExecutingIsFired, Price, Unborn, RunsFollowStart, LinksHold, runVars
  <2>5. RunsEndOnce'
    BY <2>1, <2>2 DEF IInv, TypeOK, RunsEndOnce, runVars
  <2>6. QED
    BY <2>3, <2>4, <2>5 DEF IInv
<1>6. CASE Sweep(f) /\ Settle(f, SweepOutcome(f))
  BY <1>6, EndsKeeps DEF Ends
<1>7. QED
  BY <1>1, <1>2, <1>3, <1>4, <1>5, <1>6 DEF RunGoesOn, SweepComes, Sweep

\* Every step keeps it.
LEMMA NextKeeps == IInv /\ [Next]_vars => IInv'
<1> SUFFICES ASSUME IInv, [Next]_vars PROVE IInv'
  OBVIOUS
<1>1. CASE UNCHANGED vars
  <2>1. UNCHANGED <<fire, hold, linked, runVars, listed, auto>> /\ TypeOK'
    BY <1>1 DEF vars, userVars, runVars, sweepVars, IInv, TypeOK
  <2>2. QED
    BY <2>1, ElsewhereKeeps
<1>2. ASSUME NEW f \in Firing, ClaimDue(f) \/ ClaimPrice(f) \/ Trigger(f) PROVE IInv'
  BY <1>2, OpeningKeeps
<1>3. ASSUME NEW f \in Firing,
             Executes(f) \/ NoteAdmission(f) \/ HandToRun(f) \/ LosesRun(f) \/ Interrupt(f)
      PROVE  IInv'
  BY <1>3, ExecutorKeeps
<1>4. ASSUME NEW f \in Firing,
             RunGoesOn(f) \/ JobDies(f) \/ SweepComes(f) \/ GoesQuiet(f) \/ Beat(f) \/ Skip(f)
      PROVE  IInv'
  BY <1>4, OutsideKeeps
<1>5. ASSUME NEW S \in SUBSET Firing, Crash(S) PROVE IInv'
  BY <1>5, CrashKeeps
<1>6. CASE \/ AskPause \/ Pause \/ AskResume \/ Resume \/ Edit \/ TimeComes
           \/ ReaderStarts \/ ReaderEnds
  BY <1>6, UserKeeps
<1>7. QED
  BY <1>1, <1>2, <1>3, <1>4, <1>5, <1>6 DEF Next

-----------------------------------------------------------------------------
(* The theorems. *)

\* The invariant holds of every behaviour.
THEOREM Invariant == Spec => []IInv
<1>1. Init => IInv
  BY InitIInv
<1>2. IInv /\ [Next]_vars => IInv'
  BY NextKeeps
<1>3. QED
  BY <1>1, <1>2, PTL DEF Spec

\* Every variable keeps its type (automations and automation_executions).
THEOREM TypeCorrect == Spec => []TypeOK
<1>1. IInv => TypeOK
  BY DEF IInv
<1>2. QED
  BY <1>1, Invariant, PTL

\* A price alert is never left executing behind a settled firing (settle_execution).
THEOREM FiredTheorem == Spec => []ExecutingIsFired
<1>1. IInv => ExecutingIsFired
  BY DEF IInv
<1>2. QED
  BY <1>1, Invariant, PTL

\* The steps that settle a firing, as the outcomes they write.
LEMMA SettlingSteps ==
  ASSUME IInv, Next, NEW f \in Firing, Settles(f)
  PROVE  \E o \in Outcomes : Ends(f, o) /\ fire'[f] = o
<1>1. fire' # fire /\ fire \in [Firing -> {"none"} \cup Unsettled \cup Outcomes]
      /\ Unsettled \cap Outcomes = {} /\ "none" \notin Unsettled
  BY DEF Settles, IInv, TypeOK, Unsettled, Outcomes
<1>2. ASSUME NEW g \in Firing, NEW o, Ends(g, o)
      PROVE  \E p \in Outcomes : Ends(f, p) /\ fire'[f] = p
  <2>1. o \in Outcomes /\ Settle(g, o)
    BY <1>2, EndingOutcomes
  <2>2. fire' = [fire EXCEPT ![g] = o]
    BY <1>1, <2>1 DEF Settle
  <2>3. g = f /\ fire'[f] = o
    BY <1>1, <2>2 DEF Settles
  <2>4. QED
    BY <1>2, <2>1, <2>3
<1>3. ASSUME NEW g \in Firing, NEW s \in {"pending", "running", "waiting"},
             fire' = [fire EXCEPT ![g] = s]
      PROVE  FALSE
  BY <1>1, <1>3 DEF Settles, Unsettled, Outcomes
<1>4. ASSUME NEW g \in Firing, ClaimDue(g) \/ ClaimPrice(g) \/ Trigger(g) PROVE FALSE
  BY <1>3, <1>4 DEF ClaimDue, ClaimPrice, Trigger, Opens
<1>5. ASSUME NEW g \in Firing, Executes(g)
      PROVE  \E p \in Outcomes : Ends(f, p) /\ fire'[f] = p
  <2>1. CASE Reschedule(g) \/ Execute(g) \/ Begin(g) \/ Enter(g) \/ Gate(g) \/ Admit(g)
    BY <1>1, <1>3, <2>1 DEF Reschedule, Execute, Begin, Enter, Gate, Admit, JoinLine
  <2>2. CASE Look(g)
    BY <1>1, <1>2, <2>2 DEF Look, EndsWait, Ends
  <2>3. CASE Refused(g)
    BY <1>2, <2>3 DEF Refused, Ends
  <2>4. CASE HandToRun(g)
    BY <1>1, <2>4 DEF HandToRun
  <2>5. QED
    BY <1>5, <2>1, <2>2, <2>3, <2>4 DEF Executes
<1>6. ASSUME NEW g \in Firing, Skip(g) \/ LosesRun(g) \/ Interrupt(g) \/ Deliver(g) \/ Sweep(g)
      PROVE  \E p \in Outcomes : Ends(f, p) /\ fire'[f] = p
  <2>1. CASE Skip(g) \/ LosesRun(g) \/ Deliver(g)
    BY <1>2, <2>1 DEF Ends
  <2>2. CASE Interrupt(g)
    BY <1>1, <1>2, <2>2 DEF Interrupt, Ends
  <2>3. CASE Sweep(g)
    BY <1>1, <1>2, <2>3 DEF Sweep, Ends
  <2>4. QED
    BY <1>6, <2>1, <2>2, <2>3
<1>7. CASE UNCHANGED fire
  BY <1>1, <1>7
<1>8. ASSUME NEW g \in Firing,
             \/ NoteAdmission(g) \/ HandToRun(g) \/ (\E e \in Endings : RunEnds(g, e))
             \/ Recover(g) \/ JobDies(g) \/ ListAbandoned(g) \/ GoesQuiet(g) \/ Beat(g)
      PROVE  UNCHANGED fire
  BY <1>8 DEF NoteAdmission, HandToRun, RunEnds, Recover, JobDies, ListAbandoned, GoesQuiet, Beat
<1>9. ASSUME \/ \E S \in SUBSET Firing : Crash(S)
             \/ AskPause \/ Pause \/ AskResume \/ Resume \/ Edit \/ TimeComes
             \/ ReaderStarts \/ ReaderEnds
      PROVE  UNCHANGED fire
  BY <1>9 DEF Crash, AskPause, Pause, AskResume, Resume, Edit, TimeComes, ReaderStarts, ReaderEnds
<1>10. QED
  BY <1>4, <1>5, <1>6, <1>7, <1>8, <1>9 DEF Next, RunGoesOn, SweepComes

\* A firing whose row names its run ends when that run has and as it did, unless a
\* sweep read the row before the link; and one a process holds and beats for is ended
\* by that process, by a skip of its wait, or by its finished run (settle_execution).
THEOREM EndsTheorem == Spec => EndsAsItsRun
<1> DEFINE Ended(f) ==
      /\ f \in linked /\ listed[f] # "unlinked"
           => run[f] \in RunEnded /\ fire'[f] = LedgerOutcome(run[f])
      /\ Held(f) /\ hold'[f].at = hold[f].at /\ f \notin quiet
           => fire'[f] = "skipped" \/ run[f] \in RunEnded
<1>1. ASSUME IInv, Next, NEW f \in Firing, Settles(f) PROVE Ended(f)
  <2>1. PICK o \in Outcomes : Ends(f, o) /\ fire'[f] = o
    BY <1>1, SettlingSteps
  <2>2. /\ fire[f] \in Unsettled /\ fire \in [Firing -> {"none"} \cup Unsettled \cup Outcomes]
        /\ hold \in [Firing -> HoldType] /\ Settle(f, o) /\ fire[f] \in FromStatuses(o)
    BY <1>1, <2>1, EndingOutcomes DEF Settles, IInv, TypeOK, Settle, Unsettled, Outcomes
  <2>3. /\ f \in linked => run[f] # "none" /\ fire[f] = "running"
                           /\ (hold[f].at = "drain" => hold[f].admitted)
        /\ hold[f].at \in BeforeItsRun => run[f] = "none"
    BY <1>1, <2>2 DEF IInv, LinksHold, RunsFollowStart, Unsettled, Outcomes
  <2>4. CASE o = "skipped" /\ (Skip(f) \/ Look(f))
    BY <2>1, <2>2, <2>3, <2>4 DEF FromStatuses
  <2>5. CASE Refused(f) \/ Interrupt(f)
    <3>1. hold[f].at \in BeforeItsRun /\ Leaves(f)
      BY <2>2, <2>5 DEF Refused, Interrupt, HoldType, BeforeItsRun
    <3>2. f \notin linked /\ hold'[f].at # hold[f].at
      BY <2>2, <2>3, <3>1 DEF Leaves, Nobody, BeforeItsRun
    <3>3. QED
      BY <3>2
  <2>6. CASE LosesRun(f)
    <3>1. hold[f].at = "drain" /\ ~hold[f].admitted /\ Leaves(f)
      BY <2>6 DEF LosesRun
    <3>2. f \notin linked /\ hold'[f].at # hold[f].at
      BY <2>2, <2>3, <3>1 DEF Leaves, Nobody
    <3>3. QED
      BY <3>2
  <2>7. CASE o = LedgerOutcome(run[f]) /\ Deliver(f)
    BY <1>1, <2>1, <2>7 DEF Deliver, IInv, RunsEndOnce
  <2>8. CASE o = SweepOutcome(f) /\ Sweep(f)
    <3>1. f \in quiet /\ listed[f] \in {"waiting", "linked", "unlinked"}
      BY <1>1, <2>1, <2>2, <2>8 DEF Sweep, StillQuiet, IInv, TypeOK, Settles, Unsettled, Outcomes
    <3>2. CASE listed[f] = "waiting"
      BY <2>2, <2>3, <2>8, <3>1, <3>2 DEF SweepOutcome, FromStatuses
    <3>3. CASE listed[f] = "linked"
      BY <1>1, <2>1, <2>8, <3>1, <3>3 DEF SweepOutcome, IInv, RunsEndOnce
    <3>4. CASE listed[f] = "unlinked"
      BY <3>1, <3>4
    <3>5. QED
      BY <3>1, <3>2, <3>3, <3>4
  <2>9. QED
    BY <2>1, <2>4, <2>5, <2>6, <2>7, <2>8 DEF Ends
<1>2. IInv /\ [Next]_vars => [\A f \in Firing : Settles(f) => Ended(f)]_vars
  BY <1>1
<1>3. QED
  BY <1>2, Invariant, PTL DEF EndsAsItsRun, Spec

\* A pause or a disable stands until a resume, whatever is still running; and a firing
\* that did not claim the automation never closes or re-arms it (_SCHEDULE_SQL).
THEOREM StandsTheorem == Spec => ScheduleStands
<1> DEFINE Stands ==
      auto.status \in {"paused", "disabled"} /\ auto'.status \in {"active", "executing"}
        => resuming # "no" /\ resuming' = "no"
           Claims ==
      \A f \in Firing : Settles(f) /\ auto.last # f => auto'.status \in {auto.status, "disabled"}
<1>1. ASSUME IInv, Next, NEW f \in Firing, Settles(f)
      PROVE  \/ auto'.status \in {auto.status, "disabled"}
             \/ (auto.last = f /\ auto.status \in {"active", "executing"})
  <2>1. PICK o \in Outcomes : Ends(f, o)
    BY <1>1, SettlingSteps
  <2>2. Settle(f, o)
    BY <1>1, <2>1, EndingOutcomes
  <2>3. QED
    BY <1>1, <2>2, SettleFacts DEF IInv
<1>2. ASSUME IInv, Next PROVE Claims
  BY <1>1, <1>2
<1>3. ASSUME IInv, Next PROVE Stands
  <2>1. CASE Resume
    BY <2>1 DEF Resume
  <2>2. CASE \E f \in Firing : Settles(f)
    BY <1>1, <1>3, <2>2
  <2>3. CASE ~Resume /\ ~\E f \in Firing : Settles(f)
    <3>1. ASSUME NEW f \in Firing, NEW o, Ends(f, o) PROVE UNCHANGED auto
      <4>1. o \in Outcomes /\ Settle(f, o)
        BY <1>3, <3>1, EndingOutcomes
      <4>2. /\ fire \in [Firing -> {"none"} \cup Unsettled \cup Outcomes]
            /\ FromStatuses(o) \subseteq Unsettled
        BY <1>3, <4>1, FromUnsettled DEF IInv, TypeOK
      <4>3. QED
        BY <2>3, <4>1, <4>2 DEF Settle, Settles
    <3>2. ASSUME NEW f \in Firing,
                 \/ Skip(f) \/ Look(f) \/ Refused(f) \/ LosesRun(f) \/ Interrupt(f)
                 \/ Deliver(f) \/ Sweep(f)
          PROVE  UNCHANGED auto
      <4>1. CASE Skip(f) \/ LosesRun(f) \/ Deliver(f)
        BY <3>1, <4>1 DEF Ends
      <4>2. CASE Look(f)
        BY <3>1, <4>2 DEF Look, EndsWait, Ends
      <4>3. CASE Refused(f)
        BY <3>1, <4>3 DEF Refused, Ends
      <4>4. CASE Interrupt(f)
        BY <3>1, <4>4 DEF Interrupt, Ends
      <4>5. CASE Sweep(f)
        BY <3>1, <4>5 DEF Sweep, Ends
      <4>6. QED
        BY <3>2, <4>1, <4>2, <4>3, <4>4, <4>5
    <3>3. ASSUME NEW f \in Firing, ClaimDue(f) \/ ClaimPrice(f) \/ Trigger(f) \/ Reschedule(f)
          PROVE  auto.status = "active" \/ auto'.status = auto.status
      BY <1>3, <3>3 DEF ClaimDue, ClaimPrice, Trigger, Reschedule, IInv, TypeOK, AutoType
    <3>4. ASSUME NEW f \in Firing,
                 \/ Execute(f) \/ Begin(f) \/ Enter(f) \/ Gate(f) \/ Admit(f)
                 \/ NoteAdmission(f) \/ HandToRun(f) \/ (\E e \in Endings : RunEnds(f, e))
                 \/ Recover(f) \/ JobDies(f) \/ ListAbandoned(f) \/ GoesQuiet(f) \/ Beat(f)
          PROVE  UNCHANGED auto
      BY <3>4 DEF Execute, Begin, Enter, Gate, Admit, NoteAdmission, HandToRun, RunEnds,
         Recover, JobDies, ListAbandoned, GoesQuiet, Beat
    <3>5. ASSUME \/ \E S \in SUBSET Firing : Crash(S)
                 \/ AskPause \/ AskResume \/ ReaderStarts \/ ReaderEnds
          PROVE  UNCHANGED auto
      BY <3>5 DEF Crash, AskPause, AskResume, ReaderStarts, ReaderEnds
    <3>6. Pause \/ Edit \/ TimeComes => auto'.status \in {"paused", auto.status}
      BY <1>3 DEF Pause, Edit, TimeComes, IInv, TypeOK, AutoType
    <3>7. UNCHANGED auto \/ auto.status = "active" \/ auto'.status \in {"paused", auto.status}
      BY <1>3, <2>3, <3>2, <3>3, <3>4, <3>5, <3>6 DEF Next, Executes, RunGoesOn, SweepComes
    <3>8. QED
      BY <3>7
  <2>4. QED
    BY <2>1, <2>2, <2>3
<1>4. IInv /\ [Next]_vars => [Stands /\ Claims]_vars
  BY <1>2, <1>3
<1>5. QED
  BY <1>4, Invariant, PTL DEF ScheduleStands, Spec
=============================================================================
