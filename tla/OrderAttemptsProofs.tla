------------------------- MODULE OrderAttemptsProofs -------------------------
(***************************************************************************)
(* Proofs about OrderAttempts, for any number of calls, frames, copies of  *)
(* a frame and bundles, and any amount of trouble.  The invariant (IInv)   *)
(* says how the rows, the tool steps, the frames, the book and the pass of *)
(* the reconciler hang together; Effects is the next-state relation as it  *)
(* sees it, and each of its parts is carried over every effect in turn.    *)
(***************************************************************************)
EXTENDS OrderAttempts, SequenceTheorems, TLAPS

-----------------------------------------------------------------------------
(* Types *)

RowsTyped ==
  /\ row \in [Attempts -> Statuses] /\ dispatched \in [Attempts -> BOOLEAN]
  /\ vid \in [Attempts -> Attempts \cup {NoOrder}] /\ slipped \subseteq Attempts
RunTyped ==
  /\ run \in Working \cup {"interrupted", "cancelled", "completed", "errored", "gone"}
  /\ todo \subseteq Attempts /\ awaiting \subseteq Attempts
  /\ trouble \in 0 .. MaxTrouble /\ shown \in [Attempts -> 0 .. MaxGen]
  /\ gen \in 1 .. MaxGen /\ login \in 1 .. gen /\ servable \in BOOLEAN
CallTyped ==
  /\ call \in [Attempts -> {"idle", "waiting", "recording"}]
  /\ outcome \in [Attempts -> {"none"} \cup Statuses] /\ signed \subseteq Attempts
RelayTyped ==
  /\ frame \in [Frames -> {"unsent", "authorized", "ready", "claimed",
                           "rejected", "resending", "done"}]
  /\ bearer \in [Frames -> Bundles] /\ answer \in [Frames -> {"none"} \cup Answers]
  /\ sent \in [Attempts -> Seq(0 .. MaxGen)]
BookTyped ==
  /\ book \in [Attempts -> {"none"} \cup Booked] /\ placed \in [Attempts -> Nat]
RecTyped ==
  /\ rec \in {"idle", "listed", "claimed", "recording"}
  /\ picked \in [Attempts -> {"none", "submitting"} \cup Open]
  /\ listing \in [Attempts -> {"none"} \cup Booked] /\ complete \in BOOLEAN
  /\ claims \subseteq Attempts /\ rivals \subseteq Attempts

\* The type invariant, a component at a time.
AllTyped == RowsTyped /\ RunTyped /\ CallTyped /\ RelayTyped /\ BookTyped /\ RecTyped

\* It is TypeOK.
LEMMA Typed == TypeOK <=> AllTyped
  BY DEF TypeOK, AllTyped, RowsTyped, RunTyped, CallTyped, RelayTyped, BookTyped,
     RecTyped

\* What a tool step is about to record is a status.
Recorded == \A a \in Attempts : call[a] = "recording" => outcome[a] \in Statuses

\* Whatever a tool step reads, the outcome is a status.
LEMMA Reading ==
  ASSUME NEW a, NEW o \in Answers
  PROVE  Outcome(a, o) \in Statuses
  BY DEF Outcome, Answers, Statuses, Open, Terminal

\* The bundle of the moment is one, and so is the empty one.
LEMMA Bundled ==
  /\ <<0, 0>> \in Bundles
  /\ RunTyped => <<gen, login>> \in Bundles
  BY FramesAssumption DEF Bundles, RunTyped

\* A sending adds a login to the attempt's.
LEMMA SentGrows ==
  ASSUME RelayTyped, NEW f \in Frames, Sends(f)
  PROVE  sent' \in [Attempts -> Seq(0 .. MaxGen)]
<1>1. bearer[f][2] \in 0 .. MaxGen
  BY DEF RelayTyped, Bundles
<1>2. AttemptOf[f] \in Attempts
  BY FramesAssumption
<1> QED
  BY <1>1, <1>2 DEF Sends, RelayTyped

\* A login comes with a bundle of its own.
LEMMA LoginBounded == RunTyped => login \in 0 .. MaxGen
  BY FramesAssumption DEF RunTyped

\* What a frame brought back is an answer.
LEMMA AnswerIs ==
  \A f \in Frames : RelayTyped /\ answer[f] # "none" => answer[f] \in Answers
  BY DEF RelayTyped

\* So is none.
LEMMA LostIs == "lost" \in Answers
  BY DEF Answers

\* A read keeps the calls' types,
LEMMA ReadsTyped ==
  ASSUME NEW a \in Attempts, NEW o \in Answers, CallTyped, ReadRow(a, o)
  PROVE  CallTyped'
<1>1. Outcome(a, o) \in {"none"} \cup Statuses
  BY Reading
<1> QED
  BY <1>1 DEF ReadRow, CallTyped

\* a claim the rows',
LEMMA ClaimRows ==
  ASSUME NEW f \in Frames, Claim(f), RowsTyped
  PROVE  RowsTyped'
<1> DEFINE a == AttemptOf[f]
<1>1. a \in Attempts
  BY FramesAssumption
<1>2. row' = row /\ vid' = vid
  BY DEF Claim, rowVars
<1>3. dispatched' \in [Attempts -> BOOLEAN]
  BY <1>1 DEF Claim, RowsTyped
<1>4. slipped' \subseteq Attempts
  BY <1>1 DEF Claim, RowsTyped
<1> QED
  BY <1>2, <1>3, <1>4 DEF RowsTyped

\* and a disconnect the run's.
LEMMA Severed ==
  ASSUME RunTyped, Disconnect
  PROVE  RunTyped'
<1>1. trouble' \in 0 .. MaxTrouble
  BY FramesAssumption DEF RunTyped, Disconnect, Troubled
<1>2. servable' \in BOOLEAN
  BY Zenon DEF Disconnect
<1>3. run' = run /\ todo' = todo /\ awaiting' = awaiting /\ shown' = shown
      /\ gen' = gen /\ login' = login
  BY DEF Disconnect, runVars
<1> QED
  BY <1>1, <1>2, <1>3 DEF RunTyped

\* Every step keeps the types.
LEMMA TypeStep ==
  ASSUME AllTyped, Recorded, [Next]_vars
  PROVE  AllTyped'
<1> USE DEF vars, rowVars, runVars, callVars, relayVars, connVars, bookVars, recVars
<1>0. RowsTyped /\ RunTyped /\ CallTyped /\ RelayTyped /\ BookTyped /\ RecTyped
  BY DEF AllTyped
<1>1. ASSUME NEW a \in Attempts, Propose(a) PROVE AllTyped'
  <2>1. RowsTyped'
    BY <1>0, <1>1 DEF RowsTyped, Propose, Statuses, Waiting
  <2>2. RunTyped'
    BY <1>0, <1>1, FramesAssumption, LoginBounded DEF RunTyped, Working, Propose
  <2>3. CallTyped' /\ RelayTyped' /\ BookTyped' /\ RecTyped'
    BY <1>0, <1>1 DEF Propose, CallTyped, RelayTyped, BookTyped, RecTyped
  <2> QED BY <2>1, <2>2, <2>3 DEF AllTyped
<1>2. ASSUME NEW a \in Attempts, NEW f \in Copies(a), answer[f] # "none", ReadRow(a,
   answer[f]) PROVE AllTyped'
  <2>1. CallTyped'
    BY <1>0, <1>2, AnswerIs, ReadsTyped DEF CallTyped, Copies
  <2>2. RelayTyped'
    BY <1>0, <1>2 DEF RelayTyped, ReadRow, Answers
  <2>3. RowsTyped' /\ RunTyped' /\ BookTyped' /\ RecTyped'
    BY <1>0, <1>2 DEF ReadRow, RowsTyped, RunTyped, BookTyped, RecTyped
  <2> QED BY <2>1, <2>2, <2>3 DEF AllTyped
<1>3. ASSUME NEW a \in Attempts, GiveUp(a) PROVE AllTyped'
  <2>1. CallTyped'
    BY <1>0, <1>3, ReadsTyped, LostIs DEF CallTyped, GiveUp
  <2>2. RelayTyped'
    BY <1>0, <1>3 DEF RelayTyped, GiveUp, ReadRow, Answers
  <2>3. RowsTyped' /\ RunTyped' /\ BookTyped' /\ RecTyped'
    BY <1>0, <1>3 DEF GiveUp, ReadRow, RowsTyped, RunTyped, BookTyped, RecTyped
  <2> QED BY <2>1, <2>2, <2>3 DEF AllTyped
<1>4. ASSUME NEW a \in Attempts, Complete(a) PROVE AllTyped'
  <2>1. RowsTyped'
    BY <1>0, <1>4 DEF RowsTyped, Complete, Recorded
  <2>2. CallTyped'
    BY <1>0, <1>4 DEF CallTyped, Complete
  <2>3. RunTyped' /\ RelayTyped' /\ BookTyped' /\ RecTyped'
    BY <1>0, <1>4 DEF Complete, RunTyped, RelayTyped, BookTyped, RecTyped
  <2> QED BY <2>1, <2>2, <2>3 DEF AllTyped
<1>5. ASSUME NEW a \in Attempts, NEW v \in {"approve", "reject", "silent"},
   Decide(a, v) PROVE AllTyped'
  BY <1>5 DEF Decide, Verdict, Waiting, AllTyped, RowsTyped, RunTyped, CallTyped,
     RelayTyped, BookTyped, RecTyped, Statuses, Working, Answers, Booked, Waiting,
     Open, Terminal
<1>6. ASSUME NEW a \in Attempts, NEW minted \in BOOLEAN, Consume(a, minted) PROVE
   AllTyped'
  <2>1. RowsTyped'
    BY <1>0, <1>6 DEF RowsTyped, Consume, Statuses, Terminal
  <2>2. CallTyped'
    BY <1>0, <1>6 DEF CallTyped, Consume
  <2>3. RunTyped'
    BY <1>0, <1>6 DEF RunTyped, Working, Consume
  <2>4. RelayTyped' /\ BookTyped' /\ RecTyped'
    BY <1>0, <1>6 DEF Consume, RelayTyped, BookTyped, RecTyped
  <2> QED BY <2>1, <2>2, <2>3, <2>4 DEF AllTyped
<1>7. ASSUME Proposed PROVE AllTyped'
  BY <1>7 DEF Proposed, AllTyped, RowsTyped, RunTyped, CallTyped, RelayTyped,
     BookTyped, RecTyped, Statuses, Working, Answers, Booked, Waiting, Open,
     Terminal
<1>8. ASSUME Answer PROVE AllTyped'
  BY <1>8 DEF Answer, AllTyped, RowsTyped, RunTyped, CallTyped, RelayTyped,
     BookTyped, RecTyped, Statuses, Working, Answers, Booked, Waiting, Open,
     Terminal
<1>9. ASSUME Decided PROVE AllTyped'
  BY <1>9 DEF Decided, AllTyped, RowsTyped, RunTyped, CallTyped, RelayTyped,
     BookTyped, RecTyped, Statuses, Working, Answers, Booked, Waiting, Open,
     Terminal
<1>10. ASSUME Finish PROVE AllTyped'
  BY <1>10 DEF Finish, RunEnds, AllTyped, RowsTyped, RunTyped, CallTyped,
     RelayTyped, BookTyped, RecTyped, Statuses, Working, Answers, Booked, Waiting,
     Open, Terminal
<1>11. ASSUME Stop PROVE AllTyped'
  <2>1. RunTyped'
    BY <1>0, <1>11, FramesAssumption DEF RunTyped, Working, Stop, RunEnds, Troubled
  <2>2. CallTyped'
    BY <1>0, <1>11 DEF CallTyped, Stop, RunEnds
  <2>3. RelayTyped'
    BY <1>0, <1>11 DEF RelayTyped, Stop, RunEnds
  <2>4. RowsTyped' /\ BookTyped' /\ RecTyped'
    BY <1>0, <1>11 DEF Stop, RunEnds, RowsTyped, BookTyped, RecTyped
  <2> QED BY <2>1, <2>2, <2>3, <2>4 DEF AllTyped
<1>12. ASSUME WorkerLost PROVE AllTyped'
  <2>1. RunTyped'
    BY <1>0, <1>12, FramesAssumption DEF RunTyped, Working, WorkerLost, RunEnds,
       Troubled
  <2>2. CallTyped'
    BY <1>0, <1>12 DEF CallTyped, WorkerLost, RunEnds
  <2>3. RelayTyped'
    BY <1>0, <1>12 DEF RelayTyped, WorkerLost, RunEnds
  <2>4. RowsTyped' /\ BookTyped' /\ RecTyped'
    BY <1>0, <1>12 DEF WorkerLost, RunEnds, RowsTyped, BookTyped, RecTyped
  <2> QED BY <2>1, <2>2, <2>3, <2>4 DEF AllTyped
<1>13. ASSUME Retry PROVE AllTyped'
  BY <1>13 DEF Retry, AllTyped, RowsTyped, RunTyped, CallTyped, RelayTyped,
     BookTyped, RecTyped, Statuses, Working, Answers, Booked, Waiting, Open,
     Terminal
<1>14. ASSUME DropTurn PROVE AllTyped'
  BY <1>14 DEF DropTurn, RefuseAll, WaitingRows, AllTyped, RowsTyped, RunTyped,
     CallTyped, RelayTyped, BookTyped, RecTyped, Statuses, Working, Answers, Booked,
     Waiting, Open, Terminal
<1>15. ASSUME NEW f \in Frames, Repeat(f) PROVE AllTyped'
  <2>1. RunTyped'
    BY <1>0, <1>15, FramesAssumption DEF RunTyped, Working, Repeat, Troubled
  <2>2. RelayTyped'
    BY <1>0, <1>15 DEF RelayTyped, Repeat, RelayStep
  <2>3. RowsTyped' /\ CallTyped' /\ BookTyped' /\ RecTyped'
    BY <1>0, <1>15 DEF Repeat, RowsTyped, CallTyped, BookTyped, RecTyped
  <2> QED BY <2>1, <2>2, <2>3 DEF AllTyped
<1>16. ASSUME NEW f \in Frames, Authorize(f) PROVE AllTyped'
  <2>1. RelayTyped'
    BY <1>0, <1>16, Bundled DEF RelayTyped, Authorize, RelayStep, RelayDone, Answers
  <2>2. RowsTyped' /\ RunTyped' /\ CallTyped' /\ BookTyped' /\ RecTyped'
    BY <1>0, <1>16 DEF Authorize, RowsTyped, RunTyped, CallTyped, BookTyped,
       RecTyped
  <2> QED BY <2>1, <2>2 DEF AllTyped
<1>17. ASSUME NEW f \in Frames, ReadBearer(f) PROVE AllTyped'
  <2>1. RelayTyped'
    BY <1>0, <1>17, Bundled DEF RelayTyped, ReadBearer, RelayStep, RelayDone,
       Answers, RunTyped
  <2>2. RowsTyped' /\ RunTyped' /\ CallTyped' /\ BookTyped' /\ RecTyped'
    BY <1>0, <1>17 DEF ReadBearer, RowsTyped, RunTyped, CallTyped, BookTyped,
       RecTyped
  <2> QED BY <2>1, <2>2 DEF AllTyped
<1>18. ASSUME NEW f \in Frames, Claim(f) PROVE AllTyped'
  <2>1. RowsTyped'
    BY <1>0, <1>18, ClaimRows DEF RowsTyped
  <2>2. RelayTyped'
    BY <1>0, <1>18, Bundled DEF RelayTyped, Claim, RelayStep, RelayDone, Answers
  <2>3. RunTyped' /\ CallTyped' /\ BookTyped' /\ RecTyped'
    BY <1>0, <1>18 DEF Claim, RunTyped, CallTyped, BookTyped, RecTyped
  <2> QED BY <2>1, <2>2, <2>3 DEF AllTyped
<1>19. ASSUME NEW f \in Frames, NEW s \in {"submitted", "filled"}, NEW ans \in
   Answers, VendorTakes(f, s, ans) PROVE AllTyped'
  <2>1. RelayTyped'
    BY <1>0, <1>19, Bundled, SentGrows DEF RelayTyped, VendorTakes, RelayStep,
       RelayDone, Answers
  <2>2. BookTyped'
    BY <1>0, <1>19, FramesAssumption DEF BookTyped, VendorTakes, Booked
  <2>3. RowsTyped' /\ RunTyped' /\ CallTyped' /\ RecTyped'
    BY <1>0, <1>19 DEF VendorTakes, RowsTyped, RunTyped, CallTyped, RecTyped
  <2> QED BY <2>1, <2>2, <2>3 DEF AllTyped
<1>20. ASSUME NEW f \in Frames, NEW ans \in {"rejected_by_vendor", "lost"},
   VendorDeclines(f, ans) PROVE AllTyped'
  <2>1. RelayTyped'
    BY <1>0, <1>20, Bundled, SentGrows DEF RelayTyped, VendorDeclines, RelayStep,
       RelayDone, Answers
  <2>2. RowsTyped' /\ RunTyped' /\ CallTyped' /\ BookTyped' /\ RecTyped'
    BY <1>0, <1>20 DEF VendorDeclines, RowsTyped, RunTyped, CallTyped, BookTyped,
       RecTyped
  <2> QED BY <2>1, <2>2 DEF AllTyped
<1>21. ASSUME NEW f \in Frames, VendorRejectsBearer(f) PROVE AllTyped'
  <2>1. RelayTyped'
    BY <1>0, <1>21, Bundled, SentGrows DEF RelayTyped, VendorRejectsBearer,
       RelayStep
  <2>2. RowsTyped' /\ RunTyped' /\ CallTyped' /\ BookTyped' /\ RecTyped'
    BY <1>0, <1>21 DEF VendorRejectsBearer, RowsTyped, RunTyped, CallTyped,
       BookTyped, RecTyped
  <2> QED BY <2>1, <2>2 DEF AllTyped
<1>22. ASSUME NEW f \in Frames, ReadAgain(f) PROVE AllTyped'
  <2>1. RelayTyped'
    BY <1>0, <1>22, Bundled DEF RelayTyped, ReadAgain, RelayStep, RelayDone,
       Answers, RunTyped
  <2>2. RunTyped'
    BY <1>0, <1>22 DEF RunTyped, Working, ReadAgain, MarkNeedsReauth
  <2>3. RowsTyped' /\ CallTyped' /\ BookTyped' /\ RecTyped'
    BY <1>0, <1>22 DEF ReadAgain, RowsTyped, CallTyped, BookTyped, RecTyped
  <2> QED BY <2>1, <2>2, <2>3 DEF AllTyped
<1>23. ASSUME NEW f \in Frames, VendorRejectsAgain(f) PROVE AllTyped'
  <2>1. RelayTyped'
    BY <1>0, <1>23, Bundled, SentGrows DEF RelayTyped, VendorRejectsAgain,
       RelayStep, RelayDone, Answers
  <2>2. RunTyped'
    BY <1>0, <1>23 DEF RunTyped, Working, VendorRejectsAgain, MarkNeedsReauth
  <2>3. RowsTyped' /\ CallTyped' /\ BookTyped' /\ RecTyped'
    BY <1>0, <1>23 DEF VendorRejectsAgain, RowsTyped, CallTyped, BookTyped, RecTyped
  <2> QED BY <2>1, <2>2, <2>3 DEF AllTyped
<1>24. ASSUME Disconnect PROVE AllTyped'
  <2>1. RowsTyped'
    BY <1>0, <1>24 DEF RowsTyped, Disconnect, ConnectionChanged, RefuseAll,
       Statuses, Terminal
  <2>2. RunTyped'
    BY <1>0, <1>24, Severed DEF RunTyped, Working
  <2>3. CallTyped' /\ RelayTyped' /\ BookTyped' /\ RecTyped'
    BY <1>0, <1>24 DEF Disconnect, CallTyped, RelayTyped, BookTyped, RecTyped
  <2> QED BY <2>1, <2>2, <2>3 DEF AllTyped
<1>25. ASSUME Reconnect PROVE AllTyped'
  <2>1. RowsTyped'
    BY <1>0, <1>25 DEF RowsTyped, Reconnect, ConnectionChanged, RefuseAll, Statuses,
       Terminal
  <2>2. RunTyped'
    BY <1>0, <1>25, FramesAssumption DEF RunTyped, Working, Reconnect, Troubled
  <2>3. CallTyped' /\ RelayTyped' /\ BookTyped' /\ RecTyped'
    BY <1>0, <1>25 DEF Reconnect, CallTyped, RelayTyped, BookTyped, RecTyped
  <2> QED BY <2>1, <2>2, <2>3 DEF AllTyped
<1>26. ASSUME Refresh PROVE AllTyped'
  <2>1. RunTyped'
    BY <1>0, <1>26, FramesAssumption DEF RunTyped, Working, Refresh, Troubled
  <2>2. RowsTyped' /\ CallTyped' /\ RelayTyped' /\ BookTyped' /\ RecTyped'
    BY <1>0, <1>26 DEF Refresh, RowsTyped, CallTyped, RelayTyped, BookTyped,
       RecTyped
  <2> QED BY <2>1, <2>2 DEF AllTyped
<1>27. ASSUME RefuseAbandoned PROVE AllTyped'
  BY <1>27 DEF RefuseAbandoned, RefuseAll, Swept, AllTyped, RowsTyped, RunTyped,
     CallTyped, RelayTyped, BookTyped, RecTyped, Statuses, Working, Answers, Booked,
     Waiting, Open, Terminal
<1>28. ASSUME LapseApprovals PROVE AllTyped'
  BY <1>28 DEF LapseApprovals, RefuseAll, Swept, AllTyped, RowsTyped, RunTyped,
     CallTyped, RelayTyped, BookTyped, RecTyped, Statuses, Working, Answers, Booked,
     Waiting, Open, Terminal
<1>29. ASSUME FailUndispatched PROVE AllTyped'
  BY <1>29 DEF FailUndispatched, Undispatched, Swept, AllTyped, RowsTyped, RunTyped,
     CallTyped, RelayTyped, BookTyped, RecTyped, Statuses, Working, Answers, Booked,
     Waiting, Open, Terminal
<1>30. ASSUME List PROVE AllTyped'
  <2>1. RecTyped'
    BY <1>0, <1>30 DEF RecTyped, List, Stale, Open, BookTyped, Booked
  <2>2. RowsTyped' /\ RunTyped' /\ CallTyped' /\ RelayTyped' /\ BookTyped'
    BY <1>0, <1>30 DEF List, RowsTyped, RunTyped, CallTyped, RelayTyped, BookTyped
  <2> QED BY <2>1, <2>2 DEF AllTyped
<1>31. ASSUME ReadClaims PROVE AllTyped'
  BY <1>31 DEF ReadClaims, AllTyped, RowsTyped, RunTyped, CallTyped, RelayTyped,
     BookTyped, RecTyped, Statuses, Working, Answers, Booked, Waiting, Open,
     Terminal
<1>32. ASSUME ReadUnanswered PROVE AllTyped'
  BY <1>32 DEF ReadUnanswered, Unanswered, AllTyped, RowsTyped, RunTyped, CallTyped,
     RelayTyped, BookTyped, RecTyped, Statuses, Working, Answers, Booked, Waiting,
     Open, Terminal
<1>33. ASSUME PassEnds PROVE AllTyped'
  BY <1>33 DEF PassEnds, AllTyped, RowsTyped, RunTyped, CallTyped, RelayTyped,
     BookTyped, RecTyped, Statuses, Working, Answers, Booked, Waiting, Open,
     Terminal
<1>34. ASSUME NEW a \in Attempts, Record(a) PROVE AllTyped'
  <2>1. RowsTyped'
    BY <1>0, <1>34 DEF RowsTyped, Record, RecordFound, RecordAbsent, RecordNothing,
       Found, Candidates, Statuses, Terminal, Open, Booked, RecTyped
  <2>2. RecTyped'
    BY <1>0, <1>34 DEF RecTyped, Record, RecordFound, RecordAbsent, RecordNothing,
       Found, Candidates, RowsTyped
  <2>3. RunTyped' /\ CallTyped' /\ RelayTyped' /\ BookTyped'
    BY <1>0, <1>34 DEF Record, RunTyped, CallTyped, RelayTyped, BookTyped
  <2> QED BY <2>1, <2>2, <2>3 DEF AllTyped
<1>35. ASSUME NEW a \in Attempts, BookMoves(a) PROVE AllTyped'
  BY <1>35 DEF BookMoves, AllTyped, RowsTyped, RunTyped, CallTyped, RelayTyped,
     BookTyped, RecTyped, Statuses, Working, Answers, Booked, Waiting, Open,
     Terminal
<1>36. CASE UNCHANGED vars
  BY <1>36 DEF AllTyped, RowsTyped, RunTyped, CallTyped, RelayTyped, BookTyped,
     RecTyped
<1> QED
  BY <1>1, <1>2, <1>3, <1>4, <1>5, <1>6, <1>7, <1>8, <1>9, <1>10, <1>11, <1>12,
     <1>13, <1>14, <1>15, <1>16, <1>17, <1>18, <1>19, <1>20, <1>21, <1>22, <1>23,
     <1>24, <1>25, <1>26, <1>27, <1>28, <1>29, <1>30, <1>31, <1>32, <1>33, <1>34,
     <1>35, <1>36
  DEF Next, ToolStep, Relay, Connection, Sweeps, Reconciler, Elsewhere, Answered

-----------------------------------------------------------------------------
(* The inductive invariant *)

InFlight == {"claimed", "rejected", "resending"}
Unanswerable == {"submitting", "unknown"}

\* Only a spent row was signed for, and only its frames go anywhere.
Signing ==
  /\ \A a \in signed : row[a] \notin {"absent"} \cup Waiting
  /\ \A f \in Frames : frame[f] \notin {"unsent", "done"} => AttemptOf[f] \in signed
  /\ \A a \in Attempts : dispatched[a] => a \in signed

\* Until its frame leaves a row is of the login its card was shown for: a
\* connection that changes login refuses it.
Current ==
  \A a \in Attempts :
    row[a] \in Waiting \/ (row[a] = "submitting" /\ ~dispatched[a]) => login = shown[a]

\* So the bearer a frame first leaves with is of that login too.
Bearers ==
  /\ \A f \in Frames :
       frame[f] = "ready" /\ row[AttemptOf[f]] = "submitting" /\ ~dispatched[AttemptOf[f]] =>
         bearer[f][2] = login
  /\ \A f \in Frames :
       frame[f] = "claimed" /\ sent[AttemptOf[f]] = <<>> => bearer[f][2] = shown[AttemptOf[f]]
  /\ \A f \in Frames : frame[f] \in {"rejected", "resending"} => sent[AttemptOf[f]] # <<>>
  /\ \A a \in Attempts : sent[a] # <<>> => dispatched[a]

\* A frame that left was claimed, alone, and has placed nothing yet.
Flight ==
  /\ \A f \in Frames : frame[f] \in InFlight =>
       dispatched[AttemptOf[f]] /\ placed[AttemptOf[f]] = 0
  /\ \A f, g \in Frames :
       frame[f] \in InFlight /\ frame[g] \in InFlight /\ AttemptOf[f] = AttemptOf[g] => f = g

\* The book has what was placed.
Placed ==
  \A a \in Attempts : /\ placed[a] = 0 <=> book[a] = "none"
                      /\ placed[a] # 0 => placed[a] = 1 /\ dispatched[a]

\* An order id comes with the status that names it.
Held ==
  \A a \in Attempts : /\ vid[a] # NoOrder <=> row[a] \in Booked
                      /\ row[a] = "unknown" => dispatched[a]
                      /\ row[a] # "cancelled"

\* The vendor's no is final: nothing was placed and nothing is in flight.
Declined(a) == dispatched[a] /\ placed[a] = 0 /\ GraceOver(a)

Outcomes ==
  /\ \A f \in Frames : answer[f] = "rejected_by_vendor" => Declined(AttemptOf[f])
  /\ \A a \in Attempts : call[a] = "recording" =>
       \/ outcome[a] \in Booked
       \/ outcome[a] = "unknown" /\ dispatched[a]
       \/ outcome[a] = "failed" /\ (~dispatched[a] \/ a \in slipped)
       \/ outcome[a] = "rejected_by_vendor" /\ Declined(a)

\* An order another attempt holds slipped through, and so did its holder.
Adopters ==
  \A a \in Attempts : vid[a] \notin {a, NoOrder} => a \in slipped /\ vid[a] \in slipped

\* The rows a pass holds, and what it was shown of the book.
Pass ==
  /\ rec = "idle" => \A a \in Attempts : picked[a] = "none"
  /\ \A a \in Attempts :
       /\ picked[a] \in Unanswerable =>
            /\ dispatched[a] /\ GraceOver(a)
            /\ row[a] = "submitting" => picked[a] = "submitting"
       /\ picked[a] = "submitted" => row[a] \in Booked

Shown ==
  \A a \in Attempts :
    /\ listing[a] # "none" => placed[a] # 0
    /\ complete /\ picked[a] \in Unanswerable /\ placed[a] # 0 => listing[a] # "none"

\* A row nothing was recorded for since the pass took it.
Unread(a) == picked[a] \in Unanswerable /\ row[a] = picked[a]

\* The pass's two reads of its siblings: an order it was shown is claimed, or
\* its attempt a rival, or slipped between the two.
Siblings ==
  \A a \in Attempts :
    /\ rec = "claimed" => a \in claims \cup slipped \/ vid[a] = NoOrder
    /\ rec = "recording" => (listing[a] # "none" => a \in claims \cup slipped \cup rivals)
    /\ rec \in {"claimed", "recording"} /\ Unread(a) => (a \in claims => a \in slipped)
    /\ rec = "recording" /\ Unread(a) => a \in rivals

IInv ==
  /\ TypeOK /\ Signing /\ Current /\ Bearers /\ Flight /\ Placed /\ Held
  /\ Outcomes /\ Adopters /\ Pass /\ Shown /\ Siblings
  /\ FirstSendUnderLogin /\ DeadMeansNoOrder

-----------------------------------------------------------------------------
(* What the steps come to.  The invariant speaks of the rows, the calls, the *)
(* frames, the book and the pass; Effects is the next-state relation as they *)
(* see it, with the steps that look alike to them put together.              *)

RowsKept == UNCHANGED <<row, dispatched, vid, shown, signed>>
CallsKept == UNCHANGED <<call, outcome>>
FramesKept == UNCHANGED <<frame, bearer, answer, sent>>
BookKept == UNCHANGED <<book, placed>>
PassKept == UNCHANGED <<rec, picked, listing, complete, claims, rivals>>

\* A row to propose is inserted.
Inserts(a) ==
  /\ row[a] = "absent"
  /\ row' = [row EXCEPT ![a] = row'[a]] /\ row'[a] \in Waiting
  /\ shown' = [shown EXCEPT ![a] = login]
  /\ UNCHANGED <<dispatched, vid, signed, login, slipped>>
  /\ CallsKept /\ FramesKept /\ BookKept /\ PassKept

\* A verdict on a row that waits.
Judges(a) ==
  /\ row[a] \in Waiting
  /\ row' = [row EXCEPT ![a] = row'[a]]
  /\ row'[a] \in {"approved", "rejected_by_user", "refused"}
  /\ UNCHANGED <<dispatched, vid, shown, signed, login, slipped>>
  /\ CallsKept /\ FramesKept /\ BookKept /\ PassKept

\* An approval is spent.
Spends(a) ==
  /\ row[a] = "approved"
  /\ row' = [row EXCEPT ![a] = row'[a]] /\ row'[a] \in {"submitting", "failed"}
  /\ signed' = IF row'[a] = "submitting" THEN signed \cup {a} ELSE signed
  /\ call' = IF row'[a] = "submitting" THEN [call EXCEPT ![a] = "waiting"] ELSE call
  /\ UNCHANGED <<dispatched, vid, shown, login, outcome, slipped>>
  /\ FramesKept /\ BookKept /\ PassKept

\* The tool step reads its row, with an answer or without.
Hears(a) ==
  /\ call[a] = "waiting" /\ call' = [call EXCEPT ![a] = "recording"]
  /\ outcome' = [outcome EXCEPT ![a] = outcome'[a]]
  /\ \/ outcome'[a] \in Booked
     \/ outcome'[a] = "unknown" /\ dispatched[a]
     \/ outcome'[a] = "failed" /\ ~dispatched[a]
     \/ outcome'[a] = "rejected_by_vendor"
        /\ \E f \in Frames : AttemptOf[f] = a /\ answer[f] = "rejected_by_vendor"
  /\ \A f \in Frames : answer'[f] \in {answer[f], "none"}
  /\ UNCHANGED <<frame, bearer, sent, login, slipped>>
  /\ RowsKept /\ BookKept /\ PassKept

\* And records what it read, if the row still waits for it.
Settles(a) ==
  /\ call[a] = "recording" /\ call' = [call EXCEPT ![a] = "idle"]
  /\ outcome' = [outcome EXCEPT ![a] = "none"]
  /\ row' = IF row[a] = "submitting" THEN [row EXCEPT ![a] = outcome[a]] ELSE row
  /\ vid' = IF row[a] = "submitting" /\ outcome[a] \in Booked
              THEN [vid EXCEPT ![a] = a] ELSE vid
  /\ slipped' = IF rec = "claimed" /\ row[a] = "submitting" /\ vid'[a] = a
                  THEN slipped \cup {a} ELSE slipped
  /\ UNCHANGED <<dispatched, shown, signed, login>>
  /\ FramesKept /\ BookKept /\ PassKept

\* However the run ends, its tool steps are gone.
Leaves ==
  /\ call' = [a \in Attempts |-> "idle"]
  /\ answer' = [f \in Frames |-> "none"]
  /\ UNCHANGED <<frame, bearer, sent, login, slipped>>
  /\ RowsKept /\ BookKept /\ PassKept

\* The statements that close rows do so only before their frame is claimed.
Closes ==
  /\ row' \in [Attempts -> Statuses]
  /\ \A a \in Attempts :
       \/ row'[a] = row[a]
       \/ /\ row'[a] \in {"refused", "failed"}
          /\ row[a] \in Waiting \/ (row[a] = "submitting" /\ ~dispatched[a])
  /\ UNCHANGED <<dispatched, vid, shown, signed, slipped>>
  /\ CallsKept /\ FramesKept /\ BookKept /\ PassKept

\* A connection that changes login closes every such row.
ClosesAll ==
  Closes /\ \A a \in Attempts : /\ row'[a] \notin Waiting
                                /\ row'[a] = "submitting" => dispatched[a]

\* The relay carries a frame on, alone.
Carries(f, to) ==
  /\ frame' = [frame EXCEPT ![f] = to]
  /\ \A g \in Frames \ {f} : bearer'[g] = bearer[g]
  /\ UNCHANGED login

Passes(f) ==
  /\ frame[f] \in {"unsent", "done"} /\ AttemptOf[f] \in signed
  /\ \E to \in {"unsent", "authorized"} : Carries(f, to)
  /\ UNCHANGED <<answer, sent, slipped>>
  /\ RowsKept /\ CallsKept /\ BookKept /\ PassKept

Equips(f) ==
  /\ \/ frame[f] = "authorized" /\ Carries(f, "ready")
     \/ frame[f] = "rejected" /\ Carries(f, "resending")
  /\ bearer'[f] = <<gen, login>>
  /\ UNCHANGED <<answer, sent, slipped>>
  /\ RowsKept /\ CallsKept /\ BookKept /\ PassKept

Departs(f) ==
  LET a == AttemptOf[f]
  IN /\ frame[f] = "ready" /\ row[a] = "submitting" /\ ~dispatched[a]
     /\ dispatched' = [dispatched EXCEPT ![a] = TRUE]
     /\ Carries(f, "claimed") /\ bearer'[f] = bearer[f]
     /\ slipped' = IF call[a] = "recording" THEN slipped \cup {a} ELSE slipped
     /\ UNCHANGED <<row, vid, shown, signed, answer, sent>>
     /\ CallsKept /\ BookKept /\ PassKept

\* A frame's way ends, with an answer for a tool step that still waits.
Ends(f, ans) ==
  /\ Carries(f, "done")
  /\ \/ answer' = answer
     \/ answer' = [answer EXCEPT ![f] = ans] /\ call[AttemptOf[f]] = "waiting"
  /\ UNCHANGED slipped
  /\ RowsKept /\ CallsKept /\ PassKept

Drops(f) ==
  /\ frame[f] \in {"unsent", "authorized", "ready", "rejected"}
  /\ Ends(f, "lost") /\ UNCHANGED sent /\ BookKept

\* A sending is appended to the attempt's.
Sent(f) ==
  LET a == AttemptOf[f]
  IN /\ sent'[a] # <<>>
     /\ Head(sent'[a]) = IF sent[a] = <<>> THEN bearer[f][2] ELSE Head(sent[a])
     /\ \A b \in Attempts \ {a} : sent'[b] = sent[b]

Refused(f, ans) ==
  /\ frame[f] \in {"claimed", "resending"} /\ ans \in {"rejected_by_vendor", "lost"}
  /\ Sent(f) /\ Ends(f, ans) /\ BookKept

Took(f, s, ans) ==
  /\ frame[f] \in {"claimed", "resending"} /\ s \in Booked /\ ans \in {s, "lost"}
  /\ Sent(f) /\ Ends(f, ans)
  /\ book' = [book EXCEPT ![AttemptOf[f]] = s]
  /\ placed' = [placed EXCEPT ![AttemptOf[f]] = @ + 1]

TurnsDown(f) ==
  /\ frame[f] = "claimed"
  /\ Sent(f) /\ Carries(f, "rejected") /\ UNCHANGED <<answer, slipped>>
  /\ RowsKept /\ CallsKept /\ BookKept /\ PassKept

\* An order on the book moves on.
Fills(a) ==
  /\ book[a] = "submitted" /\ book' = [book EXCEPT ![a] = "filled"]
  /\ UNCHANGED <<placed, login, slipped>>
  /\ RowsKept /\ CallsKept /\ FramesKept /\ PassKept

\* The pass takes its rows and its listing.
Lists ==
  /\ rec = "idle" /\ rec' = "listed"
  /\ \A a \in Attempts :
       /\ picked'[a] # "none" =>
            /\ picked'[a] = row[a]
            /\ \/ row[a] = "submitting" /\ dispatched[a] /\ GraceOver(a)
               \/ row[a] = "unknown" /\ vid[a] = NoOrder /\ GraceOver(a)
               \/ row[a] \in Open /\ vid[a] # NoOrder
       /\ listing'[a] \in {"none", book[a]}
       /\ complete' = TRUE => listing'[a] = book[a]
  /\ UNCHANGED <<claims, rivals, login, slipped>>
  /\ RowsKept /\ CallsKept /\ FramesKept /\ BookKept

ReadsClaims ==
  /\ rec = "listed" /\ rec' = "claimed"
  /\ claims' = {vid[a] : a \in Attempts} \ {NoOrder}
  /\ UNCHANGED <<picked, listing, complete, rivals, login, slipped>>
  /\ RowsKept /\ CallsKept /\ FramesKept /\ BookKept

ReadsRivals ==
  /\ rec = "claimed" /\ rec' = "recording"
  /\ rivals' = Unanswered
  /\ UNCHANGED <<picked, listing, complete, claims, login, slipped>>
  /\ RowsKept /\ CallsKept /\ FramesKept /\ BookKept

Parts ==
  /\ rec' = "idle" /\ complete' = FALSE
  /\ picked' = [a \in Attempts |-> "none"]
  /\ listing' = [a \in Attempts |-> "none"]
  /\ UNCHANGED <<login, slipped>>
  /\ RowsKept /\ CallsKept /\ FramesKept /\ BookKept

\* Recording takes the row off the pass's list.
Records(a) ==
  /\ rec = "recording" /\ picked[a] # "none"
  /\ picked' = [picked EXCEPT ![a] = "none"]
  /\ UNCHANGED <<dispatched, shown, signed, login, rec, listing, complete, rivals>>
  /\ CallsKept /\ FramesKept /\ BookKept

Keeps(a) ==
  Records(a) /\ UNCHANGED <<row, vid, claims>> /\ slipped \subseteq slipped'

\* A listed order carries the row forward, and is the row's if it had none.
Adopts(a, o) ==
  /\ Records(a)
  /\ ~Ambiguous(a) /\ o \in Found(a) /\ listing[o] \in Booked
  /\ row[a] \in {"submitting"} \cup Open
  /\ row[a] # listing[o] => Rank(row[a]) < Rank(listing[o])
  /\ row' = [row EXCEPT ![a] = listing[o]]
  /\ vid' = IF vid[a] = NoOrder THEN [vid EXCEPT ![a] = o] ELSE vid
  /\ claims' = claims \cup {o}
  /\ slipped' = IF vid'[a] \in {a, NoOrder} THEN slipped ELSE slipped \cup {a}

\* A complete listing without the order fails the row.
Misses(a) ==
  /\ Records(a)
  /\ Found(a) = {} /\ complete = TRUE /\ picked[a] \in Unanswerable
  /\ row[a] = picked[a] /\ row' = [row EXCEPT ![a] = "failed"]
  /\ UNCHANGED <<vid, claims>> /\ slipped \subseteq slipped'

Quiet ==
  /\ UNCHANGED <<login, slipped>>
  /\ RowsKept /\ CallsKept /\ FramesKept /\ BookKept /\ PassKept

Effects ==
  \/ \E a \in Attempts : \/ Inserts(a) \/ Judges(a) \/ Spends(a) \/ Hears(a) \/ Settles(a)
                         \/ Fills(a) \/ Keeps(a) \/ Misses(a)
                         \/ \E o \in Attempts : Adopts(a, o)
  \/ Leaves \/ (Closes /\ UNCHANGED login) \/ ClosesAll
  \/ \E f \in Frames : \/ Passes(f) \/ Equips(f) \/ Departs(f) \/ Drops(f) \/ TurnsDown(f)
                       \/ \E ans \in Answers : Refused(f, ans)
                       \/ \E s \in Booked, ans \in Answers : Took(f, s, ans)
  \/ Lists \/ ReadsClaims \/ ReadsRivals \/ Parts \/ Quiet

-----------------------------------------------------------------------------
(* Every step is one of the effects *)

\* A sending is the attempt's first, or leaves the first as it was.
LEMMA SendsSent ==
  ASSUME NEW f \in Frames, RelayTyped, Sends(f)
  PROVE  Sent(f)
<1> DEFINE a == AttemptOf[f]
           l == bearer[f][2]
<1>1. l \in 0 .. MaxGen
  BY DEF RelayTyped, Bundles
<1>2. a \in Attempts
  BY FramesAssumption
<1>3. sent[a] \in Seq(0 .. MaxGen) /\ sent'[a] = Append(sent[a], l)
      /\ \A b \in Attempts \ {a} : sent'[b] = sent[b]
  BY <1>2 DEF RelayTyped, Sends
<1>4. Append(sent[a], l) # <<>>
      /\ Head(Append(sent[a], l)) = IF sent[a] = <<>> THEN l ELSE Head(sent[a])
  BY <1>1, <1>3, AppendProperties, HeadTailAppend
<1> QED
  BY <1>3, <1>4 DEF Sent

\* What a tool step hears, with the answer it heard,
LEMMA Heard ==
  ASSUME NEW a \in Attempts, NEW o \in Answers, ReadRow(a, o), CallTyped, RelayTyped,
         o = "rejected_by_vendor" =>
           \E f \in Frames : AttemptOf[f] = a /\ answer[f] = "rejected_by_vendor"
  PROVE  Hears(a)
<1>1. /\ outcome' = [outcome EXCEPT ![a] = Outcome(a, o)]
      /\ outcome'[a] = Outcome(a, o)
  BY DEF ReadRow, CallTyped
<1>2. \/ Outcome(a, o) \in Booked
      \/ Outcome(a, o) = "unknown" /\ dispatched[a]
      \/ Outcome(a, o) = "failed" /\ ~dispatched[a]
      \/ Outcome(a, o) = "rejected_by_vendor" /\ o = "rejected_by_vendor"
  BY DEF Outcome, Answers, Booked
<1>3. \A f \in Frames : answer'[f] \in {answer[f], "none"}
  BY DEF ReadRow
<1> QED
  BY <1>1, <1>2, <1>3 DEF ReadRow, Hears, RowsKept, BookKept, PassKept, rowVars,
     runVars,
     connVars, bookVars, recVars

\* from a frame
LEMMA AnswerRead ==
  ASSUME CallTyped, RelayTyped, NEW a \in Attempts, NEW f \in Copies(a),
         answer[f] # "none", ReadRow(a, answer[f])
  PROVE  Hears(a)
<1>1. f \in Frames /\ AttemptOf[f] = a /\ answer[f] \in Answers
  BY AnswerIs DEF Copies
<1> QED
  BY <1>1, Heard

\* or from none.
LEMMA GaveUp ==
  ASSUME CallTyped, RelayTyped, NEW a \in Attempts, GiveUp(a)
  PROVE  Hears(a)
  BY LostIs, Heard DEF GiveUp

\* A recorded observation keeps the row, adopts a listed order, or misses it.
LEMMA RecordEffect ==
  ASSUME NEW a \in Attempts, Record(a), RowsTyped, RecTyped
  PROVE  Keeps(a) \/ (\E o \in Attempts : Adopts(a, o)) \/ Misses(a)
<1>0. /\ Records(a) /\ slipped \subseteq slipped'
      /\ slipped' = IF vid'[a] \in {a, NoOrder} THEN slipped ELSE slipped \cup {a}
  BY DEF Record, Records, CallsKept, FramesKept, BookKept, runVars, callVars,
     relayVars,
     connVars, bookVars
<1>1. CASE RecordNothing(a)
  BY <1>0, <1>1 DEF RecordNothing, Keeps
<1>2. CASE RecordAbsent(a)
  BY <1>0, <1>2 DEF RecordAbsent, Unanswerable, Misses, Keeps, RecTyped
<1>3. CASE RecordFound(a)
  <2>1. PICK o \in Found(a) :
          LET s == listing[o]
          IN IF row[a] \in (IF s = picked[a] THEN {s} ELSE ForwardFrom(s))
               THEN /\ row' = [row EXCEPT ![a] = s]
                    /\ vid' = IF vid[a] = NoOrder THEN [vid EXCEPT ![a] = o] ELSE vid
                    /\ claims' = claims \cup {o}
               ELSE UNCHANGED <<row, vid, claims>>
    BY <1>3 DEF RecordFound
  <2>2. o \in Attempts /\ listing[o] \in Booked
    BY DEF Found, Candidates, RowsTyped, RecTyped
  <2>3. ~Ambiguous(a)
    BY <1>3 DEF RecordFound
  <2>4. CASE listing[o] = picked[a] /\ row[a] = listing[o]
    <3>1. row[a] \in Open
      BY <2>2, <2>4 DEF RecTyped, Booked, Open
    <3> QED
      BY <1>0, <2>1, <2>2, <2>3, <2>4, <3>1 DEF Adopts
  <2>5. CASE listing[o] # picked[a] /\ row[a] \in ForwardFrom(listing[o])
    BY <1>0, <2>1, <2>2, <2>3, <2>5 DEF Adopts, ForwardFrom
  <2>6. CASE ~(row[a] \in (IF listing[o] = picked[a] THEN {listing[o]}
                                                   ELSE ForwardFrom(listing[o])))
    BY <1>0, <2>1, <2>6 DEF Keeps
  <2> QED
    BY <2>4, <2>5, <2>6
<1> QED
  BY <1>1, <1>2, <1>3 DEF Record

\* Every step is one of the effects.
LEMMA NextEffects ==
  ASSUME AllTyped, [Next]_vars
  PROVE  Effects
<1> USE FramesAssumption DEF RowsKept, CallsKept, FramesKept, BookKept, PassKept,
   rowVars, runVars, callVars, relayVars, connVars, bookVars, recVars
<1>0. RowsTyped /\ RunTyped /\ CallTyped /\ RelayTyped /\ BookTyped /\ RecTyped
  BY DEF AllTyped
<1>1. ASSUME NEW a \in Attempts, Propose(a) PROVE Inserts(a) \/ Quiet
  BY <1>0, <1>1 DEF Propose, Inserts, Quiet, Waiting, RowsTyped
<1>2. ASSUME NEW a \in Attempts, NEW f \in Copies(a), answer[f] # "none", ReadRow(a,
   answer[f]) PROVE Hears(a)
  BY <1>0, <1>2, AnswerRead DEF Copies
<1>3. ASSUME NEW a \in Attempts, GiveUp(a) PROVE Hears(a)
  BY <1>0, <1>3, GaveUp
<1>4. ASSUME NEW a \in Attempts, Complete(a) PROVE Settles(a)
  BY <1>0, <1>4 DEF Complete, Settles, Booked, RowsTyped, CallTyped
<1>5. ASSUME NEW a \in Attempts, NEW v \in {"approve", "reject", "silent"},
   Decide(a, v) PROVE Judges(a) \/ Quiet
  BY <1>0, <1>5 DEF Decide, Verdict, Judges, Quiet, Waiting, RowsTyped
<1>6. ASSUME NEW a \in Attempts, NEW minted \in BOOLEAN, Consume(a, minted) PROVE
   Spends(a) \/ Quiet
  BY <1>0, <1>6 DEF Consume, Spends, Quiet, RowsTyped, CallTyped
<1>7. ASSUME Proposed \/ Answer \/ Decided \/ Retry PROVE Quiet
  BY <1>0, <1>7 DEF Proposed, Answer, Decided, Retry, Quiet
<1>8. ASSUME Finish \/ Stop \/ WorkerLost PROVE Leaves
  BY <1>0, <1>8 DEF Finish, Stop, WorkerLost, RunEnds, Leaves
<1>9. ASSUME DropTurn PROVE Closes /\ UNCHANGED login
  BY <1>0, <1>9 DEF DropTurn, RefuseAll, WaitingRows, Closes, Statuses, Waiting,
     Terminal, RowsTyped
<1>10. ASSUME RefuseAbandoned PROVE Closes /\ UNCHANGED login
  BY <1>0, <1>10 DEF RefuseAbandoned, Swept, RefuseAll, Closes, Statuses, Waiting,
     Terminal, RowsTyped
<1>11. ASSUME LapseApprovals PROVE Closes /\ UNCHANGED login
  BY <1>0, <1>11 DEF LapseApprovals, Swept, RefuseAll, Closes, Statuses, Waiting,
     Terminal, RowsTyped
<1>12. ASSUME FailUndispatched PROVE Closes /\ UNCHANGED login
  BY <1>0, <1>12 DEF FailUndispatched, Undispatched, Swept, Closes, Statuses,
     Waiting, Terminal, RowsTyped
<1>13. ASSUME Disconnect PROVE Closes /\ UNCHANGED login
  BY <1>0, <1>13 DEF Disconnect, ConnectionChanged, Undispatched, WaitingRows,
     RefuseAll, Closes, Statuses, Waiting, Terminal, RowsTyped
<1>14. ASSUME Reconnect PROVE ClosesAll
  BY <1>0, <1>14 DEF Reconnect, ConnectionChanged, Undispatched, WaitingRows,
     RefuseAll, ClosesAll, Closes, Statuses, Waiting, Terminal, RowsTyped
<1>15. ASSUME Refresh PROVE Quiet
  BY <1>0, <1>15 DEF Refresh, Quiet
<1>16. ASSUME NEW f \in Frames, Repeat(f) PROVE Passes(f)
  BY <1>0, <1>16 DEF Repeat, RelayStep, Passes, Carries, RelayTyped
<1>17. ASSUME NEW f \in Frames, Authorize(f) PROVE Passes(f) \/ Drops(f)
  BY <1>0, <1>17 DEF Authorize, RelayStep, RelayDone, Passes, Drops, Ends, Carries,
     RelayTyped
<1>18. ASSUME NEW f \in Frames, ReadBearer(f) PROVE Equips(f) \/ Drops(f)
  BY <1>0, <1>18 DEF ReadBearer, RelayStep, RelayDone, Equips, Drops, Ends, Carries,
     RelayTyped
<1>19. ASSUME NEW f \in Frames, Claim(f) PROVE Departs(f) \/ Drops(f)
  BY <1>0, <1>19 DEF Claim, RelayStep, RelayDone, Departs, Drops, Ends, Carries,
     RelayTyped
<1>20. ASSUME NEW f \in Frames, NEW s \in {"submitted", "filled"}, NEW ans \in
   Answers, VendorTakes(f, s, ans) PROVE Took(f, s, ans)
  BY <1>0, <1>20, SendsSent DEF VendorTakes, RelayStep, RelayDone, Took, Ends,
     Carries, Booked, RelayTyped
<1>21. ASSUME NEW f \in Frames, NEW ans \in {"rejected_by_vendor", "lost"},
   VendorDeclines(f, ans) PROVE Refused(f, ans)
  BY <1>0, <1>21, SendsSent DEF VendorDeclines, RelayStep, RelayDone, Refused, Ends,
     Carries, RelayTyped
<1>22. ASSUME NEW f \in Frames, VendorRejectsBearer(f) PROVE TurnsDown(f)
  BY <1>0, <1>22, SendsSent DEF VendorRejectsBearer, RelayStep, TurnsDown, Carries,
     RelayTyped
<1>23. ASSUME NEW f \in Frames, ReadAgain(f) PROVE Equips(f) \/ Drops(f)
  BY <1>0, <1>23 DEF ReadAgain, RelayStep, RelayDone, Equips, Drops, Ends, Carries,
     RelayTyped
<1>24. ASSUME NEW f \in Frames, VendorRejectsAgain(f) PROVE Refused(f, "lost")
  BY <1>0, <1>24, SendsSent DEF VendorRejectsAgain, RelayStep, RelayDone, Refused,
     Ends, Carries, RelayTyped
<1>25. ASSUME List PROVE Lists
  <2>1. PICK S \in SUBSET Attempts :
          /\ listing' = [a \in Attempts |-> IF a \in S THEN book[a] ELSE "none"]
          /\ complete' \in {FALSE, S = Attempts}
    BY <1>25 DEF List
  <2>2. complete' = TRUE => S = Attempts
    BY <2>1, Zenon
  <2>3. \A a \in Attempts : /\ listing'[a] \in {"none", book[a]}
                            /\ complete' = TRUE => listing'[a] = book[a]
    BY <2>1, <2>2
  <2>4. \A a \in Attempts : picked'[a] # "none" =>
          /\ picked'[a] = row[a]
          /\ \/ row[a] = "submitting" /\ dispatched[a] /\ GraceOver(a)
             \/ row[a] = "unknown" /\ vid[a] = NoOrder /\ GraceOver(a)
             \/ row[a] \in Open /\ vid[a] # NoOrder
    BY <1>25 DEF List, Stale
  <2>5. /\ rec = "idle" /\ rec' = "listed"
        /\ UNCHANGED <<claims, rivals, rowVars, runVars, callVars, relayVars, connVars,
                       bookVars, slipped>>
    BY <1>25 DEF List
  <2> QED
    BY <2>3, <2>4, <2>5 DEF Lists
<1>26. ASSUME ReadClaims PROVE ReadsClaims
  BY <1>0, <1>26 DEF ReadClaims, ReadsClaims
<1>27. ASSUME ReadUnanswered PROVE ReadsRivals
  BY <1>0, <1>27 DEF ReadUnanswered, ReadsRivals
<1>28. ASSUME PassEnds PROVE Parts
  BY <1>0, <1>28 DEF PassEnds, Parts
<1>29. ASSUME NEW a \in Attempts, Record(a) PROVE Keeps(a) \/ (\E o \in Attempts :
   Adopts(a, o)) \/ Misses(a)
  BY <1>0, <1>29, RecordEffect
<1>30. ASSUME NEW a \in Attempts, BookMoves(a) PROVE Fills(a)
  BY <1>0, <1>30 DEF BookMoves, Fills
<1>31. ASSUME UNCHANGED vars PROVE Quiet
  BY <1>0, <1>31 DEF vars, Quiet
<1> QED
  BY <1>1, <1>2, <1>3, <1>4, <1>5, <1>6, <1>7, <1>8, <1>9, <1>10, <1>11, <1>12,
     <1>13, <1>14, <1>15, <1>16, <1>17, <1>18, <1>19, <1>20, <1>21, <1>22, <1>23,
     <1>24, <1>25, <1>26, <1>27, <1>28, <1>29, <1>30, <1>31 DEF Next, ToolStep,
     Relay, Connection, Sweeps, Reconciler, Elsewhere, Answered, Effects, Answers,
     Booked

-----------------------------------------------------------------------------
(* Each part of the invariant is kept by every effect *)

\* Signing is kept: a row is signed for as it is spent.
LEMMA SigningStep ==
  ASSUME AllTyped, Signing, Outcomes, Effects
  PROVE  Signing'
<1> USE FramesAssumption DEF Signing, Outcomes, RowsTyped, CallTyped, RelayTyped,
   RecTyped, Statuses, Booked, Waiting, Open, Terminal, RowsKept, CallsKept,
   FramesKept, BookKept, PassKept
<1>0. RowsTyped /\ CallTyped /\ RelayTyped /\ RecTyped
  BY DEF AllTyped
<1>1. ASSUME NEW a \in Attempts, Inserts(a) PROVE Signing'
  BY <1>0, <1>1 DEF Inserts
<1>2. ASSUME NEW a \in Attempts, Judges(a) PROVE Signing'
  BY <1>0, <1>2 DEF Judges
<1>3. ASSUME NEW a \in Attempts, Spends(a) PROVE Signing'
  BY <1>0, <1>3 DEF Spends
<1>4. ASSUME NEW a \in Attempts, Hears(a) PROVE Signing'
  BY <1>0, <1>4 DEF Hears
<1>5. ASSUME NEW a \in Attempts, Settles(a) PROVE Signing'
  BY <1>0, <1>5 DEF Settles
<1>6. CASE Leaves
  BY <1>0, <1>6 DEF Leaves
<1>7. CASE Closes /\ UNCHANGED login
  BY <1>0, <1>7 DEF Closes
<1>8. CASE ClosesAll
  BY <1>0, <1>8 DEF ClosesAll, Closes
<1>9. ASSUME NEW f \in Frames, Passes(f) PROVE Signing'
  BY <1>0, <1>9 DEF Passes, Carries
<1>10. ASSUME NEW f \in Frames, Equips(f) PROVE Signing'
  BY <1>0, <1>10 DEF Equips, Carries
<1>11. ASSUME NEW f \in Frames, Departs(f) PROVE Signing'
  BY <1>0, <1>11 DEF Departs, Carries
<1>12. ASSUME NEW f \in Frames, Drops(f) PROVE Signing'
  BY <1>0, <1>12 DEF Drops, Ends, Carries
<1>13. ASSUME NEW f \in Frames, NEW ans \in Answers, Refused(f, ans) PROVE Signing'
  BY <1>0, <1>13 DEF Refused, Sent, Ends, Carries
<1>14. ASSUME NEW f \in Frames, NEW s \in Booked, NEW ans \in Answers, Took(f, s,
   ans) PROVE Signing'
  BY <1>0, <1>14 DEF Took, Sent, Ends, Carries
<1>15. ASSUME NEW f \in Frames, TurnsDown(f) PROVE Signing'
  BY <1>0, <1>15 DEF TurnsDown, Sent, Carries
<1>16. ASSUME NEW a \in Attempts, Fills(a) PROVE Signing'
  BY <1>0, <1>16 DEF Fills
<1>17. CASE Lists
  BY <1>0, <1>17 DEF Lists
<1>18. CASE ReadsClaims
  BY <1>0, <1>18 DEF ReadsClaims
<1>19. CASE ReadsRivals
  BY <1>0, <1>19 DEF ReadsRivals
<1>20. CASE Parts
  BY <1>0, <1>20 DEF Parts
<1>21. ASSUME NEW a \in Attempts, Keeps(a) PROVE Signing'
  BY <1>0, <1>21 DEF Keeps, Records
<1>22. ASSUME NEW a \in Attempts, NEW o \in Attempts, Adopts(a, o) PROVE Signing'
  BY <1>0, <1>22 DEF Adopts, Records
<1>23. ASSUME NEW a \in Attempts, Misses(a) PROVE Signing'
  BY <1>0, <1>23 DEF Misses, Records
<1>24. CASE Quiet
  BY <1>0, <1>24 DEF Quiet
<1> QED
  BY <1>1, <1>2, <1>3, <1>4, <1>5, <1>6, <1>7, <1>8, <1>9, <1>10, <1>11, <1>12,
     <1>13, <1>14, <1>15, <1>16, <1>17, <1>18, <1>19, <1>20, <1>21, <1>22, <1>23,
     <1>24 DEF Effects

\* A row still to leave stays of its card's login.
LEMMA CurrentStep ==
  ASSUME AllTyped, Current, Signing, Outcomes, Effects
  PROVE  Current'
<1> USE FramesAssumption DEF Current, Signing, Outcomes, RowsTyped, CallTyped,
   RunTyped, RecTyped, Statuses, Booked, Waiting, Open, Terminal, RowsKept,
   CallsKept, FramesKept, BookKept, PassKept
<1>0. RowsTyped /\ CallTyped /\ RunTyped /\ RecTyped
  BY DEF AllTyped
<1>1. ASSUME NEW a \in Attempts, Inserts(a) PROVE Current'
  BY <1>0, <1>1 DEF Inserts
<1>2. ASSUME NEW a \in Attempts, Judges(a) PROVE Current'
  BY <1>0, <1>2 DEF Judges
<1>3. ASSUME NEW a \in Attempts, Spends(a) PROVE Current'
  BY <1>0, <1>3 DEF Spends
<1>4. ASSUME NEW a \in Attempts, Hears(a) PROVE Current'
  BY <1>0, <1>4 DEF Hears
<1>5. ASSUME NEW a \in Attempts, Settles(a) PROVE Current'
  BY <1>0, <1>5 DEF Settles
<1>6. CASE Leaves
  BY <1>0, <1>6 DEF Leaves
<1>7. CASE Closes /\ UNCHANGED login
  BY <1>0, <1>7 DEF Closes
<1>8. CASE ClosesAll
  BY <1>0, <1>8 DEF ClosesAll, Closes
<1>9. ASSUME NEW f \in Frames, Passes(f) PROVE Current'
  BY <1>0, <1>9 DEF Passes, Carries
<1>10. ASSUME NEW f \in Frames, Equips(f) PROVE Current'
  BY <1>0, <1>10 DEF Equips, Carries
<1>11. ASSUME NEW f \in Frames, Departs(f) PROVE Current'
  BY <1>0, <1>11 DEF Departs, Carries
<1>12. ASSUME NEW f \in Frames, Drops(f) PROVE Current'
  BY <1>0, <1>12 DEF Drops, Ends, Carries
<1>13. ASSUME NEW f \in Frames, NEW ans \in Answers, Refused(f, ans) PROVE Current'
  BY <1>0, <1>13 DEF Refused, Sent, Ends, Carries
<1>14. ASSUME NEW f \in Frames, NEW s \in Booked, NEW ans \in Answers, Took(f, s,
   ans) PROVE Current'
  BY <1>0, <1>14 DEF Took, Sent, Ends, Carries
<1>15. ASSUME NEW f \in Frames, TurnsDown(f) PROVE Current'
  BY <1>0, <1>15 DEF TurnsDown, Sent, Carries
<1>16. ASSUME NEW a \in Attempts, Fills(a) PROVE Current'
  BY <1>0, <1>16 DEF Fills
<1>17. CASE Lists
  BY <1>0, <1>17 DEF Lists
<1>18. CASE ReadsClaims
  BY <1>0, <1>18 DEF ReadsClaims
<1>19. CASE ReadsRivals
  BY <1>0, <1>19 DEF ReadsRivals
<1>20. CASE Parts
  BY <1>0, <1>20 DEF Parts
<1>21. ASSUME NEW a \in Attempts, Keeps(a) PROVE Current'
  BY <1>0, <1>21 DEF Keeps, Records
<1>22. ASSUME NEW a \in Attempts, NEW o \in Attempts, Adopts(a, o) PROVE Current'
  BY <1>0, <1>22 DEF Adopts, Records
<1>23. ASSUME NEW a \in Attempts, Misses(a) PROVE Current'
  BY <1>0, <1>23 DEF Misses, Records
<1>24. CASE Quiet
  BY <1>0, <1>24 DEF Quiet
<1> QED
  BY <1>1, <1>2, <1>3, <1>4, <1>5, <1>6, <1>7, <1>8, <1>9, <1>10, <1>11, <1>12,
     <1>13, <1>14, <1>15, <1>16, <1>17, <1>18, <1>19, <1>20, <1>21, <1>22, <1>23,
     <1>24 DEF Effects

\* The bearer a frame leaves with is read under the login of the moment,
\* and a change of login refuses the row before it is claimed.
LEMMA BearersStep ==
  ASSUME AllTyped, Bearers, Signing, Current, Flight, Effects
  PROVE  Bearers'
<1> USE FramesAssumption DEF Bearers, Signing, Current, Flight, RowsTyped,
   RelayTyped, RunTyped, RecTyped, InFlight, Booked, Open, RowsKept, CallsKept,
   FramesKept, BookKept, PassKept
<1>0. RowsTyped /\ RelayTyped /\ RunTyped /\ RecTyped
  BY DEF AllTyped
<1>1. ASSUME NEW a \in Attempts, Inserts(a) PROVE Bearers'
  <2>1. /\ ~dispatched[a] /\ a \notin signed
        /\ \A f \in Frames : AttemptOf[f] = a => frame[f] \in {"unsent", "done"}
    BY <1>0, <1>1 DEF Inserts, Waiting
  <2> QED
    BY <1>0, <1>1, <2>1 DEF Inserts, Waiting
<1>2. ASSUME NEW a \in Attempts, Judges(a) PROVE Bearers'
  BY <1>0, <1>2 DEF Judges
<1>3. ASSUME NEW a \in Attempts, Spends(a) PROVE Bearers'
  <2>1. /\ ~dispatched[a] /\ a \notin signed
        /\ \A f \in Frames : AttemptOf[f] = a => frame[f] \in {"unsent", "done"}
    BY <1>0, <1>3 DEF Spends, Waiting
  <2>2. /\ \A b \in Attempts \ {a} : row'[b] = row[b]
        /\ UNCHANGED <<dispatched, shown, login, frame, bearer, sent>>
    BY <1>0, <1>3 DEF Spends
  <2>3. \A f \in Frames : frame[f] \in {"ready", "claimed"} =>
          AttemptOf[f] \in Attempts \ {a}
    BY <1>0, <2>1
  <2> QED
    BY <2>2, <2>3
<1>4. ASSUME NEW a \in Attempts, Hears(a) PROVE Bearers'
  BY <1>0, <1>4 DEF Hears
<1>5. ASSUME NEW a \in Attempts, Settles(a) PROVE Bearers'
  BY <1>0, <1>5 DEF Settles
<1>6. CASE Leaves
  BY <1>0, <1>6 DEF Leaves
<1>7. CASE Closes /\ UNCHANGED login
  <2>1. \A a \in Attempts : row'[a] = "submitting" => row[a] = "submitting"
    BY <1>7 DEF Closes
  <2>2. \A f \in Frames : AttemptOf[f] \in Attempts
    BY <1>0
  <2> QED
    BY <1>0, <1>7, <2>1, <2>2 DEF Closes
<1>8. CASE ClosesAll
  BY <1>0, <1>8 DEF ClosesAll, Closes
<1>9. ASSUME NEW f \in Frames, Passes(f) PROVE Bearers'
  BY <1>0, <1>9 DEF Passes, Carries
<1>10. ASSUME NEW f \in Frames, Equips(f) PROVE Bearers'
  <2>1. bearer'[f][2] = login
    BY <1>10 DEF Equips
  <2>2. frame[f] = "rejected" => sent[AttemptOf[f]] # <<>>
    BY <1>0
  <2>3. /\ frame'[f] \in {"ready", "resending"}
        /\ frame'[f] = "resending" => frame[f] = "rejected"
        /\ \A g \in Frames \ {f} : frame'[g] = frame[g] /\ bearer'[g] = bearer[g]
    BY <1>0, <1>10 DEF Equips, Carries
  <2>4. UNCHANGED <<row, dispatched, shown, login, sent>>
    BY <1>10 DEF Equips, Carries
  <2>5. \A g \in Frames :
          frame'[g] = "ready" /\ row'[AttemptOf[g]] = "submitting"
            /\ ~dispatched'[AttemptOf[g]] => bearer'[g][2] = login'
    BY <2>1, <2>3, <2>4
  <2>6. \A g \in Frames :
          frame'[g] = "claimed" /\ sent'[AttemptOf[g]] = <<>> =>
            bearer'[g][2] = shown'[AttemptOf[g]]
    BY <2>3, <2>4
  <2>7. \A g \in Frames :
          frame'[g] \in {"rejected", "resending"} => sent'[AttemptOf[g]] # <<>>
    BY <2>2, <2>3, <2>4
  <2> QED
    BY <2>4, <2>5, <2>6, <2>7
<1>11. ASSUME NEW f \in Frames, Departs(f) PROVE Bearers'
  BY <1>0, <1>11 DEF Departs, Carries
<1>12. ASSUME NEW f \in Frames, Drops(f) PROVE Bearers'
  BY <1>0, <1>12 DEF Drops, Ends, Carries
<1>13. ASSUME NEW f \in Frames, NEW ans \in Answers, Refused(f, ans) PROVE Bearers'
  BY <1>0, <1>13 DEF Refused, Sent, Ends, Carries
<1>14. ASSUME NEW f \in Frames, NEW s \in Booked, NEW ans \in Answers, Took(f, s,
   ans) PROVE Bearers'
  BY <1>0, <1>14 DEF Took, Sent, Ends, Carries
<1>15. ASSUME NEW f \in Frames, TurnsDown(f) PROVE Bearers'
  BY <1>0, <1>15 DEF TurnsDown, Sent, Carries
<1>16. ASSUME NEW a \in Attempts, Fills(a) PROVE Bearers'
  BY <1>0, <1>16 DEF Fills
<1>17. CASE Lists
  BY <1>0, <1>17 DEF Lists
<1>18. CASE ReadsClaims
  BY <1>0, <1>18 DEF ReadsClaims
<1>19. CASE ReadsRivals
  BY <1>0, <1>19 DEF ReadsRivals
<1>20. CASE Parts
  BY <1>0, <1>20 DEF Parts
<1>21. ASSUME NEW a \in Attempts, Keeps(a) PROVE Bearers'
  BY <1>0, <1>21 DEF Keeps, Records
<1>22. ASSUME NEW a \in Attempts, NEW o \in Attempts, Adopts(a, o) PROVE Bearers'
  BY <1>0, <1>22 DEF Adopts, Records
<1>23. ASSUME NEW a \in Attempts, Misses(a) PROVE Bearers'
  BY <1>0, <1>23 DEF Misses, Records
<1>24. CASE Quiet
  BY <1>0, <1>24 DEF Quiet
<1> QED
  BY <1>1, <1>2, <1>3, <1>4, <1>5, <1>6, <1>7, <1>8, <1>9, <1>10, <1>11, <1>12,
     <1>13, <1>14, <1>15, <1>16, <1>17, <1>18, <1>19, <1>20, <1>21, <1>22, <1>23,
     <1>24 DEF Effects

\* A frame leaves by the one claim its row has.
LEMMA FlightStep ==
  ASSUME AllTyped, Flight, Placed, Effects
  PROVE  Flight'
<1> USE FramesAssumption DEF Flight, Placed, RowsTyped, RelayTyped, BookTyped,
   RecTyped, InFlight, RowsKept, CallsKept, FramesKept, BookKept, PassKept
<1>0. RowsTyped /\ RelayTyped /\ BookTyped /\ RecTyped
  BY DEF AllTyped
<1>1. ASSUME NEW a \in Attempts, Inserts(a) PROVE Flight'
  BY <1>0, <1>1 DEF Inserts
<1>2. ASSUME NEW a \in Attempts, Judges(a) PROVE Flight'
  BY <1>0, <1>2 DEF Judges
<1>3. ASSUME NEW a \in Attempts, Spends(a) PROVE Flight'
  BY <1>0, <1>3 DEF Spends
<1>4. ASSUME NEW a \in Attempts, Hears(a) PROVE Flight'
  BY <1>0, <1>4 DEF Hears
<1>5. ASSUME NEW a \in Attempts, Settles(a) PROVE Flight'
  BY <1>0, <1>5 DEF Settles
<1>6. CASE Leaves
  BY <1>0, <1>6 DEF Leaves
<1>7. CASE Closes /\ UNCHANGED login
  BY <1>0, <1>7 DEF Closes
<1>8. CASE ClosesAll
  BY <1>0, <1>8 DEF ClosesAll, Closes
<1>9. ASSUME NEW f \in Frames, Passes(f) PROVE Flight'
  BY <1>0, <1>9 DEF Passes, Carries
<1>10. ASSUME NEW f \in Frames, Equips(f) PROVE Flight'
  <2>1. /\ \A g \in Frames : frame'[g] \in InFlight <=> frame[g] \in InFlight
        /\ UNCHANGED <<dispatched, placed>>
    BY <1>0, <1>10 DEF Equips, Carries
  <2> QED
    BY <2>1
<1>11. ASSUME NEW f \in Frames, Departs(f) PROVE Flight'
  <2> DEFINE a == AttemptOf[f]
  <2>1. a \in Attempts /\ ~dispatched[a] /\ placed[a] = 0
    BY <1>0, <1>11 DEF Departs
  <2>2. \A g \in Frames : AttemptOf[g] = a => frame[g] \notin InFlight
    BY <2>1
  <2>3. /\ dispatched'[a] /\ \A b \in Attempts : dispatched[b] => dispatched'[b]
        /\ frame'[f] = "claimed" /\ \A g \in Frames \ {f} : frame'[g] = frame[g]
        /\ placed' = placed
    BY <1>0, <2>1, <1>11 DEF Departs, Carries
  <2> QED
    BY <1>0, <2>1, <2>2, <2>3
<1>12. ASSUME NEW f \in Frames, Drops(f) PROVE Flight'
  BY <1>0, <1>12 DEF Drops, Ends, Carries
<1>13. ASSUME NEW f \in Frames, NEW ans \in Answers, Refused(f, ans) PROVE Flight'
  BY <1>0, <1>13 DEF Refused, Sent, Ends, Carries
<1>14. ASSUME NEW f \in Frames, NEW s \in Booked, NEW ans \in Answers, Took(f, s,
   ans) PROVE Flight'
  BY <1>0, <1>14 DEF Took, Sent, Ends, Carries
<1>15. ASSUME NEW f \in Frames, TurnsDown(f) PROVE Flight'
  <2>1. /\ \A g \in Frames : frame'[g] \in InFlight <=> frame[g] \in InFlight
        /\ UNCHANGED <<dispatched, placed>>
    BY <1>0, <1>15 DEF TurnsDown, Carries
  <2> QED
    BY <2>1
<1>16. ASSUME NEW a \in Attempts, Fills(a) PROVE Flight'
  BY <1>0, <1>16 DEF Fills
<1>17. CASE Lists
  BY <1>0, <1>17 DEF Lists
<1>18. CASE ReadsClaims
  BY <1>0, <1>18 DEF ReadsClaims
<1>19. CASE ReadsRivals
  BY <1>0, <1>19 DEF ReadsRivals
<1>20. CASE Parts
  BY <1>0, <1>20 DEF Parts
<1>21. ASSUME NEW a \in Attempts, Keeps(a) PROVE Flight'
  BY <1>0, <1>21 DEF Keeps, Records
<1>22. ASSUME NEW a \in Attempts, NEW o \in Attempts, Adopts(a, o) PROVE Flight'
  BY <1>0, <1>22 DEF Adopts, Records
<1>23. ASSUME NEW a \in Attempts, Misses(a) PROVE Flight'
  BY <1>0, <1>23 DEF Misses, Records
<1>24. CASE Quiet
  BY <1>0, <1>24 DEF Quiet
<1> QED
  BY <1>1, <1>2, <1>3, <1>4, <1>5, <1>6, <1>7, <1>8, <1>9, <1>10, <1>11, <1>12,
     <1>13, <1>14, <1>15, <1>16, <1>17, <1>18, <1>19, <1>20, <1>21, <1>22, <1>23,
     <1>24 DEF Effects

\* Only a frame in flight places an order, and it is over with it.
LEMMA PlacedStep ==
  ASSUME AllTyped, Placed, Flight, Effects
  PROVE  Placed'
<1> USE FramesAssumption DEF Placed, Flight, RowsTyped, RelayTyped, BookTyped,
   RecTyped, InFlight, Booked, RowsKept, CallsKept, FramesKept, BookKept, PassKept
<1>0. RowsTyped /\ RelayTyped /\ BookTyped /\ RecTyped
  BY DEF AllTyped
<1>1. ASSUME NEW a \in Attempts, Inserts(a) PROVE Placed'
  BY <1>0, <1>1 DEF Inserts
<1>2. ASSUME NEW a \in Attempts, Judges(a) PROVE Placed'
  BY <1>0, <1>2 DEF Judges
<1>3. ASSUME NEW a \in Attempts, Spends(a) PROVE Placed'
  BY <1>0, <1>3 DEF Spends
<1>4. ASSUME NEW a \in Attempts, Hears(a) PROVE Placed'
  BY <1>0, <1>4 DEF Hears
<1>5. ASSUME NEW a \in Attempts, Settles(a) PROVE Placed'
  BY <1>0, <1>5 DEF Settles
<1>6. CASE Leaves
  BY <1>0, <1>6 DEF Leaves
<1>7. CASE Closes /\ UNCHANGED login
  BY <1>0, <1>7 DEF Closes
<1>8. CASE ClosesAll
  BY <1>0, <1>8 DEF ClosesAll, Closes
<1>9. ASSUME NEW f \in Frames, Passes(f) PROVE Placed'
  BY <1>0, <1>9 DEF Passes, Carries
<1>10. ASSUME NEW f \in Frames, Equips(f) PROVE Placed'
  BY <1>0, <1>10 DEF Equips, Carries
<1>11. ASSUME NEW f \in Frames, Departs(f) PROVE Placed'
  BY <1>0, <1>11 DEF Departs, Carries
<1>12. ASSUME NEW f \in Frames, Drops(f) PROVE Placed'
  BY <1>0, <1>12 DEF Drops, Ends, Carries
<1>13. ASSUME NEW f \in Frames, NEW ans \in Answers, Refused(f, ans) PROVE Placed'
  BY <1>0, <1>13 DEF Refused, Sent, Ends, Carries
<1>14. ASSUME NEW f \in Frames, NEW s \in Booked, NEW ans \in Answers, Took(f, s,
   ans) PROVE Placed'
  BY <1>0, <1>14 DEF Took, Sent, Ends, Carries
<1>15. ASSUME NEW f \in Frames, TurnsDown(f) PROVE Placed'
  BY <1>0, <1>15 DEF TurnsDown, Sent, Carries
<1>16. ASSUME NEW a \in Attempts, Fills(a) PROVE Placed'
  BY <1>0, <1>16 DEF Fills
<1>17. CASE Lists
  BY <1>0, <1>17 DEF Lists
<1>18. CASE ReadsClaims
  BY <1>0, <1>18 DEF ReadsClaims
<1>19. CASE ReadsRivals
  BY <1>0, <1>19 DEF ReadsRivals
<1>20. CASE Parts
  BY <1>0, <1>20 DEF Parts
<1>21. ASSUME NEW a \in Attempts, Keeps(a) PROVE Placed'
  BY <1>0, <1>21 DEF Keeps, Records
<1>22. ASSUME NEW a \in Attempts, NEW o \in Attempts, Adopts(a, o) PROVE Placed'
  BY <1>0, <1>22 DEF Adopts, Records
<1>23. ASSUME NEW a \in Attempts, Misses(a) PROVE Placed'
  BY <1>0, <1>23 DEF Misses, Records
<1>24. CASE Quiet
  BY <1>0, <1>24 DEF Quiet
<1> QED
  BY <1>1, <1>2, <1>3, <1>4, <1>5, <1>6, <1>7, <1>8, <1>9, <1>10, <1>11, <1>12,
     <1>13, <1>14, <1>15, <1>16, <1>17, <1>18, <1>19, <1>20, <1>21, <1>22, <1>23,
     <1>24 DEF Effects

\* An order id is written with the status that names it.
LEMMA HeldStep ==
  ASSUME AllTyped, Held, Outcomes, Effects
  PROVE  Held'
<1> USE FramesAssumption DEF Held, Outcomes, RowsTyped, CallTyped, RecTyped, Booked,
   Open, Waiting, RowsKept, CallsKept, FramesKept, BookKept, PassKept
<1>0. RowsTyped /\ CallTyped /\ RecTyped
  BY DEF AllTyped
<1>1. ASSUME NEW a \in Attempts, Inserts(a) PROVE Held'
  BY <1>0, <1>1 DEF Inserts
<1>2. ASSUME NEW a \in Attempts, Judges(a) PROVE Held'
  BY <1>0, <1>2 DEF Judges
<1>3. ASSUME NEW a \in Attempts, Spends(a) PROVE Held'
  BY <1>0, <1>3 DEF Spends
<1>4. ASSUME NEW a \in Attempts, Hears(a) PROVE Held'
  BY <1>0, <1>4 DEF Hears
<1>5. ASSUME NEW a \in Attempts, Settles(a) PROVE Held'
  BY <1>0, <1>5 DEF Settles
<1>6. CASE Leaves
  BY <1>0, <1>6 DEF Leaves
<1>7. CASE Closes /\ UNCHANGED login
  BY <1>0, <1>7 DEF Closes
<1>8. CASE ClosesAll
  BY <1>0, <1>8 DEF ClosesAll, Closes
<1>9. ASSUME NEW f \in Frames, Passes(f) PROVE Held'
  BY <1>0, <1>9 DEF Passes, Carries
<1>10. ASSUME NEW f \in Frames, Equips(f) PROVE Held'
  BY <1>0, <1>10 DEF Equips, Carries
<1>11. ASSUME NEW f \in Frames, Departs(f) PROVE Held'
  BY <1>0, <1>11 DEF Departs, Carries
<1>12. ASSUME NEW f \in Frames, Drops(f) PROVE Held'
  BY <1>0, <1>12 DEF Drops, Ends, Carries
<1>13. ASSUME NEW f \in Frames, NEW ans \in Answers, Refused(f, ans) PROVE Held'
  BY <1>0, <1>13 DEF Refused, Sent, Ends, Carries
<1>14. ASSUME NEW f \in Frames, NEW s \in Booked, NEW ans \in Answers, Took(f, s,
   ans) PROVE Held'
  BY <1>0, <1>14 DEF Took, Sent, Ends, Carries
<1>15. ASSUME NEW f \in Frames, TurnsDown(f) PROVE Held'
  BY <1>0, <1>15 DEF TurnsDown, Sent, Carries
<1>16. ASSUME NEW a \in Attempts, Fills(a) PROVE Held'
  BY <1>0, <1>16 DEF Fills
<1>17. CASE Lists
  BY <1>0, <1>17 DEF Lists
<1>18. CASE ReadsClaims
  BY <1>0, <1>18 DEF ReadsClaims
<1>19. CASE ReadsRivals
  BY <1>0, <1>19 DEF ReadsRivals
<1>20. CASE Parts
  BY <1>0, <1>20 DEF Parts
<1>21. ASSUME NEW a \in Attempts, Keeps(a) PROVE Held'
  BY <1>0, <1>21 DEF Keeps, Records
<1>22. ASSUME NEW a \in Attempts, NEW o \in Attempts, Adopts(a, o) PROVE Held'
  BY <1>0, <1>22 DEF Adopts, Records
<1>23. ASSUME NEW a \in Attempts, Misses(a) PROVE Held'
  BY <1>0, <1>23 DEF Misses, Records, Unanswerable
<1>24. CASE Quiet
  BY <1>0, <1>24 DEF Quiet
<1> QED
  BY <1>1, <1>2, <1>3, <1>4, <1>5, <1>6, <1>7, <1>8, <1>9, <1>10, <1>11, <1>12,
     <1>13, <1>14, <1>15, <1>16, <1>17, <1>18, <1>19, <1>20, <1>21, <1>22, <1>23,
     <1>24 DEF Effects

\* What a tool step is about to record stays true of its row, or the row
\* slipped.
LEMMA OutcomesStep ==
  ASSUME AllTyped, Outcomes, Flight, Placed, Effects
  PROVE  Outcomes'
<1> USE FramesAssumption DEF Outcomes, Flight, Placed, RowsTyped, CallTyped,
   RelayTyped, BookTyped, RecTyped, Declined, GraceOver, Copies, InFlight, Booked,
   Answers, Outcome, RowsKept, CallsKept, FramesKept, BookKept, PassKept
<1>0. RowsTyped /\ CallTyped /\ RelayTyped /\ BookTyped /\ RecTyped
  BY DEF AllTyped
<1>1. ASSUME NEW a \in Attempts, Inserts(a) PROVE Outcomes'
  BY <1>0, <1>1 DEF Inserts
<1>2. ASSUME NEW a \in Attempts, Judges(a) PROVE Outcomes'
  BY <1>0, <1>2 DEF Judges
<1>3. ASSUME NEW a \in Attempts, Spends(a) PROVE Outcomes'
  BY <1>0, <1>3 DEF Spends
<1>4. ASSUME NEW a \in Attempts, Hears(a) PROVE Outcomes'
  BY <1>0, <1>4 DEF Hears
<1>5. ASSUME NEW a \in Attempts, Settles(a) PROVE Outcomes'
  BY <1>0, <1>5 DEF Settles
<1>6. CASE Leaves
  BY <1>0, <1>6 DEF Leaves
<1>7. CASE Closes /\ UNCHANGED login
  BY <1>0, <1>7 DEF Closes
<1>8. CASE ClosesAll
  BY <1>0, <1>8 DEF ClosesAll, Closes
<1>9. ASSUME NEW f \in Frames, Passes(f) PROVE Outcomes'
  BY <1>0, <1>9 DEF Passes, Carries
<1>10. ASSUME NEW f \in Frames, Equips(f) PROVE Outcomes'
  BY <1>0, <1>10 DEF Equips, Carries
<1>11. ASSUME NEW f \in Frames, Departs(f) PROVE Outcomes'
  BY <1>0, <1>11 DEF Departs, Carries
<1>12. ASSUME NEW f \in Frames, Drops(f) PROVE Outcomes'
  BY <1>0, <1>12 DEF Drops, Ends, Carries
<1>13. ASSUME NEW f \in Frames, NEW ans \in Answers, Refused(f, ans) PROVE Outcomes'
  BY <1>0, <1>13 DEF Refused, Sent, Ends, Carries
<1>14. ASSUME NEW f \in Frames, NEW s \in Booked, NEW ans \in Answers, Took(f, s,
   ans) PROVE Outcomes'
  BY <1>0, <1>14 DEF Took, Sent, Ends, Carries
<1>15. ASSUME NEW f \in Frames, TurnsDown(f) PROVE Outcomes'
  BY <1>0, <1>15 DEF TurnsDown, Sent, Carries
<1>16. ASSUME NEW a \in Attempts, Fills(a) PROVE Outcomes'
  BY <1>0, <1>16 DEF Fills
<1>17. CASE Lists
  BY <1>0, <1>17 DEF Lists
<1>18. CASE ReadsClaims
  BY <1>0, <1>18 DEF ReadsClaims
<1>19. CASE ReadsRivals
  BY <1>0, <1>19 DEF ReadsRivals
<1>20. CASE Parts
  BY <1>0, <1>20 DEF Parts
<1>21. ASSUME NEW a \in Attempts, Keeps(a) PROVE Outcomes'
  BY <1>0, <1>21 DEF Keeps, Records
<1>22. ASSUME NEW a \in Attempts, NEW o \in Attempts, Adopts(a, o) PROVE Outcomes'
  BY <1>0, <1>22 DEF Adopts, Records
<1>23. ASSUME NEW a \in Attempts, Misses(a) PROVE Outcomes'
  BY <1>0, <1>23 DEF Misses, Records
<1>24. CASE Quiet
  BY <1>0, <1>24 DEF Quiet
<1> QED
  BY <1>1, <1>2, <1>3, <1>4, <1>5, <1>6, <1>7, <1>8, <1>9, <1>10, <1>11, <1>12,
     <1>13, <1>14, <1>15, <1>16, <1>17, <1>18, <1>19, <1>20, <1>21, <1>22, <1>23,
     <1>24 DEF Effects

\* A row the pass holds moves forward only, and its frame is over.
LEMMA PassStep ==
  ASSUME AllTyped, Pass, Signing, Held, Flight, Effects
  PROVE  Pass'
<1> USE FramesAssumption DEF Pass, Signing, Held, Flight, RowsTyped, RelayTyped,
   RecTyped, GraceOver, Copies, InFlight, Unanswerable, Booked, Open, Waiting,
   RowsKept, CallsKept, FramesKept, BookKept, PassKept
<1>0. RowsTyped /\ RelayTyped /\ RecTyped
  BY DEF AllTyped
<1>1. ASSUME NEW a \in Attempts, Inserts(a) PROVE Pass'
  BY <1>0, <1>1 DEF Inserts
<1>2. ASSUME NEW a \in Attempts, Judges(a) PROVE Pass'
  BY <1>0, <1>2 DEF Judges
<1>3. ASSUME NEW a \in Attempts, Spends(a) PROVE Pass'
  BY <1>0, <1>3 DEF Spends
<1>4. ASSUME NEW a \in Attempts, Hears(a) PROVE Pass'
  BY <1>0, <1>4 DEF Hears
<1>5. ASSUME NEW a \in Attempts, Settles(a) PROVE Pass'
  BY <1>0, <1>5 DEF Settles
<1>6. CASE Leaves
  BY <1>0, <1>6 DEF Leaves
<1>7. CASE Closes /\ UNCHANGED login
  BY <1>0, <1>7 DEF Closes
<1>8. CASE ClosesAll
  BY <1>0, <1>8 DEF ClosesAll, Closes
<1>9. ASSUME NEW f \in Frames, Passes(f) PROVE Pass'
  BY <1>0, <1>9 DEF Passes, Carries
<1>10. ASSUME NEW f \in Frames, Equips(f) PROVE Pass'
  BY <1>0, <1>10 DEF Equips, Carries
<1>11. ASSUME NEW f \in Frames, Departs(f) PROVE Pass'
  BY <1>0, <1>11 DEF Departs, Carries
<1>12. ASSUME NEW f \in Frames, Drops(f) PROVE Pass'
  BY <1>0, <1>12 DEF Drops, Ends, Carries
<1>13. ASSUME NEW f \in Frames, NEW ans \in Answers, Refused(f, ans) PROVE Pass'
  BY <1>0, <1>13 DEF Refused, Sent, Ends, Carries
<1>14. ASSUME NEW f \in Frames, NEW s \in Booked, NEW ans \in Answers, Took(f, s,
   ans) PROVE Pass'
  BY <1>0, <1>14 DEF Took, Sent, Ends, Carries
<1>15. ASSUME NEW f \in Frames, TurnsDown(f) PROVE Pass'
  BY <1>0, <1>15 DEF TurnsDown, Sent, Carries
<1>16. ASSUME NEW a \in Attempts, Fills(a) PROVE Pass'
  BY <1>0, <1>16 DEF Fills
<1>17. CASE Lists
  BY <1>0, <1>17 DEF Lists
<1>18. CASE ReadsClaims
  BY <1>0, <1>18 DEF ReadsClaims
<1>19. CASE ReadsRivals
  BY <1>0, <1>19 DEF ReadsRivals
<1>20. CASE Parts
  BY <1>0, <1>20 DEF Parts
<1>21. ASSUME NEW a \in Attempts, Keeps(a) PROVE Pass'
  BY <1>0, <1>21 DEF Keeps, Records
<1>22. ASSUME NEW a \in Attempts, NEW o \in Attempts, Adopts(a, o) PROVE Pass'
  BY <1>0, <1>22 DEF Adopts, Records
<1>23. ASSUME NEW a \in Attempts, Misses(a) PROVE Pass'
  BY <1>0, <1>23 DEF Misses, Records
<1>24. CASE Quiet
  BY <1>0, <1>24 DEF Quiet
<1> QED
  BY <1>1, <1>2, <1>3, <1>4, <1>5, <1>6, <1>7, <1>8, <1>9, <1>10, <1>11, <1>12,
     <1>13, <1>14, <1>15, <1>16, <1>17, <1>18, <1>19, <1>20, <1>21, <1>22, <1>23,
     <1>24 DEF Effects

\* What the pass was shown was placed, and a complete listing has it all.
LEMMA ShownStep ==
  ASSUME AllTyped, Shown, Pass, Placed, Flight, Effects
  PROVE  Shown'
<1> USE FramesAssumption DEF Shown, Pass, Placed, Flight, RowsTyped, RelayTyped,
   BookTyped, RecTyped, GraceOver, Copies, InFlight, Unanswerable, Booked, RowsKept,
   CallsKept, FramesKept, BookKept, PassKept
<1>0. RowsTyped /\ RelayTyped /\ BookTyped /\ RecTyped
  BY DEF AllTyped
<1>1. ASSUME NEW a \in Attempts, Inserts(a) PROVE Shown'
  BY <1>0, <1>1 DEF Inserts
<1>2. ASSUME NEW a \in Attempts, Judges(a) PROVE Shown'
  BY <1>0, <1>2 DEF Judges
<1>3. ASSUME NEW a \in Attempts, Spends(a) PROVE Shown'
  BY <1>0, <1>3 DEF Spends
<1>4. ASSUME NEW a \in Attempts, Hears(a) PROVE Shown'
  BY <1>0, <1>4 DEF Hears
<1>5. ASSUME NEW a \in Attempts, Settles(a) PROVE Shown'
  BY <1>0, <1>5 DEF Settles
<1>6. CASE Leaves
  BY <1>0, <1>6 DEF Leaves
<1>7. CASE Closes /\ UNCHANGED login
  BY <1>0, <1>7 DEF Closes
<1>8. CASE ClosesAll
  BY <1>0, <1>8 DEF ClosesAll, Closes
<1>9. ASSUME NEW f \in Frames, Passes(f) PROVE Shown'
  BY <1>0, <1>9 DEF Passes, Carries
<1>10. ASSUME NEW f \in Frames, Equips(f) PROVE Shown'
  BY <1>0, <1>10 DEF Equips, Carries
<1>11. ASSUME NEW f \in Frames, Departs(f) PROVE Shown'
  BY <1>0, <1>11 DEF Departs, Carries
<1>12. ASSUME NEW f \in Frames, Drops(f) PROVE Shown'
  BY <1>0, <1>12 DEF Drops, Ends, Carries
<1>13. ASSUME NEW f \in Frames, NEW ans \in Answers, Refused(f, ans) PROVE Shown'
  BY <1>0, <1>13 DEF Refused, Sent, Ends, Carries
<1>14. ASSUME NEW f \in Frames, NEW s \in Booked, NEW ans \in Answers, Took(f, s,
   ans) PROVE Shown'
  BY <1>0, <1>14 DEF Took, Sent, Ends, Carries
<1>15. ASSUME NEW f \in Frames, TurnsDown(f) PROVE Shown'
  BY <1>0, <1>15 DEF TurnsDown, Sent, Carries
<1>16. ASSUME NEW a \in Attempts, Fills(a) PROVE Shown'
  BY <1>0, <1>16 DEF Fills
<1>17. CASE Lists
  BY <1>0, <1>17 DEF Lists
<1>18. CASE ReadsClaims
  BY <1>0, <1>18 DEF ReadsClaims
<1>19. CASE ReadsRivals
  BY <1>0, <1>19 DEF ReadsRivals
<1>20. CASE Parts
  BY <1>0, <1>20 DEF Parts
<1>21. ASSUME NEW a \in Attempts, Keeps(a) PROVE Shown'
  BY <1>0, <1>21 DEF Keeps, Records
<1>22. ASSUME NEW a \in Attempts, NEW o \in Attempts, Adopts(a, o) PROVE Shown'
  BY <1>0, <1>22 DEF Adopts, Records
<1>23. ASSUME NEW a \in Attempts, Misses(a) PROVE Shown'
  BY <1>0, <1>23 DEF Misses, Records
<1>24. CASE Quiet
  BY <1>0, <1>24 DEF Quiet
<1> QED
  BY <1>1, <1>2, <1>3, <1>4, <1>5, <1>6, <1>7, <1>8, <1>9, <1>10, <1>11, <1>12,
     <1>13, <1>14, <1>15, <1>16, <1>17, <1>18, <1>19, <1>20, <1>21, <1>22, <1>23,
     <1>24 DEF Effects

\* The first sending is under the card's login.
LEMMA FirstSendUnderLoginStep ==
  ASSUME AllTyped, FirstSendUnderLogin, Bearers, Flight, Signing, Effects
  PROVE  FirstSendUnderLogin'
<1> USE FramesAssumption DEF FirstSendUnderLogin, Bearers, Flight, Signing,
   RowsTyped, RelayTyped, RunTyped, RecTyped, InFlight, RowsKept, CallsKept,
   FramesKept, BookKept, PassKept
<1>0. RowsTyped /\ RelayTyped /\ RunTyped /\ RecTyped
  BY DEF AllTyped
<1>1. ASSUME NEW a \in Attempts, Inserts(a) PROVE FirstSendUnderLogin'
  BY <1>0, <1>1 DEF Inserts
<1>2. ASSUME NEW a \in Attempts, Judges(a) PROVE FirstSendUnderLogin'
  BY <1>0, <1>2 DEF Judges
<1>3. ASSUME NEW a \in Attempts, Spends(a) PROVE FirstSendUnderLogin'
  BY <1>0, <1>3 DEF Spends
<1>4. ASSUME NEW a \in Attempts, Hears(a) PROVE FirstSendUnderLogin'
  BY <1>0, <1>4 DEF Hears
<1>5. ASSUME NEW a \in Attempts, Settles(a) PROVE FirstSendUnderLogin'
  BY <1>0, <1>5 DEF Settles
<1>6. CASE Leaves
  BY <1>0, <1>6 DEF Leaves
<1>7. CASE Closes /\ UNCHANGED login
  BY <1>0, <1>7 DEF Closes
<1>8. CASE ClosesAll
  BY <1>0, <1>8 DEF ClosesAll, Closes
<1>9. ASSUME NEW f \in Frames, Passes(f) PROVE FirstSendUnderLogin'
  BY <1>0, <1>9 DEF Passes, Carries
<1>10. ASSUME NEW f \in Frames, Equips(f) PROVE FirstSendUnderLogin'
  BY <1>0, <1>10 DEF Equips, Carries
<1>11. ASSUME NEW f \in Frames, Departs(f) PROVE FirstSendUnderLogin'
  BY <1>0, <1>11 DEF Departs, Carries
<1>12. ASSUME NEW f \in Frames, Drops(f) PROVE FirstSendUnderLogin'
  BY <1>0, <1>12 DEF Drops, Ends, Carries
<1>13. ASSUME NEW f \in Frames, NEW ans \in Answers, Refused(f, ans) PROVE
   FirstSendUnderLogin'
  <2> DEFINE a == AttemptOf[f]
  <2>1. a \in Attempts
    BY <1>0
  <2>2. sent[a] = <<>> => frame[f] = "claimed" /\ bearer[f][2] = shown[a]
    BY <1>0, <2>1, <1>13 DEF Refused
  <2>3. sent[a] # <<>> => Head(sent[a]) = shown[a]
    BY <2>1
  <2>4. /\ Head(sent'[a]) = IF sent[a] = <<>> THEN bearer[f][2] ELSE Head(sent[a])
        /\ \A b \in Attempts \ {a} : sent'[b] = sent[b]
        /\ shown' = shown
    BY <1>13 DEF Refused, Sent, Ends
  <2>5. Head(sent'[a]) = shown'[a]
    BY <2>2, <2>3, <2>4
  <2> QED
    BY <2>1, <2>4, <2>5
<1>14. ASSUME NEW f \in Frames, NEW s \in Booked, NEW ans \in Answers, Took(f, s,
   ans) PROVE FirstSendUnderLogin'
  <2> DEFINE a == AttemptOf[f]
  <2>1. a \in Attempts
    BY <1>0
  <2>2. sent[a] = <<>> => frame[f] = "claimed" /\ bearer[f][2] = shown[a]
    BY <1>0, <2>1, <1>14 DEF Took
  <2>3. sent[a] # <<>> => Head(sent[a]) = shown[a]
    BY <2>1
  <2>4. /\ Head(sent'[a]) = IF sent[a] = <<>> THEN bearer[f][2] ELSE Head(sent[a])
        /\ \A b \in Attempts \ {a} : sent'[b] = sent[b]
        /\ shown' = shown
    BY <1>14 DEF Took, Sent, Ends
  <2>5. Head(sent'[a]) = shown'[a]
    BY <2>2, <2>3, <2>4
  <2> QED
    BY <2>1, <2>4, <2>5
<1>15. ASSUME NEW f \in Frames, TurnsDown(f) PROVE FirstSendUnderLogin'
  <2> DEFINE a == AttemptOf[f]
  <2>1. a \in Attempts
    BY <1>0
  <2>2. sent[a] = <<>> => frame[f] = "claimed" /\ bearer[f][2] = shown[a]
    BY <1>0, <2>1, <1>15 DEF TurnsDown
  <2>3. sent[a] # <<>> => Head(sent[a]) = shown[a]
    BY <2>1
  <2>4. /\ Head(sent'[a]) = IF sent[a] = <<>> THEN bearer[f][2] ELSE Head(sent[a])
        /\ \A b \in Attempts \ {a} : sent'[b] = sent[b]
        /\ shown' = shown
    BY <1>15 DEF TurnsDown, Sent
  <2>5. Head(sent'[a]) = shown'[a]
    BY <2>2, <2>3, <2>4
  <2> QED
    BY <2>1, <2>4, <2>5
<1>16. ASSUME NEW a \in Attempts, Fills(a) PROVE FirstSendUnderLogin'
  BY <1>0, <1>16 DEF Fills
<1>17. CASE Lists
  BY <1>0, <1>17 DEF Lists
<1>18. CASE ReadsClaims
  BY <1>0, <1>18 DEF ReadsClaims
<1>19. CASE ReadsRivals
  BY <1>0, <1>19 DEF ReadsRivals
<1>20. CASE Parts
  BY <1>0, <1>20 DEF Parts
<1>21. ASSUME NEW a \in Attempts, Keeps(a) PROVE FirstSendUnderLogin'
  BY <1>0, <1>21 DEF Keeps, Records
<1>22. ASSUME NEW a \in Attempts, NEW o \in Attempts, Adopts(a, o) PROVE
   FirstSendUnderLogin'
  BY <1>0, <1>22 DEF Adopts, Records
<1>23. ASSUME NEW a \in Attempts, Misses(a) PROVE FirstSendUnderLogin'
  BY <1>0, <1>23 DEF Misses, Records
<1>24. CASE Quiet
  BY <1>0, <1>24 DEF Quiet
<1> QED
  BY <1>1, <1>2, <1>3, <1>4, <1>5, <1>6, <1>7, <1>8, <1>9, <1>10, <1>11, <1>12,
     <1>13, <1>14, <1>15, <1>16, <1>17, <1>18, <1>19, <1>20, <1>21, <1>22, <1>23,
     <1>24 DEF Effects

\* Rows die before their frame is claimed, on the vendor's no, or when a
\* complete listing has no order that could be theirs.
LEMMA DeadMeansNoOrderStep ==
  ASSUME AllTyped, DeadMeansNoOrder, Flight, Placed, Outcomes, Pass, Shown,
     Siblings, Held, Signing, Effects
  PROVE  DeadMeansNoOrder'
<1> USE FramesAssumption DEF DeadMeansNoOrder, Flight, Placed, Outcomes, Pass,
   Shown, Siblings, Held, Signing, RowsTyped, CallTyped, RelayTyped, BookTyped,
   RecTyped, Dead, GraceOver, Copies, InFlight, Declined, Unanswerable, Booked,
   Waiting, Unread, Found, Candidates, Open, RowsKept, CallsKept, FramesKept,
   BookKept, PassKept
<1>0. RowsTyped /\ CallTyped /\ RelayTyped /\ BookTyped /\ RecTyped
  BY DEF AllTyped
<1>1. ASSUME NEW a \in Attempts, Inserts(a) PROVE DeadMeansNoOrder'
  BY <1>0, <1>1 DEF Inserts
<1>2. ASSUME NEW a \in Attempts, Judges(a) PROVE DeadMeansNoOrder'
  <2>1. \A b \in Attempts : ~dispatched[b] =>
          /\ placed[b] = 0
          /\ \A f \in Frames : AttemptOf[f] = b => frame[f] \notin InFlight
    BY <1>0
  <2>2. ~dispatched[a]
    BY <1>0, <1>2 DEF Judges
  <2>3. /\ \A b \in Attempts \ {a} : row'[b] = row[b]
        /\ UNCHANGED <<placed, frame, slipped>>
    BY <1>0, <1>2 DEF Judges
  <2> QED
    BY <2>1, <2>2, <2>3
<1>3. ASSUME NEW a \in Attempts, Spends(a) PROVE DeadMeansNoOrder'
  <2>1. \A b \in Attempts : ~dispatched[b] =>
          /\ placed[b] = 0
          /\ \A f \in Frames : AttemptOf[f] = b => frame[f] \notin InFlight
    BY <1>0
  <2>2. ~dispatched[a]
    BY <1>0, <1>3 DEF Spends
  <2>3. /\ \A b \in Attempts \ {a} : row'[b] = row[b]
        /\ UNCHANGED <<placed, frame, slipped>>
    BY <1>0, <1>3 DEF Spends
  <2> QED
    BY <2>1, <2>2, <2>3
<1>4. ASSUME NEW a \in Attempts, Hears(a) PROVE DeadMeansNoOrder'
  BY <1>0, <1>4 DEF Hears
<1>5. ASSUME NEW a \in Attempts, Settles(a) PROVE DeadMeansNoOrder'
  BY <1>0, <1>5 DEF Settles
<1>6. CASE Leaves
  BY <1>0, <1>6 DEF Leaves
<1>7. CASE Closes /\ UNCHANGED login
  <2>1. \A b \in Attempts : ~dispatched[b] =>
          /\ placed[b] = 0
          /\ \A f \in Frames : AttemptOf[f] = b => frame[f] \notin InFlight
    BY <1>0
  <2>2. /\ \A b \in Attempts : row'[b] = row[b] \/ row[b] \in Waiting \/ ~dispatched[b]
        /\ UNCHANGED <<placed, frame, slipped>>
    BY <1>7 DEF Closes
  <2>3. \A b \in Attempts : row[b] \in Waiting => ~dispatched[b]
    BY <1>0
  <2> QED
    BY <2>1, <2>2, <2>3
<1>8. CASE ClosesAll
  <2>1. \A b \in Attempts : ~dispatched[b] =>
          /\ placed[b] = 0
          /\ \A f \in Frames : AttemptOf[f] = b => frame[f] \notin InFlight
    BY <1>0
  <2>2. /\ \A b \in Attempts : row'[b] = row[b] \/ row[b] \in Waiting \/ ~dispatched[b]
        /\ UNCHANGED <<placed, frame, slipped>>
    BY <1>8 DEF ClosesAll, Closes
  <2>3. \A b \in Attempts : row[b] \in Waiting => ~dispatched[b]
    BY <1>0
  <2> QED
    BY <2>1, <2>2, <2>3
<1>9. ASSUME NEW f \in Frames, Passes(f) PROVE DeadMeansNoOrder'
  BY <1>0, <1>9 DEF Passes, Carries
<1>10. ASSUME NEW f \in Frames, Equips(f) PROVE DeadMeansNoOrder'
  BY <1>0, <1>10 DEF Equips, Carries
<1>11. ASSUME NEW f \in Frames, Departs(f) PROVE DeadMeansNoOrder'
  BY <1>0, <1>11 DEF Departs, Carries
<1>12. ASSUME NEW f \in Frames, Drops(f) PROVE DeadMeansNoOrder'
  BY <1>0, <1>12 DEF Drops, Ends, Carries
<1>13. ASSUME NEW f \in Frames, NEW ans \in Answers, Refused(f, ans) PROVE
   DeadMeansNoOrder'
  BY <1>0, <1>13 DEF Refused, Sent, Ends, Carries
<1>14. ASSUME NEW f \in Frames, NEW s \in Booked, NEW ans \in Answers, Took(f, s,
   ans) PROVE DeadMeansNoOrder'
  BY <1>0, <1>14 DEF Took, Sent, Ends, Carries
<1>15. ASSUME NEW f \in Frames, TurnsDown(f) PROVE DeadMeansNoOrder'
  BY <1>0, <1>15 DEF TurnsDown, Sent, Carries
<1>16. ASSUME NEW a \in Attempts, Fills(a) PROVE DeadMeansNoOrder'
  BY <1>0, <1>16 DEF Fills
<1>17. CASE Lists
  BY <1>0, <1>17 DEF Lists
<1>18. CASE ReadsClaims
  BY <1>0, <1>18 DEF ReadsClaims
<1>19. CASE ReadsRivals
  BY <1>0, <1>19 DEF ReadsRivals
<1>20. CASE Parts
  BY <1>0, <1>20 DEF Parts
<1>21. ASSUME NEW a \in Attempts, Keeps(a) PROVE DeadMeansNoOrder'
  BY <1>0, <1>21 DEF Keeps, Records
<1>22. ASSUME NEW a \in Attempts, NEW o \in Attempts, Adopts(a, o) PROVE
   DeadMeansNoOrder'
  BY <1>0, <1>22 DEF Adopts, Records
<1>23. ASSUME NEW a \in Attempts, Misses(a) PROVE DeadMeansNoOrder'
  BY <1>0, <1>23 DEF Misses, Records
<1>24. CASE Quiet
  BY <1>0, <1>24 DEF Quiet
<1> QED
  BY <1>1, <1>2, <1>3, <1>4, <1>5, <1>6, <1>7, <1>8, <1>9, <1>10, <1>11, <1>12,
     <1>13, <1>14, <1>15, <1>16, <1>17, <1>18, <1>19, <1>20, <1>21, <1>22, <1>23,
     <1>24 DEF Effects

\* An order a pass adopts for another attempt's row has slipped through.
LEMMA AdoptedSlipped ==
  ASSUME AllTyped, Held, Pass, Siblings, Adopters,
         NEW a \in Attempts, NEW o \in Attempts, Adopts(a, o)
  PROVE  o = a \/ o \in slipped
<1>1. CASE picked[a] \in Unanswerable
  <2>1. o \in Candidates
    BY <1>1 DEF Adopts, Found, Unanswerable
  <2>2. o \in slipped \cup rivals
    BY <2>1 DEF Candidates, Siblings, Adopts, Records
  <2>3. rivals \ {a} = {}
    BY <1>1, <2>1 DEF Adopts, Ambiguous, Unanswerable
  <2> QED
    BY <2>2, <2>3
<1>2. CASE picked[a] = "submitted"
  <2>1. vid[a] # NoOrder
    BY <1>2 DEF Pass, Held
  <2>2. o = vid[a]
    BY <1>2, <2>1 DEF Adopts, Found
  <2> QED
    BY <2>1, <2>2 DEF Adopters
<1> QED
  BY <1>1, <1>2 DEF AllTyped, RecTyped, Adopts, Records, Unanswerable, Open

\* Another attempt's order is adopted only if it slipped between the reads.
LEMMA AdoptersStep ==
  ASSUME AllTyped, Adopters, Held, Pass, Siblings, Shown, Effects
  PROVE  Adopters'
<1> USE FramesAssumption DEF Adopters, Held, Pass, Siblings, Shown, RowsTyped,
   CallTyped, RecTyped, Unanswerable, Booked, Open, RowsKept, CallsKept, FramesKept,
   BookKept, PassKept
<1>0. RowsTyped /\ CallTyped /\ RecTyped
  BY DEF AllTyped
<1>1. ASSUME NEW a \in Attempts, Inserts(a) PROVE Adopters'
  BY <1>0, <1>1 DEF Inserts
<1>2. ASSUME NEW a \in Attempts, Judges(a) PROVE Adopters'
  BY <1>0, <1>2 DEF Judges
<1>3. ASSUME NEW a \in Attempts, Spends(a) PROVE Adopters'
  BY <1>0, <1>3 DEF Spends
<1>4. ASSUME NEW a \in Attempts, Hears(a) PROVE Adopters'
  BY <1>0, <1>4 DEF Hears
<1>5. ASSUME NEW a \in Attempts, Settles(a) PROVE Adopters'
  BY <1>0, <1>5 DEF Settles
<1>6. CASE Leaves
  BY <1>0, <1>6 DEF Leaves
<1>7. CASE Closes /\ UNCHANGED login
  BY <1>0, <1>7 DEF Closes
<1>8. CASE ClosesAll
  BY <1>0, <1>8 DEF ClosesAll, Closes
<1>9. ASSUME NEW f \in Frames, Passes(f) PROVE Adopters'
  BY <1>0, <1>9 DEF Passes, Carries
<1>10. ASSUME NEW f \in Frames, Equips(f) PROVE Adopters'
  BY <1>0, <1>10 DEF Equips, Carries
<1>11. ASSUME NEW f \in Frames, Departs(f) PROVE Adopters'
  BY <1>0, <1>11 DEF Departs, Carries
<1>12. ASSUME NEW f \in Frames, Drops(f) PROVE Adopters'
  BY <1>0, <1>12 DEF Drops, Ends, Carries
<1>13. ASSUME NEW f \in Frames, NEW ans \in Answers, Refused(f, ans) PROVE Adopters'
  BY <1>0, <1>13 DEF Refused, Sent, Ends, Carries
<1>14. ASSUME NEW f \in Frames, NEW s \in Booked, NEW ans \in Answers, Took(f, s,
   ans) PROVE Adopters'
  BY <1>0, <1>14 DEF Took, Sent, Ends, Carries
<1>15. ASSUME NEW f \in Frames, TurnsDown(f) PROVE Adopters'
  BY <1>0, <1>15 DEF TurnsDown, Sent, Carries
<1>16. ASSUME NEW a \in Attempts, Fills(a) PROVE Adopters'
  BY <1>0, <1>16 DEF Fills
<1>17. CASE Lists
  BY <1>0, <1>17 DEF Lists
<1>18. CASE ReadsClaims
  BY <1>0, <1>18 DEF ReadsClaims
<1>19. CASE ReadsRivals
  BY <1>0, <1>19 DEF ReadsRivals
<1>20. CASE Parts
  BY <1>0, <1>20 DEF Parts
<1>21. ASSUME NEW a \in Attempts, Keeps(a) PROVE Adopters'
  BY <1>0, <1>21 DEF Keeps, Records
<1>22. ASSUME NEW a \in Attempts, NEW o \in Attempts, Adopts(a, o) PROVE Adopters'
  <2>1. o = a \/ o \in slipped
    BY <1>22, AdoptedSlipped
  <2>2. /\ \A b \in Attempts \ {a} : vid'[b] = vid[b]
        /\ slipped \subseteq slipped'
        /\ vid'[a] = (IF vid[a] = NoOrder THEN o ELSE vid[a])
        /\ vid'[a] \notin {a, NoOrder} => a \in slipped'
    BY <1>0, <1>22 DEF Adopts
  <2> QED
    BY <2>1, <2>2
<1>23. ASSUME NEW a \in Attempts, Misses(a) PROVE Adopters'
  BY <1>0, <1>23 DEF Misses, Records
<1>24. CASE Quiet
  BY <1>0, <1>24 DEF Quiet
<1> QED
  BY <1>1, <1>2, <1>3, <1>4, <1>5, <1>6, <1>7, <1>8, <1>9, <1>10, <1>11, <1>12,
     <1>13, <1>14, <1>15, <1>16, <1>17, <1>18, <1>19, <1>20, <1>21, <1>22, <1>23,
     <1>24 DEF Effects

\* The two reads of the siblings miss only what slipped between them.
LEMMA SiblingsStep ==
  ASSUME AllTyped, Siblings, Held, Pass, Shown, Adopters, Placed, Signing, Outcomes,
     DeadMeansNoOrder, Effects
  PROVE  Siblings'
<1> USE FramesAssumption DEF Siblings, Held, Pass, Shown, Adopters, Placed, Signing,
   Outcomes, DeadMeansNoOrder, RowsTyped, CallTyped, BookTyped, RecTyped,
   Unanswerable, Unread, Booked, Open, RowsKept, CallsKept, FramesKept, BookKept,
   PassKept
<1>0. RowsTyped /\ CallTyped /\ BookTyped /\ RecTyped
  BY DEF AllTyped
<1>1. ASSUME NEW a \in Attempts, Inserts(a) PROVE Siblings'
  BY <1>0, <1>1 DEF Inserts
<1>2. ASSUME NEW a \in Attempts, Judges(a) PROVE Siblings'
  BY <1>0, <1>2 DEF Judges
<1>3. ASSUME NEW a \in Attempts, Spends(a) PROVE Siblings'
  <2>1. ~dispatched[a] /\ picked[a] \notin Unanswerable
    BY <1>0, <1>3 DEF Spends, Waiting
  <2> QED
    BY <1>0, <1>3, <2>1 DEF Spends
<1>4. ASSUME NEW a \in Attempts, Hears(a) PROVE Siblings'
  BY <1>0, <1>4 DEF Hears
<1>5. ASSUME NEW a \in Attempts, Settles(a) PROVE Siblings'
  BY <1>0, <1>5 DEF Settles
<1>6. CASE Leaves
  BY <1>0, <1>6 DEF Leaves
<1>7. CASE Closes /\ UNCHANGED login
  BY <1>0, <1>7 DEF Closes
<1>8. CASE ClosesAll
  BY <1>0, <1>8 DEF ClosesAll, Closes
<1>9. ASSUME NEW f \in Frames, Passes(f) PROVE Siblings'
  BY <1>0, <1>9 DEF Passes, Carries
<1>10. ASSUME NEW f \in Frames, Equips(f) PROVE Siblings'
  BY <1>0, <1>10 DEF Equips, Carries
<1>11. ASSUME NEW f \in Frames, Departs(f) PROVE Siblings'
  BY <1>0, <1>11 DEF Departs, Carries
<1>12. ASSUME NEW f \in Frames, Drops(f) PROVE Siblings'
  BY <1>0, <1>12 DEF Drops, Ends, Carries
<1>13. ASSUME NEW f \in Frames, NEW ans \in Answers, Refused(f, ans) PROVE Siblings'
  BY <1>0, <1>13 DEF Refused, Sent, Ends, Carries
<1>14. ASSUME NEW f \in Frames, NEW s \in Booked, NEW ans \in Answers, Took(f, s,
   ans) PROVE Siblings'
  BY <1>0, <1>14 DEF Took, Sent, Ends, Carries
<1>15. ASSUME NEW f \in Frames, TurnsDown(f) PROVE Siblings'
  BY <1>0, <1>15 DEF TurnsDown, Sent, Carries
<1>16. ASSUME NEW a \in Attempts, Fills(a) PROVE Siblings'
  BY <1>0, <1>16 DEF Fills
<1>17. CASE Lists
  BY <1>0, <1>17 DEF Lists
<1>18. CASE ReadsClaims
  BY <1>0, <1>18 DEF ReadsClaims
<1>19. CASE ReadsRivals
  <2>1. /\ rec = "claimed" /\ rec' = "recording" /\ rivals' = Unanswered
        /\ UNCHANGED <<row, dispatched, vid, picked, listing, claims, slipped>>
    BY <1>19 DEF ReadsRivals
  <2>2. ASSUME NEW a \in Attempts, listing[a] # "none", a \notin claims \cup slipped
        PROVE  a \in Unanswered
    <3>1. placed[a] # 0 /\ dispatched[a] /\ vid[a] = NoOrder
      BY <2>1, <2>2
    <3>2. row[a] \notin Dead /\ row[a] \notin Booked /\ row[a] # "cancelled"
      BY <2>2, <3>1
    <3>3. row[a] \notin {"absent"} \cup Waiting
      BY <3>1
    <3> QED
      BY <1>0, <3>1, <3>2, <3>3 DEF Unanswered, Dead, Statuses, Terminal, Waiting
  <2>3. ASSUME NEW a \in Attempts, Unread(a)
        PROVE  a \in Unanswered
    BY <1>0, <2>3 DEF Unanswered
  <2>4. \A a \in Attempts : Unread(a)' <=> Unread(a)
    BY <2>1
  <2>5. \A a \in Attempts : Unread(a) => (a \in claims => a \in slipped)
    BY <2>1
  <2> QED
    BY <2>1, <2>2, <2>3, <2>4, <2>5
<1>20. CASE Parts
  BY <1>0, <1>20 DEF Parts
<1>21. ASSUME NEW a \in Attempts, Keeps(a) PROVE Siblings'
  BY <1>0, <1>21 DEF Keeps, Records
<1>22. ASSUME NEW a \in Attempts, NEW o \in Attempts, Adopts(a, o) PROVE Siblings'
  <2>1. o = a \/ o \in slipped
    BY <1>22, AdoptedSlipped
  <2>2. /\ \A b \in Attempts \ {a} : row'[b] = row[b] /\ picked'[b] = picked[b]
        /\ picked'[a] = "none"
        /\ rec = "recording" /\ UNCHANGED <<rec, listing, rivals>>
        /\ claims' = claims \cup {o} /\ slipped \subseteq slipped'
    BY <1>0, <1>22 DEF Adopts, Records
  <2>3. \A b \in Attempts : Unread(b)' => b # a /\ Unread(b)
    BY <2>2
  <2> QED
    BY <2>1, <2>2, <2>3
<1>23. ASSUME NEW a \in Attempts, Misses(a) PROVE Siblings'
  BY <1>0, <1>23 DEF Misses, Records
<1>24. CASE Quiet
  BY <1>0, <1>24 DEF Quiet
<1> QED
  BY <1>1, <1>2, <1>3, <1>4, <1>5, <1>6, <1>7, <1>8, <1>9, <1>10, <1>11, <1>12,
     <1>13, <1>14, <1>15, <1>16, <1>17, <1>18, <1>19, <1>20, <1>21, <1>22, <1>23,
     <1>24 DEF Effects

-----------------------------------------------------------------------------
(* The theorems *)

\* An outcome the invariant allows is a status.
LEMMA OutcomesRecorded == ASSUME Outcomes PROVE Recorded
  BY DEF Outcomes, Recorded, Statuses, Booked, Open, Terminal

\* The invariant holds at first,
LEMMA InitIInv == Init => IInv
<1> SUFFICES ASSUME Init PROVE IInv
  OBVIOUS
<1> USE FramesAssumption DEF Init
<1>1. TypeOK
  <2>1. servable \in BOOLEAN /\ complete \in BOOLEAN
    BY Zenon
  <2>2. /\ run \in Working /\ todo \subseteq Attempts /\ awaiting \subseteq Attempts
        /\ trouble \in 0 .. MaxTrouble /\ shown \in [Attempts -> 0 .. MaxGen]
        /\ gen \in 1 .. MaxGen /\ login \in 1 .. gen
    BY DEF Working
  <2>3. RowsTyped /\ CallTyped /\ BookTyped
    BY DEF RowsTyped, CallTyped, BookTyped, Statuses
  <2>4. RelayTyped
    BY DEF RelayTyped, Bundles
  <2>5. RecTyped
    BY <2>1 DEF RecTyped
  <2> QED
    BY <2>1, <2>2, <2>3, <2>4, <2>5, Typed DEF RunTyped, AllTyped
<1>2. Signing /\ Current /\ Flight /\ Placed /\ Adopters /\ Pass /\ Shown
  BY DEF Signing, Current, Flight, Placed, Adopters, Pass, Shown, InFlight, Waiting,
     Unanswerable, Booked
<1>3. Bearers /\ Held /\ Outcomes /\ Siblings
  BY DEF Bearers, Held, Outcomes, Siblings, Unread, Unanswerable, Booked
<1>4. FirstSendUnderLogin /\ DeadMeansNoOrder
  BY DEF FirstSendUnderLogin, DeadMeansNoOrder, Dead
<1> QED
  BY <1>1, <1>2, <1>3, <1>4 DEF IInv

\* and every step keeps it.
LEMMA NextIInv == IInv /\ [Next]_vars => IInv'
<1> SUFFICES ASSUME IInv, [Next]_vars PROVE IInv'
  OBVIOUS
<1>1. AllTyped /\ Recorded
  BY Typed, OutcomesRecorded DEF IInv
<1>2. Effects
  BY <1>1, NextEffects
<1>3. TypeOK'
  <2>1. AllTyped'
    BY <1>1, TypeStep
  <2>2. (TypeOK <=> AllTyped)'
    BY Typed, PTL
  <2> QED
    BY <2>1, <2>2
<1>4. Signing' /\ Current' /\ Bearers'
  BY <1>1, <1>2, SigningStep, CurrentStep, BearersStep DEF IInv
<1>5. Flight' /\ Placed' /\ Held' /\ Outcomes'
  BY <1>1, <1>2, FlightStep, PlacedStep, HeldStep, OutcomesStep DEF IInv
<1>6. Adopters' /\ Pass' /\ Shown' /\ Siblings'
  BY <1>1, <1>2, AdoptersStep, PassStep, ShownStep, SiblingsStep DEF IInv
<1>7. FirstSendUnderLogin' /\ DeadMeansNoOrder'
  BY <1>1, <1>2, FirstSendUnderLoginStep, DeadMeansNoOrderStep DEF IInv
<1> QED
  BY <1>3, <1>4, <1>5, <1>6, <1>7 DEF IInv

(* The inductive invariant: how the rows, the calls, the frames, the book  *)
(* and the reconciler's pass hang together.                                *)
THEOREM IInvHolds == Spec => []IInv
  BY InitIInv, NextIInv, PTL DEF Spec

(* Every variable keeps its type.                                          *)
THEOREM TypeCorrect == Spec => []TypeOK
<1>1. IInv => TypeOK
  BY DEF IInv
<1> QED
  BY <1>1, IInvHolds, PTL

(* However many copies of however many frames the relay meets, an attempt  *)
(* puts at most one order on the book: only the claim of a row not yet     *)
(* dispatched lets a frame leave, and what left places at most once.       *)
THEOREM OneOrderTheorem == Spec => []OneOrderPerAttempt
<1>1. IInv => OneOrderPerAttempt
  BY DEF IInv, Placed, OneOrderPerAttempt
<1> QED
  BY <1>1, IInvHolds, PTL

(* No order first leaves under a login its card was not shown for: the     *)
(* change of login has refused its row, which the claim then finds gone.   *)
THEOREM LoginTheorem == Spec => []FirstSendUnderLogin
<1>1. IInv => FirstSendUnderLogin
  BY DEF IInv
<1> QED
  BY <1>1, IInvHolds, PTL

(* An attempt given for dead has no order on the book and no frame under   *)
(* way, whoever settled it, but for the attempts that slipped.             *)
THEOREM DeadTheorem == Spec => []DeadMeansNoOrder
<1>1. IInv => DeadMeansNoOrder
  BY DEF IInv
<1> QED
  BY <1>1, IInvHolds, PTL

(* For any number of identical orders, the order an attempt is said to     *)
(* have placed is its own, or one that slipped between the two reads.      *)
THEOREM HolderTheorem == Spec => []OneHolderPerOrder
<1>1. IInv => OneHolderPerOrder
  BY DEF IInv, TypeOK, Adopters, OneHolderPerOrder
<1> QED
  BY <1>1, IInvHolds, PTL

\* No effect rewrites a settled row or takes an open one back.
LEMMA ForwardStep ==
  ASSUME IInv, Effects
  PROVE  \A a \in Attempts :
           row[a] \in Open \cup Terminal => row'[a] = row[a] \/ Rank(row'[a]) > Rank(row[a])
<1> USE DEF RowsKept, Open, Terminal
<1>0. row \in [Attempts -> Statuses]
  BY DEF IInv, TypeOK
<1>1. ASSUME NEW a \in Attempts, Inserts(a) \/ Judges(a) \/ Spends(a) \/ Settles(a)
      PROVE  /\ row[a] \notin Open \cup Terminal \/ row'[a] = row[a]
             /\ \A b \in Attempts \ {a} : row'[b] = row[b]
  BY <1>0, <1>1 DEF Inserts, Judges, Spends, Settles, Waiting
<1>2. ASSUME NEW a \in Attempts, NEW o \in Attempts, Adopts(a, o)
      PROVE  /\ row'[a] = row[a] \/ row[a] \notin Open \cup Terminal
                \/ Rank(row'[a]) > Rank(row[a])
             /\ \A b \in Attempts \ {a} : row'[b] = row[b]
  <2>1. row'[a] = listing[o] /\ \A b \in Attempts \ {a} : row'[b] = row[b]
    BY <1>0, <1>2 DEF Adopts
  <2>2. /\ row[a] # listing[o] => Rank(row[a]) < Rank(listing[o])
        /\ row[a] \in {"submitting", "submitted", "unknown"} /\ listing[o] \in {"submitted", "filled"}
    BY <1>2 DEF Adopts, Booked
  <2>3. row[a] # listing[o] => Rank(listing[o]) > Rank(row[a])
    BY <2>2 DEF Rank
  <2> QED
    BY <2>1, <2>3
<1>3. ASSUME NEW a \in Attempts, Misses(a)
      PROVE  /\ row[a] = "unknown" => Rank(row'[a]) > Rank(row[a])
             /\ row[a] \in {"submitting", "unknown"}
             /\ \A b \in Attempts \ {a} : row'[b] = row[b]
  BY <1>0, <1>3 DEF Misses, Unanswerable, Rank
<1>4. ASSUME Closes
      PROVE  \A b \in Attempts : row[b] \in Open \cup Terminal => row'[b] = row[b]
  BY <1>4 DEF Closes, Waiting
<1>5. ASSUME \/ \E a \in Attempts : Hears(a) \/ Fills(a) \/ Keeps(a)
             \/ Leaves
             \/ \E f \in Frames : \/ Passes(f) \/ Equips(f) \/ Departs(f) \/ Drops(f) \/ TurnsDown(f)
                                  \/ \E ans \in Answers : Refused(f, ans)
                                  \/ \E s \in Booked, ans \in Answers : Took(f, s, ans)
             \/ Lists \/ ReadsClaims \/ ReadsRivals \/ Parts \/ Quiet
      PROVE  row' = row
  BY <1>5 DEF Hears, Fills, Keeps, Leaves, Passes, Equips, Departs, Drops,
     TurnsDown, Refused,
     Took, Ends, Lists, ReadsClaims, ReadsRivals, Parts, Quiet
<1> QED
  BY <1>1, <1>2, <1>3, <1>4, <1>5 DEF Effects, ClosesAll

(* A settled row is never rewritten and an open one only moves forward,    *)
(* whatever late answer, stale listing or sweep reaches it.                *)
THEOREM ForwardTheorem == Spec => RowsMoveForward
<1>1. IInv /\ [Next]_vars =>
        [\A a \in Attempts : row[a] \in Open \cup Terminal =>
           row'[a] = row[a] \/ Rank(row'[a]) > Rank(row[a])]_vars
  <2> SUFFICES ASSUME IInv, [Next]_vars
               PROVE  \A a \in Attempts : row[a] \in Open \cup Terminal =>
                        row'[a] = row[a] \/ Rank(row'[a]) > Rank(row[a])
    OBVIOUS
  <2>1. Effects
    BY Typed, NextEffects DEF IInv
  <2> QED
    BY <2>1, ForwardStep
<1> QED
  BY <1>1, IInvHolds, PTL DEF Spec, RowsMoveForward

=============================================================================
