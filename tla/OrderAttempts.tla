--------------------------- MODULE OrderAttempts ---------------------------
(***************************************************************************)
(* The brokerage orders one run of the agent may place: a ledger row per   *)
(* order (order_attempts), the tool step that proposes, asks, spends the   *)
(* approval and settles it, the egress relay that carries the signed       *)
(* frame, the brokerage's book, the connection that may change login under *)
(* the row, and the sweeps and the reconciler that settle what the tool    *)
(* step left behind.  Every statement is a guarded UPDATE of one row, so   *)
(* each is one step here and the processes interleave between them.        *)
(* All attempts place the same order (one fingerprint, one account, inside *)
(* the match window): the reconciler can tell them apart by order id only. *)
(***************************************************************************)
EXTENDS Naturals, FiniteSets, Sequences

CONSTANTS
  Calls,          \* how many order calls the message makes, each with one ledger row
  Frames,         \* the signed frames on the wire
  AttemptOf,      \* the attempt a frame was signed for
  Duplicates,     \* the frames that exist only if the wire repeats one
  NeedsApproval,  \* the attempts the user has to approve first
  MaxGen,         \* bound: bundles the connection ever stores
  MaxTrouble,     \* bound: repeated frames, connection changes, stops, retries...
  NoOrder

(* The calls in the order the message makes them, which name the attempts. *)
Attempts == 1 .. Calls

ASSUME FramesAssumption ==
  /\ Calls \in Nat
  /\ AttemptOf \in [Frames -> Attempts]
  /\ NeedsApproval \subseteq Attempts /\ Duplicates \subseteq Frames
  /\ NoOrder \notin Attempts
  /\ MaxGen \in Nat \ {0} /\ MaxTrouble \in Nat

VARIABLES
  row,         \* the attempt's status column
  dispatched,  \* dispatched_at is set
  vid,         \* vendor_order_id, an order being named by the attempt that placed it
  run,         \* the run, or the node of it that is executing
  todo,        \* the calls the executing node has still to treat
  awaiting,    \* the proposals the node found without a verdict
  trouble,     \* how much of MaxTrouble has happened
  call,        \* the tool step waiting on an answer, then about to record it
  outcome,     \* the status it is about to record
  signed,      \* the attempts whose execution token was minted
  frame,       \* how far the relay has taken the frame
  bearer,      \* the bundle it read: its generation and its login
  answer,      \* what it brought the waiting tool step back
  gen,         \* token_generation of the connection row
  login,       \* the brokerage login behind it
  servable,    \* whether its status lets a caller use it
  book,        \* the brokerage's own state of the order
  rec,         \* the reconciler's phase
  picked,      \* the rows its pass holds, as it read them
  listing,     \* the orders it was shown
  complete,    \* whether the vendor listed everything it has
  claims,      \* claimed_vendor_order_ids, as it read them
  rivals,      \* unanswered_attempts, as it read them
  shown,       \* history: the login the order was proposed for
  sent,        \* history: the logins the frame was sent under
  placed,      \* history: how many orders the attempt put on the book
  slipped      \* history: the attempts whose frame left between the read and the
               \* write of a lost answer, whose answer landed between the
               \* reconciler's two reads, or that hold an order of another

rowVars  == <<row, dispatched, vid>>
runVars  == <<run, todo, awaiting, shown>>
callVars == <<call, outcome, signed>>
relayVars == <<frame, bearer, answer, sent>>
connVars == <<gen, login, servable, trouble>>
bookVars == <<book, placed>>
recVars  == <<rec, picked, listing, complete, claims, rivals>>
vars == <<rowVars, runVars, callVars, relayVars, connVars, bookVars, recVars, slipped>>

Waiting  == {"proposed", "approved"}
Open     == {"submitted", "unknown"}
Terminal == {"rejected_by_user", "refused", "filled", "cancelled",
             "rejected_by_vendor", "failed"}
Statuses == {"absent", "submitting"} \cup Waiting \cup Open \cup Terminal
Working  == {"proposing", "resuming", "deciding", "calling"}
Answers  == {"submitted", "filled", "rejected_by_vendor", "lost"}
Booked   == {"submitted", "filled"}
Bundles  == (0 .. MaxGen) \X (0 .. MaxGen)
Copies(a) == {f \in Frames : AttemptOf[f] = a}
FirstOf(S) == {a \in S : \A b \in S : a <= b}

Undispatched == {a \in Attempts : row[a] = "submitting" /\ ~dispatched[a]}

(* How far a read may carry a row (_RANK); terminal states share the top. *)
Rank(s) ==
  CASE s = "submitting" -> 0
    [] s = "unknown" -> 1
    [] s = "submitted" -> 2
    [] s \in Terminal -> 5
    [] OTHER -> 9

ForwardFrom(s) == {t \in {"submitting"} \cup Open : Rank(t) < Rank(s)}

Init ==
  /\ row = [a \in Attempts |-> "absent"]
  /\ dispatched = [a \in Attempts |-> FALSE]
  /\ vid = [a \in Attempts |-> NoOrder]
  /\ run = "proposing" /\ todo = Attempts /\ awaiting = {} /\ trouble = 0
  /\ shown = [a \in Attempts |-> 0]
  /\ call = [a \in Attempts |-> "idle"]
  /\ outcome = [a \in Attempts |-> "none"]
  /\ signed = {}
  /\ frame = [f \in Frames |-> IF f \in Duplicates THEN "done" ELSE "unsent"]
  /\ bearer = [f \in Frames |-> <<0, 0>>]
  /\ answer = [f \in Frames |-> "none"]
  /\ sent = [a \in Attempts |-> <<>>]
  /\ gen = 1 /\ login = 1 /\ servable = TRUE
  /\ book = [a \in Attempts |-> "none"]
  /\ placed = [a \in Attempts |-> 0]
  /\ rec = "idle"
  /\ picked = [a \in Attempts |-> "none"]
  /\ listing = [a \in Attempts |-> "none"] /\ complete = FALSE
  /\ claims = {} /\ rivals = {} /\ slipped = {}

-----------------------------------------------------------------------------
(* The tool step: propose, ask, decide, spend, settle *)

(* insert_attempt answers with the row already there, so a resume that     *)
(* proposes again finds the verdict an earlier pass wrote.                 *)
Propose(a) ==
  /\ run \in {"proposing", "resuming"} /\ a \in FirstOf(todo)
  /\ todo' = todo \ {a}
  /\ row' = IF row[a] = "absent"
              THEN [row EXCEPT ![a] = IF a \in NeedsApproval THEN "proposed"
                                                             ELSE "approved"]
              ELSE row
  /\ shown' = IF row[a] = "absent" THEN [shown EXCEPT ![a] = login] ELSE shown
  /\ awaiting' = IF a \in NeedsApproval /\ row'[a] = "proposed"
                   THEN awaiting \cup {a} ELSE awaiting
  /\ UNCHANGED <<dispatched, vid, run, callVars, relayVars, connVars,
                 bookVars, recVars, slipped>>

(* With every call proposed the node interrupts, or, resumed with the      *)
(* user's answer, goes on to write the verdicts; with no verdict to wait   *)
(* for it lets the calls run.                                              *)
Proposed ==
  /\ run \in {"proposing", "resuming"} /\ todo = {}
  /\ run' = IF awaiting = {} THEN "calling"
            ELSE IF run = "proposing" THEN "interrupted" ELSE "deciding"
  /\ todo' = IF awaiting = {} THEN Attempts ELSE {}
  /\ UNCHANGED <<awaiting, shown, rowVars, callVars, relayVars,
                 connVars, bookVars, recVars, slipped>>

(* The user answers the card and the run resumes, which re-runs the node.  *)
Answer ==
  /\ run = "interrupted"
  /\ run' = "resuming" /\ todo' = Attempts /\ awaiting' = {}
  /\ UNCHANGED <<shown, rowVars, callVars, relayVars, connVars,
                 bookVars, recVars, slipped>>

(* decide_attempt and, for a call the answer does not name, refuse_attempt.*)
Verdict(a, v) ==
  row' = CASE v = "approve" /\ row[a] = "proposed" ->
                [row EXCEPT ![a] = "approved"]
           [] v = "reject" /\ row[a] = "proposed" ->
                [row EXCEPT ![a] = "rejected_by_user"]
           [] v = "silent" /\ row[a] \in Waiting ->
                [row EXCEPT ![a] = "refused"]
           [] OTHER -> row

(* One verdict; a call not approved is answered here and never runs.       *)
Decide(a, v) ==
  /\ run = "deciding" /\ a \in FirstOf(awaiting)
  /\ Verdict(a, v)
  /\ awaiting' = awaiting \ {a}
  /\ todo' = IF v = "approve" THEN todo \cup {a} ELSE todo
  /\ UNCHANGED <<dispatched, vid, run, shown, callVars, relayVars,
                 connVars, bookVars, recVars, slipped>>

(* The calls that run are the ones approved now and the ones that never    *)
(* waited; those already answered are refused by the guarded consume.      *)
Decided ==
  /\ run = "deciding" /\ awaiting = {}
  /\ run' = "calling"
  /\ todo' = todo \cup {a \in Attempts : a \notin NeedsApproval}
  /\ UNCHANGED <<awaiting, shown, rowVars, callVars, relayVars,
                 connVars, bookVars, recVars, slipped>>

(* consume_attempt spends the approval, mint signs the frame; a mint that  *)
(* fails settles the spent row at once.                                    *)
Consume(a, minted) ==
  /\ run = "calling" /\ a \in todo
  /\ todo' = todo \ {a}
  /\ IF row[a] = "approved"
       THEN /\ row' = [row EXCEPT ![a] = IF minted THEN "submitting" ELSE "failed"]
            /\ call' = IF minted THEN [call EXCEPT ![a] = "waiting"] ELSE call
            /\ signed' = IF minted THEN signed \cup {a} ELSE signed
       ELSE UNCHANGED <<row, call, signed>>
  /\ UNCHANGED <<dispatched, vid, run, awaiting, shown, outcome, relayVars, connVars, bookVars, recVars, slipped>>

\* Mutant: a lost answer fails the attempt whether or not its frame left.
OutcomeAlwaysFailed(a, o) == IF o # "lost" THEN o ELSE "failed"

(* complete reads the row with the answer of the first copy to come back   *)
(* or none: the connection dropped, the call timed out, the answer cannot  *)
(* be read.  Such an answer is `unknown` once the frame has left           *)
(* (_lost_after_dispatch) and `failed` otherwise.                          *)
Outcome(a, o) == IF o # "lost" THEN o
                 ELSE IF dispatched[a] THEN "unknown" ELSE "failed"

ReadRow(a, o) ==
  /\ call[a] = "waiting"
  /\ call' = [call EXCEPT ![a] = "recording"]
  /\ outcome' = [outcome EXCEPT ![a] = Outcome(a, o)]
  /\ answer' = [f \in Frames |-> IF AttemptOf[f] = a THEN "none" ELSE answer[f]]
  /\ UNCHANGED <<rowVars, runVars, signed, frame, bearer, sent, connVars,
                 bookVars, recVars, slipped>>

Answered(a) == \E f \in Copies(a) : answer[f] # "none" /\ ReadRow(a, answer[f])

GiveUp(a) == ReadRow(a, "lost")

(* complete_attempt drops an answer the row no longer waits for.           *)
Complete(a) ==
  /\ call[a] = "recording"
  /\ call' = [call EXCEPT ![a] = "idle"]
  /\ outcome' = [outcome EXCEPT ![a] = "none"]
  /\ IF row[a] = "submitting"
       THEN /\ row' = [row EXCEPT ![a] = outcome[a]]
            /\ vid' = IF outcome[a] \in {"submitted", "filled"}
                        THEN [vid EXCEPT ![a] = a] ELSE vid
       ELSE UNCHANGED <<row, vid>>
  /\ slipped' = IF rec = "claimed" /\ row[a] = "submitting" /\ vid'[a] = a
                  THEN slipped \cup {a} ELSE slipped
  /\ UNCHANGED <<dispatched, runVars, signed, relayVars, connVars,
                 bookVars, recVars>>

(* What goes wrong, MaxTrouble times.                                      *)
Troubled == trouble < MaxTrouble /\ trouble' = trouble + 1

RunEnds(s) ==
  /\ run' = s /\ todo' = {} /\ awaiting' = {}
  /\ call' = [a \in Attempts |-> "idle"]
  /\ outcome' = [a \in Attempts |-> "none"]
  /\ answer' = [f \in Frames |-> "none"]
  /\ UNCHANGED <<rowVars, shown, signed, frame, bearer, sent, gen, login,
                 servable, bookVars, recVars, slipped>>

(* The run completes with its calls answered; a stop or a lost worker ends *)
(* it anywhere, taking the tool steps with it.                             *)
Finish ==
  /\ run = "calling" /\ todo = {} /\ \A a \in Attempts : call[a] = "idle"
  /\ RunEnds("completed") /\ UNCHANGED trouble

Stop ==
  run \in Working \cup {"interrupted"} /\ RunEnds("cancelled") /\ Troubled

WorkerLost == run \in Working /\ RunEnds("errored") /\ Troubled

(* /retry resumes an errored run from its last checkpoint.                 *)
Retry ==
  /\ run = "errored"
  /\ run' = "proposing" /\ todo' = Attempts /\ awaiting' = {}
  /\ UNCHANGED <<shown, rowVars, callVars, relayVars, connVars, bookVars,
                 recVars, slipped>>

-----------------------------------------------------------------------------
(* The relay *)

RelayStep(f, to) == frame' = [frame EXCEPT ![f] = to]

RelayDone(f, ans) ==
  /\ RelayStep(f, "done")
  /\ bearer' = [bearer EXCEPT ![f] = <<0, 0>>]
  /\ answer' = IF call[AttemptOf[f]] = "waiting"
                 THEN [answer EXCEPT ![f] = ans] ELSE answer

(* A proxy or a retry on the wire repeats a signed frame.                  *)
Repeat(f) ==
  /\ f \in Duplicates /\ frame[f] = "done" /\ AttemptOf[f] \in signed
  /\ RelayStep(f, "unsent") /\ Troubled
  /\ UNCHANGED <<rowVars, runVars, callVars, bearer, answer, sent, gen, login,
                 servable, bookVars, recVars, slipped>>

(* _authorize_order: the row holds the execution the frame was signed for. *)
(* (The token's two minutes only bring a refusal sooner.)                  *)
Authorize(f) ==
  LET a == AttemptOf[f]
  IN /\ frame[f] = "unsent" /\ a \in signed
     /\ IF row[a] = "submitting"
          THEN RelayStep(f, "authorized") /\ UNCHANGED <<answer, bearer>>
          ELSE RelayDone(f, "lost")
     /\ UNCHANGED <<rowVars, runVars, callVars, sent, connVars,
                    bookVars, recVars, slipped>>

(* resolve_vendor_credential, after the row was checked.                   *)
ReadBearer(f) ==
  /\ frame[f] = "authorized"
  /\ IF servable
       THEN /\ RelayStep(f, "ready")
            /\ bearer' = [bearer EXCEPT ![f] = <<gen, login>>]
            /\ UNCHANGED answer
       ELSE RelayDone(f, "lost")
  /\ UNCHANGED <<rowVars, runVars, callVars, sent, connVars, bookVars, recVars, slipped>>

\* Mutant: the claim forgets that a copy may already have left.
ClaimAgain(f) ==
  LET a == AttemptOf[f]
  IN /\ frame[f] = "ready"
     /\ IF row[a] = "submitting"
          THEN /\ dispatched' = [dispatched EXCEPT ![a] = TRUE]
               /\ RelayStep(f, "claimed") /\ UNCHANGED <<answer, bearer>>
               /\ slipped' = slipped \cup {b \in {a} : call[b] = "recording"}
          ELSE RelayDone(f, "lost") /\ UNCHANGED <<dispatched, slipped>>
     /\ UNCHANGED <<row, vid, runVars, callVars, sent, connVars, bookVars,
                    recVars>>

(* claim_dispatch: the one departure a row has.                            *)
Claim(f) ==
  LET a == AttemptOf[f]
  IN /\ frame[f] = "ready"
     /\ IF row[a] = "submitting" /\ ~dispatched[a]
          THEN /\ dispatched' = [dispatched EXCEPT ![a] = TRUE]
               /\ RelayStep(f, "claimed") /\ UNCHANGED <<answer, bearer>>
               /\ slipped' = slipped \cup {b \in {a} : call[b] = "recording"}
          ELSE RelayDone(f, "lost") /\ UNCHANGED <<dispatched, slipped>>
     /\ UNCHANGED <<row, vid, runVars, callVars, sent, connVars, bookVars,
                    recVars>>

Sends(f) ==
  sent' = [sent EXCEPT ![AttemptOf[f]] = Append(@, bearer[f][2])]

(* The vendor runs the order; its answer comes back, or does not.          *)
VendorTakes(f, s, ans) ==
  LET a == AttemptOf[f]
  IN /\ frame[f] \in {"claimed", "resending"}
     /\ ans \in {s, "lost"}
     /\ Sends(f) /\ RelayDone(f, ans)
     /\ book' = [book EXCEPT ![a] = s]
     /\ placed' = [placed EXCEPT ![a] = @ + 1]
     /\ UNCHANGED <<rowVars, runVars, callVars, connVars, recVars, slipped>>

(* The vendor turns the order down, or the request never reaches it.       *)
VendorDeclines(f, ans) ==
  /\ frame[f] \in {"claimed", "resending"}
  /\ Sends(f) /\ RelayDone(f, ans)
  /\ UNCHANGED <<rowVars, runVars, callVars, connVars, bookVars, recVars, slipped>>

(* The vendor turns the bearer down (401).  A bundle stored since is tried *)
(* once more, under the claim already taken; otherwise, and after a second *)
(* 401, the connection needs re-authorization unless it moved since.       *)
VendorRejectsBearer(f) ==
  /\ frame[f] = "claimed" /\ Sends(f)
  /\ RelayStep(f, "rejected")
  /\ UNCHANGED <<rowVars, runVars, callVars, bearer, answer, connVars, bookVars,
                 recVars, slipped>>

MarkNeedsReauth(f) == servable' = (servable /\ bearer[f][1] # gen)

ReadAgain(f) ==
  /\ frame[f] = "rejected"
  /\ IF servable /\ gen > bearer[f][1]
       THEN /\ RelayStep(f, "resending")
            /\ bearer' = [bearer EXCEPT ![f] = <<gen, login>>]
            /\ UNCHANGED <<answer, servable>>
       ELSE RelayDone(f, "lost") /\ MarkNeedsReauth(f)
  /\ UNCHANGED <<rowVars, runVars, callVars, sent, gen, login, trouble,
                 bookVars, recVars, slipped>>

VendorRejectsAgain(f) ==
  /\ frame[f] = "resending" /\ Sends(f)
  /\ RelayDone(f, "lost") /\ MarkNeedsReauth(f)
  /\ UNCHANGED <<rowVars, runVars, callVars, gen, login, trouble,
                 bookVars, recVars, slipped>>

-----------------------------------------------------------------------------
(* The connection, and the refusals that ride in other transactions *)

RefuseAll(S) == row' = [a \in Attempts |-> IF a \in S THEN "refused" ELSE row[a]]

WaitingRows == {a \in Attempts : row[a] \in Waiting}

\* Mutant: a call already spent is left to the relay.
ConnectionChangedLate == RefuseAll(WaitingRows)

(* refuse_attempts_on_connection_change, in the connection's transaction.  *)
ConnectionChanged == RefuseAll(WaitingRows \cup Undispatched)

(* A re-authorization stores a new bundle on the same row, maybe another   *)
(* login's.                                                                *)
Reconnect ==
  /\ gen < MaxGen
  /\ gen' = gen + 1 /\ login' = login + 1 /\ servable' = TRUE
  /\ ConnectionChanged /\ Troubled
  /\ UNCHANGED <<dispatched, vid, runVars, callVars, relayVars, bookVars, recVars, slipped>>

Disconnect ==
  /\ servable
  /\ servable' = FALSE
  /\ ConnectionChanged /\ Troubled
  /\ UNCHANGED <<dispatched, vid, runVars, callVars, relayVars, gen, login,
                 bookVars, recVars, slipped>>

(* A refresh stores a new bundle of the same login.                        *)
Refresh ==
  /\ servable /\ gen < MaxGen
  /\ gen' = gen + 1 /\ Troubled
  /\ UNCHANGED <<rowVars, runVars, callVars, relayVars, login, servable,
                 bookVars, recVars, slipped>>

(* A fork or a delete of the thread drops the turn: what still waits under *)
(* it is refused before the run's row goes.                                *)
DropTurn ==
  /\ run \in {"interrupted", "cancelled", "completed", "errored"}
  /\ RefuseAll(WaitingRows)
  /\ run' = "gone"
  /\ UNCHANGED <<dispatched, vid, todo, awaiting, shown, callVars,
                 relayVars, connVars, bookVars, recVars, slipped>>

-----------------------------------------------------------------------------
(* The sweeps of a pass, which ask no vendor *)

Swept == UNCHANGED <<dispatched, vid, runVars, callVars, relayVars, connVars,
                     bookVars, recVars, slipped>>

RefuseAbandoned ==
  LET S == {a \in Attempts : row[a] = "proposed"}
  IN /\ run \in {"cancelled", "completed"} /\ S # {}
     /\ RefuseAll(S) /\ Swept

(* lapse_unspent_approvals: never beside a proposal still waiting.  Its    *)
(* ten minutes of grace outlast the tool step of a run that is calling.    *)
LapseApprovals ==
  LET S == {a \in Attempts : row[a] = "approved"}
  IN /\ S # {} /\ \A a \in Attempts : row[a] # "proposed"
     /\ RefuseAll(S) /\ Swept

(* fail_undispatched_attempts, at any moment: its window, longer than the  *)
(* token's life, spares a frame merely slow and protects nothing else.     *)
FailUndispatched ==
  /\ Undispatched # {}
  /\ \E S \in SUBSET Undispatched :
       row' = [a \in Attempts |-> IF a \in S THEN "failed" ELSE row[a]]
  /\ Swept

-----------------------------------------------------------------------------
(* The vendor's side, and the reconciler *)

(* An order on the book moves on.                                          *)
BookMoves(a) ==
  /\ book[a] = "submitted"
  /\ book' = [book EXCEPT ![a] = "filled"]
  /\ UNCHANGED <<placed, rowVars, runVars, callVars, relayVars, connVars, recVars, slipped>>

(* The grace outlasts the relay's wall clock: no frame is out any more.    *)
GraceOver(a) ==
  \A f \in Copies(a) : frame[f] \notin {"claimed", "rejected", "resending"}

Stale ==
  {a \in Attempts :
     \/ row[a] = "submitting" /\ dispatched[a] /\ GraceOver(a)
     \/ row[a] = "unknown" /\ vid[a] = NoOrder /\ GraceOver(a)
     \/ row[a] \in Open /\ vid[a] # NoOrder}

(* A pass takes its rows (list_stale_attempts) and, under the account's    *)
(* lock, reads its listing through the relay under the login of the moment *)
(* (an answer that lands between the two reads might as well land after    *)
(* both).  The query names the account, so a row another login was shown   *)
(* for is skipped; a vendor may stop answering mid-list.                   *)
List ==
  /\ rec = "idle" /\ Stale # {} /\ servable
  /\ picked' = [a \in Attempts |->
                  IF a \in Stale /\ shown[a] = login THEN row[a] ELSE "none"]
  /\ \E S \in SUBSET Attempts :
       /\ listing' = [a \in Attempts |-> IF a \in S THEN book[a] ELSE "none"]
       /\ complete' \in {FALSE, S = Attempts}
  /\ rec' = "listed"
  /\ UNCHANGED <<claims, rivals, rowVars, runVars, callVars, relayVars, connVars,
                 bookVars, slipped>>

Unanswered ==
  {a \in Attempts : /\ row[a] \in {"submitting", "unknown"}
                    /\ dispatched[a] /\ vid[a] = NoOrder}

(* claimed_vendor_order_ids, and only then unanswered_attempts.            *)
ReadClaims ==
  /\ rec = "listed"
  /\ claims' = {vid[a] : a \in Attempts} \ {NoOrder}
  /\ rec' = "claimed"
  /\ UNCHANGED <<picked, listing, complete, rivals, rowVars, runVars, callVars,
                 relayVars, connVars, bookVars, slipped>>

ReadUnanswered ==
  /\ rec = "claimed"
  /\ rivals' = Unanswered
  /\ rec' = "recording"
  /\ UNCHANGED <<picked, listing, complete, claims, rowVars, runVars, callVars,
                 relayVars, connVars, bookVars, slipped>>

(* _observe.  An order id is looked up; without one the row is the only    *)
(* unclaimed listed order's, unless another unanswered row could be too.   *)
Candidates == {o \in Attempts : listing[o] # "none" /\ o \notin claims}

Found(a) ==
  IF vid[a] # NoOrder /\ picked[a] \in {"submitted"}
    THEN {vid[a]} \cap {o \in Attempts : listing[o] # "none"}
    ELSE Candidates

\* Mutant: a single unclaimed order is taken for the row's own.
AmbiguousWithoutRivals(a) ==
  picked[a] \in {"submitting", "unknown"} /\ Cardinality(Candidates) > 1

Ambiguous(a) ==
  /\ picked[a] \in {"submitting", "unknown"}
  /\ \/ Cardinality(Candidates) > 1
     \/ Candidates # {} /\ rivals \ {a} # {}

(* record_observation: a read moves the row forward only; an absence is    *)
(* held to the status the row was read in.                                 *)
RecordFound(a) ==
  /\ ~Ambiguous(a)
  /\ \E o \in Found(a) :
       LET s == listing[o]
       IN IF row[a] \in (IF s = picked[a] THEN {s} ELSE ForwardFrom(s))
            THEN /\ row' = [row EXCEPT ![a] = s]
                 /\ vid' = IF vid[a] = NoOrder THEN [vid EXCEPT ![a] = o] ELSE vid
                 /\ claims' = claims \cup {o}
            ELSE UNCHANGED <<row, vid, claims>>

RecordAbsent(a) ==
  /\ Found(a) = {}
  /\ IF /\ complete /\ picked[a] \in {"submitting", "unknown"}
        /\ row[a] = picked[a]
       THEN row' = [row EXCEPT ![a] = "failed"]
       ELSE UNCHANGED row
  /\ UNCHANGED <<vid, claims>>

RecordNothing(a) == Ambiguous(a) /\ UNCHANGED <<row, vid, claims>>

Record(a) ==
  /\ rec = "recording" /\ picked[a] # "none"
  /\ RecordFound(a) \/ RecordAbsent(a) \/ RecordNothing(a)
  /\ picked' = [picked EXCEPT ![a] = "none"]
  /\ slipped' = slipped \cup {b \in {a} : vid'[b] \notin {b, NoOrder}}
  /\ UNCHANGED <<dispatched, rec, listing, complete, rivals, runVars, callVars,
                 relayVars, connVars, bookVars>>

(* The pass ends: done, out of time, refused a listing, or its worker lost.*)
PassEnds ==
  /\ rec # "idle"
  /\ rec' = "idle" /\ complete' = FALSE /\ claims' = {} /\ rivals' = {}
  /\ picked' = [a \in Attempts |-> "none"]
  /\ listing' = [a \in Attempts |-> "none"]
  /\ UNCHANGED <<rowVars, runVars, callVars, relayVars, connVars, bookVars, slipped>>

-----------------------------------------------------------------------------
ToolStep ==
  \/ \E a \in Attempts : Propose(a) \/ Answered(a) \/ GiveUp(a) \/ Complete(a)
  \/ \E a \in Attempts, v \in {"approve", "reject", "silent"} : Decide(a, v)
  \/ \E a \in Attempts, minted \in BOOLEAN : Consume(a, minted)
  \/ Proposed \/ Answer \/ Decided \/ Finish \/ Stop \/ WorkerLost \/ Retry \/ DropTurn

Relay ==
  \E f \in Frames :
    \/ Repeat(f) \/ Authorize(f) \/ ReadBearer(f) \/ Claim(f)
    \/ \E s \in {"submitted", "filled"}, ans \in Answers : VendorTakes(f, s, ans)
    \/ \E ans \in {"rejected_by_vendor", "lost"} : VendorDeclines(f, ans)
    \/ VendorRejectsBearer(f) \/ ReadAgain(f) \/ VendorRejectsAgain(f)

Connection == Disconnect \/ Reconnect \/ Refresh

Sweeps == RefuseAbandoned \/ LapseApprovals \/ FailUndispatched

Reconciler ==
  \/ List \/ ReadClaims \/ ReadUnanswered \/ PassEnds
  \/ \E a \in Attempts : Record(a)

Elsewhere == \E a \in Attempts : BookMoves(a)

Next == ToolStep \/ Relay \/ Connection \/ Sweeps \/ Reconciler \/ Elsewhere

Spec == Init /\ [][Next]_vars

-----------------------------------------------------------------------------
TypeOK ==
  /\ row \in [Attempts -> Statuses]
  /\ dispatched \in [Attempts -> BOOLEAN]
  /\ vid \in [Attempts -> Attempts \cup {NoOrder}]
  /\ run \in Working \cup {"interrupted", "cancelled", "completed", "errored", "gone"}
  /\ todo \subseteq Attempts /\ awaiting \subseteq Attempts
  /\ trouble \in 0 .. MaxTrouble
  /\ shown \in [Attempts -> 0 .. MaxGen]
  /\ call \in [Attempts -> {"idle", "waiting", "recording"}]
  /\ outcome \in [Attempts -> {"none"} \cup Statuses]
  /\ signed \subseteq Attempts
  /\ frame \in [Frames -> {"unsent", "authorized", "ready", "claimed",
                           "rejected", "resending", "done"}]
  /\ bearer \in [Frames -> Bundles]
  /\ answer \in [Frames -> {"none"} \cup Answers]
  /\ gen \in 1 .. MaxGen /\ login \in 1 .. gen /\ servable \in BOOLEAN
  /\ book \in [Attempts -> {"none"} \cup Booked]
  /\ rec \in {"idle", "listed", "claimed", "recording"}
  /\ picked \in [Attempts -> {"none", "submitting"} \cup Open]
  /\ listing \in [Attempts -> {"none"} \cup Booked] /\ complete \in BOOLEAN
  /\ claims \subseteq Attempts /\ rivals \subseteq Attempts
  /\ sent \in [Attempts -> Seq(0 .. MaxGen)]
  /\ placed \in [Attempts -> Nat] /\ slipped \subseteq Attempts

(* Whatever copies of the signed frame the relay meets, whichever bearer   *)
(* the vendor turns down and however often the run is retried, one attempt *)
(* puts at most one order on the book, and never one it was not cleared    *)
(* for (consume_attempt, claim_dispatch).                                  *)
OneOrderPerAttempt == \A a \in Attempts : placed[a] <= 1

(* The order id an attempt holds is its own order's: no read adopts for it *)
(* an order a sibling placed, identical as the two may be -- unless that   *)
(* sibling's answer was recorded between the reconciler's two reads, which *)
(* then show its order unclaimed and its row no longer unanswered, or it   *)
(* has itself adopted an order in this way.                                *)
OneHolderPerOrder == \A a \in Attempts : vid[a] \in {a, NoOrder} \cup slipped

(* An attempt the ledger gives for dead -- refused, rejected, failed --    *)
(* has no order on the book and no frame that could still put one there;   *)
(* a person reads such a row as leave to place the order again.  Only a    *)
(* call that read its row before the frame left, and wrote after, fails an *)
(* attempt whose order may be on the book.                                 *)
Dead == {"rejected_by_user", "refused", "rejected_by_vendor", "failed"}

DeadMeansNoOrder ==
  \A a \in Attempts : row[a] \in Dead /\ a \notin slipped =>
    /\ placed[a] = 0
    /\ \A f \in Copies(a) : frame[f] \notin {"claimed", "rejected", "resending"}

(* A settled row is never rewritten and an open one only moves forward,    *)
(* whatever late answer, stale listing or sweep reaches it.                *)
RowsMoveForward ==
  [][\A a \in Attempts :
       row[a] \in Open \cup Terminal =>
         row'[a] = row[a] \/ Rank(row'[a]) > Rank(row[a])]_vars

(* An order first leaves under the login its approval card was shown for:  *)
(* a bearer of a login that came later meets a refused row.                *)
FirstSendUnderLogin ==
  \A a \in Attempts : sent[a] # <<>> => Head(sent[a]) = shown[a]

(* So does every later sending of the same frame                           *)
(* (refuse_attempts_on_connection_change: "a bearer from the new login     *)
(* always meets a refused row").                                           *)
EverySendUnderLogin ==
  \A a \in Attempts : \A i \in 1 .. Len(sent[a]) : sent[a][i] = shown[a]

=============================================================================
