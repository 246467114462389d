--------------------------- MODULE DeliveryWorkers ---------------------------
(***************************************************************************)
(* The delivery loops of the platform connectors over the reply outbox:    *)
(* goroutines that lease one row, send it part by part, keep receipts of   *)
(* what was sent, and report ACK or FAIL.  They are the only consumers of  *)
(* the outbox here, and share one lease owner.  A row is sent in           *)
(* NumParts parts (the text and the attachments).  Some connectors keep a  *)
(* receipt of each part, the others only of the whole row.                 *)
(*                                                                         *)
(* Time passes while a loop is inside Deliver, up to the deadline of its   *)
(* context; the few database accesses before and after take less than the  *)
(* half minute by which a lease outlives that deadline.                    *)
(***************************************************************************)
EXTENDS Outbox

CONSTANTS
  Loops,       \* delivery goroutines
  PlatformOwner, \* the lease owner they share
  TrackedRuns, \* runs whose connector keeps a receipt of each part
  NumParts,    \* bound: parts of a row
  SendTime,    \* deadline of one Deliver
  MaxFaults    \* bound: crashes, and ACK or FAIL transactions that fail

Parts == 1..NumParts

ASSUME WorkersAssumption ==
  /\ NumParts \in Nat \ {0} /\ SendTime \in Nat /\ MaxFaults \in Nat
  /\ SendTime < LeaseTime
  /\ PlatformOwner \in Consumers
  /\ MaxBatch >= 1
  /\ TrackedRuns \subseteq Runs

VARIABLES
  loops,    \* what each goroutine is doing
  partSent, \* platform_sent_delivery_parts
  rowSent,  \* platform_sent_deliveries
  seen,     \* of each part: did it reach the platform, did a loop hear so,
            \* with or without a message id
  late,     \* parts of a row that reached the platform after it was withdrawn
  faults    \* faults so far

workerVars == <<loops, partSent, rowSent, seen, late, faults>>
allVars == <<vars, workerVars>>

\* The steps inside Deliver, under the deadline, and those around it.
Sending == {"part", "current", "post", "posted", "keep"}
Steps == Sending \cup {"idle", "leased", "ensure", "mark", "ack", "fail", "giveup"}

Idle == [step |-> "idle", row |-> 0, turn |-> 0, part |-> 1, left |-> 0]
Loop == [step : Steps, row : RowIds \cup {0}, turn : 0..LeaseCap,
         part : Parts, left : 0..SendTime]

\* The receipts, the loops and what the platform saw have their shape; a busy
\* loop has a row that exists.
WorkersTypeOK ==
  /\ loops \in [Loops -> Loop]
  /\ partSent \subseteq RowIds \X Parts
  /\ rowSent \subseteq RowIds
  /\ seen \in [RowIds -> [Parts -> {"unsent", "posted", "unnamed", "confirmed"}]]
  /\ late \in [RowIds -> Nat]
  /\ faults \in 0..MaxFaults
  /\ \A l \in Loops : loops[l].step # "idle" =>
       loops[l].row \in 1..nrows /\ loops[l].turn > 0

WorkersInit ==
  /\ Init
  /\ loops = [l \in Loops |-> Idle]
  /\ partSent = {} /\ rowSent = {}
  /\ seen = [d \in RowIds |-> [p \in Parts |-> "unsent"]]
  /\ late = [d \in RowIds |-> 0]
  /\ faults = 0

-----------------------------------------------------------------------------
Tracked(d) == outbox[d].run \in TrackedRuns
Busy(l) == loops[l].step # "idle"
RowOf(l) == loops[l].row
ReceiptOf(l) == [owner |-> PlatformOwner, attempts |-> loops[l].turn]

At(l, step) == loops[l].step = step
\* Loop l goes on with another step of the row it has.
Go(l, step) == loops' = [loops EXCEPT ![l].step = step]
Rest(l) == loops' = [loops EXCEPT ![l] = Idle]

\* Deliver turns to the part after this one, or returns.
NextPart(loop) ==
  IF loop.part = NumParts THEN [loop EXCEPT !.step = "mark"]
  ELSE [loop EXCEPT !.step = "part", !.part = @ + 1]

\* ensureDeliveryTaskCurrent: the row was cancelled, or the task moved on.
CancelledOrSuperseded(d) ==
  \/ outbox[d].status = "cancelled"
  \/ runs[outbox[d].run].state = "cancelled" \/ Superseded(outbox[d].run)

\* The row still exists and its task goes on.
Current(d) == /\ outbox[d].status # "deleted"
              /\ ~ CancelledOrSuperseded(d)
              /\ ~ runs[outbox[d].run].retired

\* The row was taken back, whoever holds it.
Withdrawn(d) == outbox[d].status \in {"cancelled", "deleted"}

-----------------------------------------------------------------------------
(* One turn of deliverPending.                                             *)

FirstReady(d) == /\ Ready(Swept, d)
                 /\ \A e \in RowIds : Ready(Swept, e) => d <= e

LeaseRow(l, d) ==
  /\ At(l, "idle") /\ FirstReady(d)
  /\ Lease(PlatformOwner, 1)
  /\ loops' = [loops EXCEPT ![l] = [Idle EXCEPT !.step = "leased", !.row = d,
                                                !.turn = outbox[d].attempts + 1]]
  /\ UNCHANGED <<partSent, rowSent, seen, late, faults>>

\* Nothing is ready; the sweep of the lease counts all the same.
LeaseNothing(l) ==
  /\ At(l, "idle") /\ ~ \E d \in RowIds : FirstReady(d)
  /\ Lease(PlatformOwner, 1)
  /\ UNCHANGED workerVars

\* The receipt of the row is read, then its route, which may be unknown.
CheckRow(l) ==
  /\ At(l, "leased")
  /\ \/ RowOf(l) \in rowSent /\ Go(l, "ack")
     \/ RowOf(l) \notin rowSent /\ (Go(l, "ensure") \/ Go(l, "giveup"))
     \/ Go(l, "fail")
  /\ UNCHANGED <<vars, partSent, rowSent, seen, late, faults>>

\* The last look at the task before Deliver, which may fail as any read may.
EnsureRow(l) ==
  /\ At(l, "ensure")
  /\ \/ /\ Current(RowOf(l))
        /\ loops' = [loops EXCEPT ![l].step = "part", ![l].part = 1, ![l].left = SendTime]
     \/ CancelledOrSuperseded(RowOf(l)) /\ Go(l, "giveup")
     \/ Go(l, "fail")
  /\ UNCHANGED <<vars, partSent, rowSent, seen, late, faults>>

-----------------------------------------------------------------------------
(* Deliver, part by part.                                                  *)

AnyPartReceipt(d, p) == \E q \in Parts : <<d, q>> \in partSent
PartReceipt(d, p) == <<d, p>> \in partSent

\* A part with a receipt is skipped.
CheckPart(l) ==
  /\ At(l, "part")
  /\ \/ /\ Tracked(RowOf(l)) /\ PartReceipt(RowOf(l), loops[l].part)
        /\ loops' = [loops EXCEPT ![l] = NextPart(@)]
     \/ Tracked(RowOf(l)) /\ ~ PartReceipt(RowOf(l), loops[l].part) /\ Go(l, "current")
     \/ Tracked(RowOf(l)) /\ Go(l, "fail")
     \/ ~ Tracked(RowOf(l)) /\ Go(l, "post")
  /\ UNCHANGED <<vars, partSent, rowSent, seen, late, faults>>

EnsurePartSkipped(l) ==
  /\ At(l, "current") /\ Go(l, "post")
  /\ UNCHANGED <<vars, partSent, rowSent, seen, late, faults>>

\* The same look at the task before each part.
EnsurePart(l) ==
  /\ At(l, "current")
  /\ \/ Current(RowOf(l)) /\ Go(l, "post")
     \/ CancelledOrSuperseded(RowOf(l)) /\ Go(l, "giveup")
     \/ Go(l, "fail")
  /\ UNCHANGED <<vars, partSent, rowSent, seen, late, faults>>

\* The platform has the part; the loop does not know it yet.
Post(l) ==
  /\ At(l, "post")
  /\ Go(l, "posted")
  /\ seen' = [seen EXCEPT ![RowOf(l)][loops[l].part] = "posted"]
  /\ late' = IF Withdrawn(RowOf(l)) THEN [late EXCEPT ![RowOf(l)] = @ + 1] ELSE late
  /\ UNCHANGED <<vars, partSent, rowSent, faults>>

\* Nothing was sent: no connection, no sequence number, a missing file, an
\* error of the platform.
Refuse(l) ==
  /\ At(l, "post")
  /\ Go(l, "fail") \/ Go(l, "giveup")
  /\ UNCHANGED <<vars, partSent, rowSent, seen, late, faults>>

\* The answer never arrives, or after the deadline.
LoseAnswer(l) ==
  /\ At(l, "posted")
  /\ Go(l, "fail")
  /\ UNCHANGED <<vars, partSent, rowSent, seen, late, faults>>

\* A sent part whose message id cannot be stored is not to be retried.
UncertainRetried == "fail"
Uncertain == "giveup"

Heard(d, p, how) == seen' = [seen EXCEPT ![d][p] = how]

\* The platform confirms a tracked part.  An answer with a message id becomes
\* a receipt at once; one without leaves that to KeepPart.
Answer(l) ==
  /\ At(l, "posted") /\ Tracked(RowOf(l))
  /\ \/ /\ Heard(RowOf(l), loops[l].part, "confirmed")
        /\ partSent' = partSent \cup {<<RowOf(l), loops[l].part>>}
        /\ Go(l, "keep")
     \/ /\ Heard(RowOf(l), loops[l].part, "confirmed")
        /\ Go(l, Uncertain)
        /\ UNCHANGED partSent
     \/ /\ Heard(RowOf(l), loops[l].part, "unnamed")
        /\ Go(l, "keep")
        /\ UNCHANGED partSent
  /\ UNCHANGED <<vars, rowSent, late, faults>>

\* Connectors without part receipts go straight to the next part.
AnswerUntracked(l) ==
  /\ At(l, "posted") /\ ~ Tracked(RowOf(l))
  /\ Heard(RowOf(l), loops[l].part, "confirmed")
  /\ loops' = [loops EXCEPT ![l] = NextPart(@)]
  /\ UNCHANGED <<vars, partSent, rowSent, late, faults>>

\* The receipt of the part, unless it is there; or the write fails.
KeepPart(l) ==
  /\ At(l, "keep")
  /\ \/ /\ partSent' = partSent \cup {<<RowOf(l), loops[l].part>>}
        /\ loops' = [loops EXCEPT ![l] = NextPart(@)]
     \/ Go(l, "fail") /\ UNCHANGED partSent
  /\ UNCHANGED <<vars, rowSent, seen, late, faults>>

-----------------------------------------------------------------------------
(* Deliver returned.                                                       *)

MarkRow(l) ==
  /\ At(l, "mark")
  /\ \/ rowSent' = rowSent \cup {RowOf(l)} /\ Go(l, "ack")
     \/ Go(l, "fail") /\ UNCHANGED rowSent
  /\ UNCHANGED <<vars, partSent, seen, late, faults>>

\* What became of the report of l: the outbox takes it, the lease is stale, or
\* the transaction fails; the last two are only logged.
Unreported(l) ==
  /\ UNCHANGED vars
  /\ \/ /\ ~ (outbox[RowOf(l)].status = "sending" /\ LeaseMatches(outbox[RowOf(l)], ReceiptOf(l)))
        /\ UNCHANGED faults
     \/ faults < MaxFaults /\ faults' = faults + 1

AckRow(l) ==
  /\ At(l, "ack")
  /\ \/ Ack(RowOf(l), ReceiptOf(l)) /\ UNCHANGED faults
     \/ Unreported(l)
  /\ Rest(l)
  /\ UNCHANGED <<partSent, rowSent, seen, late>>

FailRow(l) ==
  /\ At(l, "fail") \/ At(l, "giveup")
  /\ \/ Fail(RowOf(l), ReceiptOf(l), At(l, "fail")) /\ UNCHANGED faults
     \/ Unreported(l)
  /\ Rest(l)
  /\ UNCHANGED <<partSent, rowSent, seen, late>>

-----------------------------------------------------------------------------
(* What goes on around the loops.                                          *)

RunsGoOn ==
  /\ \E r \in Runs : RunStep(r)
  /\ UNCHANGED workerVars

\* The process stops and comes back; its leases stay until they run out.
Crash ==
  /\ faults < MaxFaults /\ faults' = faults + 1
  /\ Restart
  /\ loops' = [l \in Loops |-> Idle]
  /\ UNCHANGED <<partSent, rowSent, seen, late>>

NoDeadline(l) == loops[l].step \in Sending \cup {"idle"}
\* Time may pass for l: it rests, or is in Deliver before the deadline.
InTime(l) == At(l, "idle") \/ (loops[l].step \in Sending /\ loops[l].left > 0)

TimePasses ==
  /\ \A l \in Loops : InTime(l)
  /\ Tick
  /\ loops' = [l \in Loops |-> [loops[l] EXCEPT !.left = Down(@)]]
  /\ UNCHANGED <<partSent, rowSent, seen, late, faults>>

LoopStep(l) ==
  \/ \E d \in RowIds : LeaseRow(l, d)
  \/ LeaseNothing(l)
  \/ CheckRow(l)
  \/ EnsureRow(l)
  \/ CheckPart(l)
  \/ EnsurePart(l)
  \/ Post(l)
  \/ Refuse(l)
  \/ LoseAnswer(l)
  \/ Answer(l)
  \/ AnswerUntracked(l)
  \/ KeepPart(l)
  \/ MarkRow(l)
  \/ AckRow(l)
  \/ FailRow(l)

WorkersNext ==
  \/ RunsGoOn
  \/ \E l \in Loops : LoopStep(l)
  \/ Crash
  \/ TimePasses

WorkersSpec == WorkersInit /\ [][WorkersNext]_allVars

\* Each loop polls and its calls return; time passes.  Nothing is assumed of
\* the runs.
FairWorkers == /\ WorkersSpec
               /\ \A l \in Loops : WF_allVars(LoopStep(l))
               /\ WF_allVars(TimePasses)

-----------------------------------------------------------------------------
(* Properties.                                                             *)

Confirmed(d, p) == seen[d][p] \in {"unnamed", "confirmed"}

\* A part that a platform confirmed to a connector with part receipts is never
\* sent again once its receipt is stored.  When the receipt could not be stored
\* it is not either, if the answer had a message id and neither the process nor
\* the FAIL that says so is lost as well.  The exception is a part whose answer
\* had no message id: markPlatformDeliveryPartSent failing after it is an error
\* like any other, and the part is sent again with the row.
ConfirmedOnce ==
  [][\A d \in RowIds, p \in Parts :
       /\ Tracked(d) /\ Confirmed(d, p)
       /\ PartReceipt(d, p) \/ (faults = 0 /\ seen[d][p] = "confirmed")
       => Confirmed(d, p)']_allVars

\* Of every connector: no error of the database makes a loop take a
\* confirmed part for one that was never sent.
ErrorsAreNotUnsent ==
  [][\A d \in RowIds, p \in Parts :
       Confirmed(d, p) => Confirmed(d, p)']_allVars

\* No row is reported delivered before every part of it reached the platform.
DeliveredWasSent ==
  \A d \in RowIds : outbox[d].status = "delivered" =>
    \A p \in Parts : seen[d][p] # "unsent"

\* Two loops never send live rows of one conversation at the same time, though
\* they share one lease owner: no lease runs out under a sender.
OneSenderPerConversation ==
  \A l, k \in Loops :
    /\ l # k /\ Busy(l) /\ Busy(k) /\ SameConversation(RowOf(l), RowOf(k))
    => Withdrawn(RowOf(l)) \/ Withdrawn(RowOf(k))

\* Of a row that was cancelled or deleted while a loop had it, at most the one
\* part that was already on its way still reaches the platform.
WithdrawnStops == \A d \in RowIds : Tracked(d) => late[d] <= 1

\* Members see the rows of a conversation in order: once a part of a row
\* arrived, no part of an earlier one does, unless that one was withdrawn in
\* the hands of its sender.
ShownInOrder ==
  [][\A d, e \in RowIds :
       /\ d < e /\ SameConversation(d, e)
       /\ \E p \in Parts : seen[e][p] # "unsent"
       /\ seen'[d] # seen[d]
       => Withdrawn(d)]_allVars

\* Every row is settled in the end.
RowsSettle == \A d \in RowIds : Open(outbox[d]) ~> ~ Open(outbox[d])
=============================================================================
