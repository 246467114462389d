------------------------------- MODULE Outbox -------------------------------
(***************************************************************************)
(* The reply outbox of the runtime: the tables agent_runs and              *)
(* agent_deliveries, and every transaction of src/go that moves a row of   *)
(* either.  The database has one connection (SetMaxOpenConns(1)), so each  *)
(* transaction is one action.  A delivery row is named by its place in the *)
(* order of the SQLite rowids, a run by its place in the order of          *)
(* created_at.  Time is kept in countdown timers: what is left of a lease, *)
(* and of a next_attempt_at.                                               *)
(***************************************************************************)
EXTENDS Integers, FiniteSets

CONSTANTS
  NumRuns,      \* runs that may be accepted
  ConvOf,       \* run -> (transport, instance, conversation_ref)
  MemberOf,     \* run -> sender_ref
  GroupRuns,    \* runs of group conversations
  MediaRuns,    \* runs whose work leaves media evidence and a checkpoint
  Consumers,    \* lease owners
  MaxRows,      \* bound: delivery rows
  MaxSegments,  \* bound: text segments of one reply
  MaxBatch,     \* bound: the LIMIT of a lease request
  MaxAttempts,  \* retryable failures stop at this attempt (5 in the code)
  LeaseCap,     \* bound: leases of one row, whatever their reason
  LeaseTime,    \* duration of a lease
  Backoff,      \* attempt -> wait before the next one
  Delays        \* what may be left of the typing budget of a reply

Runs == 1..NumRuns
RowIds == 1..MaxRows
NoRun == 0
NoTask == 0
NoOwner == "none"
NoReceipt == [owner |-> NoOwner, attempts |-> 0]

ASSUME OutboxAssumption ==
  /\ NumRuns \in Nat /\ MaxRows \in Nat /\ MaxSegments \in Nat
  /\ MaxBatch \in Nat /\ MaxAttempts \in Nat /\ LeaseCap \in Nat
  /\ LeaseTime \in Nat \ {0}
  /\ Backoff \in [1..LeaseCap -> Nat]
  /\ Delays \subseteq Nat
  /\ GroupRuns \subseteq Runs /\ MediaRuns \subseteq Runs
  /\ NoOwner \notin Consumers

RunStates == {"absent", "queued", "running", "responding", "delivered",
              "failed", "cancelled"}
Statuses == {"none", "pending", "sending", "delivered", "failed", "cancelled",
             "deleted"}

VARIABLES
  runs,    \* agent_runs; input says whether input_cipher is still there,
           \* retired whether the task intent has expired
  working, \* runs a worker goroutine holds between claim and outcome
  outbox,  \* agent_deliveries, in the order of insertion
  nrows    \* rows inserted so far, those deleted since included

vars == <<runs, working, outbox, nrows>>

RunRecord == [state : RunStates, input : BOOLEAN, retired : BOOLEAN,
              task : Runs \cup {NoTask}, rev : 0..NumRuns]

Delivery == [run : Runs \cup {NoRun}, phase : {"progress", "terminal"},
             status : Statuses, attempts : 0..LeaseCap,
             owner : Consumers \cup {NoOwner}, lease : Nat, wait : Nat]

Receipts == [owner : Consumers, attempts : 1..LeaseCap] \cup {NoReceipt}

NoRow == [run |-> NoRun, phase |-> "terminal", status |-> "none",
          attempts |-> 0, owner |-> NoOwner, lease |-> 0, wait |-> 0]

\* The tables have their shape: rows fill the outbox from the bottom, and each
\* belongs to a run.
TypeOK ==
  /\ runs \in [Runs -> RunRecord]
  /\ working \in SUBSET Runs
  /\ outbox \in [RowIds -> Delivery]
  /\ nrows \in 0..MaxRows
  /\ \A d \in RowIds : IF d <= nrows THEN outbox[d].run \in Runs /\ outbox[d].status # "none"
                       ELSE outbox[d] = NoRow

Init ==
  /\ runs = [r \in Runs |-> [state |-> "absent", input |-> FALSE, retired |-> FALSE,
                             task |-> NoTask, rev |-> 0]]
  /\ working = {}
  /\ outbox = [d \in RowIds |-> NoRow]
  /\ nrows = 0

-----------------------------------------------------------------------------
(* Queries over the two tables.                                            *)

Open(row) == row.status \in {"pending", "sending"}

SameConversation(d, e) == /\ outbox[d].run # NoRun /\ outbox[e].run # NoRun
                          /\ ConvOf[outbox[d].run] = ConvOf[outbox[e].run]

\* A newer revision of the run's task exists.
Superseded(r) ==
  \E n \in Runs : /\ runs[r].task # NoTask
                  /\ runs[n].task = runs[r].task
                  /\ runs[n].rev > runs[r].rev

Announced(r) == \E d \in RowIds : /\ outbox[d].run = r
                                  /\ outbox[d].phase = "progress"
                                  /\ outbox[d].status # "cancelled"

\* A newer run of the member already has its terminal reply on the way.
StaleReply(r) ==
  /\ r \in GroupRuns \ MediaRuns
  /\ \E d \in RowIds :
       /\ outbox[d].run # NoRun /\ outbox[d].run > r
       /\ ConvOf[outbox[d].run] = ConvOf[r]
       /\ MemberOf[outbox[d].run] = MemberOf[r]
       /\ outbox[d].phase = "terminal"
       /\ outbox[d].status \in {"sending", "delivered"}

Cancelled(row) == [row EXCEPT !.status = "cancelled", !.owner = NoOwner,
                              !.lease = 0, !.wait = 0]

\* The table after the rows of S are cancelled.
CancelRows(S) == [d \in RowIds |-> IF d \in S THEN Cancelled(outbox[d]) ELSE outbox[d]]

-----------------------------------------------------------------------------
(* Admission of a transport event, and the queue.                          *)

To(run, state) == [run EXCEPT !.state = state]

\* input_cipher = NULL goes with the state.
Closed(run, state) == [run EXCEPT !.state = state, !.input = FALSE]

\* Runs are accepted in the order of created_at.
NextRun(r) == /\ runs[r].state = "absent"
              /\ \A s \in Runs : s < r => runs[s].state # "absent"

Admitted(t, v) == [state |-> "queued", input |-> TRUE, retired |-> FALSE,
                   task |-> t, rev |-> v]

\* An event with no task intent.
AcceptChat(r) ==
  /\ NextRun(r)
  /\ runs' = [runs EXCEPT ![r] = Admitted(NoTask, 0)]
  /\ UNCHANGED <<working, outbox, nrows>>

\* An event that opens a task of its own.
AcceptNewTask(r) ==
  /\ NextRun(r)
  /\ runs' = [runs EXCEPT ![r] = Admitted(r, 1)]
  /\ UNCHANGED <<working, outbox, nrows>>

SameScope(p, r) == /\ ConvOf[p] = ConvOf[r] /\ MemberOf[p] = MemberOf[r]
                   /\ runs[p].task # NoTask

\* "continue", "accepted" and "rejected" join the revision they refer to.
AcceptFollowUp(r, p) ==
  /\ NextRun(r) /\ SameScope(p, r)
  /\ runs' = [runs EXCEPT ![r] = Admitted(runs[p].task, runs[p].rev)]
  /\ UNCHANGED <<working, outbox, nrows>>

\* "correction", "redo" and "stop" open the next revision: what the older
\* ones still have queued, running or in the outbox is cancelled with it.
AcceptRevision(r, p) ==
  /\ NextRun(r) /\ SameScope(p, r)
  /\ LET older == {n \in Runs : runs[n].task = runs[p].task} IN
     /\ \E v \in 1..NumRuns :
          /\ \A n \in older : runs[n].rev < v
          /\ \E n \in older : runs[n].rev = v - 1
          /\ runs' = [n \in Runs |->
               IF n = r THEN Admitted(runs[p].task, v)
               ELSE IF n \in older /\ runs[n].state \in {"queued", "running", "responding"}
               THEN To(runs[n], "cancelled")
               ELSE runs[n]]
     /\ outbox' = CancelRows({d \in RowIds : outbox[d].run \in older /\ Open(outbox[d])})
  /\ UNCHANGED <<working, nrows>>

\* A burst folds a queued sibling into a newer run: only the state changes.
CoalesceRun(r) ==
  /\ runs[r].state = "queued"
  /\ runs' = [runs EXCEPT ![r] = To(@, "cancelled")]
  /\ UNCHANGED <<working, outbox, nrows>>

\* A worker takes a queued run (the guarded UPDATE of processNext).  The lane
\* condition of the SELECT before it gives way after ten minutes, so no order
\* of claims is ruled out here.
ClaimRun(r) ==
  /\ runs[r].state = "queued"
  /\ runs' = [runs EXCEPT ![r] = To(@, "running")]
  /\ working' = working \cup {r}
  /\ UNCHANGED <<outbox, nrows>>

-----------------------------------------------------------------------------
(* What a worker does with the run it holds.                               *)

Opened(run, r) == [run EXCEPT !.task = r, !.rev = 1]

Posted(r, phase, wait) == [NoRow EXCEPT !.run = r, !.phase = phase,
                                        !.status = "pending", !.wait = wait]

\* A costly tool gives the run a task of its own, unless it has one.
AdoptTask(r) ==
  /\ r \in working /\ runs[r].task = NoTask
  /\ runs' = [runs EXCEPT ![r] = Opened(@, r)]
  /\ UNCHANGED <<working, outbox, nrows>>

EnqueueProgress(r) ==
  /\ r \in working
  /\ ~ Superseded(r) /\ runs[r].state # "cancelled"
  /\ ~ Announced(r)
  /\ nrows < MaxRows
  /\ nrows' = nrows + 1
  /\ outbox' = [outbox EXCEPT ![nrows + 1] = Posted(r, "progress", 0)]
  /\ UNCHANGED <<runs, working>>

AnsweredKeepingInput(run, failure) ==
  To(run, IF failure THEN "failed" ELSE "responding")
\* The run after its terminal rows were written.
Answered(run, failure) ==
  Closed(run, IF failure THEN "failed" ELSE "responding")

\* n segments, the first held back for the typing delay, the others paced.
EnqueueTerminal(r, n, delay, failure) ==
  /\ r \in working
  /\ ~ Superseded(r) /\ runs[r].state # "cancelled"
  /\ ~ StaleReply(r)
  /\ nrows + n <= MaxRows
  /\ nrows' = nrows + n
  /\ outbox' = [d \in RowIds |->
       IF d \in nrows + 1 .. nrows + n
       THEN Posted(r, "terminal", delay + (d - nrows - 1))
       ELSE IF outbox[d].run = r /\ outbox[d].phase = "progress" /\ outbox[d].status = "pending"
       THEN Cancelled(outbox[d])
       ELSE outbox[d]]
  /\ runs' = [runs EXCEPT ![r] = Answered(@, failure)]
  /\ working' = working \ {r}

\* The reply is dropped: stale, superseded, or a failure nobody is told of.
FinishWithoutDelivery(r, state) ==
  /\ r \in working
  /\ runs' = [runs EXCEPT ![r] = Closed(@, state)]
  /\ outbox' = CancelRows({d \in RowIds : outbox[d].run = r /\ outbox[d].status = "pending"})
  /\ working' = working \ {r}
  /\ UNCHANGED nrows

\* The stored attachments cannot be read back.
RestoreFails(r) ==
  /\ r \in working
  /\ runs' = [runs EXCEPT ![r] = To(@, "failed")]
  /\ working' = working \ {r}
  /\ UNCHANGED <<outbox, nrows>>

\* The worker goes away without an outcome: its context was cancelled, or
\* the outbox transaction itself failed.
AbandonRun(r) ==
  /\ r \in working
  /\ working' = working \ {r}
  /\ UNCHANGED <<runs, outbox, nrows>>

-----------------------------------------------------------------------------
(* Operators and restarts.                                                 *)

CancelRun(r) ==
  /\ runs[r].state # "absent"
  /\ runs' = IF runs[r].state \in {"delivered", "failed"} THEN runs
             ELSE [runs EXCEPT ![r] = Closed(@, "cancelled")]
  /\ outbox' = CancelRows({d \in RowIds : outbox[d].run = r /\ Open(outbox[d])})
  /\ UNCHANGED <<working, nrows>>

Restored(run) == [run EXCEPT !.input = TRUE]
Retired(run) == [run EXCEPT !.retired = TRUE, !.input = FALSE]
Deleted(row) == [row EXCEPT !.status = "deleted", !.owner = NoOwner, !.lease = 0, !.wait = 0]

\* What retryTask asks of a run before it queues it again.
Retryable(r) == /\ runs[r].input /\ runs[r].state \in {"failed", "cancelled"}
                /\ ~ runs[r].retired /\ ~ Superseded(r)

Deletes(r, d) == /\ outbox[d].run = r /\ outbox[d].phase = "terminal"
                 /\ outbox[d].status \notin {"delivered", "deleted"}

RetryTask(r) ==
  /\ Retryable(r)
  /\ runs' = [runs EXCEPT ![r] = To(@, "queued")]
  /\ outbox' = [d \in RowIds |-> IF Deletes(r, d) THEN Deleted(outbox[d]) ELSE outbox[d]]
  /\ UNCHANGED <<working, nrows>>

\* "continue" finds the run of its task failed with a checkpoint, and puts its
\* input back: the first half of resumeTaskAfterContinue, RetryTask the second.
RestoreInput(r, p) ==
  /\ r \in working /\ p \in MediaRuns
  /\ runs[p].state = "failed" /\ ~ runs[p].retired
  /\ runs[p].task # NoTask /\ runs[p].task = runs[r].task /\ runs[p].rev = runs[r].rev
  /\ runs' = [runs EXCEPT ![p] = Restored(@)]
  /\ UNCHANGED <<working, outbox, nrows>>

\* The intent of a run settled a month ago expires, and its text goes.
Retire(r) ==
  /\ runs[r].task # NoTask /\ runs[r].state \in {"delivered", "failed", "cancelled"}
  /\ \A n \in working : runs[n].task # runs[r].task
  /\ runs' = [runs EXCEPT ![r] = Retired(@)]
  /\ UNCHANGED <<working, outbox, nrows>>

\* The process stops and comes back: interrupted runs are queued again.
Restart ==
  /\ working' = {}
  /\ runs' = [r \in Runs |-> IF runs[r].state = "running" /\ runs[r].input
                             THEN To(runs[r], "queued") ELSE runs[r]]
  /\ UNCHANGED <<outbox, nrows>>

-----------------------------------------------------------------------------
(* Leasing and settling.                                                   *)

DoomedBySupersedure(d) == Open(outbox[d]) /\ Superseded(outbox[d].run)
\* First statement of a lease: rows of dead runs are cancelled.
Doomed(d) == /\ Open(outbox[d])
             /\ runs[outbox[d].run].state = "cancelled" \/ Superseded(outbox[d].run)

ExpiredUnlessLast(d) == /\ outbox[d].status = "sending" /\ outbox[d].lease = 0
                        /\ outbox[d].attempts < MaxAttempts
\* Second statement: a sending row whose lease ran out is pending again.
Expired(d) == outbox[d].status = "sending" /\ outbox[d].lease = 0

Reclaimed(row) == [row EXCEPT !.status = "pending", !.owner = NoOwner]

\* The table t the third statement selects from.
Swept == [d \in RowIds |-> IF Doomed(d) THEN Cancelled(outbox[d])
                           ELSE IF Expired(d) THEN Reclaimed(outbox[d])
                           ELSE outbox[d]]

BlocksWhileSending(t, e, d) == t[e].status = "sending" /\ e # d /\ SameConversation(e, d)
BlocksWhilePending(t, e, d) == t[e].status = "pending" /\ e < d /\ SameConversation(e, d)
\* e keeps d from being sent: the conversation is busy, or e came first.
Blocks(t, e, d) == /\ t[e].status = "sending" \/ (t[e].status = "pending" /\ e < d)
                   /\ e # d /\ SameConversation(e, d)

Ready(t, d) == /\ t[d].status = "pending" /\ t[d].wait = 0
               /\ \A e \in RowIds : ~ Blocks(t, e, d)

Sent(row, c) == [row EXCEPT !.status = "sending", !.attempts = @ + 1,
                            !.owner = c, !.lease = LeaseTime]

\* A consumer takes the first n rows that are ready.
Lease(c, n) ==
  LET t     == Swept
      ready == {d \in RowIds : Ready(t, d)}
      taken == {d \in ready : Cardinality({e \in ready : e < d}) < n}
  IN /\ \A d \in taken : t[d].attempts < LeaseCap
     /\ outbox' = [d \in RowIds |-> IF d \in taken THEN Sent(t[d], c) ELSE t[d]]
     /\ UNCHANGED <<runs, working, nrows>>

\* deliveryLeaseMatches: a live lease, and the receipt of its latest owner.
LeaseMatches(row, receipt) ==
  /\ row.lease > 0
  /\ IF receipt = NoReceipt THEN row.attempts = 1
     ELSE receipt = [owner |-> row.owner, attempts |-> row.attempts]

Settled(row, status) == [row EXCEPT !.status = status, !.owner = NoOwner,
                                    !.lease = 0, !.wait = 0]

\* The wait before the next attempt grows with the attempts made.
Requeued(row) == [Settled(row, "pending") EXCEPT !.wait = Backoff[row.attempts]]

CompletesRunAlone(d) == outbox[d].phase = "terminal"
\* No other terminal row of the run is left undelivered.
CompletesRun(d) ==
  /\ outbox[d].phase = "terminal"
  /\ \A e \in RowIds : /\ e # d /\ outbox[e].phase = "terminal"
                        /\ outbox[e].run = outbox[d].run
                        => outbox[e].status \in {"delivered", "deleted"}

\* The delivery was confirmed; the last terminal row completes the run.
Ack(d, receipt) ==
  /\ outbox[d].status = "sending" /\ LeaseMatches(outbox[d], receipt)
  /\ outbox' = [outbox EXCEPT ![d] = Settled(@, "delivered")]
  /\ LET r == outbox[d].run IN
     runs' = IF CompletesRun(d) /\ runs[r].state \notin {"failed", "cancelled"}
             THEN [runs EXCEPT ![r] = To(@, "delivered")] ELSE runs
  /\ UNCHANGED <<working, nrows>>

\* The send failed: the row waits for another attempt, or, when that was the
\* last one or a retry is useless, fails and takes the run with it.
Fail(d, receipt, retryable) ==
  LET again == retryable /\ outbox[d].attempts < MaxAttempts
      r == outbox[d].run
  IN
  /\ outbox[d].status = "sending" /\ LeaseMatches(outbox[d], receipt)
  /\ outbox' = [outbox EXCEPT ![d] =
       IF again THEN Requeued(@) ELSE Settled(@, "failed")]
  /\ runs' = IF /\ ~ again /\ outbox[d].phase = "terminal"
                /\ runs[r].state \notin {"delivered", "cancelled"}
             THEN [runs EXCEPT ![r] = To(@, "failed")] ELSE runs
  /\ UNCHANGED <<working, nrows>>

Down(t) == IF t > 0 THEN t - 1 ELSE 0
Aged(row) == [row EXCEPT !.lease = Down(@), !.wait = Down(@)]

\* One unit of time passes.
Tick ==
  /\ outbox' = [d \in RowIds |-> Aged(outbox[d])]
  /\ UNCHANGED <<runs, working, nrows>>

-----------------------------------------------------------------------------
RunStep(r) ==
  \/ AcceptChat(r)
  \/ AcceptNewTask(r)
  \/ \E p \in Runs : AcceptFollowUp(r, p)
  \/ \E p \in Runs : AcceptRevision(r, p)
  \/ CoalesceRun(r)
  \/ ClaimRun(r)
  \/ AdoptTask(r)
  \/ EnqueueProgress(r)
  \/ \E n \in 1..MaxSegments, delay \in Delays, failure \in BOOLEAN :
       EnqueueTerminal(r, n, delay, failure)
  \/ \E state \in {"failed", "cancelled"} : FinishWithoutDelivery(r, state)
  \/ RestoreFails(r)
  \/ AbandonRun(r)
  \/ CancelRun(r)
  \/ RetryTask(r)
  \/ \E p \in Runs : RestoreInput(r, p)
  \/ Retire(r)

RowStep(d) ==
  \E receipt \in Receipts :
    \/ Ack(d, receipt)
    \/ \E retryable \in BOOLEAN : Fail(d, receipt, retryable)

Next ==
  \/ \E r \in Runs : RunStep(r)
  \/ \E d \in RowIds : RowStep(d)
  \/ \E c \in Consumers, n \in 1..MaxBatch : Lease(c, n)
  \/ Restart
  \/ Tick

Spec == Init /\ [][Next]_vars

-----------------------------------------------------------------------------
(* Properties.                                                             *)

\* A conversation is served in the order its rows were written: once a row has
\* been handed to a consumer for good (or is in its hands), no earlier row of
\* the conversation can still be sent, whatever expires, is retried, is
\* cancelled or is acknowledged late.
FifoPerConversation ==
  \A d, e \in RowIds :
    /\ e < d /\ d <= nrows /\ SameConversation(d, e)
    /\ outbox[d].status \in {"sending", "delivered", "failed"}
    => ~ Open(outbox[e])

\* A terminal row of the run was neither delivered nor deleted.
Outstanding(r) == \E d \in RowIds : /\ outbox[d].run = r /\ outbox[d].phase = "terminal"
                                     /\ outbox[d].status \notin {"delivered", "deleted"}

\* A run is answered once per attempt: while a terminal row of it may still be
\* sent, no worker generates it again and none can, because its input is gone
\* or it has failed; and the retry of a failed run takes those rows away first.
AnsweredOnce ==
  \A r \in Runs : Outstanding(r) =>
    /\ r \notin working
    /\ runs[r].state \in {"responding", "failed", "cancelled"}
    /\ runs[r].input => runs[r].state = "failed"

\* One worker per run: a run in the hands of a worker cannot be claimed again,
\* even after it was cancelled, superseded or retried behind its back.
OneWorkerPerRun ==
  \A r \in working : /\ runs[r].state \in {"running", "cancelled"}
                     /\ runs[r].state = "cancelled" =>
                          ~ runs[r].input \/ Superseded(r)

\* A member saw the reply of r: some terminal row was delivered, and none was
\* left out.
FullyShown(r) ==
  /\ \E d \in RowIds : /\ outbox[d].run = r /\ outbox[d].phase = "terminal"
                        /\ outbox[d].status = "delivered"
  /\ \A d \in RowIds : outbox[d].run = r /\ outbox[d].phase = "terminal"
                         => outbox[d].status \in {"delivered", "deleted"}

\* The state of a run tells the truth about its rows: responding means a
\* terminal row is still to be sent, delivered means all of them were.
RunOutcome ==
  \A r \in Runs :
    /\ runs[r].state = "responding" =>
         /\ ~ Superseded(r)
         /\ \E d \in RowIds : /\ outbox[d].run = r /\ outbox[d].phase = "terminal"
                              /\ Open(outbox[d])
    /\ runs[r].state = "delivered" => FullyShown(r)

\* A run announces progress once, across workers, restarts and retries.
OneProgress ==
  \A d, e \in RowIds :
    /\ outbox[d].run = outbox[e].run /\ outbox[d].run # NoRun
    /\ outbox[d].phase = "progress" /\ outbox[e].phase = "progress"
    /\ outbox[d].status # "cancelled" /\ outbox[e].status # "cancelled"
    => d = e

\* The fate of a row is final: a late ACK, FAIL, cancel or lease of a stale
\* consumer never moves a row that is settled; a retry deletes it, unless a
\* member has seen it.
SettledForever ==
  [][\A d \in RowIds :
       outbox[d].status \in {"delivered", "failed", "cancelled", "deleted"} =>
         \/ outbox'[d] = outbox[d]
         \/ outbox[d].status \in {"failed", "cancelled"} /\ outbox'[d].status = "deleted"]_vars

\* No consumer is given a row of a run that is cancelled or superseded.
DeadRunsStaySilent ==
  [][\A d \in RowIds :
       outbox'[d].status = "sending" /\ outbox'[d].attempts > outbox[d].attempts
         => runs[outbox[d].run].state # "cancelled" /\ ~ Superseded(outbox[d].run)]_vars

\* Runs that can still change what a member sees have their input or a row:
\* a queued or running run can always be resumed.
LiveRunsKeepInput ==
  \A r \in Runs : runs[r].state \in {"queued", "running"} => runs[r].input

\* A run whose intent has expired never runs again, and its text stays gone:
\* no retry and no "continue" races with the retirement.
RetiredForGood ==
  \A r \in Runs : runs[r].retired =>
    ~ runs[r].input /\ runs[r].state \in {"delivered", "failed", "cancelled"}

\* What the rows promise the members of a conversation, without leases.
Fate(d) == CASE outbox[d].status = "none" -> "unposted"
             [] outbox[d].status \in {"pending", "sending"} -> "open"
             [] outbox[d].status = "delivered" -> "shown"
             [] outbox[d].status \in {"failed", "cancelled", "deleted"} -> "dropped"

lanes == [d \in RowIds |-> IF d <= nrows THEN ConvOf[outbox[d].run] ELSE NoOwner]
fates == [d \in RowIds |-> Fate(d)]

Feed == INSTANCE ConversationFeed WITH
  posted <- nrows, lane <- lanes, fate <- fates,
  Lanes <- {ConvOf[r] : r \in Runs}, NoLane <- NoOwner

\* The outbox implements the feed: each message is shown at most once, in the
\* order of its conversation, and what was shown or dropped stays so.
FeedSpec == Feed!Spec
=============================================================================
