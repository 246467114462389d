--------------------------- MODULE ConnectorsProofs ---------------------------
(***************************************************************************)
(* Proofs about the connectors.  The loops of one platform, for every number *)
(* of loops, rows, parts, faults and every timing that leaves a lease longer *)
(* than a send: a step of the workers is a step of Outbox, so IInv and all *)
(* that follows from it hold here too, and WorkersIInv adds what the loops *)
(* know.  The gateway of a device, for every number of sockets, texts and  *)
(* outages: RealtimeIInv says where a text that has no run yet still is.   *)
(***************************************************************************)
EXTENDS MCConnectors, OutboxProofs, FiniteSetTheorems, SequenceTheorems, TLAPS

\* How long the lease of x has to last at least.
Margin(x) == IF x.step \in {"leased", "ensure"} THEN SendTime ELSE x.left

\* x has the live lease of its row, and will have it when it reports.
Holds(x) == /\ outbox[x.row].status = "sending"
            /\ outbox[x.row].owner = PlatformOwner
            /\ outbox[x.row].lease > Margin(x)

\* What a busy loop x relies on: it holds its row or the row was withdrawn; the
\* parts behind it were sent; the part before it has no receipt; nothing of a
\* withdrawn row was sent while it could still send a part; and every part a
\* platform confirmed has its receipt, unless x is about to give the row up.
LoopSound(x) ==
  x.step # "idle" =>
    /\ x.row \in 1..nrows /\ x.turn > 0
    /\ outbox[x.row].attempts = x.turn
    /\ Holds(x) \/ Withdrawn(x.row)
    /\ x.step \in Sending => \A p \in Parts : p < x.part => seen[x.row][p] # "unsent"
    /\ x.step \in {"posted", "keep"} => seen[x.row][x.part] # "unsent"
    /\ x.step \in {"mark", "ack"} => \A p \in Parts : seen[x.row][p] # "unsent"
    /\ Tracked(x.row) =>
         /\ x.step \in {"current", "post"} => ~ PartReceipt(x.row, x.part)
         /\ x.step = "post" => late[x.row] = 0
         /\ x.step # "giveup" /\ faults = 0 =>
              \A p \in Parts : seen[x.row][p] = "confirmed" => PartReceipt(x.row, p)

GivenUp(d) == \E l \in Loops : At(l, "giveup") /\ RowOf(l) = d

\* What the receipts and the platform say of row d.
RowSound(d) ==
  /\ \A p \in Parts : PartReceipt(d, p) => seen[d][p] # "unsent"
  /\ d \in rowSent \/ outbox[d].status = "delivered" =>
       \A p \in Parts : seen[d][p] # "unsent"
  /\ \A p \in Parts : seen[d][p] # "unsent" => outbox[d].attempts > 0
  /\ late[d] > 0 => Withdrawn(d)
  /\ Tracked(d) =>
       /\ late[d] <= 1
       /\ faults = 0 => \A p \in Parts :
            seen[d][p] = "confirmed" => \/ PartReceipt(d, p) \/ GivenUp(d)
                                        \/ outbox[d].status \in {"failed", "cancelled", "deleted"}

LoopsApart ==
  \A l, k \in Loops : l # k /\ Busy(l) /\ Busy(k) => RowOf(l) # RowOf(k)

\* A row that was ever handed out has no open row before it.
LeasedInOrder ==
  \A d, e \in RowIds :
    d < e /\ SameConversation(d, e) /\ outbox[e].attempts > 0 => ~ Open(outbox[d])

WorkersIInv == /\ IInv
               /\ WorkersTypeOK
               /\ \A l \in Loops : LoopSound(loops[l])
               /\ \A d \in RowIds : RowSound(d)
               /\ LoopsApart
               /\ LeasedInOrder

-----------------------------------------------------------------------------
(* Facts about the tables and the loops.                                   *)

\* The constants have their types.
LEMMA WorkerConstants ==
  /\ NumParts \in Nat \ {0} /\ SendTime \in Nat /\ LeaseTime \in Nat /\ SendTime < LeaseTime
  /\ LeaseCap \in Nat /\ MaxRows \in Nat /\ MaxFaults \in Nat
  /\ PlatformOwner \in Consumers /\ 1 \in 1..MaxBatch /\ 1 \in Parts
  /\ NoOwner \notin Consumers /\ TrackedRuns \subseteq Runs /\ NoRun \notin TrackedRuns
  BY WorkersAssumption, OutboxAssumption DEF Parts, Runs, NoRun

\* A row of the outbox is a delivery; those not inserted yet are blank.
LEMMA RowShape ==
  ASSUME IInv, NEW d \in RowIds
  PROVE  /\ outbox[d] \in Delivery /\ nrows \in Nat
         /\ d > nrows => /\ outbox[d].status = "none" /\ outbox[d].attempts = 0
                         /\ outbox[d].run = NoRun
         /\ d <= nrows => outbox[d].run \in Runs /\ outbox[d].status # "none"
  <1>1. outbox[d] \in Delivery /\ nrows \in Nat
    BY FreeRows DEF IInv, TypeOK
  <1>2. d > nrows => outbox[d] = NoRow
    BY <1>1, FreeRows
  <1>3. d <= nrows => outbox[d].run \in Runs /\ outbox[d].status # "none"
    BY <1>1 DEF IInv, TypeOK
  <1> QED BY <1>1, <1>2, <1>3 DEF NoRow

\* The empty tables and idle loops satisfy the invariant.
LEMMA WorkersInitIInv == WorkersInit => WorkersIInv
  <1> SUFFICES ASSUME WorkersInit PROVE WorkersIInv
    OBVIOUS
  <1>1. IInv
    BY InitIInv DEF WorkersInit
  <1>2. WorkersTypeOK
    BY WorkerConstants DEF WorkersInit, WorkersTypeOK, Loop, Idle, Steps, Sending, Parts
  <1>3. \A l \in Loops : loops[l].step = "idle"
    BY DEF WorkersInit, Idle
  <1>4. ASSUME NEW d \in RowIds PROVE RowSound(d)
    <2>1. /\ outbox[d].status = "none" /\ outbox[d].attempts = 0
          /\ late[d] = 0 /\ partSent = {} /\ rowSent = {}
          /\ \A p \in Parts : seen[d][p] = "unsent"
      BY <1>4 DEF WorkersInit, Init, NoRow
    <2> QED BY <2>1 DEF RowSound, PartReceipt
  <1>5. LeasedInOrder
    BY DEF WorkersInit, Init, NoRow, LeasedInOrder
  <1> QED BY <1>1, <1>2, <1>3, <1>4, <1>5 DEF WorkersIInv, LoopSound, LoopsApart, Busy

-----------------------------------------------------------------------------
(* What others do to the rows a loop may hold.                             *)

SameRow(d) == /\ outbox'[d].run = outbox[d].run
              /\ outbox'[d].attempts = outbox[d].attempts

\* A step of others leaves row d alone, withdraws it, takes it back from a
\* lease that ran out, or inserts it.
Carried(d) ==
  \/ /\ d <= nrows /\ SameRow(d)
     /\ \/ /\ outbox'[d].status = outbox[d].status
           /\ outbox'[d].owner = outbox[d].owner /\ outbox'[d].lease = outbox[d].lease
        \/ /\ outbox'[d].status \in {"cancelled", "deleted"}
           /\ outbox[d].status # "delivered"
        \/ /\ outbox[d].status = "sending" /\ outbox[d].lease = 0
           /\ outbox'[d].status = "pending"
  \/ /\ d > nrows /\ outbox'[d].attempts = 0
     /\ outbox'[d].status \in {"none", "pending"}

\* Cancelling open rows carries every row.
LEMMA CancelCarries ==
  ASSUME IInv, NEW S \in SUBSET RowIds, \A d \in S : Open(outbox[d]),
         outbox' = CancelRows(S), nrows' = nrows
  PROVE  \A d \in RowIds : Carried(d)
  <1> SUFFICES ASSUME NEW d \in RowIds PROVE Carried(d)
    OBVIOUS
  <1>1. outbox'[d] = IF d \in S THEN Cancelled(outbox[d]) ELSE outbox[d]
    BY DEF CancelRows
  <1>2. /\ outbox[d] \in Delivery /\ nrows \in Nat /\ d \in Nat
        /\ d > nrows => outbox[d].status = "none" /\ outbox[d].attempts = 0
    BY RowShape, WorkerConstants DEF RowIds
  <1> QED BY <1>1, <1>2, CancelledRow DEF Carried, SameRow, Open

\* A row that was posted has not been tried.
LEMMA PostedFresh ==
  ASSUME NEW r, NEW phase, NEW wait
  PROVE  Posted(r, phase, wait).attempts = 0 /\ Posted(r, phase, wait).status = "pending"
  BY DEF Posted, NoRow

\* What happens to the runs carries every row.
LEMMA RunStepCarries ==
  ASSUME IInv, IInv', NEW r \in Runs, RunStep(r)
  PROVE  nrows' >= nrows /\ \A d \in RowIds : Carried(d)
  <1> DEFINE carries == nrows' >= nrows /\ \A d \in RowIds : Carried(d)
  <1> SUFFICES carries
    OBVIOUS
  <1>0. nrows \in Nat /\ \A d \in RowIds : d \in Nat
    BY FreeRows, WorkerConstants DEF RowIds
  <1>1. ASSUME UNCHANGED <<outbox, nrows>> PROVE carries
    BY <1>0, <1>1, RowShape DEF Carried, SameRow
  <1>2. ASSUME NEW S \in SUBSET RowIds, \A d \in S : Open(outbox[d]),
               outbox' = CancelRows(S), nrows' = nrows
        PROVE  carries
    BY <1>0, <1>2, CancelCarries
  <1>3. ASSUME NEW p \in Runs, AcceptRevision(r, p) PROVE carries
    <2> DEFINE S == {d \in RowIds : /\ outbox[d].run \in {n \in Runs : runs[n].task = runs[p].task}
                                    /\ Open(outbox[d])}
    <2>1. /\ S \in SUBSET RowIds /\ \A d \in S : Open(outbox[d])
          /\ outbox' = CancelRows(S) /\ nrows' = nrows
      BY <1>3 DEF AcceptRevision
    <2> HIDE DEF S, carries
    <2> QED BY <2>1, <1>2
  <1>4. CASE CancelRun(r)
    <2> DEFINE S == {d \in RowIds : outbox[d].run = r /\ Open(outbox[d])}
    <2>1. /\ S \in SUBSET RowIds /\ \A d \in S : Open(outbox[d])
          /\ outbox' = CancelRows(S) /\ nrows' = nrows
      BY <1>4 DEF CancelRun
    <2> HIDE DEF S, carries
    <2> QED BY <2>1, <1>2
  <1>5. ASSUME NEW state \in {"failed", "cancelled"}, FinishWithoutDelivery(r, state)
        PROVE  carries
    <2> DEFINE S == {d \in RowIds : outbox[d].run = r /\ outbox[d].status = "pending"}
    <2>1. /\ S \in SUBSET RowIds /\ \A d \in S : Open(outbox[d])
          /\ outbox' = CancelRows(S) /\ nrows' = nrows
      BY <1>5 DEF FinishWithoutDelivery, Open
    <2> HIDE DEF S, carries
    <2> QED BY <2>1, <1>2
  <1>6. CASE RetryTask(r)
    <2>1. nrows' = nrows
      BY <1>6 DEF RetryTask
    <2>2. ASSUME NEW d \in RowIds PROVE Carried(d)
      <3>1. /\ outbox[d] \in Delivery /\ d \in Nat
            /\ outbox'[d] = IF Deletes(r, d) THEN Deleted(outbox[d]) ELSE outbox[d]
            /\ d > nrows => /\ outbox[d].status = "none" /\ outbox[d].attempts = 0
                            /\ outbox[d].run = NoRun
        BY <1>0, <1>6, RowShape DEF RetryTask
      <3>2. Deleted(outbox[d]).attempts = outbox[d].attempts
        BY <3>1 DEF Deleted, Delivery
      <3>3. d > nrows => ~ Deletes(r, d)
        BY <3>1 DEF Deletes, Runs, NoRun
      <3> QED BY <1>0, <3>1, <3>2, <3>3, DeletedRow DEF Carried, SameRow, Deletes
    <2> QED BY <1>0, <2>1, <2>2
  <1>7. CASE EnqueueProgress(r)
    <2>1. /\ nrows' = nrows + 1 /\ nrows + 1 \in RowIds
          /\ outbox' = [outbox EXCEPT ![nrows + 1] = Posted(r, "progress", 0)]
          /\ outbox \in [RowIds -> Delivery]
      BY <1>0, <1>7, WorkerConstants DEF EnqueueProgress, RowIds, IInv, TypeOK
    <2>2. ASSUME NEW d \in RowIds PROVE Carried(d)
      <3>1. outbox'[d] = IF d = nrows + 1 THEN Posted(r, "progress", 0) ELSE outbox[d]
        BY <2>1
      <3> HIDE DEF carries
      <3> QED BY <1>0, <3>1, RowShape, PostedFresh DEF Carried, SameRow
    <2> QED BY <1>0, <2>1, <2>2
  <1>8. ASSUME NEW n \in 1..MaxSegments, NEW delay \in Delays, NEW failure \in BOOLEAN,
               EnqueueTerminal(r, n, delay, failure)
        PROVE  carries
    <2>1. nrows' = nrows + n /\ n \in Nat
      BY <1>8, OutboxAssumption DEF EnqueueTerminal
    <2>2. ASSUME NEW d \in RowIds PROVE Carried(d)
      <3>1. CASE d \in nrows + 1 .. nrows + n
        <4>1. outbox'[d] = Posted(r, "terminal", delay + (d - nrows - 1)) /\ d > nrows
          BY <1>0, <1>8, <2>1, <3>1 DEF EnqueueTerminal
        <4> QED BY <4>1, PostedFresh DEF Carried
      <3>2. CASE d \notin nrows + 1 .. nrows + n
        <4>1. outbox'[d] = IF /\ outbox[d].run = r /\ outbox[d].phase = "progress"
                              /\ outbox[d].status = "pending"
                           THEN Cancelled(outbox[d]) ELSE outbox[d]
          BY <1>8, <3>2 DEF EnqueueTerminal
        <4> QED BY <1>0, <4>1, RowShape, CancelledRow DEF Carried, SameRow
      <3> QED BY <3>1, <3>2
    <2> QED BY <1>0, <2>1, <2>2
  <1>9. CASE UNCHANGED <<outbox, nrows>>
    BY <1>9, <1>1
  <1> HIDE DEF carries
  <1>10. ASSUME \/ AcceptChat(r) \/ AcceptNewTask(r) \/ (\E p \in Runs : AcceptFollowUp(r, p))
                \/ CoalesceRun(r) \/ ClaimRun(r) \/ AdoptTask(r) \/ RestoreFails(r)
               \/ AbandonRun(r) \/ (\E p \in Runs : RestoreInput(r, p)) \/ Retire(r)
        PROVE  UNCHANGED <<outbox, nrows>>
    BY <1>10 DEF AcceptChat, AcceptNewTask, AcceptFollowUp, CoalesceRun, ClaimRun, AdoptTask,
                RestoreFails, AbandonRun, RestoreInput, Retire
  <1> QED BY <1>3, <1>4, <1>5, <1>6, <1>7, <1>8, <1>9, <1>10 DEF RunStep

\* A lease hands out the first ready row, which nobody holds and no earlier row
\* of its conversation waits for, and carries the others.
LEMMA LeaseCarries ==
  ASSUME IInv, Lease(PlatformOwner, 1), NEW d \in RowIds
  PROVE  /\ ~ FirstReady(d) => Carried(d)
         /\ FirstReady(d) =>
              /\ d <= nrows
              /\ outbox'[d].run = outbox[d].run
              /\ outbox'[d].attempts = outbox[d].attempts + 1
              /\ outbox[d].attempts < LeaseCap
              /\ outbox'[d].status = "sending" /\ outbox'[d].owner = PlatformOwner
              /\ outbox'[d].lease = LeaseTime
              /\ \/ outbox[d].status = "pending"
                 \/ outbox[d].status = "sending" /\ outbox[d].lease = 0
              /\ \A e \in RowIds : e < d /\ SameConversation(e, d) => ~ Open(outbox'[e])
  <1> DEFINE t == Swept
             ready == {e \in RowIds : Ready(t, e)}
             taken == {e \in ready : Cardinality({f \in ready : f < e}) < 1}
  <1>1. /\ \A e \in taken : e \in RowIds /\ Ready(t, e) /\ t[e].attempts < LeaseCap
        /\ \A e \in RowIds : outbox'[e] = IF e \in taken THEN Sent(t[e], PlatformOwner) ELSE t[e]
        /\ nrows' = nrows
    BY DEF Lease
  <1>2. \A e \in RowIds : e \in taken <=> FirstReady(e)
    <2> TAKE e \in RowIds
    <2> DEFINE before == {f \in ready : f < e}
    <2>1. before \subseteq 1..MaxRows /\ e \in Nat /\ \A f \in ready : f \in Nat
      BY WorkerConstants DEF RowIds
    <2>2. IsFiniteSet(before)
      BY <2>1, FS_Interval, FS_Subset, WorkerConstants
    <2>3. Cardinality(before) \in Nat /\ (Cardinality(before) = 0 <=> before = {})
      BY <2>2, FS_CardinalityType, FS_EmptySet
    <2>4. e \in taken <=> e \in ready /\ before = {}
      BY <2>3
    <2>5. before = {} <=> \A f \in ready : e <= f
      BY <2>1
    <2> QED BY <2>4, <2>5 DEF FirstReady
  <1>3. \A e \in RowIds :
          /\ outbox[e] \in Delivery /\ t[e] \in Delivery
          /\ t[e].run = outbox[e].run /\ t[e].attempts = outbox[e].attempts
          /\ \/ t[e] = outbox[e] /\ ~ Expired(e)
             \/ Open(outbox[e]) /\ t[e].status = "cancelled"
             \/ Expired(e) /\ t[e].status = "pending"
    <2> TAKE e \in RowIds
    <2>1. outbox[e] \in Delivery
      BY RowShape
    <2>2. t[e] = IF Doomed(e) THEN Cancelled(outbox[e])
                 ELSE IF Expired(e) THEN Reclaimed(outbox[e]) ELSE outbox[e]
      BY DEF Swept
    <2> HIDE DEF t
    <2> QED BY <2>1, <2>2, CancelledRow, ReclaimedRow DEF Doomed
  <1> HIDE DEF t, taken, ready
  <1>4. ASSUME ~ FirstReady(d) PROVE Carried(d)
    <2>1. outbox'[d] = t[d]
      BY <1>1, <1>2, <1>4
    <2>2. /\ d \in Nat /\ nrows \in Nat
          /\ d > nrows => outbox[d].status = "none" /\ outbox[d].attempts = 0
      BY RowShape, WorkerConstants DEF RowIds
    <2> QED BY <2>1, <2>2, <1>3 DEF Carried, SameRow, Expired, Open
  <1>5. ASSUME FirstReady(d)
        PROVE  /\ d <= nrows
               /\ outbox'[d].run = outbox[d].run
               /\ outbox'[d].attempts = outbox[d].attempts + 1
               /\ outbox[d].attempts < LeaseCap
               /\ outbox'[d].status = "sending" /\ outbox'[d].owner = PlatformOwner
               /\ outbox'[d].lease = LeaseTime
               /\ \/ outbox[d].status = "pending"
                  \/ outbox[d].status = "sending" /\ outbox[d].lease = 0
    <2>1. d \in taken /\ t[d].status = "pending"
      BY <1>1, <1>2, <1>5 DEF Ready
    <2>2. /\ outbox'[d] = Sent(t[d], PlatformOwner) /\ t[d].attempts < LeaseCap
          /\ t[d] \in Delivery /\ t[d].attempts = outbox[d].attempts
          /\ t[d].run = outbox[d].run
      BY <1>1, <1>3, <2>1
    <2>3. /\ outbox'[d].run = t[d].run /\ outbox'[d].attempts = t[d].attempts + 1
          /\ outbox'[d].status = "sending" /\ outbox'[d].owner = PlatformOwner
          /\ outbox'[d].lease = LeaseTime
      BY <2>2 DEF Sent, Delivery
    <2>4. outbox[d].status = "pending" \/ (outbox[d].status = "sending" /\ outbox[d].lease = 0)
      BY <1>3, <2>1 DEF Expired
    <2>5. d <= nrows
      BY <2>4, RowShape, WorkerConstants DEF RowIds
    <2> QED BY <2>2, <2>3, <2>4, <2>5
  <1>6. ASSUME FirstReady(d), NEW e \in RowIds, e < d, SameConversation(e, d)
        PROVE  ~ Open(outbox'[e])
    <2>1. d \in taken
      BY <1>2, <1>6
    <2>2. ~ Blocks(t, e, d)
      BY <2>1, <1>1 DEF Ready
    <2>3. e # d /\ t[e].status \notin {"pending", "sending"}
      BY <2>2, <1>6, WorkerConstants DEF Blocks, RowIds
    <2>4. e \notin taken
      BY <2>3, <1>1 DEF Ready
    <2> QED BY <2>3, <2>4, <1>1 DEF Open
  <1> QED BY <1>4, <1>5, <1>6

-----------------------------------------------------------------------------
(* How the invariant is carried over.                                      *)

\* A loop goes on trusting its row while others are at work.
LEMMA CarriedLoop ==
  ASSUME IInv, nrows' \in Nat, nrows' >= nrows,
         UNCHANGED <<partSent, rowSent, seen, late>>, faults' = faults,
         NEW x \in Loop, LoopSound(x),
         \A d \in RowIds : x.step # "idle" /\ d = x.row => Carried(d)
  PROVE  LoopSound(x)'
  <1> SUFFICES ASSUME x.step # "idle" PROVE LoopSound(x)'
    BY DEF LoopSound
  <1>1. /\ x.row \in 1..nrows /\ x.row \in RowIds /\ x.left \in Nat /\ SendTime \in Nat
        /\ nrows \in Nat
    BY FreeRows, WorkerConstants DEF LoopSound, RowIds, Loop
  <1>2. Margin(x) \in Nat /\ outbox[x.row].lease \in Nat
    BY <1>1, RowShape DEF Margin, Delivery
  <1>3. SameRow(x.row) /\ (Holds(x) \/ Withdrawn(x.row)) /\ Carried(x.row)
    BY <1>1 DEF Carried, LoopSound
  <1>4. Holds(x)' \/ Withdrawn(x.row)'
    <2>1. CASE Withdrawn(x.row)
      BY <2>1, <1>1, <1>3 DEF Withdrawn, Carried
    <2>2. CASE Holds(x)
      BY <2>2, <1>1, <1>2, <1>3 DEF Holds, Withdrawn, Carried, SameRow, Margin
    <2> QED BY <1>3, <2>1, <2>2
  <1>5. Tracked(x.row)' = Tracked(x.row) /\ x.row \in 1..nrows'
    BY <1>1, <1>3 DEF Tracked, SameRow
  <1> QED BY <1>3, <1>4, <1>5 DEF LoopSound, PartReceipt, SameRow

\* So do the receipts of a row.
LEMMA CarriedRow ==
  ASSUME IInv, WorkersTypeOK, NEW d \in RowIds, Carried(d), RowSound(d),
         GivenUp(d) => GivenUp(d)',
         UNCHANGED <<partSent, rowSent, seen, late>>, faults' = faults
  PROVE  RowSound(d)'
  <1>1. CASE d <= nrows
    <2>1. SameRow(d) /\ (Tracked(d)' <=> Tracked(d)) /\ d \in Nat /\ nrows \in Nat
      BY <1>1, RowShape, WorkerConstants DEF Carried, Tracked, SameRow, RowIds
    <2>2. /\ outbox'[d].status = "delivered" => outbox[d].status = "delivered"
          /\ Withdrawn(d) => Withdrawn(d)'
          /\ outbox[d].status \in {"failed", "cancelled", "deleted"} =>
               outbox'[d].status \in {"failed", "cancelled", "deleted"}
      BY <1>1, <2>1 DEF Carried, Withdrawn
    <2> QED BY <2>1, <2>2 DEF RowSound, PartReceipt, SameRow
  <1>2. CASE d > nrows
    <2>1. /\ outbox[d].attempts = 0 /\ outbox'[d].attempts = 0
          /\ outbox[d].status = "none" /\ outbox'[d].status \in {"none", "pending"}
          /\ d \in Nat /\ nrows \in Nat
      BY <1>2, RowShape, WorkerConstants DEF Carried, RowIds
    <2>2. \A p \in Parts : seen[d][p] = "unsent"
      BY <2>1 DEF RowSound, WorkersTypeOK
    <2>3. d \notin rowSent /\ \A p \in Parts : ~ PartReceipt(d, p)
      BY <2>2, WorkerConstants DEF RowSound
    <2>4. late[d] = 0
      BY <2>1 DEF RowSound, Withdrawn, WorkersTypeOK
    <2> QED BY <2>1, <2>2, <2>3, <2>4 DEF RowSound, PartReceipt
  <1>3. d <= nrows \/ d > nrows
    BY RowShape, WorkerConstants DEF RowIds
  <1> QED BY <1>1, <1>2, <1>3

\* Nor does the order of a conversation suffer.
LEMMA CarriedOrder ==
  ASSUME IInv, LeasedInOrder, NEW d \in RowIds, NEW e \in RowIds, Carried(d),
         d < e, SameConversation(d, e)', e <= nrows, outbox'[e].run = outbox[e].run,
         outbox[e].attempts > 0
  PROVE  ~ Open(outbox'[d])
  <1>1. d \in Nat /\ e \in Nat /\ nrows \in Nat /\ d <= nrows
    BY FreeRows, WorkerConstants DEF RowIds
  <1>2. SameRow(d)
    BY <1>1 DEF Carried
  <1>3. SameConversation(d, e)
    BY <1>2 DEF SameConversation, SameRow
  <1>4. ~ Open(outbox[d])
    BY <1>3 DEF LeasedInOrder
  <1> QED BY <1>1, <1>4 DEF Carried, Open

\* A step of the runs, or a lease that hands out nothing.
LEMMA CarriedStep ==
  ASSUME WorkersIInv, IInv', nrows' >= nrows, \A d \in RowIds : Carried(d),
         UNCHANGED workerVars
  PROVE  WorkersIInv'
  <1>1. /\ IInv /\ WorkersTypeOK /\ LeasedInOrder
        /\ UNCHANGED <<partSent, rowSent, seen, late>> /\ faults' = faults /\ loops' = loops
    BY DEF WorkersIInv, workerVars
  <1>2. nrows \in Nat /\ nrows' \in Nat
    BY <1>1, FreeRows, WorkerConstants DEF IInv, TypeOK
  <1>3. WorkersTypeOK'
    BY <1>1, <1>2 DEF WorkersTypeOK
  <1>4. ASSUME NEW l \in Loops PROVE LoopSound(loops[l])'
    <2>1. PICK x \in Loop : x = loops[l]
      BY <1>1 DEF WorkersTypeOK
    <2>2. LoopSound(x)
      BY <2>1 DEF WorkersIInv
    <2>3. LoopSound(x)'
      BY <1>1, <1>2, <2>2, CarriedLoop
    <2> QED BY <1>1, <2>1, <2>3
  <1>5. ASSUME NEW d \in RowIds PROVE RowSound(d)'
    <2>1. GivenUp(d) => GivenUp(d)'
      BY <1>1 DEF GivenUp, At, RowOf
    <2> QED BY <1>1, <2>1, CarriedRow DEF WorkersIInv
  <1>6. LoopsApart'
    BY <1>1 DEF WorkersIInv, LoopsApart, Busy, RowOf
  <1>7. ASSUME NEW d \in RowIds, NEW e \in RowIds, d < e, SameConversation(d, e)',
               outbox'[e].attempts > 0
        PROVE  ~ Open(outbox'[d])
    <2>1. e <= nrows /\ SameRow(e)
      BY <1>7, <1>2, WorkerConstants DEF Carried, RowIds
    <2> QED BY <1>1, <1>7, <2>1, CarriedOrder DEF SameRow
  <1> QED BY <1>3, <1>4, <1>5, <1>6, <1>7 DEF WorkersIInv, LeasedInOrder

\* What a busy loop relies on is about its own row; so it does not mind what
\* another loop does to another row.
LEMMA OtherLoopStep ==
  ASSUME WorkersIInv, NEW k \in Loops, loops'[k] = loops[k], nrows' = nrows,
         \A d \in RowIds : Busy(k) /\ d = loops[k].row =>
           /\ outbox'[d] = outbox[d] /\ seen'[d] = seen[d] /\ late'[d] = late[d]
           /\ \A p \in Parts : PartReceipt(d, p)' <=> PartReceipt(d, p),
         faults' = 0 => faults = 0
  PROVE  LoopSound(loops[k])'
  <1> SUFFICES ASSUME loops[k].step # "idle" PROVE LoopSound(loops[k])'
    BY DEF LoopSound
  <1>1. LoopSound(loops[k]) /\ loops[k] \in Loop /\ loops[k].row \in RowIds
    <2>1. LoopSound(loops[k]) /\ loops[k] \in Loop /\ nrows \in Nat /\ nrows <= MaxRows
      BY FreeRows DEF WorkersIInv, WorkersTypeOK
    <2> QED BY <2>1, WorkerConstants DEF LoopSound, RowIds
  <1>2. /\ outbox'[loops[k].row] = outbox[loops[k].row]
        /\ seen'[loops[k].row] = seen[loops[k].row] /\ late'[loops[k].row] = late[loops[k].row]
        /\ \A p \in Parts : <<loops[k].row, p>> \in partSent' <=> <<loops[k].row, p>> \in partSent
    BY <1>1 DEF Busy, PartReceipt
  <1>3. /\ Holds(loops[k])' <=> Holds(loops[k])
        /\ Withdrawn(loops[k].row)' <=> Withdrawn(loops[k].row)
        /\ Tracked(loops[k].row)' <=> Tracked(loops[k].row)
    BY <1>2 DEF Holds, Margin, Withdrawn, Tracked
  <1>4. loops[k].part \in Parts
    BY <1>1 DEF Loop
  <1> QED BY <1>1, <1>2, <1>3, <1>4 DEF LoopSound, PartReceipt

\* A loop at work on its own row, with the outbox at rest.
LEMMA OwnRowStep ==
  ASSUME WorkersIInv, NEW l \in Loops, Busy(l), ~ At(l, "giveup"),
         loops' = [loops EXCEPT ![l] = loops'[l]], loops'[l] \in Loop,
         loops'[l].row = loops[l].row, loops'[l].turn = loops[l].turn,
         loops'[l].step # "idle", UNCHANGED vars, faults' = faults,
         partSent' \subseteq RowIds \X Parts, rowSent' \subseteq RowIds,
         seen' \in [RowIds -> [Parts -> {"unsent", "posted", "unnamed", "confirmed"}]],
         late' \in [RowIds -> Nat],
         \A d \in RowIds : d # RowOf(l) =>
           /\ seen'[d] = seen[d] /\ late'[d] = late[d] /\ (d \in rowSent' <=> d \in rowSent)
           /\ \A p \in Parts : PartReceipt(d, p)' <=> PartReceipt(d, p),
         LoopSound(loops[l])', \A d \in RowIds : d = RowOf(l) => RowSound(d)'
  PROVE  WorkersIInv'
  <1>1. /\ IInv /\ WorkersTypeOK /\ outbox' = outbox /\ nrows' = nrows
        /\ loops \in [Loops -> Loop] /\ RowOf(l) \in RowIds
    <2>1. nrows \in Nat /\ nrows <= MaxRows
      BY FreeRows DEF WorkersIInv
    <2>2. RowOf(l) \in 1..nrows /\ loops \in [Loops -> Loop]
      BY DEF WorkersIInv, WorkersTypeOK, Busy, RowOf
    <2>3. RowOf(l) \in RowIds
      BY <2>1, <2>2, WorkerConstants DEF RowIds
    <2> QED BY <2>2, <2>3 DEF WorkersIInv, vars
  <1>2. \A k \in Loops : k # l => loops'[k] = loops[k]
    BY <1>1
  <1>3. \A k \in Loops : Busy(k)' = Busy(k) /\ RowOf(k)' = RowOf(k)
    BY <1>2 DEF Busy, RowOf
  <1>4. IInv'
    BY <1>1, NextIInv DEF WorkersIInv, vars
  <1>5. WorkersTypeOK'
    <2>1. loops' \in [Loops -> Loop]
      BY <1>1
    <2>2. \A k \in Loops : loops'[k].step # "idle" => loops'[k].row \in 1..nrows /\ loops'[k].turn > 0
      BY <1>1, <1>2 DEF WorkersTypeOK, Busy
    <2> QED BY <1>1, <2>1, <2>2 DEF WorkersTypeOK
  <1>6. ASSUME NEW k \in Loops PROVE LoopSound(loops[k])'
    <2>1. CASE k = l
      BY <2>1
    <2>2. CASE k # l
      <3>1. Busy(k) => RowOf(k) # RowOf(l) /\ RowOf(k) \in RowIds
        BY <2>2, <1>1, FreeRows, WorkerConstants
           DEF WorkersIInv, LoopsApart, WorkersTypeOK, Busy, RowOf, RowIds
      <3> QED BY <1>1, <1>2, <2>2, <3>1, OtherLoopStep DEF RowOf
    <2> QED BY <2>1, <2>2
  <1>7. ASSUME NEW d \in RowIds PROVE RowSound(d)'
    <2>1. CASE d = RowOf(l)
      BY <2>1
    <2>2. CASE d # RowOf(l)
      <3>1. GivenUp(d) => GivenUp(d)'
        BY <1>2, <2>2 DEF GivenUp, At, RowOf
      <3>2. RowSound(d)
        BY DEF WorkersIInv
      <3> QED BY <1>1, <2>2, <3>1, <3>2 DEF RowSound, Tracked, Withdrawn
    <2> QED BY <2>1, <2>2
  <1>8. LoopsApart'
    BY <1>3 DEF WorkersIInv, LoopsApart
  <1>9. LeasedInOrder'
    BY <1>1 DEF WorkersIInv, LeasedInOrder, SameConversation
  <1> QED BY <1>4, <1>5, <1>6, <1>7, <1>8, <1>9 DEF WorkersIInv

-----------------------------------------------------------------------------
(* One lemma per action of a loop.                                         *)

\* What is known of a busy loop and its row.
LEMMA BusyLoop ==
  ASSUME WorkersIInv, NEW l \in Loops, Busy(l)
  PROVE  /\ loops[l] \in Loop /\ loops \in [Loops -> Loop]
         /\ RowOf(l) = loops[l].row /\ RowOf(l) \in RowIds /\ RowOf(l) \in 1..nrows
         /\ LoopSound(loops[l]) /\ RowSound(RowOf(l))
         /\ loops[l].turn \in 1..LeaseCap /\ outbox[RowOf(l)] \in Delivery
         /\ outbox[RowOf(l)].attempts = loops[l].turn
  <1>1. /\ loops[l] \in Loop /\ loops \in [Loops -> Loop] /\ loops[l].row \in 1..nrows
        /\ loops[l].turn > 0 /\ nrows \in Nat /\ nrows <= MaxRows /\ IInv /\ LoopSound(loops[l])
    BY FreeRows DEF WorkersIInv, WorkersTypeOK, Busy
  <1>2. RowOf(l) = loops[l].row /\ RowOf(l) \in RowIds
    BY <1>1, WorkerConstants DEF RowOf, RowIds
  <1> QED BY <1>1, <1>2, RowShape, WorkerConstants DEF WorkersIInv, Loop, LoopSound, Busy

\* Going on with the same row changes the step alone.
LEMMA GoLoop ==
  ASSUME WorkersIInv, NEW l \in Loops, NEW step \in Steps, Go(l, step)
  PROVE  /\ loops' = [loops EXCEPT ![l] = loops'[l]] /\ loops'[l] \in Loop
         /\ loops'[l].step = step /\ loops'[l].row = loops[l].row
         /\ loops'[l].turn = loops[l].turn /\ loops'[l].part = loops[l].part
         /\ loops'[l].left = loops[l].left
  <1>1. loops \in [Loops -> Loop] /\ loops[l] \in Loop
    BY DEF WorkersIInv, WorkersTypeOK
  <1> QED BY <1>1 DEF Go, Loop

\* The next part, or the end of Deliver.
LEMMA NextPartLoop ==
  ASSUME WorkersIInv, NEW l \in Loops, loops' = [loops EXCEPT ![l] = NextPart(@)]
  PROVE  /\ loops' = [loops EXCEPT ![l] = loops'[l]] /\ loops'[l] \in Loop
         /\ loops'[l].row = loops[l].row
         /\ loops'[l].turn = loops[l].turn /\ loops'[l].left = loops[l].left
         /\ \/ loops[l].part = NumParts /\ loops'[l].step = "mark"
            \/ loops'[l].step = "part" /\ loops'[l].part = loops[l].part + 1
  <1>1. loops \in [Loops -> Loop] /\ loops[l] \in Loop /\ loops[l].part \in Parts
    BY DEF WorkersIInv, WorkersTypeOK, Loop
  <1>2. loops'[l] = NextPart(loops[l]) /\ loops' = [loops EXCEPT ![l] = loops'[l]]
    BY <1>1
  <1>3. CASE loops[l].part = NumParts
    BY <1>1, <1>2, <1>3 DEF NextPart, Loop, Steps
  <1>4. CASE loops[l].part # NumParts
    <2>1. loops[l].part + 1 \in Parts
      BY <1>1, <1>4, WorkerConstants DEF Parts
    <2> QED BY <1>1, <1>2, <1>4, <2>1 DEF NextPart, Loop, Steps, Sending
  <1> QED BY <1>3, <1>4

\* A loop keeps its hold on the row while it wants no more time.
LEMMA StillHeld ==
  ASSUME WorkersIInv, NEW l \in Loops, Busy(l), UNCHANGED vars,
         loops'[l].row = loops[l].row, loops'[l].turn = loops[l].turn,
         loops'[l] \in Loop, Margin(loops[l])' <= Margin(loops[l])
  PROVE  /\ Holds(loops[l])' \/ Withdrawn(loops[l].row)'
         /\ loops'[l].row \in 1..nrows' /\ loops'[l].turn > 0
         /\ outbox'[loops'[l].row].attempts = loops'[l].turn
         /\ Tracked(loops[l].row)' <=> Tracked(RowOf(l))
  <1>1. /\ loops[l] \in Loop /\ loops[l].row \in 1..nrows /\ loops[l].row \in RowIds
        /\ loops[l].turn > 0 /\ outbox[loops[l].row].attempts = loops[l].turn
        /\ Holds(loops[l]) \/ Withdrawn(loops[l].row)
        /\ outbox' = outbox /\ nrows' = nrows
        /\ outbox[loops[l].row].lease \in Nat
    BY BusyLoop, WorkerConstants DEF LoopSound, Busy, vars, Delivery, RowOf
  <1>2. Margin(loops[l]) \in Nat /\ Margin(loops[l])' \in Nat
    BY <1>1, WorkerConstants DEF Margin, Loop
  <1>3. Holds(loops[l]) => Holds(loops[l])'
    <2> DEFINE m == Margin(loops[l])
               n == Margin(loops[l])'
    <2>1. m \in Nat /\ n \in Nat /\ n <= m
      BY <1>2
    <2> HIDE DEF m, n
    <2>2. Holds(loops[l]) <=> /\ outbox[loops[l].row].status = "sending"
                              /\ outbox[loops[l].row].owner = PlatformOwner
                              /\ outbox[loops[l].row].lease > m
      BY DEF Holds, m
    <2>3. Holds(loops[l])' <=> /\ outbox'[loops'[l].row].status = "sending"
                               /\ outbox'[loops'[l].row].owner = PlatformOwner
                               /\ outbox'[loops'[l].row].lease > n
      BY DEF Holds, n
    <2> QED BY <1>1, <2>1, <2>2, <2>3
  <1>4. Withdrawn(loops[l].row) => Withdrawn(loops[l].row)'
    BY <1>1 DEF Withdrawn
  <1>5. Tracked(loops[l].row)' <=> Tracked(RowOf(l))
    BY <1>1 DEF Tracked, RowOf
  <1> QED BY <1>1, <1>3, <1>4, <1>5

\* Steps of a loop that write nothing.
LEMMA LocalStep ==
  ASSUME WorkersIInv, NEW l \in Loops, Busy(l), ~ At(l, "giveup"),
         loops' = [loops EXCEPT ![l] = loops'[l]], loops'[l] \in Loop,
         loops'[l].row = loops[l].row, loops'[l].turn = loops[l].turn,
         loops'[l].step # "idle", Margin(loops[l])' <= Margin(loops[l]),
         UNCHANGED <<vars, partSent, rowSent, seen, late, faults>>,
         loops'[l].step \in Sending =>
           \A p \in Parts : p < loops'[l].part => seen[RowOf(l)][p] # "unsent",
         loops'[l].step \notin {"posted", "keep"},
         loops'[l].step \in {"mark", "ack"} => \A p \in Parts : seen[RowOf(l)][p] # "unsent",
         Tracked(RowOf(l)) => /\ loops'[l].step \in {"current", "post"} =>
                                   ~ PartReceipt(RowOf(l), loops'[l].part)
                              /\ loops'[l].step = "post" => late[RowOf(l)] = 0
  PROVE  WorkersIInv'
  <1>1. /\ RowOf(l) = loops[l].row /\ RowOf(l) \in RowIds /\ LoopSound(loops[l])
        /\ RowSound(RowOf(l)) /\ UNCHANGED vars
        /\ loops \in [Loops -> Loop] /\ outbox' = outbox
    BY BusyLoop DEF vars
  <1>2. LoopSound(loops[l])'
    <2>1. /\ Holds(loops[l])' \/ Withdrawn(loops[l].row)'
          /\ loops'[l].row \in 1..nrows' /\ loops'[l].turn > 0
          /\ outbox'[loops'[l].row].attempts = loops'[l].turn
          /\ Tracked(loops[l].row)' <=> Tracked(RowOf(l))
      BY <1>1, StillHeld
    <2>2. Tracked(RowOf(l)) /\ faults = 0 =>
            \A p \in Parts : seen[RowOf(l)][p] = "confirmed" => PartReceipt(RowOf(l), p)
      BY <1>1 DEF LoopSound, Busy, At
    <2> QED BY <1>1, <2>1, <2>2 DEF LoopSound, PartReceipt
  <1>3. ASSUME NEW d \in RowIds, d = RowOf(l) PROVE RowSound(d)'
    <2>1. GivenUp(d) => GivenUp(d)'
      <3>1. ASSUME NEW k \in Loops, At(k, "giveup"), RowOf(k) = d PROVE k # l
        BY <3>1
      <3>2. \A k \in Loops : k # l => loops'[k] = loops[k]
        BY <1>1
      <3> QED BY <3>1, <3>2 DEF GivenUp, At, RowOf
    <2>2. RowSound(d)
      BY <1>1, <1>3
    <2> QED BY <1>1, <2>1, <2>2 DEF RowSound, PartReceipt, Tracked, Withdrawn
  <1>4. /\ partSent' \subseteq RowIds \X Parts /\ rowSent' \subseteq RowIds
        /\ seen' \in [RowIds -> [Parts -> {"unsent", "posted", "unnamed", "confirmed"}]]
        /\ late' \in [RowIds -> Nat]
    BY DEF WorkersIInv, WorkersTypeOK
  <1>5. \A d \in RowIds, p \in Parts : PartReceipt(d, p)' <=> PartReceipt(d, p)
    BY DEF PartReceipt
  <1> QED BY <1>1, <1>2, <1>3, <1>4, <1>5, OwnRowStep

\* Giving up on the way: only the step changes, to a failure or to ensure.
LEMMA StepAside ==
  ASSUME WorkersIInv, NEW l \in Loops, Busy(l), ~ At(l, "giveup"),
         NEW step \in {"ensure", "fail", "giveup"}, Go(l, step),
         step = "ensure" => At(l, "leased"),
         UNCHANGED <<vars, partSent, rowSent, seen, late, faults>>
  PROVE  WorkersIInv'
  <1>1. step \in Steps
    BY DEF Steps
  <1>2. /\ loops' = [loops EXCEPT ![l] = loops'[l]] /\ loops'[l] \in Loop
        /\ loops'[l].step = step /\ loops'[l].row = loops[l].row
        /\ loops'[l].turn = loops[l].turn /\ loops'[l].left = loops[l].left
    BY <1>1, GoLoop
  <1>3. Margin(loops[l])' <= Margin(loops[l])
    <2>1. loops[l].left \in Nat /\ loops[l].left <= SendTime /\ SendTime \in Nat
      BY BusyLoop, WorkerConstants DEF Loop
    <2>2. loops[l].step = "leased" => Margin(loops[l]) = SendTime
      BY DEF Margin
    <2>3. Margin(loops[l])' = IF step = "ensure" THEN SendTime ELSE loops[l].left
      BY <1>2 DEF Margin
    <2>4. Margin(loops[l]) \in {SendTime, loops[l].left}
      BY DEF Margin
    <2> QED BY <2>1, <2>2, <2>3, <2>4 DEF At
  <1> QED BY <1>2, <1>3, LocalStep DEF Sending

\* The receipt of the row decides between ACK and sending.
LEMMA CheckRowStep == ASSUME WorkersIInv, NEW l \in Loops, CheckRow(l) PROVE WorkersIInv'
  <1>1. Busy(l) /\ ~ At(l, "giveup") /\ At(l, "leased")
        /\ UNCHANGED <<vars, partSent, rowSent, seen, late, faults>>
    BY DEF CheckRow, Busy, At
  <1>2. CASE RowOf(l) \in rowSent /\ Go(l, "ack")
    <2>1. /\ loops' = [loops EXCEPT ![l] = loops'[l]] /\ loops'[l] \in Loop
          /\ loops'[l].step = "ack" /\ loops'[l].row = loops[l].row
          /\ loops'[l].turn = loops[l].turn /\ loops'[l].left = loops[l].left
      BY <1>2, GoLoop DEF Steps
    <2>2. Margin(loops[l])' <= Margin(loops[l])
      BY <1>1, <2>1, BusyLoop, WorkerConstants DEF Margin, Loop, At
    <2>3. \A p \in Parts : seen[RowOf(l)][p] # "unsent"
      BY <1>1, <1>2, BusyLoop DEF RowSound
    <2> QED BY <1>1, <2>1, <2>2, <2>3, LocalStep DEF Sending
  <1>3. CASE Go(l, "ensure") \/ Go(l, "giveup") \/ Go(l, "fail")
    BY <1>1, <1>3, StepAside
  <1> QED BY <1>2, <1>3 DEF CheckRow

\* Deliver begins with the first part and the time the lease leaves for it.
LEMMA EnsureRowStep == ASSUME WorkersIInv, NEW l \in Loops, EnsureRow(l) PROVE WorkersIInv'
  <1>1. Busy(l) /\ ~ At(l, "giveup") /\ At(l, "ensure")
        /\ UNCHANGED <<vars, partSent, rowSent, seen, late, faults>>
    BY DEF EnsureRow, Busy, At
  <1>2. CASE loops' = [loops EXCEPT ![l].step = "part", ![l].part = 1, ![l].left = SendTime]
    <2>1. /\ loops' = [loops EXCEPT ![l] = loops'[l]] /\ loops'[l] \in Loop
          /\ loops'[l].step = "part" /\ loops'[l].row = loops[l].row
          /\ loops'[l].turn = loops[l].turn /\ loops'[l].left = SendTime /\ loops'[l].part = 1
      <3>1. loops \in [Loops -> Loop] /\ loops[l] \in Loop
        BY <1>1, BusyLoop
      <3>2. loops'[l] = [loops[l] EXCEPT !.step = "part", !.part = 1, !.left = SendTime]
        BY <1>2, <3>1
      <3>3. SendTime \in 0..SendTime /\ 1 \in Parts /\ "part" \in Steps
        BY WorkerConstants DEF Steps, Sending
      <3>4. loops'[l] \in Loop
        BY <3>1, <3>2, <3>3 DEF Loop
      <3>5. loops' = [loops EXCEPT ![l] = loops'[l]]
        BY <1>2, <3>1
      <3> QED BY <3>1, <3>2, <3>4, <3>5 DEF Loop
    <2>2. Margin(loops[l])' <= Margin(loops[l])
      BY <1>1, <2>1, WorkerConstants DEF Margin, At
    <2> QED BY <1>1, <2>1, <2>2, LocalStep, WorkerConstants DEF Sending, Parts
  <1>3. CASE Go(l, "giveup") \/ Go(l, "fail")
    BY <1>1, <1>3, StepAside
  <1> QED BY <1>2, <1>3 DEF EnsureRow

\* A part with a receipt is skipped, and was sent.
LEMMA CheckPartStep == ASSUME WorkersIInv, NEW l \in Loops, CheckPart(l) PROVE WorkersIInv'
  <1>1. Busy(l) /\ ~ At(l, "giveup") /\ At(l, "part") /\ loops[l].step \in Sending
        /\ UNCHANGED <<vars, partSent, rowSent, seen, late, faults>>
    BY DEF CheckPart, Busy, At, Sending
  <1>2. /\ \A p \in Parts : p < loops[l].part => seen[RowOf(l)][p] # "unsent"
        /\ Margin(loops[l]) = loops[l].left /\ loops[l].part \in Parts
        /\ loops[l].left \in Nat
    BY <1>1, BusyLoop, WorkerConstants DEF LoopSound, Busy, Margin, At, Loop
  <1>3. CASE /\ Tracked(RowOf(l)) /\ PartReceipt(RowOf(l), loops[l].part)
             /\ loops' = [loops EXCEPT ![l] = NextPart(@)]
    <2>1. /\ loops' = [loops EXCEPT ![l] = loops'[l]] /\ loops'[l] \in Loop
          /\ loops'[l].row = loops[l].row
          /\ loops'[l].turn = loops[l].turn /\ loops'[l].left = loops[l].left
          /\ \/ loops[l].part = NumParts /\ loops'[l].step = "mark"
             \/ loops'[l].step = "part" /\ loops'[l].part = loops[l].part + 1
      BY <1>3, NextPartLoop
    <2>2. \A p \in Parts : p <= loops[l].part => seen[RowOf(l)][p] # "unsent"
      BY <1>1, <1>2, <1>3, BusyLoop DEF RowSound, Parts
    <2>3. Margin(loops[l])' <= Margin(loops[l])
      BY <1>2, <2>1 DEF Margin
    <2>4. \A p \in Parts : (loops[l].part = NumParts \/ p < loops[l].part + 1) => p <= loops[l].part
      BY <1>2, WorkerConstants DEF Parts
    <2> QED BY <1>1, <2>1, <2>2, <2>3, <2>4, LocalStep DEF Sending
  <1>4. ASSUME NEW step \in {"current", "post"}, Go(l, step),
               Tracked(RowOf(l)) => step = "current" /\ ~ PartReceipt(RowOf(l), loops[l].part)
        PROVE  WorkersIInv'
    <2>1. /\ loops' = [loops EXCEPT ![l] = loops'[l]] /\ loops'[l] \in Loop
          /\ loops'[l].step = step /\ loops'[l].row = loops[l].row
          /\ loops'[l].turn = loops[l].turn /\ loops'[l].left = loops[l].left
          /\ loops'[l].part = loops[l].part
      BY <1>4, GoLoop DEF Steps, Sending
    <2>2. Margin(loops[l])' <= Margin(loops[l])
      BY <1>2, <2>1 DEF Margin
    <2> QED BY <1>1, <1>2, <1>4, <2>1, <2>2, LocalStep
  <1>5. CASE Go(l, "fail")
    BY <1>1, <1>5, StepAside
  <1> QED BY <1>3, <1>4, <1>5 DEF CheckPart

\* A part is sent only of a row that was not withdrawn yet.
LEMMA EnsurePartStep == ASSUME WorkersIInv, NEW l \in Loops, EnsurePart(l) PROVE WorkersIInv'
  <1>1. Busy(l) /\ ~ At(l, "giveup") /\ At(l, "current") /\ loops[l].step \in Sending
        /\ UNCHANGED <<vars, partSent, rowSent, seen, late, faults>>
    BY DEF EnsurePart, Busy, At, Sending
  <1>2. /\ \A p \in Parts : p < loops[l].part => seen[RowOf(l)][p] # "unsent"
        /\ Tracked(RowOf(l)) => ~ PartReceipt(RowOf(l), loops[l].part)
        /\ Margin(loops[l]) = loops[l].left /\ loops[l].left \in Nat
    BY <1>1, BusyLoop, WorkerConstants DEF LoopSound, Busy, Margin, At, Loop
  <1>3. CASE Current(RowOf(l)) /\ Go(l, "post")
    <2>1. /\ loops' = [loops EXCEPT ![l] = loops'[l]] /\ loops'[l] \in Loop
          /\ loops'[l].step = "post" /\ loops'[l].row = loops[l].row
          /\ loops'[l].turn = loops[l].turn /\ loops'[l].left = loops[l].left
          /\ loops'[l].part = loops[l].part
      BY <1>3, GoLoop DEF Steps, Sending
    <2>2. Margin(loops[l])' <= Margin(loops[l])
      BY <1>2, <2>1 DEF Margin
    <2>3. late[RowOf(l)] = 0
      <3>1. ~ Withdrawn(RowOf(l))
        BY <1>3 DEF Current, CancelledOrSuperseded, Withdrawn
      <3>2. RowSound(RowOf(l)) /\ late[RowOf(l)] \in Nat
        BY <1>1, BusyLoop DEF WorkersIInv, WorkersTypeOK
      <3> QED BY <3>1, <3>2 DEF RowSound
    <2> QED BY <1>1, <1>2, <2>1, <2>2, <2>3, LocalStep
  <1>4. CASE Go(l, "giveup") \/ Go(l, "fail")
    BY <1>1, <1>4, StepAside
  <1> QED BY <1>3, <1>4 DEF EnsurePart

\* Nothing was sent, or the answer is lost.
LEMMA RefuseStep ==
  ASSUME WorkersIInv, NEW l \in Loops, Refuse(l) \/ LoseAnswer(l) PROVE WorkersIInv'
  <1>1. Busy(l) /\ ~ At(l, "giveup") /\ (Go(l, "fail") \/ Go(l, "giveup"))
        /\ UNCHANGED <<vars, partSent, rowSent, seen, late, faults>>
    BY DEF Refuse, LoseAnswer, Busy, At
  <1> QED BY <1>1, StepAside

\* What changes of one row leaves the receipts of the others.
LEMMA OneRowSeen ==
  ASSUME WorkersIInv, NEW d \in RowIds, NEW p \in Parts, NEW v \in {"posted", "unnamed", "confirmed"},
         seen' = [seen EXCEPT ![d][p] = v]
  PROVE  /\ seen' \in [RowIds -> [Parts -> {"unsent", "posted", "unnamed", "confirmed"}]]
         /\ \A e \in RowIds : e # d => seen'[e] = seen[e]
         /\ \A q \in Parts : seen'[d][q] = IF q = p THEN v ELSE seen[d][q]
  BY DEF WorkersIInv, WorkersTypeOK

\* A part reaches the platform: none was late before if this one is.
LEMMA PostPartStep == ASSUME WorkersIInv, NEW l \in Loops, Post(l) PROVE WorkersIInv'
  <1>1. Busy(l) /\ ~ At(l, "giveup") /\ At(l, "post") /\ loops[l].step \in Sending
        /\ Go(l, "posted") /\ UNCHANGED <<vars, partSent, rowSent, faults>> /\ outbox' = outbox
    BY DEF Post, Busy, At, Sending, vars
  <1> DEFINE d == loops[l].row
             p == loops[l].part
  <1>2. /\ d = RowOf(l) /\ d \in RowIds /\ p \in Parts /\ loops[l] \in Loop
        /\ LoopSound(loops[l]) /\ RowSound(d) /\ outbox[d].attempts > 0
    BY <1>1, BusyLoop, WorkerConstants DEF Loop
  <1>3. /\ loops' = [loops EXCEPT ![l] = loops'[l]] /\ loops'[l] \in Loop
        /\ loops'[l].step = "posted" /\ loops'[l].row = d
        /\ loops'[l].turn = loops[l].turn /\ loops'[l].left = loops[l].left
        /\ loops'[l].part = p
    BY <1>1, GoLoop DEF Steps, Sending
  <1>4. seen' = [seen EXCEPT ![d][p] = "posted"]
    BY <1>2 DEF Post
  <1>5. /\ seen' \in [RowIds -> [Parts -> {"unsent", "posted", "unnamed", "confirmed"}]]
        /\ \A e \in RowIds : e # d => seen'[e] = seen[e]
        /\ \A q \in Parts : seen'[d][q] = IF q = p THEN "posted" ELSE seen[d][q]
    BY <1>2, <1>4, OneRowSeen
  <1>6. /\ late' \in [RowIds -> Nat] /\ \A e \in RowIds : e # d => late'[e] = late[e]
        /\ late'[d] = IF Withdrawn(d) THEN late[d] + 1 ELSE late[d]
        /\ late[d] \in Nat
    BY <1>2 DEF Post, WorkersIInv, WorkersTypeOK
  <1>7. LoopSound(loops[l])'
    <2>1. Margin(loops[l])' <= Margin(loops[l])
      BY <1>1, <1>2, <1>3, WorkerConstants DEF Margin, At, Loop
    <2>2. /\ Holds(loops[l])' \/ Withdrawn(loops[l].row)'
          /\ loops'[l].row \in 1..nrows' /\ loops'[l].turn > 0
          /\ outbox'[loops'[l].row].attempts = loops'[l].turn
          /\ Tracked(loops[l].row)' <=> Tracked(RowOf(l))
      BY <1>1, <1>3, <2>1, StillHeld
    <2>3. \A q \in Parts : q < p => seen[d][q] # "unsent"
      BY <1>1, <1>2 DEF LoopSound, At
    <2>4. Tracked(d) /\ faults = 0 =>
            \A q \in Parts : seen[d][q] = "confirmed" => PartReceipt(d, q)
      BY <1>1, <1>2 DEF LoopSound, At
    <2>5. \A q \in Parts : /\ q < p => seen'[d][q] # "unsent"
                           /\ q = p => seen'[d][q] # "unsent"
                           /\ seen'[d][q] = "confirmed" => seen[d][q] = "confirmed"
      BY <1>5, <2>3
    <2> HIDE DEF d, p
    <2>6. RowOf(l) = d /\ loops'[l].row = d /\ loops'[l].part = p /\ partSent' = partSent
          /\ faults' = faults
      BY <1>1, <1>2, <1>3
    <2> QED BY <1>2, <1>3, <2>2, <2>4, <2>5, <2>6 DEF LoopSound, PartReceipt
  <1>8. ASSUME NEW e \in RowIds, e = RowOf(l) PROVE RowSound(e)'
    <2>1. Tracked(d) => late[d] = 0
      BY <1>1, <1>2 DEF LoopSound, At
    <2>2. Tracked(d) /\ faults = 0 =>
            \A q \in Parts : seen[d][q] = "confirmed" => PartReceipt(d, q)
      BY <1>1, <1>2 DEF LoopSound, At
    <2>3. e = d
      BY <1>2, <1>8
    <2> HIDE DEF d, p
    <2> QED BY <1>1, <1>2, <1>5, <1>6, <2>1, <2>2, <2>3
            DEF RowSound, PartReceipt, Tracked, Withdrawn
  <1>9. partSent' \subseteq RowIds \X Parts /\ rowSent' \subseteq RowIds
    BY <1>1 DEF WorkersIInv, WorkersTypeOK
  <1>10. \A e \in RowIds, q \in Parts : PartReceipt(e, q)' <=> PartReceipt(e, q)
    BY <1>1 DEF PartReceipt
  <1> HIDE DEF p
  <1> QED BY <1>1, <1>2, <1>3, <1>5, <1>6, <1>7, <1>8, <1>9, <1>10, OwnRowStep

\* The platform has the part and the loop goes on: it keeps the receipt of a
\* confirmed part, or gives the row up.
LEMMA SentPartStep ==
  ASSUME WorkersIInv, NEW l \in Loops, loops[l].step \in {"posted", "keep"},
         loops' = [loops EXCEPT ![l] = loops'[l]], loops'[l] \in Loop,
         loops'[l].row = loops[l].row, loops'[l].turn = loops[l].turn,
         loops'[l].left = loops[l].left,
         \/ loops'[l].step \in {"keep", "giveup"} /\ loops'[l].part = loops[l].part
         \/ loops'[l].step = "part" /\ loops'[l].part = loops[l].part + 1
         \/ loops'[l].step = "mark" /\ loops[l].part = NumParts,
         UNCHANGED <<vars, rowSent, late, faults>>,
         \/ seen' = seen
         \/ \E how \in {"unnamed", "confirmed"} :
              seen' = [seen EXCEPT ![RowOf(l)][loops[l].part] = how],
         \/ partSent' = partSent
         \/ partSent' = partSent \cup {<<RowOf(l), loops[l].part>>},
         Tracked(RowOf(l)) /\ seen' # seen /\ seen'[RowOf(l)][loops[l].part] = "confirmed" =>
           loops'[l].step = "giveup" \/ <<RowOf(l), loops[l].part>> \in partSent'
  PROVE  WorkersIInv'
  <1>1. Busy(l) /\ ~ At(l, "giveup") /\ loops[l].step \in Sending
        /\ UNCHANGED vars /\ outbox' = outbox /\ rowSent' = rowSent /\ late' = late
        /\ faults' = faults
    BY DEF Busy, At, Sending, vars
  <1>0. PICK d \in RowIds, p \in Parts : d = loops[l].row /\ p = loops[l].part
    BY <1>1, BusyLoop DEF Loop
  <1>2. /\ d = RowOf(l) /\ d = loops[l].row /\ p = loops[l].part /\ loops[l] \in Loop
        /\ LoopSound(loops[l]) /\ RowSound(d) /\ outbox[d].attempts > 0
        /\ \A q \in Parts : q \in Nat /\ q <= NumParts
    BY <1>1, <1>0, BusyLoop, WorkerConstants DEF Parts
  <1>3. /\ \A q \in Parts : q <= p => seen[d][q] # "unsent"
        /\ Tracked(d) /\ faults = 0 =>
             \A q \in Parts : seen[d][q] = "confirmed" => PartReceipt(d, q)
    BY <1>1, <1>2 DEF LoopSound, At, Parts
  <1>4. /\ seen' \in [RowIds -> [Parts -> {"unsent", "posted", "unnamed", "confirmed"}]]
        /\ \A e \in RowIds : e # d => seen'[e] = seen[e]
        /\ \A q \in Parts : q # p => seen'[d][q] = seen[d][q]
        /\ \A q \in Parts : seen[d][q] # "unsent" => seen'[d][q] # "unsent"
    <2>1. seen \in [RowIds -> [Parts -> {"unsent", "posted", "unnamed", "confirmed"}]]
      BY DEF WorkersIInv, WorkersTypeOK
    <2>2. CASE seen' = seen
      BY <2>1, <2>2
    <2>3. ASSUME NEW how \in {"unnamed", "confirmed"}, seen' = [seen EXCEPT ![d][p] = how]
          PROVE  /\ seen' \in [RowIds -> [Parts -> {"unsent", "posted", "unnamed", "confirmed"}]]
                 /\ \A e \in RowIds : e # d => seen'[e] = seen[e]
                 /\ \A q \in Parts : q # p => seen'[d][q] = seen[d][q]
                 /\ \A q \in Parts : seen[d][q] # "unsent" => seen'[d][q] # "unsent"
      <3>1. /\ seen' \in [RowIds -> [Parts -> {"unsent", "posted", "unnamed", "confirmed"}]]
            /\ \A e \in RowIds : e # d => seen'[e] = seen[e]
            /\ \A q \in Parts : seen'[d][q] = IF q = p THEN how ELSE seen[d][q]
        BY <2>3, OneRowSeen
      <3> QED BY <3>1
    <2> QED BY <1>2, <2>2, <2>3
  <1>5. /\ partSent' \subseteq RowIds \X Parts
        /\ \A e \in RowIds, q \in Parts :
             PartReceipt(e, q)' <=> PartReceipt(e, q) \/ (PartReceipt(e, q)' /\ e = d /\ q = p)
    BY <1>2 DEF WorkersIInv, WorkersTypeOK, PartReceipt
  <1>6. Tracked(d) /\ faults = 0 /\ loops'[l].step # "giveup" =>
          \A q \in Parts : seen'[d][q] = "confirmed" => PartReceipt(d, q)'
    <2> SUFFICES ASSUME Tracked(d), faults = 0, loops'[l].step # "giveup",
                        NEW q \in Parts, seen'[d][q] = "confirmed"
                 PROVE  PartReceipt(d, q)'
      OBVIOUS
    <2>1. CASE q = p /\ seen' # seen
      BY <1>2, <2>1 DEF PartReceipt
    <2>2. CASE ~ (q = p /\ seen' # seen)
      BY <1>2, <1>3, <1>4, <1>5, <2>2
    <2> QED BY <2>1, <2>2
  <1>7. /\ Holds(loops[l])' \/ Withdrawn(loops[l].row)'
        /\ loops'[l].row \in 1..nrows' /\ loops'[l].turn > 0
        /\ outbox'[loops'[l].row].attempts = loops'[l].turn
        /\ Tracked(loops[l].row)' <=> Tracked(RowOf(l))
    <2>1. loops'[l].step \notin {"leased", "ensure"} /\ loops[l].step \notin {"leased", "ensure"}
      OBVIOUS
    <2>2. Margin(loops[l]) = loops[l].left /\ Margin(loops[l])' = loops[l].left
          /\ loops[l].left \in Nat
      BY <1>2, <2>1, WorkerConstants DEF Margin, Loop
    <2>3. Margin(loops[l])' <= Margin(loops[l])
      BY <2>2
    <2> QED BY <1>1, <2>3, StillHeld
  <1>8. LoopSound(loops[l])'
    <2>1. RowOf(l) = d /\ loops'[l].row = d
      BY <1>2
    <2>2. loops'[l].step \in Sending =>
            \A q \in Parts : q < loops'[l].part => seen'[d][q] # "unsent"
      BY <1>2, <1>3, <1>4 DEF Sending, Parts
    <2>3. loops'[l].step \in {"posted", "keep"} => seen'[d][loops'[l].part] # "unsent"
      BY <1>2, <1>3, <1>4 DEF Parts
    <2>4. loops'[l].step \in {"mark", "ack"} => \A q \in Parts : seen'[d][q] # "unsent"
      BY <1>2, <1>3, <1>4
    <2>5. loops'[l].step \notin {"current", "post"}
      OBVIOUS
    <2>6. Tracked(loops[l].row)' /\ faults' = 0 /\ loops'[l].step # "giveup" =>
            \A q \in Parts : seen'[d][q] = "confirmed" => <<d, q>> \in partSent'
      BY <1>1, <1>2, <1>6, <1>7 DEF PartReceipt
    <2> QED BY <1>7, <2>1, <2>2, <2>3, <2>4, <2>5, <2>6 DEF LoopSound, PartReceipt
  <1>9. ASSUME NEW e \in RowIds, e = RowOf(l) PROVE RowSound(e)'
    <2>1. e = d
      BY <1>2, <1>9
    <2>2. \A q \in Parts : PartReceipt(d, q)' => seen'[d][q] # "unsent"
      BY <1>2, <1>3, <1>4, <1>5 DEF RowSound, Parts
    <2>3. /\ Tracked(d)' <=> Tracked(d)
          /\ Withdrawn(d)' <=> Withdrawn(d)
      BY <1>1 DEF Tracked, Withdrawn
    <2>4. loops'[l].step = "giveup" => GivenUp(d)'
      BY <1>2 DEF GivenUp, At, RowOf
    <2> QED BY <1>1, <1>2, <1>4, <1>6, <2>1, <2>2, <2>3, <2>4 DEF RowSound
  <1>10. /\ rowSent' \subseteq RowIds /\ late' \in [RowIds -> Nat]
         /\ loops'[l].step # "idle"
    BY <1>1 DEF WorkersIInv, WorkersTypeOK
  <1>11. \A e \in RowIds : e # RowOf(l) =>
           /\ seen'[e] = seen[e] /\ late'[e] = late[e] /\ (e \in rowSent' <=> e \in rowSent)
           /\ \A q \in Parts : PartReceipt(e, q)' <=> PartReceipt(e, q)
    BY <1>1, <1>2, <1>4, <1>5
  <1> QED BY <1>1, <1>4, <1>5, <1>8, <1>9, <1>10, <1>11, OwnRowStep

\* The platform confirmed a part of a row with part receipts.
LEMMA AnswerStep == ASSUME WorkersIInv, NEW l \in Loops, Answer(l) PROVE WorkersIInv'
  <1>1. /\ loops[l].step \in {"posted", "keep"} /\ UNCHANGED <<vars, rowSent, late, faults>>
        /\ {"keep", "giveup"} \subseteq Steps
    BY DEF Answer, At, Steps, Sending
  <1>2. ASSUME NEW step \in {"keep", "giveup"}, Go(l, step)
        PROVE  /\ loops' = [loops EXCEPT ![l] = loops'[l]] /\ loops'[l] \in Loop
               /\ loops'[l].row = loops[l].row /\ loops'[l].turn = loops[l].turn
               /\ loops'[l].left = loops[l].left
               /\ loops'[l].step = step /\ loops'[l].part = loops[l].part
    BY <1>1, <1>2, GoLoop
  <1>3. CASE /\ Heard(RowOf(l), loops[l].part, "confirmed")
             /\ partSent' = partSent \cup {<<RowOf(l), loops[l].part>>} /\ Go(l, "keep")
    BY <1>1, <1>2, <1>3, SentPartStep DEF Heard
  <1>4. CASE /\ Heard(RowOf(l), loops[l].part, "confirmed")
             /\ Go(l, Uncertain) /\ UNCHANGED partSent
    BY <1>1, <1>2, <1>4, SentPartStep DEF Heard, Uncertain
  <1>5. CASE Heard(RowOf(l), loops[l].part, "unnamed") /\ Go(l, "keep") /\ UNCHANGED partSent
    <2>1. seen'[RowOf(l)][loops[l].part] # "confirmed"
      <3>1. RowOf(l) \in RowIds /\ loops[l].part \in Parts
        BY <1>1, BusyLoop DEF Loop, Busy
      <3> QED BY <1>5, <3>1, OneRowSeen DEF Heard
    <2> QED BY <1>1, <1>2, <1>5, <2>1, SentPartStep DEF Heard
  <1> QED BY <1>3, <1>4, <1>5 DEF Answer

\* A connector without part receipts goes on to the next part.
LEMMA AnswerUntrackedStep ==
  ASSUME WorkersIInv, NEW l \in Loops, AnswerUntracked(l) PROVE WorkersIInv'
  <1>1. /\ loops[l].step \in {"posted", "keep"} /\ ~ Tracked(RowOf(l))
        /\ UNCHANGED <<vars, partSent, rowSent, late, faults>>
        /\ seen' = [seen EXCEPT ![RowOf(l)][loops[l].part] = "confirmed"]
        /\ loops' = [loops EXCEPT ![l] = NextPart(@)]
    BY DEF AnswerUntracked, At, Heard
  <1> QED BY <1>1, NextPartLoop, SentPartStep

\* The receipt of the part is there before the next part.
LEMMA KeepPartStep == ASSUME WorkersIInv, NEW l \in Loops, KeepPart(l) PROVE WorkersIInv'
  <1>1. /\ loops[l].step \in {"posted", "keep"} /\ Busy(l) /\ ~ At(l, "giveup")
        /\ UNCHANGED <<vars, rowSent, seen, late, faults>>
    BY DEF KeepPart, At, Busy
  <1>2. CASE /\ partSent' = partSent \cup {<<RowOf(l), loops[l].part>>}
             /\ loops' = [loops EXCEPT ![l] = NextPart(@)]
    BY <1>1, <1>2, NextPartLoop, SentPartStep
  <1>3. CASE Go(l, "fail") /\ UNCHANGED partSent
    BY <1>1, <1>3, StepAside
  <1> QED BY <1>2, <1>3 DEF KeepPart

\* The receipt of the row is stored when every part of it was sent.
LEMMA MarkRowStep == ASSUME WorkersIInv, NEW l \in Loops, MarkRow(l) PROVE WorkersIInv'
  <1>1. Busy(l) /\ ~ At(l, "giveup") /\ At(l, "mark")
        /\ UNCHANGED <<vars, partSent, seen, late, faults>> /\ outbox' = outbox
    BY DEF MarkRow, Busy, At, vars
  <1>2. CASE rowSent' = rowSent \cup {RowOf(l)} /\ Go(l, "ack")
    <2>1. /\ loops' = [loops EXCEPT ![l] = loops'[l]] /\ loops'[l] \in Loop
          /\ loops'[l].step = "ack" /\ loops'[l].row = loops[l].row
          /\ loops'[l].turn = loops[l].turn /\ loops'[l].left = loops[l].left
          /\ loops'[l].part = loops[l].part
      BY <1>2, GoLoop DEF Steps
    <2>2. /\ RowOf(l) = loops[l].row /\ RowOf(l) \in RowIds /\ loops[l] \in Loop
          /\ LoopSound(loops[l]) /\ RowSound(RowOf(l)) /\ UNCHANGED vars
      BY <1>1, BusyLoop
    <2>3. Margin(loops[l])' <= Margin(loops[l])
      <3>1. Margin(loops[l]) = loops[l].left /\ Margin(loops[l])' = loops[l].left
            /\ loops[l].left \in Nat
        BY <1>1, <2>1, <2>2, WorkerConstants DEF Margin, Loop, At
      <3> QED BY <3>1
    <2>4. /\ \A q \in Parts : seen[RowOf(l)][q] # "unsent"
          /\ Tracked(RowOf(l)) /\ faults = 0 =>
               \A q \in Parts : seen[RowOf(l)][q] = "confirmed" => PartReceipt(RowOf(l), q)
      BY <1>1, <2>2 DEF LoopSound, At
    <2>5. LoopSound(loops[l])'
      <3>1. /\ Holds(loops[l])' \/ Withdrawn(loops[l].row)'
            /\ loops'[l].row \in 1..nrows' /\ loops'[l].turn > 0
            /\ outbox'[loops'[l].row].attempts = loops'[l].turn
            /\ Tracked(loops[l].row)' <=> Tracked(RowOf(l))
        BY <1>1, <2>1, <2>2, <2>3, StillHeld
      <3> QED BY <1>1, <2>1, <2>2, <2>4, <3>1 DEF LoopSound, PartReceipt, Sending
    <2>6. ASSUME NEW e \in RowIds, e = RowOf(l) PROVE RowSound(e)'
      <3>1. RowSound(e)
        BY <2>2, <2>6
      <3>2. Tracked(e) /\ faults = 0 =>
              \A q \in Parts : seen[e][q] = "confirmed" => PartReceipt(e, q)
        BY <2>4, <2>6
      <3>3. \A q \in Parts : seen[e][q] # "unsent"
        BY <2>4, <2>6
      <3>4. /\ Tracked(e)' <=> Tracked(e)
            /\ Withdrawn(e)' <=> Withdrawn(e)
            /\ \A q \in Parts : PartReceipt(e, q)' <=> PartReceipt(e, q)
        BY <1>1 DEF Tracked, Withdrawn, PartReceipt
      <3> QED BY <1>1, <3>1, <3>2, <3>3, <3>4 DEF RowSound
    <2>7. /\ rowSent' \subseteq RowIds /\ partSent' \subseteq RowIds \X Parts
          /\ late' \in [RowIds -> Nat]
          /\ seen' \in [RowIds -> [Parts -> {"unsent", "posted", "unnamed", "confirmed"}]]
      BY <1>1, <1>2, <2>2 DEF WorkersIInv, WorkersTypeOK
    <2>8. \A e \in RowIds : e # RowOf(l) =>
            /\ seen'[e] = seen[e] /\ late'[e] = late[e] /\ (e \in rowSent' <=> e \in rowSent)
            /\ \A q \in Parts : PartReceipt(e, q)' <=> PartReceipt(e, q)
      BY <1>1, <1>2 DEF PartReceipt
    <2> QED BY <1>1, <2>1, <2>2, <2>5, <2>6, <2>7, <2>8, OwnRowStep
  <1>3. CASE Go(l, "fail") /\ UNCHANGED rowSent
    BY <1>1, <1>3, StepAside
  <1> QED BY <1>2, <1>3 DEF MarkRow

\* A loop reports and rests: its row is settled, or nothing becomes of it.
LEMMA ReportStep ==
  ASSUME WorkersIInv, IInv', NEW l \in Loops, loops[l].step \in {"ack", "fail", "giveup"},
         Rest(l), UNCHANGED <<partSent, rowSent, seen, late>>, nrows' = nrows,
         \A e \in RowIds : e # RowOf(l) => outbox'[e] = outbox[e],
         outbox'[RowOf(l)].run = outbox[RowOf(l)].run,
         outbox'[RowOf(l)].attempts = outbox[RowOf(l)].attempts,
         \/ /\ faults' = faults /\ outbox[RowOf(l)].status = "sending"
            /\ outbox'[RowOf(l)].status \in {"pending", "delivered", "failed"}
            /\ outbox'[RowOf(l)].status = "delivered" => At(l, "ack")
            /\ At(l, "giveup") => outbox'[RowOf(l)].status = "failed"
         \/ /\ outbox'[RowOf(l)] = outbox[RowOf(l)]
            /\ faults' \in 0..MaxFaults
            /\ (faults' = faults /\ ~ Holds(loops[l])) \/ faults' = faults + 1
  PROVE  WorkersIInv'
  <1>1. Busy(l) /\ loops[l].step \notin Sending
    BY DEF Busy, Sending
  <1>2. /\ RowOf(l) = loops[l].row /\ RowOf(l) \in RowIds /\ loops \in [Loops -> Loop]
        /\ LoopSound(loops[l]) /\ RowSound(RowOf(l)) /\ IInv /\ WorkersTypeOK
        /\ faults \in 0..MaxFaults /\ late[RowOf(l)] \in Nat
    BY <1>1, BusyLoop DEF WorkersIInv, WorkersTypeOK
  <1>3. loops'[l] = Idle /\ \A k \in Loops : k # l => loops'[k] = loops[k]
    BY <1>2 DEF Rest
  <1>4. /\ faults' \in 0..MaxFaults /\ (faults' = 0 => faults = 0)
        /\ outbox' [RowOf(l)] = outbox[RowOf(l)] /\ faults' = 0 => Withdrawn(RowOf(l))
    BY <1>1, <1>2, WorkerConstants DEF LoopSound, Busy
  <1>5. WorkersTypeOK'
    <2>1. Idle \in Loop
      BY WorkerConstants DEF Idle, Loop, Steps, Sending
    <2>2. loops' \in [Loops -> Loop]
      BY <1>2, <2>1 DEF Rest
    <2>3. \A k \in Loops : loops'[k].step # "idle" => loops'[k].row \in 1..nrows /\ loops'[k].turn > 0
      BY <1>2, <1>3 DEF WorkersTypeOK, Idle
    <2> QED BY <1>2, <1>4, <2>2, <2>3 DEF WorkersTypeOK
  <1>6. \A d \in RowIds, p \in Parts : PartReceipt(d, p)' <=> PartReceipt(d, p)
    BY DEF PartReceipt
  <1>7. ASSUME NEW k \in Loops PROVE LoopSound(loops[k])'
    <2>1. CASE k = l
      BY <1>3, <2>1 DEF LoopSound, Idle
    <2>2. CASE k # l
      <3>1. Busy(k) => RowOf(k) # RowOf(l)
        BY <1>1, <2>2 DEF WorkersIInv, LoopsApart
      <3>2. \A d \in RowIds : Busy(k) /\ d = loops[k].row =>
              /\ outbox'[d] = outbox[d] /\ seen'[d] = seen[d] /\ late'[d] = late[d]
              /\ \A p \in Parts : PartReceipt(d, p)' <=> PartReceipt(d, p)
        BY <1>6, <3>1 DEF RowOf
      <3> QED BY <1>3, <1>4, <2>2, <3>2, OtherLoopStep
    <2> QED BY <2>1, <2>2
  <1>8. ASSUME NEW d \in RowIds PROVE RowSound(d)'
    <2>1. RowSound(d) /\ (Tracked(d)' <=> Tracked(d))
          /\ outbox'[d].attempts = outbox[d].attempts
      BY DEF WorkersIInv, Tracked
    <2>2. CASE d # RowOf(l)
      <3>1. GivenUp(d) => GivenUp(d)'
        BY <1>3, <2>2 DEF GivenUp, At, RowOf
      <3> QED BY <1>4, <1>6, <2>1, <2>2, <3>1 DEF RowSound, Withdrawn
    <2>3. CASE d = RowOf(l) /\ outbox'[RowOf(l)] = outbox[RowOf(l)]
      BY <1>4, <1>6, <2>1, <2>3 DEF RowSound, Withdrawn
    <2>4. CASE d = RowOf(l) /\ outbox'[RowOf(l)] # outbox[RowOf(l)]
      <3>1. late[d] = 0
        BY <1>2, <2>4 DEF RowSound, Withdrawn
      <3>2. At(l, "ack") => \A p \in Parts : seen[d][p] # "unsent"
        BY <1>1, <1>2, <2>4 DEF LoopSound, At
      <3>3. Tracked(d) /\ faults = 0 /\ ~ At(l, "giveup") =>
              \A p \in Parts : seen[d][p] = "confirmed" => PartReceipt(d, p)
        BY <1>1, <1>2, <2>4 DEF LoopSound, At
      <3> QED BY <1>4, <1>6, <2>1, <2>4, <3>1, <3>2, <3>3 DEF RowSound
    <2> QED BY <2>2, <2>3, <2>4
  <1>9. LoopsApart'
    BY <1>3 DEF WorkersIInv, LoopsApart, Busy, RowOf, Idle
  <1>10. LeasedInOrder'
    <2> SUFFICES ASSUME NEW d \in RowIds, NEW e \in RowIds, d < e, SameConversation(d, e)',
                        outbox'[e].attempts > 0
                 PROVE  ~ Open(outbox'[d])
      BY DEF LeasedInOrder
    <2>1. outbox'[d].run = outbox[d].run /\ outbox'[e].run = outbox[e].run
          /\ outbox'[e].attempts = outbox[e].attempts
      OBVIOUS
    <2>2. ~ Open(outbox[d])
      BY <2>1 DEF WorkersIInv, LeasedInOrder, SameConversation
    <2> QED BY <2>2 DEF Open
  <1> QED BY <1>5, <1>7, <1>8, <1>9, <1>10 DEF WorkersIInv

\* What a loop reports fits the row it holds.
LEMMA HeldMatches ==
  ASSUME WorkersIInv, NEW l \in Loops, Busy(l)
  PROVE  /\ ReceiptOf(l) \in Receipts
         /\ Holds(loops[l]) => /\ outbox[RowOf(l)].status = "sending"
                               /\ LeaseMatches(outbox[RowOf(l)], ReceiptOf(l))
  <1>1. /\ loops[l] \in Loop /\ RowOf(l) = loops[l].row /\ outbox[RowOf(l)] \in Delivery
        /\ loops[l].turn \in 1..LeaseCap /\ outbox[RowOf(l)].attempts = loops[l].turn
    BY BusyLoop
  <1>2. ReceiptOf(l) \in [owner : Consumers, attempts : 1..LeaseCap]
    BY <1>1, WorkerConstants DEF ReceiptOf
  <1>3. ReceiptOf(l) # NoReceipt
    BY WorkerConstants DEF ReceiptOf, NoReceipt
  <1>4. Margin(loops[l]) \in Nat /\ outbox[RowOf(l)].lease \in Nat
    BY <1>1, WorkerConstants DEF Margin, Loop, Delivery
  <1>5. Holds(loops[l]) => LeaseMatches(outbox[RowOf(l)], ReceiptOf(l))
    <2> SUFFICES ASSUME Holds(loops[l]) PROVE LeaseMatches(outbox[RowOf(l)], ReceiptOf(l))
      OBVIOUS
    <2>1. outbox[RowOf(l)].lease > 0 /\ outbox[RowOf(l)].owner = PlatformOwner
      BY <1>1, <1>4 DEF Holds
    <2> QED BY <1>1, <1>3, <2>1 DEF LeaseMatches, ReceiptOf
  <1> QED BY <1>1, <1>2, <1>5 DEF Receipts, Holds

\* A report that comes to nothing.
LEMMA UnreportedStep ==
  ASSUME WorkersIInv, NEW l \in Loops, loops[l].step \in {"ack", "fail", "giveup"},
         Unreported(l), Rest(l), UNCHANGED <<partSent, rowSent, seen, late>>
  PROVE  WorkersIInv'
  <1>1. UNCHANGED vars /\ outbox' = outbox /\ nrows' = nrows /\ Busy(l)
    BY DEF Unreported, vars, Busy
  <1>2. IInv'
    BY <1>1, NextIInv DEF WorkersIInv
  <1>3. faults \in 0..MaxFaults /\ MaxFaults \in Nat
    BY WorkerConstants DEF WorkersIInv, WorkersTypeOK
  <1>4. /\ faults' \in 0..MaxFaults
        /\ (faults' = faults /\ ~ Holds(loops[l])) \/ faults' = faults + 1
    BY <1>1, <1>3, HeldMatches DEF Unreported
  <1> QED BY <1>1, <1>2, <1>4, ReportStep

\* ACK delivers the row, which was sent.
LEMMA AckRowStep == ASSUME WorkersIInv, NEW l \in Loops, AckRow(l) PROVE WorkersIInv'
  <1>1. /\ loops[l].step \in {"ack", "fail", "giveup"} /\ Busy(l) /\ At(l, "ack")
        /\ Rest(l) /\ UNCHANGED <<partSent, rowSent, seen, late>>
    BY DEF AckRow, At, Busy
  <1>2. CASE Unreported(l)
    BY <1>1, <1>2, UnreportedStep
  <1>3. CASE Ack(RowOf(l), ReceiptOf(l)) /\ UNCHANGED faults
    <2>1. /\ RowOf(l) \in RowIds /\ ReceiptOf(l) \in Receipts /\ outbox[RowOf(l)] \in Delivery
          /\ outbox \in [RowIds -> Delivery] /\ IInv
      BY <1>1, BusyLoop, HeldMatches DEF WorkersIInv, IInv, TypeOK
    <2>2. IInv'
      BY <1>3, <2>1, AckStep
    <2>3. /\ outbox' = [outbox EXCEPT ![RowOf(l)] = Settled(outbox[RowOf(l)], "delivered")]
          /\ nrows' = nrows /\ outbox[RowOf(l)].status = "sending"
      BY <1>3 DEF Ack
    <2>4. /\ outbox'[RowOf(l)] = Settled(outbox[RowOf(l)], "delivered")
          /\ \A e \in RowIds : e # RowOf(l) => outbox'[e] = outbox[e]
      BY <2>1, <2>3
    <2>5. /\ outbox'[RowOf(l)].run = outbox[RowOf(l)].run
          /\ outbox'[RowOf(l)].attempts = outbox[RowOf(l)].attempts
          /\ outbox'[RowOf(l)].status = "delivered"
      BY <2>1, <2>4, SettledRow
    <2> QED BY <1>1, <1>3, <2>2, <2>3, <2>4, <2>5, ReportStep DEF At
  <1> QED BY <1>1, <1>2, <1>3 DEF AckRow

\* FAIL lets the row wait for another attempt, or fails it for good, which it
\* does at once when the row was given up.
LEMMA FailRowStep == ASSUME WorkersIInv, NEW l \in Loops, FailRow(l) PROVE WorkersIInv'
  <1>1. /\ loops[l].step \in {"ack", "fail", "giveup"} /\ Busy(l) /\ ~ At(l, "ack")
        /\ Rest(l) /\ UNCHANGED <<partSent, rowSent, seen, late>>
    BY DEF FailRow, At, Busy
  <1>2. CASE Unreported(l)
    BY <1>1, <1>2, UnreportedStep
  <1>3. CASE Fail(RowOf(l), ReceiptOf(l), At(l, "fail")) /\ UNCHANGED faults
    <2> DEFINE row == outbox[RowOf(l)]
               again == At(l, "fail") /\ row.attempts < MaxAttempts
    <2>1. /\ RowOf(l) \in RowIds /\ ReceiptOf(l) \in Receipts /\ row \in Delivery
          /\ outbox \in [RowIds -> Delivery] /\ IInv
          /\ row.attempts > 0 /\ At(l, "fail") \in BOOLEAN
      BY <1>1, BusyLoop, HeldMatches, WorkerConstants DEF WorkersIInv, IInv, TypeOK, At
    <2>2. IInv'
      BY <1>3, <2>1, FailStep
    <2>3. /\ outbox' = [outbox EXCEPT ![RowOf(l)] = IF again THEN Requeued(row)
                                                    ELSE Settled(row, "failed")]
          /\ nrows' = nrows /\ row.status = "sending"
      BY <1>3 DEF Fail
    <2>4. /\ outbox'[RowOf(l)] = IF again THEN Requeued(row) ELSE Settled(row, "failed")
          /\ \A e \in RowIds : e # RowOf(l) => outbox'[e] = outbox[e]
      BY <2>1, <2>3
    <2>5. /\ Requeued(row).run = row.run /\ Requeued(row).attempts = row.attempts
          /\ Requeued(row).status = "pending"
      <3>1. Settled(row, "pending") \in Delivery /\ Settled(row, "pending").attempts = row.attempts
        BY <2>1, SettledRow
      <3>2. Requeued(row).attempts = row.attempts
        BY <3>1 DEF Requeued, Delivery
      <3> QED BY <2>1, <3>2, RequeuedRow
    <2>6. /\ outbox'[RowOf(l)].run = row.run /\ outbox'[RowOf(l)].attempts = row.attempts
          /\ outbox'[RowOf(l)].status = IF again THEN "pending" ELSE "failed"
      BY <2>1, <2>4, <2>5, SettledRow
    <2>7. At(l, "giveup") => ~ again
      BY DEF At
    <2> QED BY <1>1, <1>3, <2>2, <2>3, <2>4, <2>6, <2>7, ReportStep
  <1> QED BY <1>1, <1>2, <1>3 DEF FailRow

\* A loop takes a row that no other loop has, in its turn.
LEMMA LeaseRowStep ==
  ASSUME WorkersIInv, NEW l \in Loops, NEW d \in RowIds, LeaseRow(l, d)
  PROVE  WorkersIInv'
  <1>1. /\ IInv /\ WorkersTypeOK /\ LeasedInOrder /\ loops \in [Loops -> Loop]
        /\ FirstReady(d) /\ Lease(PlatformOwner, 1) /\ At(l, "idle")
        /\ UNCHANGED <<partSent, rowSent, seen, late>> /\ faults' = faults /\ nrows' = nrows
        /\ nrows \in Nat /\ d \in Nat /\ outbox[d] \in Delivery
    <2>1. Lease(PlatformOwner, 1)
      BY DEF LeaseRow
    <2>2. nrows' = nrows
      BY <2>1 DEF Lease
    <2> QED BY <2>1, <2>2, RowShape, WorkerConstants
            DEF LeaseRow, WorkersIInv, WorkersTypeOK, RowIds
  <1>2. IInv'
    BY <1>1, WorkerConstants, LeaseStep
  <1>3. \A e \in RowIds : e # d => ~ FirstReady(e)
    BY <1>1, WorkerConstants DEF FirstReady, RowIds
  <1>4. \A e \in RowIds : e # d => Carried(e)
    BY <1>1, <1>3, LeaseCarries
  <1>5. /\ d <= nrows
        /\ outbox'[d].run = outbox[d].run
        /\ outbox'[d].attempts = outbox[d].attempts + 1
        /\ outbox[d].attempts < LeaseCap
        /\ outbox'[d].status = "sending" /\ outbox'[d].owner = PlatformOwner
        /\ outbox'[d].lease = LeaseTime
        /\ \/ outbox[d].status = "pending"
           \/ outbox[d].status = "sending" /\ outbox[d].lease = 0
        /\ \A e \in RowIds : e < d /\ SameConversation(e, d) => ~ Open(outbox'[e])
    BY <1>1, LeaseCarries
  <1>6. \A k \in Loops : Busy(k) => RowOf(k) # d
    <2> SUFFICES ASSUME NEW k \in Loops, Busy(k), RowOf(k) = d PROVE FALSE
      OBVIOUS
    <2>1. /\ loops[k] \in Loop /\ loops[k].row = d /\ LoopSound(loops[k])
          /\ Margin(loops[k]) \in Nat
      BY BusyLoop, WorkerConstants DEF Margin, Loop
    <2>2. Holds(loops[k]) \/ Withdrawn(d)
      BY <2>1 DEF LoopSound, Busy
    <2> QED BY <1>1, <1>5, <2>1, <2>2 DEF Holds, Withdrawn, Delivery
  <1>7. RowSound(d) /\ ~ GivenUp(d) /\ ~ Withdrawn(d) /\ outbox[d].status # "delivered"
        /\ outbox[d].status # "failed"
    BY <1>5, <1>6 DEF WorkersIInv, GivenUp, At, Busy, Withdrawn
  <1>8. /\ \A k \in Loops : k # l => loops'[k] = loops[k]
        /\ loops'[l].step = "leased" /\ loops'[l].row = d /\ loops'[l].part = 1
        /\ loops'[l].left = 0 /\ loops'[l].turn = outbox[d].attempts + 1
        /\ loops' \in [Loops -> Loop]
    <2>1. /\ outbox[d].attempts + 1 \in 0..LeaseCap /\ "leased" \in Steps
          /\ d \in RowIds \cup {0}
      BY <1>1, <1>5, WorkerConstants DEF Delivery, Steps
    <2>2. PICK turn \in 0..LeaseCap : turn = outbox[d].attempts + 1
      BY <2>1
    <2>3. Idle \in Loop /\ Idle.part = 1 /\ Idle.left = 0
      BY WorkerConstants DEF Idle, Loop, Steps
    <2> DEFINE new == [Idle EXCEPT !.step = "leased", !.row = d, !.turn = turn]
    <2>4. /\ new \in Loop /\ new.step = "leased" /\ new.row = d /\ new.turn = turn
          /\ new.part = 1 /\ new.left = 0
      <3>1. PICK x \in Loop : x = Idle
        BY <2>3
      <3>2. PICK y : y = [x EXCEPT !.step = "leased", !.row = d, !.turn = turn]
        OBVIOUS
      <3>3. /\ y \in Loop /\ y.step = "leased" /\ y.row = d /\ y.turn = turn
            /\ y.part = x.part /\ y.left = x.left
        BY <2>1, <3>2 DEF Loop
      <3>4. y = new
        BY <3>1, <3>2
      <3> HIDE DEF new
      <3> QED BY <2>3, <3>1, <3>3, <3>4
    <2>5. loops' = [loops EXCEPT ![l] = new]
      BY <2>2 DEF LeaseRow
    <2> HIDE DEF new
    <2> QED BY <1>1, <2>2, <2>4, <2>5
  <1>9. WorkersTypeOK'
    <2>1. \A k \in Loops : loops'[k].step # "idle" => loops'[k].row \in 1..nrows /\ loops'[k].turn > 0
      <3>1. d \in 1..nrows /\ outbox[d].attempts + 1 > 0
        BY <1>1, <1>5, WorkerConstants DEF RowIds, Delivery
      <3> QED BY <1>1, <1>8, <3>1 DEF WorkersTypeOK
    <2> QED BY <1>1, <1>8, <2>1 DEF WorkersTypeOK
  <1>10. ASSUME NEW k \in Loops PROVE LoopSound(loops[k])'
    <2>1. CASE k = l
      <3>1. Margin(loops[l])' = SendTime
        BY <1>8 DEF Margin
      <3>2. Holds(loops[l])'
        BY <1>5, <1>8, <3>1, WorkerConstants DEF Holds
      <3>3. (Tracked(d)' <=> Tracked(d)) /\ d \in 1..nrows' /\ outbox[d].attempts + 1 > 0
        BY <1>1, <1>5, WorkerConstants DEF Tracked, RowIds, Delivery
      <3>4. Tracked(d) /\ faults = 0 =>
              \A p \in Parts : seen[d][p] = "confirmed" => <<d, p>> \in partSent
        BY <1>5, <1>7 DEF RowSound, PartReceipt
      <3> QED BY <1>1, <1>5, <1>8, <2>1, <3>2, <3>3, <3>4 DEF LoopSound, PartReceipt, Sending
    <2>2. CASE k # l
      <3>1. PICK x \in Loop : x = loops[k]
        BY <1>1
      <3>2. LoopSound(x) /\ (x.step # "idle" => x.row # d)
        BY <1>6, <3>1 DEF WorkersIInv, Busy, RowOf
      <3>3. LoopSound(x)'
        BY <1>1, <1>4, <3>2, CarriedLoop
      <3> QED BY <1>8, <2>2, <3>1, <3>3
    <2> QED BY <2>1, <2>2
  <1>11. ASSUME NEW e \in RowIds PROVE RowSound(e)'
    <2>1. CASE e # d
      <3>1. GivenUp(e) => GivenUp(e)'
        BY <1>1, <1>8 DEF GivenUp, At, RowOf
      <3> QED BY <1>1, <1>4, <2>1, <3>1, CarriedRow DEF WorkersIInv
    <2>2. CASE e = d
      <3>1. late[d] = 0 /\ outbox'[d].attempts > 0 /\ (Tracked(d)' <=> Tracked(d))
        BY <1>1, <1>5, <1>7 DEF RowSound, WorkersTypeOK, Tracked, Delivery
      <3> QED BY <1>1, <1>5, <1>7, <2>2, <3>1 DEF RowSound, PartReceipt
    <2> QED BY <2>1, <2>2
  <1>12. LoopsApart'
    BY <1>6, <1>8 DEF WorkersIInv, LoopsApart, Busy, RowOf
  <1>13. ASSUME NEW e \in RowIds, NEW f \in RowIds, e < f, SameConversation(e, f)',
                outbox'[f].attempts > 0
         PROVE  ~ Open(outbox'[e])
    <2>1. e \in Nat /\ f \in Nat
      BY WorkerConstants DEF RowIds
    <2>2. CASE f = d
      <3>1. outbox'[e].run = outbox[e].run
        BY <1>1, <1>4, <1>5, <1>13, <2>1, <2>2 DEF Carried, SameRow
      <3>2. SameConversation(e, d)
        BY <1>5, <1>13, <2>2, <3>1 DEF SameConversation
      <3> QED BY <1>5, <1>13, <2>2, <3>2
    <2>3. CASE f # d
      <3>1. f <= nrows /\ SameRow(f)
        BY <1>1, <1>4, <1>13, <2>1, <2>3 DEF Carried
      <3>2. CASE e # d
        BY <1>1, <1>4, <1>13, <3>1, <3>2, CarriedOrder DEF SameRow
      <3>3. CASE e = d
        <4>1. SameConversation(d, f) /\ outbox[f].attempts > 0
          BY <1>5, <1>13, <3>1, <3>3 DEF SameConversation, SameRow
        <4>2. ~ Open(outbox[d])
          BY <1>1, <1>13, <3>3, <4>1 DEF LeasedInOrder
        <4> QED BY <1>5, <4>2 DEF Open
      <3> QED BY <3>2, <3>3
    <2> QED BY <2>2, <2>3
  <1> QED BY <1>2, <1>9, <1>10, <1>11, <1>12, <1>13 DEF WorkersIInv, LeasedInOrder

\* A lease that finds nothing still carries every row.
LEMMA LeaseNothingStep ==
  ASSUME WorkersIInv, NEW l \in Loops, LeaseNothing(l) PROVE WorkersIInv'
  <1>1. /\ IInv /\ Lease(PlatformOwner, 1) /\ UNCHANGED workerVars
        /\ \A d \in RowIds : ~ FirstReady(d)
    BY DEF LeaseNothing, WorkersIInv
  <1>2. nrows' = nrows /\ nrows \in Nat
    BY <1>1, FreeRows DEF Lease
  <1>3. IInv'
    BY <1>1, WorkerConstants, LeaseStep
  <1>4. \A d \in RowIds : Carried(d)
    BY <1>1, LeaseCarries
  <1> QED BY <1>1, <1>2, <1>3, <1>4, CarriedStep

\* So does a step of the runs.
LEMMA RunsGoOnStep == ASSUME WorkersIInv, RunsGoOn PROVE WorkersIInv'
  <1>1. PICK r \in Runs : RunStep(r)
    BY DEF RunsGoOn
  <1>2. IInv /\ UNCHANGED workerVars
    BY DEF RunsGoOn, WorkersIInv
  <1>3. IInv'
    BY <1>1, <1>2, NextIInv DEF Next
  <1> QED BY <1>1, <1>2, <1>3, RunStepCarries, CarriedStep

\* After a crash no loop relies on anything.
LEMMA CrashStep == ASSUME WorkersIInv, Crash PROVE WorkersIInv'
  <1>1. /\ IInv' /\ outbox' = outbox /\ nrows' = nrows
        /\ UNCHANGED <<partSent, rowSent, seen, late>>
        /\ faults' \in 0..MaxFaults /\ faults' # 0
    BY RestartStep, WorkerConstants DEF Crash, Restart, WorkersIInv, WorkersTypeOK
  <1>2. \A l \in Loops : loops'[l].step = "idle"
    BY DEF Crash, Idle
  <1>3. WorkersTypeOK'
    <2>1. Idle \in Loop
      BY WorkerConstants DEF Idle, Loop, Steps, Sending
    <2>2. loops' \in [Loops -> Loop]
      BY <2>1 DEF Crash
    <2> QED BY <1>1, <1>2, <2>2 DEF WorkersIInv, WorkersTypeOK
  <1>4. ASSUME NEW d \in RowIds PROVE RowSound(d)'
    BY <1>1 DEF WorkersIInv, RowSound, PartReceipt, Tracked, Withdrawn
  <1>5. LeasedInOrder'
    BY <1>1 DEF WorkersIInv, LeasedInOrder, SameConversation
  <1> QED BY <1>1, <1>2, <1>3, <1>4, <1>5 DEF WorkersIInv, LoopSound, LoopsApart, Busy

\* Time takes as much from a lease as from the loop that counts on it.
LEMMA TimePassesStep == ASSUME WorkersIInv, TimePasses PROVE WorkersIInv'
  <1>1. /\ IInv /\ WorkersTypeOK /\ Tick /\ nrows' = nrows /\ loops \in [Loops -> Loop]
        /\ UNCHANGED <<partSent, rowSent, seen, late>> /\ faults' = faults
        /\ outbox \in [RowIds -> Delivery]
    BY DEF TimePasses, Tick, WorkersIInv, WorkersTypeOK, IInv, TypeOK
  <1>2. IInv'
    BY <1>1, TickStep
  <1>3. \A d \in RowIds : /\ outbox'[d].status = outbox[d].status
                          /\ outbox'[d].run = outbox[d].run
                          /\ outbox'[d].attempts = outbox[d].attempts
                          /\ outbox'[d].owner = outbox[d].owner
                          /\ outbox'[d].lease = Down(outbox[d].lease)
                          /\ outbox[d].lease \in Nat
    <2> TAKE d \in RowIds
    <2>1. outbox[d] \in Delivery /\ outbox'[d] = Aged(outbox[d])
      BY <1>1 DEF Tick
    <2> QED BY <2>1 DEF Aged, Delivery
  <1>4. ASSUME NEW l \in Loops
        PROVE  /\ loops'[l] = [loops[l] EXCEPT !.left = Down(@)] /\ loops[l] \in Loop
               /\ loops'[l] \in Loop
               /\ loops'[l].step = loops[l].step /\ loops'[l].row = loops[l].row
               /\ loops'[l].turn = loops[l].turn /\ loops'[l].part = loops[l].part
               /\ loops'[l].left = Down(loops[l].left)
    <2>1. loops'[l] = [loops[l] EXCEPT !.left = Down(@)] /\ loops[l] \in Loop
      BY <1>1 DEF TimePasses
    <2>2. Down(loops[l].left) \in 0..SendTime
      BY <2>1, WorkerConstants DEF Loop, Down
    <2> QED BY <2>1, <2>2 DEF Loop
  <1>5. WorkersTypeOK'
    <2>1. loops' \in [Loops -> Loop]
      BY <1>4 DEF TimePasses
    <2> QED BY <1>1, <1>4, <2>1 DEF WorkersTypeOK
  <1>6. \A d \in RowIds : /\ Tracked(d)' <=> Tracked(d)
                          /\ Withdrawn(d)' <=> Withdrawn(d)
    BY <1>3 DEF Tracked, Withdrawn
  <1>7. ASSUME NEW l \in Loops PROVE LoopSound(loops[l])'
    <2> SUFFICES ASSUME Busy(l) PROVE LoopSound(loops[l])'
      BY <1>4 DEF LoopSound, Busy
    <2>1. PICK d \in RowIds : d = loops[l].row
      BY BusyLoop
    <2>2. /\ LoopSound(loops[l]) /\ loops[l].step \in Sending /\ loops[l].left > 0
          /\ loops[l].left \in Nat
      BY <1>4, BusyLoop, WorkerConstants DEF TimePasses, InTime, At, Busy, Loop
    <2>3. Holds(loops[l]) => Holds(loops[l])'
      <3>1. Margin(loops[l]) = loops[l].left /\ Margin(loops[l])' = loops[l].left - 1
        BY <1>4, <2>2 DEF Margin, Sending, Down
      <3>2. outbox[d].lease > loops[l].left => outbox'[d].lease > loops[l].left - 1
        BY <1>3, <2>2 DEF Down
      <3> QED BY <1>3, <1>4, <2>1, <3>1, <3>2 DEF Holds
    <2>4. Holds(loops[l])' \/ Withdrawn(d)'
      BY <1>6, <2>1, <2>2, <2>3 DEF LoopSound, Sending
    <2> QED BY <1>1, <1>3, <1>4, <1>6, <2>1, <2>2, <2>4 DEF LoopSound, PartReceipt, Sending
  <1>8. ASSUME NEW d \in RowIds PROVE RowSound(d)'
    <2>1. GivenUp(d) => GivenUp(d)'
      BY <1>4 DEF GivenUp, At, RowOf
    <2> QED BY <1>1, <1>3, <1>6, <2>1 DEF WorkersIInv, RowSound, PartReceipt
  <1>9. LoopsApart'
    <2>1. \A l \in Loops : (Busy(l)' <=> Busy(l)) /\ RowOf(l)' = RowOf(l)
      BY <1>4 DEF Busy, RowOf
    <2> QED BY <2>1 DEF WorkersIInv, LoopsApart
  <1>10. LeasedInOrder'
    BY <1>3 DEF WorkersIInv, LeasedInOrder, SameConversation, Open
  <1> QED BY <1>2, <1>5, <1>7, <1>8, <1>9, <1>10 DEF WorkersIInv

-----------------------------------------------------------------------------
(* The theorems.                                                           *)

\* Every step of the workers preserves the inductive invariant.
LEMMA WorkersNextIInv == WorkersIInv /\ [WorkersNext]_allVars => WorkersIInv'
  <1> SUFFICES ASSUME WorkersIInv, [WorkersNext]_allVars PROVE WorkersIInv'
    OBVIOUS
  <1>1. ASSUME NEW l \in Loops, LoopStep(l) PROVE WorkersIInv'
    <2>1. CASE LeaseNothing(l) \/ \E d \in RowIds : LeaseRow(l, d)
      BY <2>1, LeaseRowStep, LeaseNothingStep
    <2>2. CASE CheckRow(l) \/ EnsureRow(l) \/ CheckPart(l) \/ EnsurePart(l)
      BY <2>2, CheckRowStep, EnsureRowStep, CheckPartStep, EnsurePartStep
    <2>3. CASE Post(l) \/ Refuse(l) \/ LoseAnswer(l)
      BY <2>3, PostPartStep, RefuseStep
    <2>4. CASE Answer(l) \/ AnswerUntracked(l) \/ KeepPart(l)
      BY <2>4, AnswerStep, AnswerUntrackedStep, KeepPartStep
    <2>5. CASE MarkRow(l) \/ AckRow(l) \/ FailRow(l)
      BY <2>5, MarkRowStep, AckRowStep, FailRowStep
    <2> QED BY <1>1, <2>1, <2>2, <2>3, <2>4, <2>5 DEF LoopStep
  <1>2. CASE UNCHANGED allVars
    <2>1. /\ UNCHANGED vars /\ UNCHANGED workerVars /\ IInv
          /\ outbox' = outbox /\ nrows' = nrows
      BY <1>2 DEF allVars, vars, WorkersIInv
    <2>2. IInv'
      BY <2>1, NextIInv
    <2>3. nrows' >= nrows /\ \A d \in RowIds : Carried(d)
      BY <2>1, RowShape, FreeRows, WorkerConstants DEF Carried, SameRow, RowIds
    <2> QED BY <2>1, <2>2, <2>3, CarriedStep
  <1> QED BY <1>1, <1>2, RunsGoOnStep, CrashStep, TimePassesStep DEF WorkersNext

\* What the loops rely on holds in every state they reach.
THEOREM WorkersInvariant == WorkersSpec => []WorkersIInv
  <1> QED BY WorkersInitIInv, WorkersNextIInv, PTL DEF WorkersSpec

\* The receipts, the loops and what the platform saw keep their shape; a busy
\* loop always has a row that exists.
THEOREM WorkersTyped == WorkersSpec => []WorkersTypeOK
  <1>1. WorkersIInv => WorkersTypeOK
    BY DEF WorkersIInv
  <1> QED BY <1>1, WorkersInvariant, PTL

\* To the outbox, the loops are consumers like any others: whatever they do,
\* crashes included, is a step of Outbox, and all that holds of it holds here.
THEOREM WorkersImplementOutbox == WorkersSpec => Spec
  <1>1. WorkersInit => Init
    BY DEF WorkersInit
  <1>2. WorkersIInv /\ [WorkersNext]_allVars => [Next]_vars
    <2> SUFFICES ASSUME WorkersIInv, [WorkersNext]_allVars PROVE [Next]_vars
      OBVIOUS
    <2>1. ASSUME NEW l \in Loops, LoopStep(l) PROVE [Next]_vars
      <3>1. CASE LeaseNothing(l) \/ \E d \in RowIds : LeaseRow(l, d)
        BY <3>1, WorkerConstants DEF LeaseNothing, LeaseRow, Next
      <3>2. CASE \/ CheckRow(l) \/ EnsureRow(l) \/ CheckPart(l) \/ EnsurePart(l) \/ Post(l)
                 \/ Refuse(l) \/ LoseAnswer(l) \/ Answer(l) \/ AnswerUntracked(l)
                 \/ KeepPart(l) \/ MarkRow(l)
        BY <3>2 DEF CheckRow, EnsureRow, CheckPart, EnsurePart, Post, Refuse, LoseAnswer,
                    Answer, AnswerUntracked, KeepPart, MarkRow
      <3>3. CASE AckRow(l) \/ FailRow(l)
        <4>1. Busy(l)
          BY <3>3 DEF AckRow, FailRow, At, Busy
        <4>2. RowOf(l) \in RowIds /\ ReceiptOf(l) \in Receipts /\ At(l, "fail") \in BOOLEAN
          BY <4>1, BusyLoop, HeldMatches DEF At
        <4>3. CASE Unreported(l)
          BY <4>3 DEF Unreported
        <4>4. CASE Ack(RowOf(l), ReceiptOf(l)) \/ Fail(RowOf(l), ReceiptOf(l), At(l, "fail"))
          BY <4>2, <4>4 DEF Next, RowStep
        <4> QED BY <3>3, <4>3, <4>4 DEF AckRow, FailRow
      <3> QED BY <2>1, <3>1, <3>2, <3>3 DEF LoopStep
    <2>2. CASE RunsGoOn \/ Crash \/ TimePasses
      BY <2>2 DEF RunsGoOn, Crash, TimePasses, Next
    <2>3. CASE UNCHANGED allVars
      BY <2>3 DEF allVars
    <2> QED BY <2>1, <2>2, <2>3 DEF WorkersNext
  <1> QED BY <1>1, <1>2, WorkersInvariant, PTL DEF WorkersSpec, Spec

\* Two loops never send live rows of one conversation at the same time.
THEOREM NoTwoSenders == WorkersSpec => []OneSenderPerConversation
  <1>1. WorkersIInv => OneSenderPerConversation
    <2> SUFFICES ASSUME WorkersIInv, NEW l \in Loops, NEW k \in Loops, l # k, Busy(l), Busy(k),
                        SameConversation(RowOf(l), RowOf(k)),
                        ~ Withdrawn(RowOf(l)), ~ Withdrawn(RowOf(k))
                 PROVE  FALSE
      BY DEF OneSenderPerConversation
    <2>1. \A m \in {l, k} : /\ RowOf(m) \in RowIds /\ RowOf(m) \in Nat
                            /\ outbox[RowOf(m)].attempts > 0
                            /\ outbox[RowOf(m)].status = "sending"
      <3> TAKE m \in {l, k}
      <3>1. /\ RowOf(m) \in RowIds /\ LoopSound(loops[m]) /\ RowOf(m) = loops[m].row
            /\ outbox[RowOf(m)].attempts = loops[m].turn /\ Busy(m)
        BY BusyLoop
      <3> QED BY <3>1, WorkerConstants DEF LoopSound, Holds, Busy, RowIds
    <2>2. RowOf(l) # RowOf(k) /\ SameConversation(RowOf(k), RowOf(l))
      BY DEF WorkersIInv, LoopsApart, SameConversation
    <2>3. RowOf(l) < RowOf(k) \/ RowOf(k) < RowOf(l)
      BY <2>1, <2>2
    <2> QED BY <2>1, <2>2, <2>3 DEF WorkersIInv, LeasedInOrder, Open
  <1> QED BY <1>1, WorkersInvariant, PTL

\* A row that is reported delivered was sent, all its parts.
THEOREM DeliveredMeansSent == WorkersSpec => []DeliveredWasSent
  <1>1. WorkersIInv => DeliveredWasSent
    BY DEF WorkersIInv, RowSound, DeliveredWasSent
  <1> QED BY <1>1, WorkersInvariant, PTL

\* At most one part of a row that was withdrawn still reaches the platform.
THEOREM WithdrawnRowsStop == WorkersSpec => []WithdrawnStops
  <1>1. WorkersIInv => WithdrawnStops
    BY DEF WorkersIInv, RowSound, WithdrawnStops
  <1> QED BY <1>1, WorkersInvariant, PTL

\* What the platform saw of a row changes only in the hands of its loop.
LEMMA SeenByItsLoop ==
  ASSUME WorkersIInv, [WorkersNext]_allVars, NEW d \in RowIds, seen'[d] # seen[d]
  PROVE  \E l \in Loops :
           /\ Busy(l) /\ RowOf(l) = d /\ loops[l].part \in Parts
           /\ \/ Post(l)
              \/ \E how \in {"unnamed", "confirmed"} : Heard(d, loops[l].part, how)
  <1>1. seen' # seen
    OBVIOUS
  <1>2. PICK l \in Loops : Post(l) \/ Answer(l) \/ AnswerUntracked(l)
    BY <1>1 DEF WorkersNext, RunsGoOn, Crash, TimePasses, LoopStep, LeaseRow, LeaseNothing,
                CheckRow, EnsureRow, CheckPart, EnsurePart, Refuse, LoseAnswer, KeepPart,
                MarkRow, AckRow, FailRow, allVars, workerVars
  <1>3. Busy(l)
    BY <1>2 DEF Post, Answer, AnswerUntracked, At, Busy
  <1>4. \/ Post(l)
        \/ \E how \in {"unnamed", "confirmed"} : Heard(RowOf(l), loops[l].part, how)
    BY <1>1, <1>2 DEF Answer, AnswerUntracked
  <1>5. RowOf(l) \in RowIds /\ loops[l].part \in Parts
    BY <1>3, BusyLoop DEF Loop
  <1>6. RowOf(l) = d
    <2>1. \E v \in {"posted", "unnamed", "confirmed"} :
            seen' = [seen EXCEPT ![RowOf(l)][loops[l].part] = v]
      BY <1>4 DEF Post, Heard
    <2> QED BY <1>5, <2>1, OneRowSeen
  <1> QED BY <1>3, <1>4, <1>5, <1>6

\* A confirmed part that has its receipt is not sent again.  One without is not
\* either, in the absence of faults, if the platform named the message: when its
\* answer had no message id, a failing receipt sends the part again.
THEOREM ConfirmedPartsOnce == WorkersSpec => ConfirmedOnce
  <1>1. ASSUME WorkersIInv, [WorkersNext]_allVars, NEW d \in RowIds, NEW p \in Parts,
               Tracked(d), Confirmed(d, p),
               PartReceipt(d, p) \/ (faults = 0 /\ seen[d][p] = "confirmed")
        PROVE  Confirmed(d, p)'
    <2> SUFFICES ASSUME seen'[d] # seen[d] PROVE seen'[d][p] \in {"unnamed", "confirmed"}
      BY <1>1 DEF Confirmed
    <2>1. PICK l \in Loops :
            /\ Busy(l) /\ RowOf(l) = d /\ loops[l].part \in Parts
            /\ \/ Post(l)
               \/ \E how \in {"unnamed", "confirmed"} : Heard(d, loops[l].part, how)
      BY <1>1, SeenByItsLoop
    <2>2. ASSUME NEW how \in {"unnamed", "confirmed"}, Heard(d, loops[l].part, how)
          PROVE  seen'[d][p] \in {"unnamed", "confirmed"}
      BY <1>1, <2>1, <2>2, OneRowSeen DEF Heard, Confirmed
    <2>3. CASE Post(l)
      <3>1. seen' = [seen EXCEPT ![d][loops[l].part] = "posted"] /\ At(l, "post")
        BY <2>1, <2>3 DEF Post
      <3>2. LoopSound(loops[l]) /\ loops[l].row = d
        BY <1>1, <2>1, BusyLoop
      <3>3. ~ PartReceipt(d, loops[l].part) /\ PartReceipt(d, p)
        BY <1>1, <3>1, <3>2 DEF LoopSound, At
      <3>4. p # loops[l].part
        BY <3>3
      <3> QED BY <1>1, <2>1, <3>1, <3>4, OneRowSeen DEF Confirmed
    <2> QED BY <2>1, <2>2, <2>3
  <1>2. WorkersIInv /\ [WorkersNext]_allVars =>
          [\A d \in RowIds, p \in Parts :
             /\ Tracked(d) /\ Confirmed(d, p)
             /\ PartReceipt(d, p) \/ (faults = 0 /\ seen[d][p] = "confirmed")
             => Confirmed(d, p)']_allVars
    BY <1>1
  <1> QED BY <1>2, WorkersInvariant, PTL DEF WorkersSpec, ConfirmedOnce

\* Members see the rows of a conversation in order.
THEOREM RowsShownInOrder == WorkersSpec => ShownInOrder
  <1>1. ASSUME WorkersIInv, [WorkersNext]_allVars, NEW d \in RowIds, NEW e \in RowIds, d < e,
               SameConversation(d, e), NEW p \in Parts, seen[e][p] # "unsent",
               seen'[d] # seen[d]
        PROVE  Withdrawn(d)
    <2>1. PICK l \in Loops : Busy(l) /\ RowOf(l) = d
      BY <1>1, SeenByItsLoop
    <2>2. LoopSound(loops[l]) /\ loops[l].row = d
      BY <1>1, <2>1, BusyLoop
    <2>3. Holds(loops[l]) \/ Withdrawn(d)
      BY <2>1, <2>2 DEF LoopSound, Busy
    <2>4. outbox[e].attempts > 0
      BY <1>1 DEF WorkersIInv, RowSound
    <2>5. ~ Open(outbox[d])
      BY <1>1, <2>4 DEF WorkersIInv, LeasedInOrder
    <2> QED BY <2>2, <2>3, <2>5 DEF Holds, Open
  <1>2. WorkersIInv /\ [WorkersNext]_allVars =>
          [\A d, e \in RowIds :
             /\ d < e /\ SameConversation(d, e)
             /\ \E p \in Parts : seen[e][p] # "unsent"
             /\ seen'[d] # seen[d]
             => Withdrawn(d)]_allVars
    BY <1>1
  <1> QED BY <1>2, WorkersInvariant, PTL DEF WorkersSpec, ShownInOrder

-----------------------------------------------------------------------------
(* Realtime: a text the device still repeats reaches the gateway before    *)
(* any event that would make the gateway drop it as old.                   *)

InHand(s) == reader[s].phase \in {"handling", "claimed"}

\* What became of a text that was read.
Done(text) == text \in accepted \cup spoilt \/ AtWorkOn(text)

\* The text is with the goroutine of s, or among the first n on its wire.
Under(s, text, n) ==
  \/ InHand(s) /\ reader[s].event.number = text
  \/ \E i \in 1..n : wire[s][i].number = text

\* An event of the device: its number was used, a text is answered or not, no
\* other event has the number of a text that is not, and an acknowledgement is
\* of a reply that was shown.
SentByDevice(e) ==
  /\ e.number <= device.used
  /\ e.number \in device.unanswered => e.kind = "text"
  /\ e.kind = "text" => e.number \in device.unanswered \cup answered
  /\ e.kind = "ack" => shown

GatewayShape ==
  /\ device \in [socket : Sockets \cup {NoSocket}, used : 0..MaxNumber,
                 unanswered : SUBSET Numbers, owes : BOOLEAN]
  /\ wire \in [Sockets -> Seq(Event)]
  /\ live \subseteq Sockets /\ client \in Sockets \cup {NoSocket}
  /\ reader \in [Sockets -> [phase : Readers, event : Event \cup {NoEvent}]]
  /\ \A s \in Sockets : /\ InHand(s) <=> reader[s].event \in Event
                        /\ s \in live => reader[s].phase # "none"
                        /\ reader[s].phase = "claimed" => reader[s].event.kind = "text"
  /\ last \in 0..device.used
  /\ device.unanswered \subseteq 1..device.used
  /\ accepted \subseteq 1..device.used /\ answered \subseteq 1..device.used
  /\ spoilt \subseteq 1..device.used
  /\ reply \in {"waits", "written", "pending", "sent"} /\ shown \in BOOLEAN
  /\ outages \in 0..MaxOutages

\* Events were sent.
EventsSent ==
  \A s \in Sockets : /\ InHand(s) => SentByDevice(reader[s].event)
                     /\ \A i \in 1..Len(wire[s]) : SentByDevice(wire[s][i])

\* A text that is not answered comes before any event with a higher number.
TextsComeFirst ==
  \A s \in Sockets, t \in device.unanswered :
    /\ InHand(s) /\ t < reader[s].event.number => Done(t)
    /\ \A i \in 1..Len(wire[s]) :
         t < wire[s][i].number => Done(t) \/ Under(s, t, i - 1)

\* The socket of the device carries every text that is not answered.
SocketCarries ==
  \A t \in device.unanswered :
    device.socket # NoSocket =>
      Done(t) \/ Under(device.socket, t, Len(wire[device.socket]))

\* The numbers claimed leave no text behind.
ClaimedInOrder == \A t \in device.unanswered : t <= last => Done(t)

RealtimeIInv ==
  /\ GatewayShape /\ EventsSent /\ TextsComeFirst /\ SocketCarries /\ ClaimedInOrder
  /\ TextsKept /\ RepliesShown
  /\ device.owes => shown

-----------------------------------------------------------------------------
LEMMA NoEventIsNone == NoEvent \notin Event
  BY RealtimeAssumption DEF NoEvent, Event, Numbers

LEMMA GatewayPromises ==
  ASSUME RealtimeIInv
  PROVE  WordsKept
  <1>1. RealtimeTypeOK
    <2>1. 0..device.used \subseteq 0..MaxNumber
      BY RealtimeAssumption DEF RealtimeIInv, GatewayShape
    <2> QED BY <2>1 DEF RealtimeIInv, GatewayShape, RealtimeTypeOK, InHand
  <1> QED BY <1>1 DEF RealtimeIInv, WordsKept

LEMMA GatewayStarts == RealtimeInit => RealtimeIInv
  <1> SUFFICES ASSUME RealtimeInit PROVE RealtimeIInv
    OBVIOUS
  <1>1. /\ device = [socket |-> NoSocket, used |-> 0, unanswered |-> {}, owes |-> FALSE]
        /\ wire = [s \in Sockets |-> <<>>] /\ live = {} /\ client = NoSocket
        /\ reader = [s \in Sockets |-> [phase |-> "none", event |-> NoEvent]]
        /\ last = 0 /\ accepted = {} /\ answered = {} /\ spoilt = {}
        /\ reply = "waits" /\ shown = FALSE /\ outages = 0
    BY DEF RealtimeInit
  <1>2. \A s \in Sockets : wire[s] = <<>> /\ reader[s] = [phase |-> "none", event |-> NoEvent]
    BY <1>1
  <1>3. \A s \in Sockets : ~ InHand(s) /\ reader[s].event \notin Event /\ Len(wire[s]) = 0
    BY <1>2, NoEventIsNone DEF InHand
  <1>4. GatewayShape
    <2>1. 0 \in 0..MaxNumber /\ 0 \in 0..MaxOutages
      BY RealtimeAssumption
    <2>2. wire \in [Sockets -> Seq(Event)]
      BY <1>1
    <2>3. reader \in [Sockets -> [phase : Readers, event : Event \cup {NoEvent}]]
      BY <1>1 DEF Readers
    <2>4. device \in [socket : Sockets \cup {NoSocket}, used : 0..MaxNumber,
                       unanswered : SUBSET Numbers, owes : BOOLEAN]
      BY <1>1, <2>1
    <2>5. \A s \in Sockets : /\ InHand(s) <=> reader[s].event \in Event
                             /\ s \in live => reader[s].phase # "none"
                             /\ reader[s].phase = "claimed" => reader[s].event.kind = "text"
      BY <1>1, <1>2, <1>3
    <2>6. device.used = 0 /\ device.unanswered = {} /\ last \in 0..0
      BY <1>1
    <2> QED BY <1>1, <2>1, <2>2, <2>3, <2>4, <2>5, <2>6 DEF GatewayShape
  <1>5. EventsSent /\ TextsComeFirst
    BY <1>1, <1>3 DEF EventsSent, TextsComeFirst
  <1> QED BY <1>1, <1>4, <1>5 DEF RealtimeIInv, SocketCarries, ClaimedInOrder, TextsKept,
                                  RepliesShown

\* The goroutine of s reads on.
LEMMA ReadsOn ==
  ASSUME GatewayShape, NEW s \in Sockets, Reads(s)
  PROVE  /\ reader' \in [Sockets -> [phase : Readers, event : Event \cup {NoEvent}]]
         /\ reader'[s].phase = "reading" /\ reader'[s].event = NoEvent /\ ~ InHand(s)'
         /\ \A z \in Sockets \ {s} : reader'[z] = reader[z]
  <1>1. [phase |-> "reading", event |-> NoEvent] \in [phase : Readers, event : Event \cup {NoEvent}]
    BY DEF Readers
  <1> QED BY <1>1 DEF GatewayShape, Reads, InHand

\* The event in the hands of s is dealt with, and answered or not.
LEMMA DealtWith ==
  ASSUME RealtimeIInv, NEW s \in Sockets, NEW e \in Event, InHand(s), e = reader[s].event,
         Reads(s), UNCHANGED <<wire, live, client, shown>>,
         Tell(s, e.number) \/ UNCHANGED <<answered, device>>,
         last' \in {last, e.number},
         accepted' \in {accepted, accepted \cup {e.number}},
         spoilt' \in {spoilt, spoilt \cup {e.number}},
         e.kind = "text" => Done(e.number)',
         answered' # answered => e.kind = "text",
         \A t : Done(t) => Done(t)',
         reply' \in {"waits", "written", "pending", "sent"}, RepliesShown', outages' \in 0..MaxOutages
  PROVE  RealtimeIInv'
  <1>1. /\ device'.unanswered \subseteq device.unanswered /\ device'.socket = device.socket
        /\ device'.used = device.used /\ device'.owes = device.owes
        /\ device' \in [socket : Sockets \cup {NoSocket}, used : 0..MaxNumber,
                        unanswered : SUBSET Numbers, owes : BOOLEAN]
    <2>1. CASE device' = device
      BY <2>1 DEF RealtimeIInv, GatewayShape
    <2>2. CASE device' = [device EXCEPT !.unanswered = @ \ {e.number}]
      <3>1. device \in [socket : Sockets \cup {NoSocket}, used : 0..MaxNumber,
                        unanswered : SUBSET Numbers, owes : BOOLEAN]
        BY DEF RealtimeIInv, GatewayShape
      <3>2. PICK rest \in SUBSET Numbers : rest = device.unanswered \ {e.number}
        BY <3>1
      <3>3. device' = [device EXCEPT !.unanswered = rest]
        BY <2>2, <3>2
      <3> QED BY <3>1, <3>2, <3>3
    <2> QED BY <2>1, <2>2 DEF Tell
  <1>2. answered' \in {answered, answered \cup {e.number}}
        /\ device.unanswered \cup answered \subseteq device'.unanswered \cup answered'
    BY DEF Tell, RealtimeIInv, GatewayShape
  <1>3. /\ reader' \in [Sockets -> [phase : Readers, event : Event \cup {NoEvent}]]
        /\ reader'[s].phase = "reading" /\ reader'[s].event = NoEvent /\ ~ InHand(s)'
        /\ \A z \in Sockets \ {s} : reader'[z] = reader[z]
    BY ReadsOn DEF RealtimeIInv
  <1>4. SentByDevice(e) /\ e.number \in 1..device.used
    <2>1. SentByDevice(e)
      BY DEF RealtimeIInv, EventsSent
    <2>2. e.number \in 1..MaxNumber /\ device.used \in 0..MaxNumber
      BY DEF Event, Numbers, RealtimeIInv, GatewayShape
    <2> QED BY <2>1, <2>2, RealtimeAssumption DEF SentByDevice
  <1>5. \A z \in Sockets : InHand(z)' => z # s /\ InHand(z)
    BY <1>3 DEF InHand
  <1>6. GatewayShape'
    <2>1. /\ last' \in 0..device'.used /\ device'.unanswered \subseteq 1..device'.used
          /\ accepted' \subseteq 1..device'.used /\ answered' \subseteq 1..device'.used
          /\ spoilt' \subseteq 1..device'.used
      BY <1>1, <1>2, <1>4 DEF RealtimeIInv, GatewayShape
    <2>2. \A z \in Sockets : /\ InHand(z)' <=> reader'[z].event \in Event
                             /\ z \in live' => reader'[z].phase # "none"
                             /\ reader'[z].phase = "claimed" => reader'[z].event.kind = "text"
      <3> SUFFICES ASSUME NEW z \in Sockets
                   PROVE  /\ InHand(z)' <=> reader'[z].event \in Event
                          /\ z \in live' => reader'[z].phase # "none"
                          /\ reader'[z].phase = "claimed" => reader'[z].event.kind = "text"
        OBVIOUS
      <3>1. CASE z = s
        BY <1>3, <3>1, NoEventIsNone
      <3>2. CASE z # s
        BY <1>3, <3>2 DEF RealtimeIInv, GatewayShape, InHand
      <3> QED BY <3>1, <3>2
    <2> QED BY <1>1, <1>3, <2>1, <2>2 DEF RealtimeIInv, GatewayShape
  <1>7. \A x : SentByDevice(x) => SentByDevice(x)'
    BY <1>1, <1>2 DEF SentByDevice
  <1>8. EventsSent'
    BY <1>3, <1>5, <1>7 DEF RealtimeIInv, EventsSent
  <1>9. \A n : \A z \in Sockets, t \in device'.unanswered : Under(z, t, n) => Under(z, t, n)' \/ Done(t)'
    <2> SUFFICES ASSUME NEW z \in Sockets, NEW t \in device'.unanswered, NEW n, Under(z, t, n),
                        ~ Under(z, t, n)'
                 PROVE  Done(t)'
      OBVIOUS
    <2>1. t = e.number
      BY <1>3 DEF Under, InHand
    <2> QED BY <1>1, <1>4, <2>1 DEF SentByDevice
  <1>10. TextsComeFirst'
    <2> SUFFICES ASSUME NEW z \in Sockets, NEW t \in device'.unanswered
                 PROVE  /\ InHand(z)' /\ t < reader'[z].event.number => Done(t)'
                        /\ \A i \in 1..Len(wire'[z]) :
                             t < wire'[z][i].number => Done(t)' \/ Under(z, t, i - 1)'
      BY DEF TextsComeFirst
    <2>1. t \in device.unanswered
      BY <1>1
    <2>2. InHand(z)' /\ t < reader'[z].event.number => Done(t)'
      BY <1>3, <1>5, <2>1 DEF RealtimeIInv, TextsComeFirst
    <2>3. ASSUME NEW i \in 1..Len(wire[z]), t < wire[z][i].number
          PROVE  Done(t)' \/ Under(z, t, i - 1)'
      <3>1. Done(t) \/ Under(z, t, i - 1)
        BY <2>1, <2>3 DEF RealtimeIInv, TextsComeFirst
      <3> QED BY <1>9, <3>1
    <2> QED BY <2>2, <2>3
  <1>11. SocketCarries'
    <2> SUFFICES ASSUME NEW t \in device'.unanswered, device.socket # NoSocket
                 PROVE  Done(t)' \/ Under(device.socket, t, Len(wire[device.socket]))'
      BY <1>1 DEF SocketCarries, Under
    <2>1. t \in device.unanswered /\ device.socket \in Sockets
      BY <1>1 DEF RealtimeIInv, GatewayShape
    <2>2. PICK d \in Sockets : d = device.socket /\ d = device'.socket
      BY <1>1, <2>1
    <2>3. Done(t) \/ Under(d, t, Len(wire[d]))
      BY <2>1, <2>2 DEF RealtimeIInv, SocketCarries
    <2>4. \A k : Under(d, t, k) => Under(d, t, k)' \/ Done(t)'
      BY <1>9
    <2>5. Under(d, t, Len(wire[d]))' \/ Done(t)'
      <3>1. wire' = wire
        OBVIOUS
      <3> QED BY <2>3, <2>4, <3>1
    <2> QED BY <2>2, <2>5 DEF Under
  <1>12. ClaimedInOrder'
    <2> SUFFICES ASSUME NEW t \in device'.unanswered, t <= last' PROVE Done(t)'
      BY DEF ClaimedInOrder
    <2>1. t \in device.unanswered /\ t \in Nat /\ e.number \in Nat
      BY <1>1 DEF RealtimeIInv, GatewayShape, Numbers, Event
    <2>2. CASE t <= last
      BY <2>1, <2>2 DEF RealtimeIInv, ClaimedInOrder
    <2>3. CASE t <= e.number
      <3>1. CASE t = e.number
        BY <1>4, <2>1, <3>1 DEF SentByDevice
      <3>2. CASE t < e.number
        BY <2>1, <3>2 DEF RealtimeIInv, TextsComeFirst
      <3> QED BY <2>1, <2>3, <3>1, <3>2
    <2> QED BY <2>2, <2>3
  <1>13. TextsKept'
    <2> SUFFICES ASSUME NEW t \in answered' PROVE Done(t)'
      BY DEF TextsKept, Done
    <2>1. t \in answered \/ (t = e.number /\ e.kind = "text")
      BY <1>2
    <2> QED BY <2>1 DEF RealtimeIInv, TextsKept, Done
  <1> QED BY <1>1, <1>6, <1>8, <1>10, <1>11, <1>12, <1>13 DEF RealtimeIInv

\* Connections break and sockets are given up, with what was under way on them.
LEMMA SocketsGo ==
  ASSUME RealtimeIInv,
         reader' \in [Sockets -> [phase : Readers, event : Event \cup {NoEvent}]],
         wire' \in [Sockets -> Seq(Event)],
         \A z \in Sockets :
           \/ reader'[z] = reader[z] /\ wire'[z] = wire[z] /\ (z \in live' => z \in live)
           \/ /\ reader'[z] = [phase |-> "none", event |-> NoEvent] /\ wire'[z] = <<>>
              /\ z \notin live' /\ (device'.socket # z \/ device'.socket = NoSocket),
         device' \in [socket : Sockets \cup {NoSocket}, used : 0..MaxNumber,
                      unanswered : SUBSET Numbers, owes : BOOLEAN],
         device'.used = device.used, device'.unanswered = device.unanswered,
         device'.socket \in {device.socket, NoSocket},
         device'.owes => shown', shown => shown', shown' \in BOOLEAN,
         live' \subseteq Sockets, client' \in Sockets \cup {NoSocket},
         UNCHANGED <<last, accepted, answered>>, spoilt' \subseteq 1..device.used,
         \A t : Done(t) => Done(t)',
         reply' \in {"waits", "written", "pending", "sent"}, RepliesShown', outages' \in 0..MaxOutages
  PROVE  RealtimeIInv'
  <1> DEFINE Gone(z) == /\ reader'[z] = [phase |-> "none", event |-> NoEvent] /\ wire'[z] = <<>>
                        /\ z \notin live' /\ (device'.socket # z \/ device'.socket = NoSocket)
             Stays(z) == reader'[z] = reader[z] /\ wire'[z] = wire[z] /\ (z \in live' => z \in live)
  <1>1. \A z \in Sockets : Gone(z) => ~ InHand(z)' /\ reader'[z].event \notin Event /\ Len(wire'[z]) = 0
                                      /\ reader'[z].phase = "none"
    BY NoEventIsNone DEF InHand
  <1>2. \A z \in Sockets : Stays(z) \/ Gone(z)
    OBVIOUS
  <1>3. \A z \in Sockets : Stays(z) => (InHand(z)' <=> InHand(z))
    BY DEF InHand
  <1> HIDE DEF Gone
  <1>4. GatewayShape'
    <2>1. \A z \in Sockets : /\ InHand(z)' <=> reader'[z].event \in Event
                             /\ z \in live' => reader'[z].phase # "none"
                             /\ reader'[z].phase = "claimed" => reader'[z].event.kind = "text"
      <3> SUFFICES ASSUME NEW z \in Sockets
                   PROVE  /\ InHand(z)' <=> reader'[z].event \in Event
                          /\ z \in live' => reader'[z].phase # "none"
                          /\ reader'[z].phase = "claimed" => reader'[z].event.kind = "text"
        OBVIOUS
      <3>1. CASE Stays(z)
        BY <1>3, <3>1 DEF RealtimeIInv, GatewayShape
      <3>2. CASE Gone(z)
        <4>1. z \notin live'
          BY <3>2 DEF Gone
        <4> QED BY <1>1, <3>2, <4>1
      <3> QED BY <1>2, <3>1, <3>2
    <2> QED BY <2>1 DEF RealtimeIInv, GatewayShape
  <1>5. \A x : SentByDevice(x) => SentByDevice(x)'
    BY DEF SentByDevice
  <1>6. EventsSent'
    <2> SUFFICES ASSUME NEW z \in Sockets
                 PROVE  /\ (InHand(z) => SentByDevice(reader[z].event))'
                        /\ (\A i \in 1..Len(wire[z]) : SentByDevice(wire[z][i]))'
      BY DEF EventsSent
    <2>1. CASE Stays(z)
      <3>1. /\ InHand(z)' => SentByDevice(reader[z].event)
            /\ \A i \in 1..Len(wire[z]) : SentByDevice(wire[z][i])
        BY <1>3, <2>1 DEF RealtimeIInv, EventsSent
      <3> QED BY <2>1, <3>1 DEF SentByDevice
    <2>2. CASE Gone(z)
      BY <1>1, <2>2
    <2> QED BY <1>2, <2>1, <2>2
  <1>7. \A t, n : \A z \in Sockets : Stays(z) /\ Under(z, t, n) => Under(z, t, n)'
    BY <1>3 DEF Under
  <1>8. TextsComeFirst'
    <2> SUFFICES ASSUME NEW z \in Sockets, NEW t \in device.unanswered
                 PROVE  /\ InHand(z)' /\ t < reader'[z].event.number => Done(t)'
                        /\ \A i \in 1..Len(wire'[z]) :
                             t < wire'[z][i].number => Done(t)' \/ Under(z, t, i - 1)'
      BY DEF TextsComeFirst
    <2>1. CASE Stays(z)
      <3>1. InHand(z)' /\ t < reader'[z].event.number => Done(t)'
        BY <1>3, <2>1 DEF RealtimeIInv, TextsComeFirst
      <3>2. ASSUME NEW i \in 1..Len(wire[z]), t < wire[z][i].number
            PROVE  Done(t)' \/ Under(z, t, i - 1)'
        <4>1. Done(t) \/ Under(z, t, i - 1)
          BY <3>2 DEF RealtimeIInv, TextsComeFirst
        <4> QED BY <1>7, <2>1, <4>1
      <3> QED BY <2>1, <3>1, <3>2
    <2>2. CASE Gone(z)
      BY <1>1, <2>2
    <2> QED BY <1>2, <2>1, <2>2
  <1>9. SocketCarries'
    <2> SUFFICES ASSUME NEW t \in device.unanswered, device'.socket # NoSocket
                 PROVE  (Done(t) \/ Under(device.socket, t, Len(wire[device.socket])))'
      BY DEF SocketCarries
    <2>1. PICK s \in Sockets : s = device.socket /\ s = device'.socket /\ s # NoSocket
      BY DEF RealtimeIInv, GatewayShape
    <2>2. Stays(s)
      BY <1>2, <2>1 DEF Gone
    <2>3. PICK n : n = Len(wire[s]) /\ n = Len(wire'[s])
      BY <2>2
    <2>4. Done(t) \/ Under(s, t, n)
      BY <2>1, <2>3 DEF RealtimeIInv, SocketCarries
    <2>5. Done(t)' \/ Under(s, t, n)'
      BY <1>7, <2>2, <2>4
    <2> QED BY <2>1, <2>3, <2>5 DEF Under, InHand
  <1>10. ClaimedInOrder' /\ TextsKept'
    BY DEF RealtimeIInv, ClaimedInOrder, TextsKept, Done
  <1> QED BY <1>4, <1>6, <1>8, <1>9, <1>10 DEF RealtimeIInv

LEMMA LeaveKeeps ==
  ASSUME RealtimeIInv, NEW s \in Sockets, Leave(s)
  PROVE  RealtimeIInv'
  <1>1. /\ reader[s].phase = "reading" /\ s \notin live
        /\ reader' = [reader EXCEPT ![s] = [phase |-> "none", event |-> NoEvent]]
        /\ client' = IF client = s THEN NoSocket ELSE client
        /\ wire' = [wire EXCEPT ![s] = <<>>]
        /\ device' = IF device.socket = s THEN [device EXCEPT !.socket = NoSocket] ELSE device
        /\ UNCHANGED <<live, last, accepted, answered, spoilt, reply, shown, outages>>
    BY DEF Leave
  <1>2. /\ reader \in [Sockets -> [phase : Readers, event : Event \cup {NoEvent}]]
        /\ wire \in [Sockets -> Seq(Event)]
        /\ device \in [socket : Sockets \cup {NoSocket}, used : 0..MaxNumber,
                       unanswered : SUBSET Numbers, owes : BOOLEAN]
    BY DEF RealtimeIInv, GatewayShape
  <1>3. /\ reader'[s] = [phase |-> "none", event |-> NoEvent] /\ wire'[s] = <<>>
        /\ \A z \in Sockets \ {s} : reader'[z] = reader[z] /\ wire'[z] = wire[z]
    BY <1>1, <1>2
  <1>4. reader' \in [Sockets -> [phase : Readers, event : Event \cup {NoEvent}]]
    BY <1>1, <1>2 DEF Readers
  <1>5. wire' \in [Sockets -> Seq(Event)]
    BY <1>1, <1>2
  <1>6. /\ device' \in [socket : Sockets \cup {NoSocket}, used : 0..MaxNumber,
                        unanswered : SUBSET Numbers, owes : BOOLEAN]
        /\ device'.used = device.used /\ device'.unanswered = device.unanswered
        /\ device'.owes = device.owes
        /\ device'.socket = IF device.socket = s THEN NoSocket ELSE device.socket
    BY <1>1, <1>2
  <1>7. \A t : Done(t) => Done(t)'
    BY <1>1, <1>3 DEF Done, AtWorkOn
  <1>8. RepliesShown'
    BY <1>1 DEF RealtimeIInv, RepliesShown
  <1>9. \A z \in Sockets :
           \/ reader'[z] = reader[z] /\ wire'[z] = wire[z] /\ (z \in live' => z \in live)
           \/ /\ reader'[z] = [phase |-> "none", event |-> NoEvent] /\ wire'[z] = <<>>
              /\ z \notin live' /\ (device'.socket # z \/ device'.socket = NoSocket)
    BY <1>1, <1>3, <1>6
  <1>10. /\ client' \in Sockets \cup {NoSocket} /\ live' \subseteq Sockets
         /\ spoilt' \subseteq 1..device.used /\ shown' \in BOOLEAN /\ (shown => shown')
         /\ reply' \in {"waits", "written", "pending", "sent"} /\ outages' \in 0..MaxOutages
         /\ (device'.owes => shown')
    BY <1>1, <1>6 DEF RealtimeIInv, GatewayShape
  <1>11. device'.socket \in {device.socket, NoSocket}
    BY <1>6
  <1>12. UNCHANGED <<last, accepted, answered>>
    BY <1>1
  <1> QED BY <1>4, <1>5, <1>6, <1>7, <1>8, <1>9, <1>10, <1>11, <1>12, SocketsGo

LEMMA OneMoreOutage == ASSUME GatewayShape, Outage PROVE outages' \in 0..MaxOutages
  BY RealtimeAssumption DEF GatewayShape, Outage

LEMMA RestartGatewayKeeps ==
  ASSUME RealtimeIInv, RestartGateway
  PROVE  RealtimeIInv'
  <1>1. /\ Outage
        /\ spoilt' = spoilt \cup {reader[s].event.number : s \in {t \in Sockets : reader[t].phase = "claimed"}}
        /\ reader' = [s \in Sockets |-> [phase |-> "none", event |-> NoEvent]]
        /\ live' = {} /\ client' = NoSocket /\ wire' = [s \in Sockets |-> <<>>]
        /\ device' = [device EXCEPT !.socket = NoSocket]
        /\ reply' = IF reply = "sent" THEN "sent" ELSE "waits"
        /\ UNCHANGED <<last, accepted, answered, shown>>
    BY DEF RestartGateway
  <1>2. device \in [socket : Sockets \cup {NoSocket}, used : 0..MaxNumber,
                    unanswered : SUBSET Numbers, owes : BOOLEAN]
    BY DEF RealtimeIInv, GatewayShape
  <1>3. \A z \in Sockets : reader'[z] = [phase |-> "none", event |-> NoEvent] /\ wire'[z] = <<>>
    BY <1>1
  <1>4. reader' \in [Sockets -> [phase : Readers, event : Event \cup {NoEvent}]]
    BY <1>1 DEF Readers
  <1>5. wire' \in [Sockets -> Seq(Event)]
    BY <1>1
  <1>6. /\ device' \in [socket : Sockets \cup {NoSocket}, used : 0..MaxNumber,
                        unanswered : SUBSET Numbers, owes : BOOLEAN]
        /\ device'.used = device.used /\ device'.unanswered = device.unanswered
        /\ device'.owes = device.owes /\ device'.socket = NoSocket
    BY <1>1, <1>2
  <1>7. \A t : Done(t) => Done(t)'
    BY <1>1 DEF Done, AtWorkOn
  <1>8. spoilt' \subseteq 1..device.used
    <2>1. ASSUME NEW s \in Sockets, reader[s].phase = "claimed"
          PROVE  reader[s].event.number \in 1..device.used
      <3>1. SentByDevice(reader[s].event) /\ reader[s].event \in Event
        BY <2>1 DEF RealtimeIInv, EventsSent, GatewayShape, InHand
      <3> QED BY <1>2, <3>1, RealtimeAssumption DEF SentByDevice, Event, Numbers
    <2> QED BY <1>1, <2>1 DEF RealtimeIInv, GatewayShape
  <1>9. /\ RepliesShown' /\ reply' \in {"waits", "written", "pending", "sent"}
        /\ shown' \in BOOLEAN /\ (device'.owes => shown') /\ outages' \in 0..MaxOutages
    BY <1>1, <1>6, OneMoreOutage DEF RealtimeIInv, GatewayShape, RepliesShown
  <1>10. \A z \in Sockets :
           \/ reader'[z] = reader[z] /\ wire'[z] = wire[z] /\ (z \in live' => z \in live)
           \/ /\ reader'[z] = [phase |-> "none", event |-> NoEvent] /\ wire'[z] = <<>>
              /\ z \notin live' /\ (device'.socket # z \/ device'.socket = NoSocket)
    BY <1>1, <1>3, <1>6
  <1> QED BY <1>1, <1>4, <1>5, <1>6, <1>7, <1>8, <1>9, <1>10, SocketsGo

LEMMA QuietSteps ==
  ASSUME RealtimeIInv, Vanish \/ WriteReply \/ Await \/ AckTimeout
  PROVE  RealtimeIInv'
  <1>1. /\ UNCHANGED <<reader, wire, client, last, accepted, answered, spoilt>>
        /\ live' \subseteq live /\ (shown => shown')
    BY DEF Vanish, WriteReply, Await, AckTimeout
  <1>2. /\ device \in [socket : Sockets \cup {NoSocket}, used : 0..MaxNumber,
                       unanswered : SUBSET Numbers, owes : BOOLEAN]
        /\ reader \in [Sockets -> [phase : Readers, event : Event \cup {NoEvent}]]
        /\ wire \in [Sockets -> Seq(Event)]
    BY DEF RealtimeIInv, GatewayShape
  <1>3. \/ device' = device
        \/ device' = [device EXCEPT !.socket = NoSocket]
        \/ device' = [device EXCEPT !.owes = TRUE] /\ shown'
    BY DEF Vanish, WriteReply, Await, AckTimeout
  <1>4. /\ device' \in [socket : Sockets \cup {NoSocket}, used : 0..MaxNumber,
                        unanswered : SUBSET Numbers, owes : BOOLEAN]
        /\ device'.used = device.used /\ device'.unanswered = device.unanswered
        /\ device'.socket \in {device.socket, NoSocket}
        /\ device'.owes = device.owes \/ shown'
    BY <1>2, <1>3
  <1>5. /\ reply' \in {"waits", "written", "pending", "sent"} /\ shown' \in BOOLEAN
        /\ reply' = "sent" => reply = "sent"
    BY DEF Vanish, WriteReply, Await, AckTimeout, RealtimeIInv, GatewayShape
  <1>6. outages' \in 0..MaxOutages
    <2>1. CASE Vanish
      BY <2>1, OneMoreOutage DEF Vanish, RealtimeIInv
    <2>2. CASE WriteReply \/ Await \/ AckTimeout
      BY <2>2 DEF WriteReply, Await, AckTimeout, RealtimeIInv, GatewayShape
    <2> QED BY <2>1, <2>2
  <1>7. RepliesShown' /\ (device'.owes => shown')
    BY <1>1, <1>4, <1>5 DEF RealtimeIInv, RepliesShown
  <1>8. \A t : Done(t) => Done(t)'
    BY <1>1 DEF Done, AtWorkOn
  <1>9. \A z \in Sockets :
           \/ reader'[z] = reader[z] /\ wire'[z] = wire[z] /\ (z \in live' => z \in live)
           \/ /\ reader'[z] = [phase |-> "none", event |-> NoEvent] /\ wire'[z] = <<>>
              /\ z \notin live' /\ (device'.socket # z \/ device'.socket = NoSocket)
    BY <1>1
  <1>10. /\ live' \subseteq Sockets /\ client' \in Sockets \cup {NoSocket}
         /\ spoilt' \subseteq 1..device.used
    BY <1>1 DEF RealtimeIInv, GatewayShape
  <1>11. /\ reader' \in [Sockets -> [phase : Readers, event : Event \cup {NoEvent}]]
         /\ wire' \in [Sockets -> Seq(Event)] /\ UNCHANGED <<last, accepted, answered>>
    BY <1>1, <1>2
  <1> QED BY <1>1, <1>4, <1>5, <1>6, <1>7, <1>8, <1>9, <1>10, <1>11, SocketsGo

\* The claim that s has on its event is what it may lose.
LEMMA OthersStay ==
  ASSUME RealtimeIInv, NEW s \in Sockets, Reads(s), accepted \subseteq accepted', spoilt \subseteq spoilt',
         reader[s].phase = "claimed" => reader[s].event.number \in accepted' \cup spoilt'
  PROVE  \A t : Done(t) => Done(t)'
  BY ReadsOn DEF RealtimeIInv, Done, AtWorkOn

LEMMA HandleAckKeeps ==
  ASSUME RealtimeIInv, NEW s \in Sockets, HandleAck(s)
  PROVE  RealtimeIInv'
  <1>1. /\ reader[s].phase = "handling" /\ reader[s].event.kind = "ack"
        /\ reply' = IF reply = "pending" THEN "sent" ELSE reply
        /\ last' \in {last, reader[s].event.number}
        /\ Reads(s)
        /\ UNCHANGED <<device, wire, live, client, accepted, answered, spoilt, shown, outages>>
    BY DEF HandleAck
  <1>2. InHand(s)
    BY <1>1 DEF InHand
  <1>3. PICK e \in Event : e = reader[s].event
    BY <1>2 DEF RealtimeIInv, GatewayShape
  <1>4. shown
    BY <1>1, <1>2 DEF RealtimeIInv, EventsSent, SentByDevice
  <1>5. /\ reply' \in {"waits", "written", "pending", "sent"} /\ RepliesShown'
        /\ outages' \in 0..MaxOutages
    BY <1>1, <1>4 DEF RealtimeIInv, GatewayShape, RepliesShown
  <1>6. \A t : Done(t) => Done(t)'
    BY <1>1, OthersStay
  <1> QED BY <1>1, <1>2, <1>3, <1>5, <1>6, DealtWith

LEMMA AcceptTextKeeps ==
  ASSUME RealtimeIInv, NEW s \in Sockets, AcceptText(s)
  PROVE  RealtimeIInv'
  <1>1. PICK e \in Event : e = reader[s].event /\ e.kind = "text"
    BY DEF RealtimeIInv, GatewayShape, AcceptText, InHand
  <1>2. /\ reader[s].phase = "claimed" /\ accepted' = accepted \cup {e.number}
        /\ Tell(s, e.number) /\ Reads(s)
        /\ UNCHANGED <<wire, live, client, last, spoilt, reply, shown, outages>>
    BY <1>1 DEF AcceptText
  <1>3. InHand(s)
    BY <1>2 DEF InHand
  <1>4. Done(e.number)'
    BY <1>2 DEF Done
  <1>5. \A t : Done(t) => Done(t)'
    BY <1>1, <1>2, OthersStay
  <1>6. /\ reply' \in {"waits", "written", "pending", "sent"} /\ RepliesShown'
        /\ outages' \in 0..MaxOutages
    BY <1>2 DEF RealtimeIInv, GatewayShape, RepliesShown
  <1> QED BY <1>1, <1>2, <1>3, <1>4, <1>5, <1>6, DealtWith

LEMMA TextFailsKeeps ==
  ASSUME RealtimeIInv, NEW s \in Sockets, TextFails(s)
  PROVE  RealtimeIInv'
  <1>1. InHand(s)
    BY DEF TextFails, InHand
  <1>2. PICK e \in Event : e = reader[s].event
    BY <1>1 DEF RealtimeIInv, GatewayShape
  <1>3. /\ Outage /\ spoilt' = spoilt \cup {e.number} /\ Reads(s)
        /\ UNCHANGED <<device, wire, live, client, last, accepted, answered, reply, shown>>
    BY <1>2 DEF TextFails
  <1>4. Done(e.number)'
    BY <1>3 DEF Done
  <1>5. \A t : Done(t) => Done(t)'
    BY <1>2, <1>3, OthersStay
  <1>6. /\ reply' \in {"waits", "written", "pending", "sent"} /\ RepliesShown'
        /\ outages' \in 0..MaxOutages
    BY <1>3, OneMoreOutage DEF RealtimeIInv, GatewayShape, RepliesShown
  <1> QED BY <1>1, <1>2, <1>3, <1>4, <1>5, <1>6, DealtWith

\* A number that does not advance was left behind by a text that is dealt with.
LEMMA RepeatedTextKeeps ==
  ASSUME RealtimeIInv, NEW s \in Sockets, ClaimNumber(s), ~ Advances(reader[s].event.number)
  PROVE  RealtimeIInv'
  <1>1. InHand(s) /\ reader[s].phase = "handling"
    BY DEF ClaimNumber, InHand
  <1>2. PICK e \in Event : e = reader[s].event
    BY <1>1 DEF RealtimeIInv, GatewayShape
  <1>3. /\ e.kind = "text" /\ ~ (e.number > last) /\ Tell(s, e.number) /\ Reads(s)
        /\ UNCHANGED <<wire, live, client, last, accepted, spoilt, reply, shown, outages>>
    BY <1>2 DEF ClaimNumber, Advances
  <1>4. Done(e.number)
    <2>1. e.number \in device.unanswered \cup answered
      BY <1>1, <1>2, <1>3 DEF RealtimeIInv, EventsSent, SentByDevice
    <2>2. e.number <= last
      BY <1>3, RealtimeAssumption DEF Event, Numbers, RealtimeIInv, GatewayShape
    <2> QED BY <2>1, <2>2 DEF RealtimeIInv, ClaimedInOrder, TextsKept, Done
  <1>5. \A t : Done(t) => Done(t)'
    BY <1>1, <1>3, OthersStay
  <1>6. /\ reply' \in {"waits", "written", "pending", "sent"} /\ RepliesShown'
        /\ outages' \in 0..MaxOutages
    BY <1>3 DEF RealtimeIInv, GatewayShape, RepliesShown
  <1> QED BY <1>1, <1>2, <1>3, <1>4, <1>5, <1>6, DealtWith

LEMMA FirstClaimKeeps ==
  ASSUME RealtimeIInv, NEW s \in Sockets, ClaimNumber(s), Advances(reader[s].event.number)
  PROVE  RealtimeIInv'
  <1>1. InHand(s) /\ reader[s].phase = "handling"
    BY DEF ClaimNumber, InHand
  <1>2. PICK e \in Event : e = reader[s].event
    BY <1>1 DEF RealtimeIInv, GatewayShape
  <1>3. /\ e.kind = "text" /\ last' = e.number /\ reader' = [reader EXCEPT ![s].phase = "claimed"]
        /\ UNCHANGED <<device, wire, live, client, accepted, answered, spoilt, reply, shown, outages>>
    BY <1>2 DEF ClaimNumber
  <1>4. /\ reader' \in [Sockets -> [phase : Readers, event : Event \cup {NoEvent}]]
        /\ reader'[s].phase = "claimed" /\ reader'[s].event = e
        /\ \A z \in Sockets \ {s} : reader'[z] = reader[z]
    BY <1>2, <1>3 DEF RealtimeIInv, GatewayShape, Readers
  <1>5. \A z \in Sockets : (InHand(z)' <=> InHand(z)) /\ reader'[z].event = reader[z].event
    BY <1>1, <1>2, <1>4 DEF InHand
  <1>6. SentByDevice(e) /\ e.number \in 1..MaxNumber /\ device.used \in 0..MaxNumber
    BY <1>1, <1>2 DEF RealtimeIInv, EventsSent, GatewayShape, Event, Numbers
  <1>7. (\A t : Done(t) => Done(t)') /\ Done(e.number)'
    BY <1>1, <1>3, <1>4 DEF Done, AtWorkOn
  <1>8. GatewayShape'
    <2>1. last' \in 0..device.used
      BY <1>3, <1>6, RealtimeAssumption DEF SentByDevice
    <2>2. \A z \in Sockets : /\ InHand(z)' <=> reader'[z].event \in Event
                             /\ z \in live' => reader'[z].phase # "none"
                             /\ reader'[z].phase = "claimed" => reader'[z].event.kind = "text"
      BY <1>3, <1>4, <1>5 DEF RealtimeIInv, GatewayShape
    <2> QED BY <1>3, <1>4, <2>1, <2>2 DEF RealtimeIInv, GatewayShape
  <1>9. EventsSent'
    BY <1>3, <1>5 DEF RealtimeIInv, EventsSent, SentByDevice
  <1>10. \A t, n : \A z \in Sockets : Under(z, t, n) => Under(z, t, n)'
    BY <1>3, <1>5 DEF Under
  <1>11. TextsComeFirst'
    BY <1>3, <1>5, <1>7, <1>10 DEF RealtimeIInv, TextsComeFirst
  <1>12. SocketCarries'
    <2> SUFFICES ASSUME NEW t \in device.unanswered, device.socket # NoSocket
                 PROVE  (Done(t) \/ Under(device.socket, t, Len(wire[device.socket])))'
      BY <1>3 DEF SocketCarries
    <2>1. PICK z \in Sockets : z = device.socket
      BY DEF RealtimeIInv, GatewayShape
    <2>2. PICK n : n = Len(wire[z])
      OBVIOUS
    <2>3. Done(t)' \/ Under(z, t, n)'
      BY <1>7, <1>10, <2>1, <2>2 DEF RealtimeIInv, SocketCarries
    <2> QED BY <1>3, <2>1, <2>2, <2>3 DEF Under, InHand
  <1>13. ClaimedInOrder'
    <2> SUFFICES ASSUME NEW t \in device.unanswered, t <= e.number PROVE Done(t)'
      BY <1>3 DEF ClaimedInOrder
    <2>1. CASE t = e.number
      BY <1>7, <2>1
    <2>2. CASE t # e.number
      <3>1. t < e.number
        BY <1>6, <2>2 DEF RealtimeIInv, GatewayShape, Numbers
      <3>2. Done(t)
        BY <1>1, <1>2, <3>1 DEF RealtimeIInv, TextsComeFirst
      <3> QED BY <1>7, <3>2
    <2> QED BY <2>1, <2>2
  <1>14. TextsKept' /\ RepliesShown'
    BY <1>3, <1>7 DEF RealtimeIInv, TextsKept, RepliesShown, Done
  <1> QED BY <1>3, <1>8, <1>9, <1>11, <1>12, <1>13, <1>14 DEF RealtimeIInv

\* The next event moves from the wire of s to its goroutine, or is a ping.
LEMMA ReadNextKeeps ==
  ASSUME RealtimeIInv, NEW s \in Sockets, ReadNext(s)
  PROVE  RealtimeIInv'
  <1>1. /\ reader[s].phase = "reading" /\ s \in live /\ wire[s] # <<>>
        /\ wire' = [wire EXCEPT ![s] = Tail(wire[s])]
        /\ IF Head(wire[s]).kind = "ping"
           THEN UNCHANGED reader
           ELSE reader' = [reader EXCEPT ![s] = [phase |-> "handling", event |-> Head(wire[s])]]
        /\ UNCHANGED <<device, live, client, last, accepted, answered, spoilt, reply, shown, outages>>
    BY DEF ReadNext
  <1>2. PICK w \in Seq(Event) : w = wire[s]
    BY DEF RealtimeIInv, GatewayShape
  <1>3. PICK n \in Nat : n = Len(w) /\ n >= 1
    BY <1>1, <1>2, LenProperties, EmptySeq
  <1>4. /\ Tail(w) \in Seq(Event) /\ Len(Tail(w)) = n - 1
        /\ \A i \in 1..(n - 1) : Tail(w)[i] = w[i + 1]
        /\ Head(w) = w[1] /\ Head(w) \in Event
    BY <1>1, <1>2, <1>3, HeadTailProperties, ElementOfSeq
  <1>5. PICK e \in Event : e = w[1] /\ e = Head(w)
    BY <1>4
  <1>6. /\ wire' \in [Sockets -> Seq(Event)] /\ wire'[s] = Tail(w)
        /\ \A z \in Sockets \ {s} : wire'[z] = wire[z]
    BY <1>1, <1>2, <1>4 DEF RealtimeIInv, GatewayShape
  <1>7. ~ InHand(s)
    BY <1>1 DEF InHand
  <1>8. /\ reader' \in [Sockets -> [phase : Readers, event : Event \cup {NoEvent}]]
        /\ \A z \in Sockets \ {s} : reader'[z] = reader[z]
        /\ \/ e.kind = "ping" /\ reader' = reader
           \/ e.kind # "ping" /\ reader'[s] = [phase |-> "handling", event |-> e]
    <2>1. reader \in [Sockets -> [phase : Readers, event : Event \cup {NoEvent}]]
      BY DEF RealtimeIInv, GatewayShape
    <2>2. \/ e.kind = "ping" /\ reader' = reader
          \/ e.kind # "ping" /\ reader' = [reader EXCEPT ![s] = [phase |-> "handling", event |-> e]]
      BY <1>1, <1>2, <1>5
    <2>3. [phase |-> "handling", event |-> e] \in [phase : Readers, event : Event \cup {NoEvent}]
      BY DEF Readers
    <2> QED BY <2>1, <2>2, <2>3
  <1>9. \A z \in Sockets : reader'[z].phase = "claimed" <=> reader[z].phase = "claimed"
    BY <1>1, <1>8
  <1>10. \A z \in Sockets \ {s} : InHand(z)' <=> InHand(z)
    BY <1>8 DEF InHand
  <1>11. InHand(s)' => e.kind # "ping" /\ reader'[s].event = e
    BY <1>7, <1>8 DEF InHand
  <1>12. e.kind # "ping" => InHand(s)' /\ reader'[s].event = e
    BY <1>8 DEF InHand
  <1>13. \A t : Done(t) <=> Done(t)'
    <2>1. \A z \in Sockets : reader'[z].phase = "claimed" => reader'[z].event = reader[z].event
      BY <1>1, <1>8
    <2> QED BY <1>1, <1>9, <2>1 DEF Done, AtWorkOn
  <1>14. GatewayShape'
    <2>1. \A z \in Sockets : /\ InHand(z)' <=> reader'[z].event \in Event
                             /\ z \in live' => reader'[z].phase # "none"
                             /\ reader'[z].phase = "claimed" => reader'[z].event.kind = "text"
      <3> SUFFICES ASSUME NEW z \in Sockets
                   PROVE  /\ InHand(z)' <=> reader'[z].event \in Event
                          /\ z \in live' => reader'[z].phase # "none"
                          /\ reader'[z].phase = "claimed" => reader'[z].event.kind = "text"
        OBVIOUS
      <3>1. CASE z # s \/ reader' = reader
        BY <1>1, <1>8, <3>1 DEF RealtimeIInv, GatewayShape, InHand
      <3>2. CASE z = s /\ reader'[s] = [phase |-> "handling", event |-> e]
        BY <3>2 DEF InHand
      <3> QED BY <1>8, <3>1, <3>2
    <2> QED BY <1>1, <1>6, <1>8, <2>1 DEF RealtimeIInv, GatewayShape
  <1>15. /\ \A i \in 1..n : SentByDevice(w[i])
         /\ \A t \in device.unanswered, i \in 1..n :
              t < w[i].number => Done(t) \/ Under(s, t, i - 1)
    BY <1>2, <1>3 DEF RealtimeIInv, EventsSent, TextsComeFirst
  <1>16. 1 \in 1..n /\ \A i \in 1..(n - 1) : i + 1 \in 1..n /\ (i + 1) - 1 = i
    BY <1>3
  <1>17. EventsSent'
    <2> SUFFICES ASSUME NEW z \in Sockets
                 PROVE  /\ (InHand(z) => SentByDevice(reader[z].event))'
                        /\ (\A i \in 1..Len(wire[z]) : SentByDevice(wire[z][i]))'
      BY DEF EventsSent
    <2>1. CASE z # s
      BY <1>1, <1>6, <1>8, <1>10, <2>1 DEF RealtimeIInv, EventsSent, SentByDevice
    <2>2. CASE z = s
      <3>1. SentByDevice(e) /\ \A i \in 1..(n - 1) : SentByDevice(Tail(w)[i])
        BY <1>4, <1>5, <1>15, <1>16
      <3>2. (InHand(s) => SentByDevice(reader[s].event))'
        BY <1>1, <1>11, <3>1 DEF SentByDevice
      <3>3. (\A i \in 1..Len(wire[s]) : SentByDevice(wire[s][i]))'
        BY <1>1, <1>4, <1>6, <3>1 DEF SentByDevice
      <3> QED BY <2>2, <3>2, <3>3
    <2> QED BY <2>1, <2>2
  \* What was first of the wire is in the hands of s, unless it was a ping.
  <1>18. ASSUME NEW t \in device.unanswered, NEW k \in 1..n, Under(s, t, k)
         PROVE  Under(s, t, k - 1)'
    <2>1. PICK i \in 1..k : w[i].number = t
      BY <1>2, <1>7, <1>18 DEF Under
    <2>2. CASE i = 1
      <3>1. e.kind = "text"
        BY <1>5, <1>15, <1>16, <2>1, <2>2 DEF SentByDevice
      <3> QED BY <1>5, <1>12, <2>1, <2>2, <3>1 DEF Under
    <2>3. CASE i # 1
      <3>1. i - 1 \in 1..(k - 1) /\ i - 1 \in 1..(n - 1) /\ (i - 1) + 1 = i
        BY <1>3, <2>1, <2>3
      <3>2. wire'[s][i - 1].number = t
        BY <1>4, <1>6, <2>1, <3>1
      <3> QED BY <3>1, <3>2 DEF Under
    <2> QED BY <2>2, <2>3
  <1>19. \A t, k : \A z \in Sockets \ {s} : Under(z, t, k) => Under(z, t, k)'
    BY <1>6, <1>8, <1>10 DEF Under
  <1>20. TextsComeFirst'
    <2> SUFFICES ASSUME NEW z \in Sockets, NEW t \in device.unanswered
                 PROVE  /\ InHand(z)' /\ t < reader'[z].event.number => Done(t)'
                        /\ \A i \in 1..Len(wire'[z]) :
                             t < wire'[z][i].number => Done(t)' \/ Under(z, t, i - 1)'
      BY <1>1 DEF TextsComeFirst
    <2>1. CASE z # s
      BY <1>6, <1>8, <1>10, <1>13, <1>19, <2>1 DEF RealtimeIInv, TextsComeFirst
    <2>2. CASE z = s
      <3>1. InHand(s)' /\ t < reader'[s].event.number => Done(t)'
        <4>1. ASSUME t < e.number PROVE Done(t)
          <5>1. ~ Under(s, t, 0)
            BY <1>7 DEF Under
          <5>2. Done(t) \/ Under(s, t, 1 - 1)
            BY <1>5, <1>15, <1>16, <4>1
          <5> QED BY <5>1, <5>2
        <4> QED BY <1>11, <1>13, <4>1
      <3>2. ASSUME NEW i \in 1..(n - 1), t < Tail(w)[i].number
            PROVE  Done(t)' \/ Under(s, t, i - 1)'
        <4>1. Done(t) \/ Under(s, t, i)
          BY <1>4, <1>15, <1>16, <3>2
        <4>2. i \in 1..n
          BY <1>3
        <4> QED BY <1>13, <1>18, <4>1, <4>2
      <3> QED BY <1>4, <1>6, <2>2, <3>1, <3>2
    <2> QED BY <2>1, <2>2
  <1>21. SocketCarries'
    <2> SUFFICES ASSUME NEW t \in device.unanswered, device.socket # NoSocket
                 PROVE  (Done(t) \/ Under(device.socket, t, Len(wire[device.socket])))'
      BY <1>1 DEF SocketCarries
    <2>1. PICK z \in Sockets : z = device.socket
      BY DEF RealtimeIInv, GatewayShape
    <2>2. Done(t) \/ Under(z, t, Len(wire[z]))
      BY <2>1 DEF RealtimeIInv, SocketCarries
    <2>3. CASE z # s
      <3>1. PICK k : k = Len(wire[z])
        OBVIOUS
      <3>2. Done(t)' \/ Under(z, t, k)'
        BY <1>13, <1>19, <2>2, <2>3, <3>1
      <3> QED BY <1>1, <1>6, <2>1, <2>3, <3>1, <3>2 DEF Under, InHand
    <2>4. CASE z = s
      <3>1. Done(t)' \/ Under(s, t, n - 1)'
        BY <1>2, <1>3, <1>13, <1>18, <2>2, <2>4
      <3> QED BY <1>1, <1>4, <1>6, <2>1, <2>4, <3>1 DEF Under, InHand
    <2> QED BY <2>3, <2>4
  <1>22. ClaimedInOrder' /\ TextsKept' /\ RepliesShown'
    BY <1>1, <1>13 DEF RealtimeIInv, ClaimedInOrder, TextsKept, RepliesShown, Done
  <1> QED BY <1>1, <1>14, <1>17, <1>20, <1>21, <1>22 DEF RealtimeIInv

\* The texts of the device in their order: each but the first comes after all
\* that are lower.
LEMMA InTheirOrder ==
  ASSUME NEW S \in SUBSET Numbers, NEW w \in Texts(S)
  PROVE  /\ w \in Seq(Event) /\ Len(w) \in Nat
         /\ \A i \in 1..Len(w) : w[i].kind = "text" /\ w[i].number \in S
         /\ \A t \in S : \E i \in 1..Len(w) : w[i].number = t
         /\ \A t \in S, i \in 1..Len(w) :
              t < w[i].number => \E j \in 1..(i - 1) : w[j].number = t
  <1>1. IsFiniteSet(S)
    <2>1. 1 \in Int /\ MaxNumber \in Int
      BY RealtimeAssumption
    <2>2. IsFiniteSet(1..MaxNumber)
      BY <2>1, FS_Interval, Zenon
    <2> QED BY <2>2, FS_Subset, Zenon DEF Numbers
  <1>2. PICK n \in Nat : n = Cardinality(S)
    BY <1>1, FS_CardinalityType
  <1>3. /\ w \in [1..n -> [kind : {"text"}, number : S]]
        /\ \A i, j \in 1..n : i < j => w[i].number < w[j].number
        /\ \A t \in S : \E i \in 1..n : w[i].number = t
    BY <1>2 DEF Texts
  <1>4. \A i \in 1..n : w[i] \in Event /\ w[i].kind = "text" /\ w[i].number \in S
    BY <1>3 DEF Event, Kinds
  <1>5. w \in [1..n -> Event]
    BY <1>3, <1>4
  <1>6. w \in Seq(Event) /\ Len(w) = n
    BY <1>2, <1>5
  <1>7. ASSUME NEW t \in S, NEW i \in 1..n, t < w[i].number
        PROVE  \E j \in 1..(i - 1) : w[j].number = t
    <2>1. PICK j \in 1..n : w[j].number = t
      BY <1>3
    <2>2. w[i].number \in Nat /\ t \in Nat
      <3>1. w[i].number \in 1..MaxNumber /\ t \in 1..MaxNumber
        BY <1>4 DEF Numbers
      <3> QED BY <3>1, RealtimeAssumption
    <2>3. ~ (i < j) /\ i # j
      BY <1>3, <1>7, <2>1, <2>2
    <2>4. j \in 1..(i - 1)
      BY <2>3
    <2> QED BY <2>1, <2>4
  <1> QED BY <1>2, <1>3, <1>4, <1>6, <1>7

LEMMA ConnectKeeps ==
  ASSUME RealtimeIInv, NEW s \in Sockets, Connect(s)
  PROVE  RealtimeIInv'
  <1>1. PICK w \in Texts(device.unanswered) :
          /\ device.socket = NoSocket /\ reader[s].phase = "none"
          /\ device' = [device EXCEPT !.socket = s]
          /\ wire' = [wire EXCEPT ![s] = w]
          /\ live' = (live \ {client}) \cup {s} /\ client' = s
          /\ Reads(s)
          /\ UNCHANGED <<last, accepted, answered, spoilt, reply, shown, outages>>
    BY DEF Connect
  <1>2. PICK S \in SUBSET Numbers : S = device.unanswered
    BY DEF RealtimeIInv, GatewayShape
  <1>3. /\ w \in Seq(Event) /\ Len(w) \in Nat
        /\ \A i \in 1..Len(w) : w[i].kind = "text" /\ w[i].number \in S
        /\ \A t \in S : \E i \in 1..Len(w) : w[i].number = t
        /\ \A t \in S, i \in 1..Len(w) :
             t < w[i].number => \E j \in 1..(i - 1) : w[j].number = t
    BY <1>1, <1>2, InTheirOrder
  <1>4. /\ reader' \in [Sockets -> [phase : Readers, event : Event \cup {NoEvent}]]
        /\ reader'[s].phase = "reading" /\ reader'[s].event = NoEvent /\ ~ InHand(s)'
        /\ \A z \in Sockets \ {s} : reader'[z] = reader[z]
    BY <1>1, ReadsOn DEF RealtimeIInv
  <1>5. /\ wire' \in [Sockets -> Seq(Event)] /\ wire'[s] = w
        /\ \A z \in Sockets \ {s} : wire'[z] = wire[z]
    BY <1>1, <1>3 DEF RealtimeIInv, GatewayShape
  <1>6. /\ device' \in [socket : Sockets \cup {NoSocket}, used : 0..MaxNumber,
                        unanswered : SUBSET Numbers, owes : BOOLEAN]
        /\ device'.used = device.used /\ device'.unanswered = S /\ device'.unanswered = device.unanswered
        /\ device'.owes = device.owes /\ device'.socket = s
    BY <1>1, <1>2 DEF RealtimeIInv, GatewayShape
  <1>7. \A t : Done(t) => Done(t)'
    BY <1>1, <1>4 DEF Done, AtWorkOn
  <1>8. \A z \in Sockets \ {s} : InHand(z)' <=> InHand(z)
    BY <1>4 DEF InHand
  <1>9. GatewayShape'
    <2>1. \A z \in Sockets : /\ InHand(z)' <=> reader'[z].event \in Event
                             /\ z \in live' => reader'[z].phase # "none"
                             /\ reader'[z].phase = "claimed" => reader'[z].event.kind = "text"
      <3> SUFFICES ASSUME NEW z \in Sockets
                   PROVE  /\ InHand(z)' <=> reader'[z].event \in Event
                          /\ z \in live' => reader'[z].phase # "none"
                          /\ reader'[z].phase = "claimed" => reader'[z].event.kind = "text"
        OBVIOUS
      <3>1. CASE z = s
        BY <1>4, <3>1, NoEventIsNone
      <3>2. CASE z # s
        BY <1>1, <1>4, <1>8, <3>2 DEF RealtimeIInv, GatewayShape
      <3> QED BY <3>1, <3>2
    <2>2. live' \subseteq Sockets /\ client' \in Sockets \cup {NoSocket}
      BY <1>1 DEF RealtimeIInv, GatewayShape
    <2> QED BY <1>1, <1>4, <1>5, <1>6, <2>1, <2>2 DEF RealtimeIInv, GatewayShape
  <1>10. \A x : SentByDevice(x) => SentByDevice(x)'
    BY <1>1, <1>6 DEF SentByDevice
  <1>11. EventsSent'
    <2> SUFFICES ASSUME NEW z \in Sockets
                 PROVE  /\ (InHand(z) => SentByDevice(reader[z].event))'
                        /\ (\A i \in 1..Len(wire[z]) : SentByDevice(wire[z][i]))'
      BY DEF EventsSent
    <2>1. CASE z # s
      BY <1>1, <1>4, <1>5, <1>6, <1>8, <2>1 DEF RealtimeIInv, EventsSent, SentByDevice
    <2>2. CASE z = s
      <3>1. \A i \in 1..Len(w) : SentByDevice(w[i])
        <4>1. \A t \in S : t \in 1..device.used
          BY <1>2 DEF RealtimeIInv, GatewayShape
        <4>2. \A t \in S : t <= device.used
          BY <4>1
        <4> QED BY <1>2, <1>3, <4>2 DEF SentByDevice
      <3>2. (\A i \in 1..Len(wire[s]) : SentByDevice(wire[s][i]))'
        BY <1>1, <1>5, <1>6, <3>1 DEF SentByDevice
      <3> QED BY <1>4, <2>2, <3>2
    <2> QED BY <2>1, <2>2
  <1>12. \A t, k : \A z \in Sockets \ {s} : Under(z, t, k) => Under(z, t, k)'
    BY <1>4, <1>5, <1>8 DEF Under
  <1>13. TextsComeFirst'
    <2> SUFFICES ASSUME NEW z \in Sockets, NEW t \in S
                 PROVE  /\ InHand(z)' /\ t < reader'[z].event.number => Done(t)'
                        /\ \A i \in 1..Len(wire'[z]) :
                             t < wire'[z][i].number => Done(t)' \/ Under(z, t, i - 1)'
      BY <1>6 DEF TextsComeFirst
    <2>1. CASE z # s
      <3>1. t \in device.unanswered
        BY <1>2
      <3>2. InHand(z) /\ t < reader[z].event.number => Done(t)
        BY <3>1 DEF RealtimeIInv, TextsComeFirst
      <3>3. ASSUME NEW i \in 1..Len(wire[z]), t < wire[z][i].number
            PROVE  Done(t) \/ Under(z, t, i - 1)
        BY <3>1, <3>3 DEF RealtimeIInv, TextsComeFirst
      <3>4. \A k : Under(z, t, k) => Under(z, t, k)'
        BY <1>12, <2>1
      <3>5. wire'[z] = wire[z] /\ reader'[z] = reader[z] /\ (InHand(z)' <=> InHand(z))
        BY <1>4, <1>5, <1>8, <2>1
      <3> QED BY <1>7, <3>2, <3>3, <3>4, <3>5
    <2>2. CASE z = s
      <3>1. ASSUME NEW i \in 1..Len(w), t < w[i].number
            PROVE  Under(s, t, i - 1)'
        <4>1. PICK j \in 1..(i - 1) : w[j].number = t
          BY <1>3, <3>1
        <4> QED BY <1>5, <4>1 DEF Under
      <3> QED BY <1>4, <1>5, <2>2, <3>1
    <2> QED BY <2>1, <2>2
  <1>14. SocketCarries'
    <2> SUFFICES ASSUME NEW t \in S
                 PROVE  (Done(t) \/ Under(device.socket, t, Len(wire[device.socket])))'
      BY <1>6 DEF SocketCarries
    <2>1. \E i \in 1..Len(w) : w[i].number = t
      BY <1>3
    <2> QED BY <1>5, <1>6, <2>1 DEF Under, InHand
  <1>15. ClaimedInOrder' /\ TextsKept' /\ RepliesShown'
    BY <1>1, <1>6, <1>7 DEF RealtimeIInv, ClaimedInOrder, TextsKept, RepliesShown, Done
  <1> QED BY <1>1, <1>6, <1>9, <1>11, <1>13, <1>14, <1>15 DEF RealtimeIInv

\* The device sends a new event on its socket, behind the texts it is to carry.
LEMMA SayKeeps ==
  ASSUME RealtimeIInv, NEW kind \in Kinds, Say(kind)
  PROVE  RealtimeIInv'
  <1>1. PICK s \in Sockets : s = device.socket /\ s # NoSocket
    BY DEF Say, RealtimeIInv, GatewayShape
  <1>2. PICK m \in Numbers : m = device.used + 1
    BY DEF Say
  <1>3. PICK e \in Event : e = [kind |-> kind, number |-> m]
    BY DEF Event
  <1>4. e.kind = kind /\ e.number = m
    BY <1>3
  <1>5. /\ kind = "ack" => device.owes
        /\ wire' = [wire EXCEPT ![s] = Append(wire[s], e)]
        /\ device' = [device EXCEPT !.used = m,
                        !.unanswered = IF kind = "text" THEN device.unanswered \cup {m}
                                       ELSE device.unanswered,
                        !.owes = device.owes /\ kind # "ack"]
        /\ UNCHANGED <<live, client, reader, last, accepted, answered, spoilt, reply, shown, outages>>
    BY <1>1, <1>2, <1>3 DEF Say
  <1>6. device \in [socket : Sockets \cup {NoSocket}, used : 0..MaxNumber,
                    unanswered : SUBSET Numbers, owes : BOOLEAN]
    BY DEF RealtimeIInv, GatewayShape
  <1>7. PICK rest \in SUBSET Numbers :
          rest = IF kind = "text" THEN device.unanswered \cup {m} ELSE device.unanswered
    BY <1>6
  <1>8. PICK owes \in BOOLEAN : owes <=> (device.owes /\ kind # "ack")
    OBVIOUS
  <1>9. device' = [device EXCEPT !.used = m, !.unanswered = rest, !.owes = (device.owes /\ kind # "ack")]
    BY <1>5, <1>7
  <1>10. /\ device' \in [socket : Sockets \cup {NoSocket}, used : 0..MaxNumber,
                         unanswered : SUBSET Numbers, owes : BOOLEAN]
         /\ device'.used = m /\ device'.unanswered = rest /\ device'.socket = s
         /\ device'.owes => device.owes
    <2>1. m \in 0..MaxNumber
      BY RealtimeAssumption DEF Numbers
    <2>2. (device.owes /\ kind # "ack") \in BOOLEAN
      OBVIOUS
    <2> QED BY <1>1, <1>6, <1>9, <2>1, <2>2
  <1>11. device.used \in Nat /\ m \in Nat /\ last \in Nat /\ last < m
    <2>1. device.used \in 0..MaxNumber
      BY <1>6
    <2>2. last \in 0..device.used
      BY DEF RealtimeIInv, GatewayShape
    <2> QED BY <1>2, <2>1, <2>2, RealtimeAssumption
  <1>12. \A t \in device.unanswered \cup answered : t \in Nat /\ t < m
    <2>1. \A t \in device.unanswered \cup answered : t \in 1..device.used
      BY DEF RealtimeIInv, GatewayShape
    <2> QED BY <1>2, <1>11, <2>1
  <1>13. \A t \in rest : t \in device.unanswered \/ (t = m /\ kind = "text")
    BY <1>7
  <1>14. PICK w \in Seq(Event) : w = wire[s]
    BY DEF RealtimeIInv, GatewayShape
  <1>15. PICK n \in Nat : n = Len(w)
    BY LenProperties
  <1>16. PICK v \in Seq(Event) : /\ v = Append(w, e) /\ Len(v) = n + 1
                                 /\ \A i \in 1..n : v[i] = w[i]
                                 /\ v[n + 1] = e
    BY <1>15, AppendProperties
  <1>17. /\ wire' \in [Sockets -> Seq(Event)] /\ wire'[s] = v
         /\ \A z \in Sockets \ {s} : wire'[z] = wire[z]
    BY <1>5, <1>14, <1>16 DEF RealtimeIInv, GatewayShape
  <1>18. \A z \in Sockets : InHand(z)' <=> InHand(z)
    BY <1>5 DEF InHand
  <1>19. \A t : Done(t) <=> Done(t)'
    BY <1>5 DEF Done, AtWorkOn
  <1>20. GatewayShape'
    <2>1. 1..device.used \subseteq 1..m /\ 0..device.used \subseteq 0..m /\ m \in 1..m
      BY <1>2, <1>11 DEF Numbers
    <2>2. /\ last' \in 0..device'.used /\ device'.unanswered \subseteq 1..device'.used
          /\ accepted' \subseteq 1..device'.used /\ answered' \subseteq 1..device'.used
          /\ spoilt' \subseteq 1..device'.used
      BY <1>5, <1>10, <1>13, <2>1 DEF RealtimeIInv, GatewayShape
    <2> QED BY <1>5, <1>10, <1>17, <1>18, <2>2 DEF RealtimeIInv, GatewayShape
  <1>21. \A x \in Event : SentByDevice(x) => SentByDevice(x)' /\ x.number < m
    <2> SUFFICES ASSUME NEW x \in Event, SentByDevice(x) PROVE SentByDevice(x)' /\ x.number < m
      OBVIOUS
    <2>1. x.number \in Nat /\ x.number <= device.used
      BY RealtimeAssumption DEF SentByDevice, Event, Numbers
    <2>2. x.number < m /\ x.number <= m /\ x.number # m
      BY <1>2, <1>11, <2>1
    <2>3. x.number \in rest <=> x.number \in device.unanswered
      BY <1>7, <2>2
    <2>4. shown' = shown /\ answered' = answered
      BY <1>5
    <2> QED BY <1>10, <2>2, <2>3, <2>4 DEF SentByDevice
  <1>22. SentByDevice(e)'
    <2>1. m \in rest <=> kind = "text"
      BY <1>7, <1>11, <1>12
    <2>2. kind = "ack" => shown'
      BY <1>5 DEF RealtimeIInv
    <2> QED BY <1>4, <1>10, <1>11, <2>1, <2>2 DEF SentByDevice
  <1>23. \A i \in 1..(n + 1) : i \in 1..n \/ i = n + 1
    OBVIOUS
  <1>24. \A i \in 1..n : w[i] \in Event /\ SentByDevice(w[i])
    BY <1>14, <1>15, ElementOfSeq DEF RealtimeIInv, EventsSent
  <1>25. EventsSent'
    <2> SUFFICES ASSUME NEW z \in Sockets
                 PROVE  /\ (InHand(z) => SentByDevice(reader[z].event))'
                        /\ (\A i \in 1..Len(wire[z]) : SentByDevice(wire[z][i]))'
      BY DEF EventsSent
    <2>1. (InHand(z) => SentByDevice(reader[z].event))'
      <3>1. InHand(z) => reader[z].event \in Event /\ SentByDevice(reader[z].event)
        BY DEF RealtimeIInv, EventsSent, GatewayShape
      <3>2. InHand(z) => (\E x \in Event : x = reader[z].event /\ SentByDevice(x)')
        BY <1>21, <3>1
      <3> QED BY <1>5, <1>18, <3>2 DEF SentByDevice
    <2>2. CASE z # s
      <3>1. \A i \in 1..Len(wire[z]) : wire[z][i] \in Event /\ SentByDevice(wire[z][i])
        BY ElementOfSeq DEF RealtimeIInv, EventsSent, GatewayShape
      <3>2. \A i \in 1..Len(wire[z]) : \E x \in Event : x = wire[z][i] /\ SentByDevice(x)'
        BY <1>21, <3>1
      <3>3. (\A i \in 1..Len(wire[z]) : SentByDevice(wire[z][i]))'
        BY <1>17, <2>2, <3>2 DEF SentByDevice
      <3> QED BY <2>1, <3>3
    <2>3. CASE z = s
      <3>1. \A i \in 1..(n + 1) : \E x \in Event : x = v[i] /\ SentByDevice(x)'
        BY <1>16, <1>21, <1>22, <1>23, <1>24
      <3>2. (\A i \in 1..Len(wire[s]) : SentByDevice(wire[s][i]))'
        BY <1>16, <1>17, <3>1 DEF SentByDevice
      <3> QED BY <2>1, <2>3, <3>2
    <2> QED BY <2>2, <2>3
  <1>26. \A t, k : \A z \in Sockets : z # s /\ Under(z, t, k) => Under(z, t, k)'
    BY <1>5, <1>17, <1>18 DEF Under
  <1>27. \A t, k \in Nat : k <= n /\ Under(s, t, k) => Under(s, t, k)'
    <2> SUFFICES ASSUME NEW t \in Nat, NEW k \in Nat, k <= n, Under(s, t, k) PROVE Under(s, t, k)'
      OBVIOUS
    <2>1. \A i \in 1..k : i \in 1..n
      BY <1>15
    <2> QED BY <1>5, <1>14, <1>16, <1>17, <1>18, <2>1 DEF Under
  <1>28. TextsComeFirst'
    <2> SUFFICES ASSUME NEW z \in Sockets, NEW t \in rest
                 PROVE  /\ InHand(z)' /\ t < reader'[z].event.number => Done(t)'
                        /\ \A i \in 1..Len(wire'[z]) :
                             t < wire'[z][i].number => Done(t)' \/ Under(z, t, i - 1)'
      BY <1>10 DEF TextsComeFirst
    <2>1. CASE t \in device.unanswered
      <3>1. InHand(z)' /\ t < reader'[z].event.number => Done(t)'
        BY <1>5, <1>18, <1>19, <2>1 DEF RealtimeIInv, TextsComeFirst
      <3>2. CASE z # s
        BY <1>17, <1>19, <1>26, <2>1, <3>1, <3>2 DEF RealtimeIInv, TextsComeFirst
      <3>3. ASSUME z = s, NEW i \in 1..(n + 1), t < v[i].number
            PROVE  Done(t)' \/ Under(s, t, i - 1)'
        <4>1. t \in Nat
          BY <1>12, <2>1
        <4>2. CASE i \in 1..n
          <5>1. Done(t) \/ Under(s, t, i - 1)
            BY <1>14, <1>15, <1>16, <2>1, <3>3, <4>2 DEF RealtimeIInv, TextsComeFirst
          <5>2. i - 1 \in Nat /\ i - 1 <= n
            BY <1>15, <4>2
          <5> QED BY <1>19, <1>27, <4>1, <5>1, <5>2
        <4>3. CASE i = n + 1
          <5>1. Done(t) \/ Under(s, t, n)
            BY <1>1, <1>14, <1>15, <2>1 DEF RealtimeIInv, SocketCarries
          <5>2. n <= n /\ i - 1 = n
            BY <1>15, <4>3
          <5> QED BY <1>19, <1>27, <4>1, <5>1, <5>2
        <4> QED BY <1>23, <4>2, <4>3
      <3> QED BY <1>16, <1>17, <3>1, <3>2, <3>3
    <2>2. CASE t = m
      <3>1. \A x \in Event : SentByDevice(x) => ~ (m < x.number)
        <4>1. \A x \in Event : SentByDevice(x) => x.number \in Nat /\ x.number < m
          BY <1>21, RealtimeAssumption DEF Event, Numbers
        <4> QED BY <1>11, <4>1
      <3>2. InHand(z)' => ~ (m < reader'[z].event.number)
        BY <1>5, <1>18, <3>1 DEF RealtimeIInv, EventsSent, GatewayShape
      <3>3. CASE z # s
        <4>1. \A i \in 1..Len(wire[z]) : wire[z][i] \in Event /\ SentByDevice(wire[z][i])
          BY ElementOfSeq DEF RealtimeIInv, EventsSent, GatewayShape
        <4> QED BY <1>17, <2>2, <3>1, <3>2, <3>3, <4>1
      <3>4. CASE z = s
        <4>1. \A i \in 1..(n + 1) : ~ (m < v[i].number)
          BY <1>4, <1>11, <1>16, <1>23, <1>24, <3>1
        <4> QED BY <1>16, <1>17, <2>2, <3>2, <3>4, <4>1
      <3> QED BY <3>3, <3>4
    <2> QED BY <1>13, <2>1, <2>2
  <1>29. SocketCarries'
    <2> SUFFICES ASSUME NEW t \in rest
                 PROVE  (Done(t) \/ Under(device.socket, t, Len(wire[device.socket])))'
      BY <1>10 DEF SocketCarries
    <2>1. Done(t)' \/ Under(s, t, n + 1)'
      <3>1. CASE t = m /\ kind = "text"
        <4>1. v[n + 1].number = t /\ n + 1 \in 1..(n + 1)
          BY <1>4, <1>15, <1>16, <3>1
        <4> QED BY <1>17, <4>1 DEF Under
      <3>2. CASE t \in device.unanswered
        <4>1. Done(t) \/ Under(s, t, n)
          BY <1>1, <1>14, <1>15, <3>2 DEF RealtimeIInv, SocketCarries
        <4>2. Done(t)' \/ Under(s, t, n)'
          BY <1>12, <1>15, <1>19, <1>27, <3>2, <4>1
        <4>3. \A i \in 1..n : i \in 1..(n + 1)
          BY <1>15
        <4> QED BY <4>2, <4>3 DEF Under
      <3> QED BY <1>13, <3>1, <3>2
    <2> QED BY <1>10, <1>16, <1>17, <2>1 DEF Under, InHand
  <1>30. ClaimedInOrder'
    <2> SUFFICES ASSUME NEW t \in rest, t <= last PROVE Done(t)'
      BY <1>5, <1>10 DEF ClaimedInOrder
    <2>1. t # m
      BY <1>11
    <2> QED BY <1>13, <1>19, <2>1 DEF RealtimeIInv, ClaimedInOrder
  <1>31. TextsKept' /\ RepliesShown'
    BY <1>5, <1>19 DEF RealtimeIInv, TextsKept, RepliesShown, Done
  <1>32. device'.owes => shown'
    BY <1>5, <1>10 DEF RealtimeIInv
  <1> QED BY <1>20, <1>25, <1>28, <1>29, <1>30, <1>31, <1>32 DEF RealtimeIInv

-----------------------------------------------------------------------------
\* The inductive invariant of a session.
THEOREM RealtimeInvariance == RealtimeSpec => []RealtimeIInv
  <1>1. RealtimeIInv /\ [RealtimeNext]_realtimeVars => RealtimeIInv'
    <2> SUFFICES ASSUME RealtimeIInv, [RealtimeNext]_realtimeVars PROVE RealtimeIInv'
      OBVIOUS
    <2>1. CASE UNCHANGED realtimeVars
      BY <2>1 DEF realtimeVars, RealtimeIInv, GatewayShape, EventsSent, TextsComeFirst, SocketCarries,
           ClaimedInOrder, TextsKept, RepliesShown, InHand, SentByDevice, Under, Done, AtWorkOn
    <2>2. ASSUME NEW s \in Sockets, ClaimNumber(s) PROVE RealtimeIInv'
      BY <2>2, RepeatedTextKeeps, FirstClaimKeeps
    <2> QED BY <2>1, <2>2, SayKeeps, QuietSteps, RestartGatewayKeeps, ConnectKeeps, ReadNextKeeps,
               HandleAckKeeps, AcceptTextKeeps, TextFailsKeeps, LeaveKeeps DEF RealtimeNext
  <1> QED BY <1>1, GatewayStarts, PTL DEF RealtimeSpec

\* A text that the device was told is accepted has a run or gets one, unless its
\* handling failed or was cut off; a reply that counts as sent was shown: for any
\* number of sockets, events and outages (handleEvent, claimSequence, Deliver).
THEOREM WordsAreKept == RealtimeSpec => []WordsKept
  BY RealtimeInvariance, GatewayPromises, PTL

\* The types of the gateway and of the device, for any number of sockets.
THEOREM RealtimeTypes == RealtimeSpec => []RealtimeTypeOK
  <1>1. WordsKept => RealtimeTypeOK
    BY DEF WordsKept
  <1> QED BY <1>1, WordsAreKept, PTL

-----------------------------------------------------------------------------
(* MCConnectors: its behaviours are those of the parts.                    *)

LEMMA ConnectorsStep ==
  [ConnectorsNext]_<<connector, allVars, realtimeVars>>
    => [WorkersNext]_allVars /\ [RealtimeNext]_realtimeVars
  <1> SUFFICES ASSUME [ConnectorsNext]_<<connector, allVars, realtimeVars>>
               PROVE  [WorkersNext]_allVars /\ [RealtimeNext]_realtimeVars
    OBVIOUS
  <1>1. CASE LoopsOnly
    BY <1>1 DEF LoopsOnly
  <1>2. CASE GatewayOnly
    BY <1>2 DEF GatewayOnly
  <1> QED BY <1>1, <1>2 DEF ConnectorsNext

\* What is proved of the loops and of the gateway, and of Outbox, which the
\* loops implement, holds of what the run Connectors explores.
THEOREM ConnectorsImplementParts == ConnectorsSpec => WorkersSpec /\ RealtimeSpec
  <1>1. ConnectorsInit => WorkersInit /\ RealtimeInit
    BY DEF ConnectorsInit
  <1> QED BY <1>1, ConnectorsStep, PTL DEF ConnectorsSpec, WorkersSpec, RealtimeSpec

\* Everything the run Connectors checks, for any number of loops, rows, parts,
\* sockets and failures; and that what the connectors show is a conversation
\* feed, by way of Outbox.
THEOREM ConnectorsAreCorrect ==
  ConnectorsSpec => [](OneSenderPerConversation /\ WordsKept) /\ ShownInOrder /\ FeedSpec
  BY ConnectorsImplementParts, NoTwoSenders, WordsAreKept, RowsShownInOrder,
     WorkersImplementOutbox, OutboxImplementsFeed, PTL
=============================================================================
