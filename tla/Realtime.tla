------------------------------- MODULE Realtime -------------------------------
(***************************************************************************)
(* A session of the realtime gateway (realtime.go): a paired device sends  *)
(* numbered events over a socket, each read by the goroutine of its        *)
(* socket, and is sent replies that it acknowledges.  A new socket takes   *)
(* the place of the old one, whose goroutine may still be at work.  The    *)
(* device is external: it numbers its events in the order it sends them,   *)
(* and sends the texts that were not answered again, in their order, when  *)
(* it connects anew.                                                       *)
(***************************************************************************)
EXTENDS Integers, Sequences, FiniteSets

CONSTANTS
  Sockets,
  MaxNumber,    \* bound: events of the device
  MaxOutages    \* bound: lost connections, failing statements and restarts

ASSUME RealtimeAssumption ==
  MaxNumber \in Nat /\ MaxOutages \in Nat

Numbers == 1..MaxNumber
NoSocket == "none"
Kinds == {"text", "ping", "ack"}
Event == [kind : Kinds, number : Numbers]
NoEvent == [kind |-> "none", number |-> 0]

VARIABLES
  device,   \* external: its socket, numbers used, texts not answered, and
            \* whether it owes an acknowledgement
  wire,     \* events under way on each socket
  live,     \* sockets the gateway has not closed
  client,   \* hub.clients of the session
  reader,   \* the goroutine of each socket, and the event in its hands
  last,     \* last_client_sequence
  accepted, \* texts that have a run
  answered, \* texts the device was told are accepted
  spoilt,   \* texts whose handling failed or was cut off
  reply,    \* a delivery in the hands of Deliver, and the socket it is sent on
  shown,    \* whether the reply has reached the device
  outages

realtimeVars == <<device, wire, live, client, reader, last, accepted, answered, spoilt, reply,
                  shown, outages>>

Readers == {"none", "reading", "handling", "claimed"}

\* Each has its shape, and a reader has an event just when it is at work on it.
RealtimeTypeOK ==
  /\ device \in [socket : Sockets \cup {NoSocket}, used : 0..MaxNumber,
                 unanswered : SUBSET Numbers, owes : BOOLEAN]
  /\ \A s \in Sockets : wire[s] \in Seq(Event)
  /\ live \subseteq Sockets /\ client \in Sockets \cup {NoSocket}
  /\ \A s \in Sockets : /\ reader[s].phase \in Readers
                        /\ reader[s].phase \in {"handling", "claimed"} <=> reader[s].event \in Event
                        /\ s \in live => reader[s].phase # "none"
  /\ last \in 0..MaxNumber
  /\ accepted \cup answered \cup spoilt \subseteq 1..device.used
  /\ reply \in {"waits", "written", "pending", "sent"} /\ shown \in BOOLEAN
  /\ outages \in 0..MaxOutages

RealtimeInit ==
  /\ device = [socket |-> NoSocket, used |-> 0, unanswered |-> {}, owes |-> FALSE]
  /\ wire = [s \in Sockets |-> <<>>] /\ live = {} /\ client = NoSocket
  /\ reader = [s \in Sockets |-> [phase |-> "none", event |-> NoEvent]]
  /\ last = 0 /\ accepted = {} /\ answered = {} /\ spoilt = {}
  /\ reply = "waits" /\ shown = FALSE /\ outages = 0

Outage == outages < MaxOutages /\ outages' = outages + 1

Reads(s) == reader' = [reader EXCEPT ![s] = [phase |-> "reading", event |-> NoEvent]]

-----------------------------------------------------------------------------
(* The device.                                                             *)

\* The texts numbered S, in their order.
Texts(S) ==
  {w \in [1..Cardinality(S) -> [kind : {"text"}, number : S]] :
     /\ \A i, j \in DOMAIN w : i < j => w[i].number < w[j].number
     /\ \A t \in S : \E i \in DOMAIN w : w[i].number = t}

\* handleWebSocket up to its loop: the client of an older socket is replaced,
\* and its connection closed.
Connect(s) ==
  /\ device.socket = NoSocket /\ reader[s].phase = "none"
  /\ device' = [device EXCEPT !.socket = s]
  /\ \E texts \in Texts(device.unanswered) : wire' = [wire EXCEPT ![s] = texts]
  /\ live' = (live \ {client}) \cup {s} /\ client' = s
  /\ Reads(s)
  /\ UNCHANGED <<last, accepted, answered, spoilt, reply, shown, outages>>

Say(kind) ==
  LET s == device.socket
      number == device.used + 1 IN
  /\ s # NoSocket /\ number \in Numbers
  /\ kind = "ack" => device.owes
  /\ wire' = [wire EXCEPT ![s] = Append(@, [kind |-> kind, number |-> number])]
  /\ device' = [device EXCEPT !.used = number,
                              !.unanswered = IF kind = "text" THEN @ \cup {number} ELSE @,
                              !.owes = @ /\ kind # "ack"]
  /\ UNCHANGED <<live, client, reader, last, accepted, answered, spoilt, reply, shown, outages>>

\* The connection is gone for the device; the gateway may not know.
Vanish ==
  LET s == device.socket IN
  /\ s # NoSocket /\ Outage
  /\ device' = [device EXCEPT !.socket = NoSocket]
  /\ live' \in {live, live \ {s}}
  /\ UNCHANGED <<wire, client, reader, last, accepted, answered, spoilt, reply, shown>>

-----------------------------------------------------------------------------
(* The goroutine of a socket.                                              *)

Reaches(s) == s \in live /\ device.socket = s

\* input.accepted goes to the device, if it is still there.
Tell(s, text) ==
  IF Reaches(s)
  THEN /\ answered' = answered \cup {text}
       /\ device' = [device EXCEPT !.unanswered = @ \ {text}]
  ELSE UNCHANGED <<answered, device>>

\* A ping is answered at once and claims no number.
ReadNext(s) ==
  /\ reader[s].phase = "reading" /\ s \in live /\ wire[s] # <<>>
  /\ wire' = [wire EXCEPT ![s] = Tail(@)]
  /\ IF Head(wire[s]).kind = "ping"
     THEN UNCHANGED reader
     ELSE reader' = [reader EXCEPT ![s] = [phase |-> "handling", event |-> Head(wire[s])]]
  /\ UNCHANGED <<device, live, client, last, accepted, answered, spoilt, reply, shown, outages>>

\* Off by one: only the next number advances.
AdvancesByOne(number) == number = last + 1

\* claimSequence: the number is above all that were claimed.
Advances(number) == number > last

\* The acknowledgement is heard only while Deliver waits for it; the number is
\* claimed afterwards.
HandleAck(s) ==
  LET number == reader[s].event.number IN
  /\ reader[s].phase = "handling" /\ reader[s].event.kind = "ack"
  /\ reply' = IF reply = "pending" THEN "sent" ELSE reply
  /\ last' = IF Advances(number) THEN number ELSE last
  /\ Reads(s)
  /\ UNCHANGED <<device, wire, live, client, accepted, answered, spoilt, shown, outages>>

\* The number of a text is claimed before the text is accepted.
ClaimNumber(s) ==
  LET text == reader[s].event.number IN
  /\ reader[s].phase = "handling" /\ reader[s].event.kind = "text"
  /\ IF Advances(text)
     THEN /\ last' = text
          /\ reader' = [reader EXCEPT ![s].phase = "claimed"]
          /\ UNCHANGED <<answered, device>>
     ELSE Tell(s, text) /\ Reads(s) /\ UNCHANGED last
  /\ UNCHANGED <<wire, live, client, accepted, spoilt, reply, shown, outages>>

AcceptText(s) ==
  LET text == reader[s].event.number IN
  /\ reader[s].phase = "claimed"
  /\ accepted' = accepted \cup {text}
  /\ Tell(s, text) /\ Reads(s)
  /\ UNCHANGED <<wire, live, client, last, spoilt, reply, shown, outages>>

\* The claim or the acceptance fails: the device is sent an error that does
\* not name the text.
TextFails(s) ==
  /\ reader[s].phase = "claimed" \/ (reader[s].phase = "handling" /\ reader[s].event.kind = "text")
  /\ Outage
  /\ spoilt' = spoilt \cup {reader[s].event.number}
  /\ Reads(s)
  /\ UNCHANGED <<device, wire, live, client, last, accepted, answered, reply, shown>>

\* ReadJSON fails on the closed connection: unregister.
Leave(s) ==
  /\ reader[s].phase = "reading" /\ s \notin live
  /\ reader' = [reader EXCEPT ![s] = [phase |-> "none", event |-> NoEvent]]
  /\ client' = IF client = s THEN NoSocket ELSE client
  /\ wire' = [wire EXCEPT ![s] = <<>>]
  /\ device' = IF device.socket = s THEN [device EXCEPT !.socket = NoSocket] ELSE device
  /\ UNCHANGED <<live, last, accepted, answered, spoilt, reply, shown, outages>>

-----------------------------------------------------------------------------
(* Deliver, for one reply.                                                 *)

\* The reply is written to the client of the session.
WriteReply ==
  /\ reply = "waits" /\ client \in live
  /\ reply' = "written"
  /\ IF Reaches(client)
     THEN shown' = TRUE /\ device' = [device EXCEPT !.owes = TRUE]
     ELSE UNCHANGED <<shown, device>>
  /\ UNCHANGED <<wire, live, client, reader, last, accepted, answered, spoilt, outages>>

\* The goroutine comes to its select.
Await ==
  /\ reply = "written"
  /\ reply' = "pending"
  /\ UNCHANGED <<device, wire, live, client, reader, last, accepted, answered, spoilt, shown, outages>>

\* No acknowledgement for twenty seconds: the row is retried.
AckTimeout ==
  /\ reply = "pending"
  /\ reply' = "waits"
  /\ UNCHANGED <<device, wire, live, client, reader, last, accepted, answered, spoilt, shown, outages>>

\* The process stops and comes back; the row's lease ends.
RestartGateway ==
  /\ Outage
  /\ spoilt' = spoilt \cup {reader[s].event.number : s \in {t \in Sockets : reader[t].phase = "claimed"}}
  /\ reader' = [s \in Sockets |-> [phase |-> "none", event |-> NoEvent]]
  /\ live' = {} /\ client' = NoSocket /\ wire' = [s \in Sockets |-> <<>>]
  /\ device' = [device EXCEPT !.socket = NoSocket]
  /\ reply' = IF reply = "sent" THEN "sent" ELSE "waits"
  /\ UNCHANGED <<last, accepted, answered, shown>>

RealtimeNext ==
  \/ \E kind \in Kinds : Say(kind)
  \/ Vanish \/ WriteReply \/ Await \/ AckTimeout \/ RestartGateway
  \/ \E s \in Sockets :
       \/ Connect(s) \/ ReadNext(s) \/ HandleAck(s) \/ ClaimNumber(s)
       \/ AcceptText(s) \/ TextFails(s) \/ Leave(s)

RealtimeSpec == RealtimeInit /\ [][RealtimeNext]_realtimeVars

-----------------------------------------------------------------------------
AtWorkOn(text) ==
  \E s \in Sockets : reader[s].phase = "claimed" /\ reader[s].event.number = text

\* A text the device was told is accepted has a run or gets one, unless its
\* handling failed or was cut off once: sockets that overlap, numbers that acks
\* and pings use up, and texts sent again lose nothing.
TextsKept == \A text \in answered : text \in accepted \cup spoilt \/ AtWorkOn(text)

\* A reply that counts as sent was shown, whichever socket and attempt the
\* acknowledgement belongs to.
RepliesShown == reply = "sent" => shown

WordsKept == RealtimeTypeOK /\ TextsKept /\ RepliesShown
=============================================================================
