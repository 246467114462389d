------------------------------- MODULE Inbound --------------------------------
(***************************************************************************)
(* How the messages of a platform reach acceptNativePlatformInbound, for   *)
(* one connector of each discipline: polled with an offset kept in memory  *)
(* (Telegram) or a buffer that is saved (personal WeChat), pushed over a   *)
(* socket that resumes at a number (Satori; KOOK, unless the URL of its    *)
(* gateway is configured) or that wants each envelope acknowledged         *)
(* (Slack), or posted to a webhook until it answers 200 (LINE; the         *)
(* official QQ bot, which claims an event while it is handled).  The       *)
(* platforms themselves are external.                                      *)
(***************************************************************************)
EXTENDS Integers, FiniteSets

CONSTANTS
  Feeds,        \* connectors looked at
  NumMessages,  \* bound: messages of the platform
  MaxErrors     \* bound: failures of a handler, of a connection or of a write

ASSUME InboundAssumption ==
  /\ Feeds \subseteq {"telegram", "weixin_oc", "satori", "kook", "kook_gateway", "slack",
                      "line", "qq"}
  /\ NumMessages \in Nat /\ MaxErrors \in Nat

Polled == {"telegram", "weixin_oc"}
Resuming == {"satori", "kook", "kook_gateway"}
Pushed == Resuming \cup {"slack"}
Posted == {"line", "qq"}
Inbox == 1..NumMessages

VARIABLES
  feed,      \* the connector this behaviour is about
  arrived,   \* messages the platform has, in their order
  kept,      \* those it delivers, or delivers again, when it is asked to
  cursor,    \* offset, SyncBuffer or sn, in memory; the next message is after it
  saved,     \* the SyncBuffer in platform_connector_state
  session,   \* a batch is being handled, or the socket is open
  held,      \* messages read that wait for the one before them
  handling,  \* handlers at work on a message
  claims,    \* dedupe of the QQ webhook
  taken,     \* messages whose handling ended well: a run, or none of ours
  failed,    \* messages a handling of which ended in an error
  missed,    \* messages let go, and by what: a restart, a connection without a
             \* number or one whose number was ahead of them
  errors     \* errors so far

inboundVars == <<feed, arrived, kept, cursor, saved, session, held, handling, claims,
                 taken, failed, missed, errors>>

\* Each has its shape, and only webhooks handle a message twice at once.
InboundTypeOK ==
  /\ feed \in Feeds /\ arrived \in 0..NumMessages
  /\ cursor \in 0..NumMessages /\ saved \in 0..NumMessages /\ session \in BOOLEAN
  /\ \A s \in {kept, held, claims, taken, failed} : s \subseteq 1..arrived
  /\ missed \subseteq (1..arrived) \X {"restart", "fresh", "ahead"}
  /\ handling \in [Inbox -> 0..2] /\ errors \in 0..MaxErrors
  /\ feed \notin Posted => Cardinality({m \in Inbox : handling[m] > 0}) <= 1
                           /\ \A m \in Inbox : handling[m] <= 1

InboundInit ==
  /\ feed \in Feeds /\ arrived = 0 /\ cursor = 0 /\ saved = 0 /\ session = FALSE
  /\ kept = {} /\ held = {} /\ claims = {} /\ taken = {} /\ failed = {} /\ missed = {}
  /\ handling = [m \in Inbox |-> 0] /\ errors = 0

AtWork == {m \in Inbox : handling[m] > 0}
After(seen) == {m \in kept : m > seen}
Starts(m) == handling' = [handling EXCEPT ![m] = @ + 1]
Finishes(m) == handling' = [handling EXCEPT ![m] = @ - 1]
Error == errors < MaxErrors /\ errors' = errors + 1

Arrive ==
  /\ arrived < NumMessages
  /\ arrived' = arrived + 1 /\ kept' = kept \cup {arrived + 1}
  /\ UNCHANGED <<feed, cursor, saved, session, held, handling, claims, taken, failed, missed,
                 errors>>

----------------------------------------------------------------------------
(* Polling.                                                                *)

\* The offset confirms what is before it; the buffer moves past the batch.
AskedFrom == IF feed = "telegram" THEN After(cursor) ELSE kept
MovedBy == IF feed = "telegram" THEN cursor ELSE arrived

Poll ==
  /\ feed \in Polled /\ ~ session
  /\ session' = TRUE
  /\ held' = After(cursor) /\ kept' = AskedFrom /\ cursor' = MovedBy
  /\ UNCHANGED <<feed, arrived, saved, handling, claims, taken, failed, missed, errors>>

\* The next message of the batch; its offset goes before its handling.
HandleNext ==
  /\ feed \in Polled /\ AtWork = {}
  /\ \E m \in held :
       /\ \A n \in held : m <= n
       /\ held' = held \ {m} /\ Starts(m)
       /\ cursor' = IF feed = "telegram" THEN m ELSE cursor
  /\ UNCHANGED <<feed, arrived, kept, saved, session, claims, taken, failed, missed, errors>>

\* The batch ends; a buffer that changed is saved, if the write succeeds.
BatchEnds ==
  /\ feed \in Polled /\ session /\ held = {} /\ AtWork = {}
  /\ session' = FALSE
  /\ \/ /\ feed = "weixin_oc"
        /\ saved' = cursor /\ kept' = After(cursor)
     \/ UNCHANGED <<saved, kept>>
  /\ UNCHANGED <<feed, arrived, cursor, held, handling, claims, taken, failed, missed, errors>>

\* The account was signed out: the next one begins without a buffer.
SignedOut ==
  /\ feed = "weixin_oc" /\ ~ session /\ Error
  /\ cursor' = 0 /\ saved' \in {0, saved}
  /\ UNCHANGED <<feed, arrived, kept, session, held, handling, claims, taken, failed, missed>>

----------------------------------------------------------------------------
(* Sockets.                                                                *)

\* A KOOK gateway that is configured is not told the number.
Resumes == feed \in {"satori", "kook"} /\ cursor > 0

\* With a number the platform goes on after it, without one it begins with what
\* comes next.  Slack keeps what was not acknowledged.
Skipped ==
  IF feed = "slack" THEN {} ELSE IF Resumes THEN kept \ After(cursor) ELSE kept

Connect ==
  /\ feed \in Pushed /\ ~ session
  /\ session' = TRUE
  /\ kept' = kept \ Skipped
  /\ missed' = missed \cup (Skipped \X {IF Resumes THEN "ahead" ELSE "fresh"})
  /\ UNCHANGED <<feed, arrived, cursor, saved, held, handling, claims, taken, failed, errors>>

\* Satori's READY and META tell a number, which is stored whatever was read.
TellNumber ==
  /\ feed = "satori" /\ session /\ AtWork = {}
  /\ cursor' \in 1..arrived
  /\ UNCHANGED <<feed, arrived, kept, saved, session, held, handling, claims, taken, failed,
                 missed, errors>>

\* One message is read: its number is stored, or its envelope acknowledged,
\* before it is handled.
Read ==
  /\ feed \in Pushed /\ session /\ AtWork = {}
  /\ \E m \in kept :
       /\ \A n \in kept : m <= n
       /\ kept' = kept \ {m} /\ Starts(m)
       /\ cursor' = IF feed \in Resuming THEN m ELSE cursor
  /\ UNCHANGED <<feed, arrived, saved, session, held, claims, taken, failed, missed, errors>>

\* The connection breaks, or the acknowledgement cannot be written; KOOK may
\* also ask for a new session, without a number.
Disconnect ==
  /\ feed \in Pushed /\ session /\ AtWork = {} /\ Error
  /\ session' = FALSE
  /\ cursor' \in IF feed \in {"kook", "kook_gateway"} THEN {cursor, 0} ELSE {cursor}
  /\ UNCHANGED <<feed, arrived, kept, saved, held, handling, claims, taken, failed, missed>>

----------------------------------------------------------------------------
(* Webhooks.                                                               *)

\* A post is handled; or it is one of an event that QQ's webhook has claimed,
\* which is answered at once.
Claimed(m) == feed = "qq" /\ m \in claims

Post(m) ==
  /\ feed \in Posted /\ m \in kept /\ handling[m] < 2
  /\ IF Claimed(m) THEN kept' = kept \ {m} /\ UNCHANGED <<handling, claims>>
     ELSE /\ Starts(m) /\ claims' = IF feed = "qq" THEN claims \cup {m} ELSE claims
          /\ UNCHANGED kept
  /\ UNCHANGED <<feed, arrived, cursor, saved, session, held, taken, failed, missed, errors>>

\* A claim lasts longer than a handling.
ClaimExpires(m) ==
  /\ m \in claims /\ handling[m] = 0
  /\ claims' = claims \ {m}
  /\ UNCHANGED <<feed, arrived, kept, cursor, saved, session, held, handling, taken, failed,
                 missed, errors>>

----------------------------------------------------------------------------
(* acceptNativePlatformInbound returned.                                   *)

\* 200 is the answer to a post that went well.
AnsweredWell(m) == IF feed \in Posted THEN kept \ {m} ELSE kept

Accepted(m) ==
  /\ handling[m] > 0 /\ Finishes(m)
  /\ taken' = taken \cup {m} /\ kept' = AnsweredWell(m)
  /\ UNCHANGED <<feed, arrived, cursor, saved, session, held, claims, failed, missed, errors>>

\* The claim goes with the error.
ClaimsLeft(m) == claims \ {m}

AnsweredAnyway(m) == IF feed \in Posted THEN kept \ {m} ELSE kept
\* 500 is the answer to another, and it is posted again.
AnsweredBadly(m) == kept

\* A batch is given up, and a socket closed.
Rejected(m) ==
  /\ handling[m] > 0 /\ Finishes(m) /\ Error
  /\ failed' = failed \cup {m} /\ claims' = ClaimsLeft(m) /\ kept' = AnsweredBadly(m)
  /\ session' = FALSE /\ held' = {}
  /\ UNCHANGED <<feed, arrived, cursor, saved, taken, missed>>

\* The process stops and comes back with what it has saved.
RestartInbound ==
  /\ Error
  /\ cursor' = saved /\ session' = FALSE /\ held' = {} /\ claims' = {}
  /\ handling' = [m \in Inbox |-> 0]
  /\ missed' = missed \cup ((AtWork \ kept) \X {"restart"})
  /\ UNCHANGED <<feed, arrived, kept, saved, taken, failed>>

InboundNext ==
  \/ Arrive \/ Poll \/ HandleNext \/ BatchEnds \/ SignedOut
  \/ Connect \/ TellNumber \/ Read \/ Disconnect
  \/ \E m \in Inbox : Post(m) \/ ClaimExpires(m) \/ Accepted(m) \/ Rejected(m)
  \/ RestartInbound

InboundSpec == InboundInit /\ [][InboundNext]_inboundVars

----------------------------------------------------------------------------
\* The message was not taken, nobody has it, and it does not come again.
Lost(m) == m <= arrived /\ m \notin kept \cup held \cup AtWork \cup taken

\* A connector lets go what a restart found in its hands, a socket that resumes
\* at a number also what came while it asked for none, and Satori what was not
\* read when a number ahead of it was announced.
Excuses ==
  {"restart"} \cup (IF feed \in Resuming THEN {"fresh"} ELSE {})
              \cup (IF feed = "satori" THEN {"ahead"} ELSE {})

\* What may be lost is known.  LINE's webhook loses nothing; a poll of Telegram
\* only a message whose own handling failed; personal WeChat also what came
\* after it in the batch; a socket and the webhook of QQ only such a message
\* and what their Excuses name: KOOK nothing by a number, Slack and QQ nothing
\* by a new connection.  Repeated polls, connections and concurrent posts lose
\* nothing more.
LossesExplained ==
  \A m \in Inbox : Lost(m) =>
    /\ feed = "telegram" => m \in failed
    /\ feed = "weixin_oc" => \E n \in failed : n <= m
    /\ feed \in Pushed \cup {"qq"} => m \in failed \/ \E why \in Excuses : <<m, why>> \in missed
    /\ feed # "line"
=============================================================================
