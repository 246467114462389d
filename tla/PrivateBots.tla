------------------------------ MODULE PrivateBots -----------------------------
(***************************************************************************)
(* Private bots: their creation under an idempotency key, their edits, the *)
(* selection of one for a conversation, the resolution of an event to the  *)
(* bot that answers it.  A request reads first and writes in a transaction *)
(* of its own, so requests overlap.  One conversation is looked at, on     *)
(* several connections of a platform; a selection is for one connection or *)
(* for any.                                                                *)
(***************************************************************************)
EXTENDS Integers, Sequences, SequencesExt, Rows

CONSTANTS
  Bots,       \* ids bots may get
  Owners,     \* owner and workspace of a request
  Connectors, \* transport instances
  Anyone,     \* the instance '*' of a selection
  NoBot,
  Keys,       \* idempotency keys
  Clerks      \* requests in progress

ASSUME PrivateBotsAssumption ==
  Anyone \notin Connectors /\ NoBot \notin Bots /\ Connectors # {}

BotStatuses == {"active", "paused", "archived"}
Places == Connectors \cup {Anyone}

VARIABLES
  bots,       \* status of each bot, and whether its agent instance is enabled
  byKey,      \* private_bot_idempotency
  selections, \* active private_bot_sessions, the one updated last at the end
  chosen,     \* of each connector: the bot selected for it last
  clerks      \* what each request has read and is about to write

botsVars == <<bots, byKey, selections, chosen, clerks>>

NoClerk == [op |-> "none", bot |-> NoBot, owner |-> NoBot, place |-> Anyone,
            status |-> "none", item |-> NoBot]

\* Rows have their shape; of an owner, one selection is active for a place.
BotsTypeOK ==
  /\ bots \in [Bots -> [status : BotStatuses \cup {"none"}, enabled : BOOLEAN]]
  /\ byKey \in [Owners \X Keys -> Bots \cup {NoBot}]
  /\ selections \in Seq([owner : Owners, place : Places, bot : Bots])
  /\ IsInjective([i \in DOMAIN selections |-> <<selections[i].owner, selections[i].place>>])
  /\ chosen \in [Connectors -> Bots \cup {NoBot}]
  /\ \A c \in Clerks :
       clerks[c].op \in {"none", "create", "update", "edit", "select"}

BotsInit ==
  /\ bots = [b \in Bots |-> [status |-> "none", enabled |-> FALSE]]
  /\ byKey = [k \in Owners \X Keys |-> NoBot]
  /\ selections = <<>> /\ chosen = [i \in Connectors |-> NoBot]
  /\ clerks = [c \in Clerks |-> NoClerk]

Exists(b) == bots[b].status # "none"
Free(c) == clerks[c].op = "none"
Leave(c) == clerks' = [clerks EXCEPT ![c] = NoClerk]
WithStatus(b, status) ==
  bots' = [bots EXCEPT ![b] = [status |-> status, enabled |-> status = "active"]]

----------------------------------------------------------------------------
\* The key is the primary key of its table; NoBot stands for a request without.
KeyTaken(o, k) == k # NoBot /\ byKey[<<o, k>>] # NoBot

\* createPrivateBot looks for the key: a bot of it is the answer.
BeginCreate(c, o, k) ==
  /\ Free(c) /\ (k # NoBot => byKey[<<o, k>>] = NoBot)
  /\ clerks' = [clerks EXCEPT ![c] = [NoClerk EXCEPT !.op = "create", !.owner = o, !.item = k]]
  /\ UNCHANGED <<bots, byKey, selections, chosen>>

\* Where the key has been taken meanwhile, the whole transaction fails.
Create(c, b, status) ==
  LET o == clerks[c].owner
      k == clerks[c].item
  IN
  /\ clerks[c].op = "create" /\ ~ Exists(b)
  /\ IF KeyTaken(o, k) THEN UNCHANGED <<bots, byKey>>
     ELSE /\ WithStatus(b, status)
          /\ byKey' = IF k = NoBot THEN byKey ELSE [byKey EXCEPT ![<<o, k>>] = b]
  /\ Leave(c)
  /\ UNCHANGED <<selections, chosen>>

----------------------------------------------------------------------------
\* updatePrivateBot reads the bot and puts the status of the request on it;
\* a request without one keeps what was read.
BeginUpdate(c, b) ==
  /\ Free(c) /\ Exists(b)
  /\ \E status \in BotStatuses : clerks' = [clerks EXCEPT
       ![c] = [NoClerk EXCEPT !.op = "update", !.bot = b, !.status = status]]
  /\ UNCHANGED <<bots, byKey, selections, chosen>>

BeginRename(c, b) ==
  /\ Free(c) /\ Exists(b)
  /\ clerks' = [clerks EXCEPT
       ![c] = [NoClerk EXCEPT !.op = "update", !.bot = b, !.status = bots[b].status]]
  /\ UNCHANGED <<bots, byKey, selections, chosen>>

\* It looks whether the bot has been archived, unless it archives it, ...
CheckUpdate(c) ==
  /\ clerks[c].op = "update"
  /\ IF clerks[c].status # "archived" /\ bots[clerks[c].bot].status = "archived"
     THEN Leave(c) ELSE clerks' = [clerks EXCEPT ![c].op = "edit"]
  /\ UNCHANGED <<bots, byKey, selections, chosen>>

\* ... and writes every column.
Update(c) ==
  /\ clerks[c].op = "edit"
  /\ WithStatus(clerks[c].bot, clerks[c].status)
  /\ Leave(c)
  /\ UNCHANGED <<byKey, selections, chosen>>

Archive(b) ==
  /\ Exists(b) /\ WithStatus(b, "archived")
  /\ UNCHANGED <<byKey, selections, chosen, clerks>>

----------------------------------------------------------------------------
\* selectPrivateBot: the bot is active when it is read.
BeginSelect(c, o, b, place) ==
  /\ Free(c) /\ bots[b].status = "active"
  /\ clerks' = [clerks EXCEPT
       ![c] = [NoClerk EXCEPT !.op = "select", !.bot = b, !.owner = o, !.place = place]]
  /\ UNCHANGED <<bots, byKey, selections, chosen>>

OnlySame(row, place) == row.place = place
\* `? IN (transport_instance, '*')`: a selection for any place meets them all,
\* one for a connector only its own.
Meets(row, place) == place \in {row.place, Anyone}

Newest(rows) == rows[Len(rows)]
Against(place) == Only(selections, {row \in ToSet(selections) : Meets(row, place)})

\* The newest selection it meets must be of the same owner; those of the owner
\* that it meets end.
Select(c) ==
  LET o == clerks[c].owner
      b == clerks[c].bot
      place == clerks[c].place
  IN
  /\ clerks[c].op = "select"
  /\ IF Against(place) # <<>> /\ Newest(Against(place)).owner # o
     THEN UNCHANGED <<selections, chosen>>
     ELSE /\ selections' = Append(
               Only(selections, {row \in ToSet(selections) : ~ (row.owner = o /\ Meets(row, place))}),
               [owner |-> o, place |-> place, bot |-> b])
          /\ chosen' = [i \in Connectors |-> IF place \in {i, Anyone} THEN b ELSE chosen[i]]
  /\ Leave(c)
  /\ UNCHANGED <<bots, byKey>>

\* resolveAgentInstance: of the selections of active bots one for the
\* connector goes first, then the newest.
Candidates(i) ==
  {n \in DOMAIN selections : /\ selections[n].place \in {i, Anyone}
                             /\ bots[selections[n].bot].status = "active"}
Better(m, n, i) ==
  \/ selections[m].place = i /\ selections[n].place = Anyone
  \/ (selections[m].place = i) = (selections[n].place = i) /\ m > n
Resolved(i) ==
  IF Candidates(i) = {} THEN NoBot
  ELSE selections[CHOOSE n \in Candidates(i) :
                    \A m \in Candidates(i) \ {n} : Better(n, m, i)].bot

ClerkStep(c) ==
  \/ \E o \in Owners, k \in Keys \cup {NoBot} : BeginCreate(c, o, k)
  \/ \E b \in Bots, status \in BotStatuses : Create(c, b, status)
  \/ \E b \in Bots : BeginUpdate(c, b) \/ BeginRename(c, b)
  \/ CheckUpdate(c) \/ Update(c)
  \/ \E o \in Owners, b \in Bots, place \in Places : BeginSelect(c, o, b, place)
  \/ Select(c)

BotsNext ==
  \/ \E c \in Clerks : ClerkStep(c)
  \/ \E b \in Bots : Archive(b)

BotsSpec == BotsInit /\ [][BotsNext]_botsVars

----------------------------------------------------------------------------
OwnersAt(i) == {selections[n].owner : n \in {m \in DOMAIN selections :
                                              selections[m].place \in {i, Anyone}}}

\* Where one owner has selections, the bot selected last answers as long as it
\* is active, whatever was selected for other connections, for any of them, or
\* at the same time.
SelectionDecides ==
  \A i \in Connectors :
    /\ Cardinality(OwnersAt(i)) = 1 /\ bots[chosen[i]].status = "active"
    => Resolved(i) = chosen[i]

\* A connection of the conversation belongs to one owner and workspace.
OneOwnerPerScope == \A i \in Connectors : Cardinality(OwnersAt(i)) <= 1
=============================================================================
