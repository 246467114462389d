-------------------------------- MODULE Memory --------------------------------
(***************************************************************************)
(* The long-term memory of one member (agent_memories of one scope): facts *)
(* that messages are captured as, that the member has had remembered, or   *)
(* that an operator wrote; their trimming and pruning; and the searches    *)
(* that recall or forget them, with the vectors a search caches while an   *)
(* embedding service works.  Messages arrive late, twice or in any order.  *)
(***************************************************************************)
EXTENDS Integers, Sequences, SequencesExt, Rows

CONSTANTS
  Statements,  \* what can be remembered, and
  KeyOf,       \* the fact a statement decides, or
  NoKey,       \* for a statement that excludes no other
  Says,        \* what each message states, in the order of their runs
  Importance,  \* of a captured statement; others weigh
  ManualWeight,
  MaxFacts,    \* maxMemoriesPerScope
  Searchers,
  MaxIds       \* bound: rows written

ASSUME MemoryAssumption ==
  /\ DOMAIN KeyOf = Statements
  /\ Says \in Seq(Statements) /\ Importance \in [Statements -> Nat]
  /\ ManualWeight \in Nat /\ MaxFacts \in Nat \ {0} /\ MaxIds \in Nat \ {0}

VARIABLES
  facts,    \* the rows, the one updated last at the end
  minted,   \* ids given
  vectors,  \* the embedding cached for a row, of the content it had
  searches

memoryVars == <<facts, minted, vectors, searches>>

Messages == DOMAIN Says
Ids == 1..MaxIds
Items == [id : Ids, says : Statements]
NoSearch == [phase |-> "none", tool |-> "recall", todo |-> {}, unknown |-> {}, result |-> {}]

\* Rows, vectors and searches have their shape; the content of a row is
\* unique, and a vector goes with its row (ON DELETE CASCADE).
MemoryTypeOK ==
  /\ facts \in Seq([id : Ids, says : Statements, source : {"auto_capture", "manual"},
                    event : {0} \cup Messages, observed : {0} \cup Messages, live : BOOLEAN])
  /\ IsInjective([i \in DOMAIN facts |-> facts[i].says])
  /\ minted \in 0..MaxIds /\ vectors \subseteq Items
  /\ \A v \in vectors : \E i \in DOMAIN facts : facts[i].id = v.id
  /\ searches \in [Searchers -> [phase : {"none", "embed", "store", "check", "delete"},
                                 tool : {"recall", "forget"}, todo : SUBSET Items,
                                 unknown : SUBSET Items, result : SUBSET Items]]

\* A scope may hold a fact captured before facts had keys and events.
Legacy(s) == [id |-> 1, says |-> s, source |-> "auto_capture", event |-> 0, observed |-> 0,
              live |-> TRUE]

MemoryInit ==
  /\ \/ facts = <<>> /\ minted = 0
     \/ \E s \in Statements : facts = <<Legacy(s)>> /\ minted = 1
  /\ vectors = {} /\ searches = [r \in Searchers |-> NoSearch]

ItemOf(f) == [id |-> f.id, says |-> f.says]
Unexpired(seq) == {f \in ToSet(seq) : f.live}
Weight(f) == IF f.source = "auto_capture" THEN Importance[f.says] ELSE ManualWeight

Keep(seq) ==
  /\ facts' = seq
  /\ vectors' = {v \in vectors : \E f \in ToSet(seq) : f.id = v.id}

\* TrimScope: the most important rows stay, of equal ones the latest, whether
\* they have expired or not.
Trimmed(seq) ==
  LET Before(g, f) == \/ Weight(g) > Weight(f)
                      \/ Weight(g) = Weight(f)
                         /\ \E i, j \in DOMAIN seq : i > j /\ seq[i] = g /\ seq[j] = f
  IN Only(seq, {f \in ToSet(seq) :
                  Cardinality({g \in ToSet(seq) : Before(g, f)}) < MaxFacts})

\* addMemory: a content the scope has, even as an expired row, is left as it is.
Added(s, source) ==
  IF \E f \in ToSet(facts) : f.says = s THEN facts
  ELSE Append(facts, [id |-> minted + 1, says |-> s, source |-> source,
                      event |-> 0, observed |-> 0, live |-> TRUE])

MintFor(s) ==
  IF \E f \in ToSet(facts) : f.says = s THEN UNCHANGED minted
  ELSE minted < MaxIds /\ minted' = minted + 1

KinWithKeys(k) == {f \in ToSet(facts) : /\ f.source = "auto_capture" /\ f.event # 0
                                         /\ KeyOf[f.says] = k}
\* Automatic rows about the same fact, with a stored key or without one.
Kin(k) == {f \in ToSet(facts) : f.source = "auto_capture" /\ KeyOf[f.says] = k}

\* The message is older than what is known of the fact, or was captured before.
Outdated(e, k) == \E f \in Kin(k) : f.observed > e \/ f.event = e

ByHand(s) == \E f \in ToSet(facts) : f.says = s /\ f.source # "auto_capture"

\* The other rows about the fact expire, and the row with this content is
\* written or brought back as the latest.
Superseded(e, s) ==
  LET others == Only(facts, {f \in ToSet(facts) : f.says # s})
      same == {f \in ToSet(facts) : f.says = s}
  IN Append([i \in DOMAIN others |->
               IF others[i] \in Kin(KeyOf[s]) THEN [others[i] EXCEPT !.live = FALSE]
               ELSE others[i]],
            [id |-> IF same = {} THEN minted + 1 ELSE (CHOOSE f \in same : TRUE).id,
             says |-> s, source |-> "auto_capture", event |-> e, observed |-> e,
             live |-> TRUE])

\* captureMemoryFact and the trim behind it.
Capture(e) ==
  LET s == Says[e] IN
  /\ IF KeyOf[s] = NoKey
     THEN MintFor(s) /\ Keep(Trimmed(Added(s, "auto_capture")))
     ELSE IF Outdated(e, KeyOf[s]) \/ ByHand(s)
          THEN UNCHANGED minted /\ Keep(Trimmed(facts))
          ELSE MintFor(s) /\ Keep(Trimmed(Superseded(e, s)))
  /\ UNCHANGED searches

\* memory_remember, and an operator who adds a memory, which trims nothing.
RememberFact(s) ==
  /\ MintFor(s) /\ Keep(Trimmed(Added(s, "manual")))
  /\ UNCHANGED searches

AddByHand(s) ==
  /\ MintFor(s) /\ Keep(Added(s, "manual"))
  /\ UNCHANGED searches

\* UpdateMemory: an operator rewrites a row, unless another has this content.
Correct(f, s) ==
  /\ \A g \in ToSet(facts) : g.says = s => g = f
  /\ Keep(Append(Only(facts, ToSet(facts) \ {f}),
                 [id |-> f.id, says |-> s, source |-> "manual", event |-> 0, observed |-> 0,
                  live |-> TRUE]))
  /\ UNCHANGED <<minted, searches>>

Delete(id) == Keep(Only(facts, {g \in ToSet(facts) : g.id # id}))

DeleteByHand(f) == Delete(f.id) /\ UNCHANGED <<minted, searches>>

\* PruneExpiredMemories, every six hours and at a start.
Prune ==
  /\ Keep(Only(facts, Unexpired(facts)))
  /\ UNCHANGED <<minted, searches>>

----------------------------------------------------------------------------
\* A search reads the rows that have not expired; one with vectors asks an
\* embedding service for those it has no vector of.
Begin(r, tool) ==
  /\ searches[r].phase = "none" /\ Unexpired(facts) # {}
  /\ LET read == {ItemOf(f) : f \in Unexpired(facts)} IN
     \/ /\ tool = "forget"
        /\ \E matched \in SUBSET read : searches' = [searches EXCEPT ![r] =
             [NoSearch EXCEPT !.phase = "check", !.tool = tool, !.todo = matched]]
     \/ /\ tool = "recall"
        /\ searches' = [searches EXCEPT ![r] =
             [NoSearch EXCEPT !.phase = "embed", !.todo = read, !.unknown = read \ vectors]]
  /\ UNCHANGED <<facts, minted, vectors>>

\* The service answers for all of them, or the search goes on by keywords.
Embedded(r) ==
  /\ searches[r].phase = "embed"
  /\ \/ searches' = [searches EXCEPT ![r].phase = "store"]
     \/ \E matched \in SUBSET searches[r].todo : searches' = [searches EXCEPT
          ![r].phase = "check", ![r].todo = matched, ![r].unknown = {}]
  /\ UNCHANGED <<facts, minted, vectors>>

StillThere(it) == \E f \in ToSet(facts) : f.id = it.id
\* The row is still there with this content and has not expired: the condition
\* of the INSERT ... SELECT of a vector and of memoryStillCurrent.
Storable(it) == \E f \in ToSet(facts) : f.live /\ ItemOf(f) = it
StillCurrent(it) == \E f \in ToSet(facts) : f.live /\ ItemOf(f) = it

StoreVector(r, it) ==
  /\ searches[r].phase = "store" /\ it \in searches[r].unknown
  /\ searches' = [searches EXCEPT ![r].unknown = @ \ {it}]
  /\ vectors' = IF Storable(it) THEN {v \in vectors : v.id # it.id} \cup {it} ELSE vectors
  /\ UNCHANGED <<facts, minted>>

\* The vectors decide what matches.
Match(r) ==
  /\ searches[r].phase = "store" /\ searches[r].unknown = {}
  /\ \E matched \in SUBSET searches[r].todo :
       searches' = [searches EXCEPT ![r].phase = "check", ![r].todo = matched]
  /\ UNCHANGED <<facts, minted, vectors>>

Check(r, it) ==
  /\ searches[r].phase = "check" /\ it \in searches[r].todo
  /\ searches' = [searches EXCEPT ![r].todo = @ \ {it},
       ![r].result = IF StillCurrent(it) THEN @ \cup {it} ELSE @]
  /\ UNCHANGED <<facts, minted, vectors>>

\* The answer goes to the model, or its rows are deleted one after the other.
Answer(r) ==
  /\ searches[r].phase = "check" /\ searches[r].todo = {}
  /\ searches' = [searches EXCEPT ![r] =
       IF @.tool = "recall" \/ @.result = {} THEN NoSearch ELSE [@ EXCEPT !.phase = "delete"]]
  /\ UNCHANGED <<facts, minted, vectors>>

ForgetFact(r, it) ==
  /\ searches[r].phase = "delete" /\ it \in searches[r].result
  /\ Delete(it.id)
  /\ searches' = [searches EXCEPT ![r] =
       IF @.result = {it} THEN NoSearch
       ELSE [@ EXCEPT !.result = searches[r].result \ {it}]]
  /\ UNCHANGED minted

\* The process stops and starts again.
RestartMemory ==
  /\ searches' = [r \in Searchers |-> NoSearch]
  /\ Keep(Only(facts, Unexpired(facts)))
  /\ UNCHANGED minted

MemoryNext ==
  \/ \E e \in Messages : Capture(e)
  \/ \E s \in Statements : RememberFact(s) \/ AddByHand(s)
  \/ \E f \in ToSet(facts) : DeleteByHand(f) \/ \E s \in Statements : Correct(f, s)
  \/ Prune \/ RestartMemory
  \/ \E r \in Searchers :
       \/ \E tool \in {"recall", "forget"} : Begin(r, tool)
       \/ Embedded(r) \/ Match(r) \/ Answer(r)
       \/ \E it \in Items : StoreVector(r, it) \/ Check(r, it) \/ ForgetFact(r, it)

MemorySpec == MemoryInit /\ [][MemoryNext]_memoryVars

----------------------------------------------------------------------------
CurrentFacts(seq) ==
  {f \in Unexpired(seq) : f.source = "auto_capture" /\ KeyOf[f.says] # NoKey}

\* However messages are delayed, repeated and corrected, no two captured
\* statements about one fact hold at the same time.
OneFactPerKey ==
  \A f, g \in CurrentFacts(facts) : KeyOf[f.says] = KeyOf[g.says] => f = g

FactsStay ==
  \A f \in CurrentFacts(facts), g \in CurrentFacts(facts') :
    KeyOf[f.says] = KeyOf[g.says] => g.observed >= f.observed

Remembered(it) == it \in {ItemOf(f) : f \in Unexpired(facts)}

\* As long as there is a captured fact about a key, it gives way only to one
\* that was written later: a message that is delayed or delivered again does not
\* replace it by what was said before.  (Once the fact was deleted, by hand or
\* by a tool, a message captured again does bring back what it said.)  And what
\* was forgotten, rewritten or superseded while the embedding service worked is
\* neither told to the model nor cached again.
OldWordsStayOut ==
  [][/\ FactsStay
     /\ \A r \in Searchers : \A it \in searches'[r].result \ searches[r].result : Remembered(it)
     /\ \A v \in vectors' \ vectors : Remembered(v)]_memoryVars
=============================================================================
