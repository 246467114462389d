---------------------------- MODULE ServicesProofs ----------------------------
(***************************************************************************)
(* Proofs about the services behind a run, for every value of their        *)
(* constants: the budget of searches, the collector of media files, points *)
(* and invitations, the health of a provider, the chain of routes of a     *)
(* request, long-term memory, and private bots.  Each part has its own     *)
(* inductive invariant.                                                    *)
(***************************************************************************)
EXTENDS SearchQueries, MediaFiles, PointsLedger, ProviderHealth, ProviderChain, Memory,
        PrivateBots, NumberSets, FiniteSetTheorems, SequenceTheorems, TLAPS

(* Searches: in one execution of a run the rows are what was sent or       *)

\* What the steps are about, without the bounds of the model.
SearchIInv ==
  /\ queries \in [Queries -> {"absent", "running", "succeeded", "failed"}]
  /\ caller \in [Callers -> Queries \cup {NoQuery}]
  /\ twice = {}
  /\ sent \cup spared = Taken
  /\ \A c \in Callers : caller[c] # NoQuery => caller[c] \in Taken
  /\ IsFiniteSet(Taken) /\ Cardinality(Taken) <= Budget

LEMMA TakenFinite == IsFiniteSet(Taken) /\ Cardinality(Taken) \in Nat
  <1>1. IsFiniteSet(Taken)
    BY SearchAssumption, FS_Subset DEF Taken
  <1> QED BY <1>1, FS_CardinalityType

\* Rows that go take no place any more.
LEMMA FewerRows ==
  ASSUME NEW S, S \subseteq Taken, Cardinality(Taken) <= Budget
  PROVE  IsFiniteSet(S) /\ Cardinality(S) <= Budget
  <1>1. IsFiniteSet(S) /\ Cardinality(S) \in Nat /\ Cardinality(S) <= Cardinality(Taken)
    BY TakenFinite, FS_Subset, FS_CardinalityType
  <1> QED BY <1>1, TakenFinite, SearchAssumption

LEMMA SearchStart == SearchInit => SearchIInv
  <1> SUFFICES ASSUME SearchInit PROVE SearchIInv
    OBVIOUS
  <1>1. Cardinality(Taken) <= 1 /\ spared = Taken
    BY DEF SearchInit, Taken
  <1>2. IsFiniteSet(Taken) /\ Cardinality(Taken) <= Budget
    BY <1>1, TakenFinite, SearchAssumption
  <1>3. \A c \in Callers : caller[c] = NoQuery
    BY DEF SearchInit
  <1> QED BY <1>1, <1>2, <1>3 DEF SearchInit, SearchIInv

\* A claim takes a place that was free, for a query that was not sent.
LEMMA BeginKeeps ==
  ASSUME SearchIInv, NEW c \in Callers, NEW q \in Queries, BeginSearch(c, q)
  PROVE  SearchIInv'
  <1>1. Taken' = Taken \cup {q} /\ q \notin Taken
    BY DEF BeginSearch, Taken, SearchIInv
  <1>2. IsFiniteSet(Taken') /\ Cardinality(Taken') = Cardinality(Taken) + 1
    BY <1>1, TakenFinite, FS_AddElement
  <1>3. Cardinality(Taken') <= Budget
    BY <1>2, TakenFinite, SearchAssumption DEF BeginSearch
  <1>4. twice' = {} /\ (sent \cup spared)' = Taken'
    BY <1>1 DEF BeginSearch, SearchIInv
  <1>5. /\ queries' \in [Queries -> {"absent", "running", "succeeded", "failed"}]
        /\ caller' \in [Callers -> Queries \cup {NoQuery}]
    BY DEF BeginSearch, SearchIInv
  <1>6. \A d \in Callers : caller'[d] # NoQuery => caller'[d] \in Taken'
    BY <1>1 DEF BeginSearch, SearchIInv
  <1> QED BY <1>2, <1>3, <1>4, <1>5, <1>6 DEF SearchIInv

\* An answer or a failure keeps the row.
LEMMA FinishKeeps ==
  ASSUME SearchIInv, NEW c \in Callers, NEW found \in BOOLEAN, FinishSearch(c, found)
  PROVE  SearchIInv'
  <1>1. Taken' = Taken
    BY DEF FinishSearch, Failure, Taken, SearchIInv
  <1>2. /\ queries' \in [Queries -> {"absent", "running", "succeeded", "failed"}]
        /\ caller' \in [Callers -> Queries \cup {NoQuery}]
    BY DEF FinishSearch, Failure, SearchIInv
  <1>3. \A d \in Callers : caller'[d] # NoQuery => caller'[d] \in Taken
    BY DEF FinishSearch, SearchIInv
  <1> QED BY <1>1, <1>2, <1>3 DEF FinishSearch, SearchIInv

LEMMA FinishFailsKeeps ==
  ASSUME SearchIInv, NEW c \in Callers, FinishFails(c)
  PROVE  SearchIInv'
  <1>1. Taken' = Taken
    BY DEF FinishFails, Taken
  <1>2. /\ caller' \in [Callers -> Queries \cup {NoQuery}]
        /\ \A d \in Callers : caller'[d] # NoQuery => caller'[d] \in Taken
    BY DEF FinishFails, SearchIInv
  <1> QED BY <1>1, <1>2 DEF FinishFails, SearchIInv

\* A new execution begins with some of the rows of the last one.
LEMMA AnewKeeps ==
  ASSUME SearchIInv,
         NEW again \in [Queries -> {"absent", "running", "succeeded", "failed"}],
         \A q \in Queries : queries[q] = "absent" => again[q] = "absent",
         Anew(again)
  PROVE  SearchIInv'
  <1>1. Taken' \subseteq Taken /\ spared' = Taken'
    BY DEF Anew, Taken
  <1>2. IsFiniteSet(Taken') /\ Cardinality(Taken') <= Budget
    BY <1>1, FewerRows DEF SearchIInv
  <1>3. /\ caller' \in [Callers -> Queries \cup {NoQuery}]
        /\ \A d \in Callers : caller'[d] = NoQuery
    BY DEF Anew
  <1> QED BY <1>1, <1>2, <1>3 DEF Anew, SearchIInv

LEMMA SearchStep == SearchIInv /\ [SearchNext]_searchVars => SearchIInv'
  <1> SUFFICES ASSUME SearchIInv, [SearchNext]_searchVars PROVE SearchIInv'
    OBVIOUS
  <1>1. ASSUME NEW c \in Callers, NEW q \in Queries, BeginSearch(c, q) PROVE SearchIInv'
    BY <1>1, BeginKeeps
  <1>2. ASSUME NEW c \in Callers, NEW found \in BOOLEAN, FinishSearch(c, found)
        PROVE SearchIInv'
    BY <1>2, FinishKeeps
  <1>3. ASSUME NEW c \in Callers, FinishFails(c) PROVE SearchIInv'
    BY <1>3, FinishFailsKeeps
  <1>4. CASE RestartSearches
    <2> DEFINE again == [q \in Queries |-> IF queries[q] = "running" THEN "absent" ELSE queries[q]]
    <2>1. /\ again \in [Queries -> {"absent", "running", "succeeded", "failed"}]
          /\ \A q \in Queries : queries[q] = "absent" => again[q] = "absent"
      BY DEF SearchIInv
    <2>2. Anew(again)
      BY <1>4 DEF RestartSearches
    <2> QED BY <2>1, <2>2, AnewKeeps
  <1>5. CASE RetrySearches
    <2> DEFINE again == [q \in Queries |-> IF queries[q] # "succeeded" THEN "absent" ELSE queries[q]]
    <2>1. /\ again \in [Queries -> {"absent", "running", "succeeded", "failed"}]
          /\ \A q \in Queries : queries[q] = "absent" => again[q] = "absent"
      BY DEF SearchIInv
    <2>2. Anew(again)
      BY <1>5 DEF RetrySearches
    <2> QED BY <2>1, <2>2, AnewKeeps
  <1>6. CASE UNCHANGED searchVars
    BY <1>6 DEF searchVars, SearchIInv, Taken
  <1> QED BY <1>1, <1>2, <1>3, <1>4, <1>5, <1>6 DEF SearchNext

\* The rows of a run are what this execution sent or found answered, and no
\* more than its budget.
THEOREM SearchInvariance == SearchSpec => []SearchIInv
  BY SearchStart, SearchStep, PTL DEF SearchSpec

\* One execution of a run (grokResearchForRunWithPrompt) sends no query twice
\* and stays within its budget, for any number of callers and queries.
THEOREM BudgetHolds == SearchSpec => []SearchesBounded
  <1>1. SearchIInv => SearchesBounded
    BY DEF SearchIInv, SearchesBounded
  <1> QED BY <1>1, SearchInvariance, PTL

SearchShape ==
  /\ sent \subseteq Queries /\ spared \subseteq Queries /\ hitches \in 0..MaxHitches
  /\ \A c, d \in Callers : caller[c] = caller[d] /\ c # d => caller[c] = NoQuery

\* A claim is of a query that had no row, so that no caller was at it.
THEOREM SearchTypes == SearchSpec => []SearchTypeOK
  <1>1. SearchInit => SearchShape
    BY SearchAssumption DEF SearchInit, SearchShape
  <1>2. ASSUME SearchIInv, SearchShape, [SearchNext]_searchVars PROVE SearchShape'
    <2>1. ASSUME NEW c \in Callers, NEW q \in Queries, BeginSearch(c, q) PROVE SearchShape'
      <3>1. \A d \in Callers : caller[d] # q
        BY <1>2, <2>1, SearchAssumption DEF BeginSearch, SearchIInv
      <3>2. caller' = [caller EXCEPT ![c] = q] /\ sent' = sent \cup {q} /\ spared' = spared
            /\ hitches' = hitches /\ caller \in [Callers -> Queries \cup {NoQuery}]
        BY <1>2, <2>1 DEF BeginSearch, SearchIInv
      <3> QED BY <1>2, <3>1, <3>2 DEF SearchShape
    <2>2. ASSUME NEW c \in Callers, caller' = [caller EXCEPT ![c] = NoQuery],
                 UNCHANGED <<sent, spared>>, hitches' = hitches \/ Hitch
          PROVE  SearchShape'
      BY <1>2, <2>2, SearchAssumption DEF SearchShape, SearchIInv, Hitch
    <2>3. ASSUME NEW left, Anew(left), Hitch PROVE SearchShape'
      BY <1>2, <2>3, SearchAssumption DEF SearchShape, Anew, Hitch
    <2>4. CASE UNCHANGED searchVars
      BY <1>2, <2>4 DEF SearchShape, searchVars
    <2> QED BY <1>2, <2>1, <2>2, <2>3, <2>4
        DEF SearchNext, FinishSearch, FinishFails, RestartSearches, RetrySearches
  <1>3. SearchIInv /\ SearchShape => SearchTypeOK
    BY DEF SearchIInv, SearchShape, SearchTypeOK
  <1> QED BY <1>1, <1>2, <1>3, SearchInvariance, PTL DEF SearchSpec

-----------------------------------------------------------------------------
(* Media files.                                                            *)

Collectors ==
  [phase : {"rest", "scan", "list", "check"}, read : 0..Len(ReadOrder),
   named : SUBSET Files, protected : SUBSET Files, file : Files \cup {"none"}]

FilesTyped ==
  /\ kind \in [Files -> Kinds \cup {"none"}]
  /\ stage \in [Files -> {"unused", "saved", "kept", "dropped"}]
  /\ disk \subseteq Files /\ old \subseteq Files /\ freed \subseteq Files
  /\ rows \in [Files -> SUBSET Tables]
  /\ gc \in Collectors

\* A file whose row was written and that nobody has let go of since.
InUse(f) == stage[f] = "kept" /\ f \notin freed

\* Written files have a kind, and rows of their kind when they were recorded;
\* what is not recorded yet is there, and young.
FileIsFine(f) ==
  /\ stage[f] # "unused" => kind[f] \in Kinds
  /\ rows[f] # {} => stage[f] = "kept"
  /\ \A t \in rows[f] : t \in {FirstRow[kind[f]], "recent", "delivery"}
  /\ "delivery" \in rows[f] => kind[f] = "made"
  /\ stage[f] \in {"unused", "saved"} => f \notin old
  /\ stage[f] = "saved" => f \in disk
  /\ stage[f] = "unused" => f \notin disk

\* A file in use is there, but for those of libraries.  An upload stays in one
\* table, while what a run made moves from the artifacts to the deliveries, and
\* never back.
NamedByItsRow(f) ==
  InUse(f) =>
    /\ kind[f] # "library" => f \in disk
    /\ kind[f] # "made" => FirstRow[kind[f]] \in rows[f]
    /\ kind[f] = "made" => /\ "artifact" \in rows[f] \/ "delivery" \in rows[f]
                           /\ ~ ("artifact" \in rows[f] /\ "delivery" \in rows[f])

\* The candidate is old, so that its row was written before the tables are
\* read again: a table that names it is read, or its row has moved to one that
\* is still to be read.
CandidateIsSeen ==
  gc.phase = "check" =>
    /\ gc.file \in old
    /\ InUse(gc.file) =>
         /\ kind[gc.file] = "inbound" /\ gc.read >= 3 => gc.file \in gc.named
         /\ kind[gc.file] = "persona" /\ gc.read >= 5 => gc.file \in gc.named
         /\ kind[gc.file] = "made" /\ gc.read >= 1 =>
              gc.file \in gc.named \/ ("delivery" \in rows[gc.file] /\ gc.read < 4)

FilesIInv ==
  /\ FilesTyped
  /\ \A f \in Files : FileIsFine(f) /\ NamedByItsRow(f)
  /\ CandidateIsSeen

LEMMA OrderIsRead ==
  /\ Len(ReadOrder) = 5
  /\ ReadOrder[1] = "artifact" /\ ReadOrder[2] = "recent" /\ ReadOrder[3] = "run"
  /\ ReadOrder[4] = "delivery" /\ ReadOrder[5] = "persona"
  BY DEF ReadOrder

LEMMA FilesStart == FilesInit => FilesIInv
  BY OrderIsRead DEF FilesInit, FilesIInv, FilesTyped, FileIsFine, NamedByItsRow, InUse,
     CandidateIsSeen, Resting, Kinds, Collectors

\* A step that is about one file and leaves the collector as it is.
StepOf(f) ==
  /\ gc' = gc
  /\ stage' \in [Files -> {"unused", "saved", "kept", "dropped"}]
  /\ kind' \in [Files -> Kinds \cup {"none"}]
  /\ rows' \in [Files -> SUBSET Tables]
  /\ disk' \subseteq Files /\ old' \subseteq Files /\ freed' \subseteq Files
  /\ \A g \in Files \ {f} :
       /\ stage'[g] = stage[g] /\ kind'[g] = kind[g] /\ rows'[g] = rows[g]
       /\ (g \in disk' <=> g \in disk) /\ (g \in old' <=> g \in old)
       /\ (g \in freed' <=> g \in freed)

\* No old file gets into use, and a delivery ends with the use.
OldOnesMove(f) ==
  f \in old =>
    /\ f \in old'
    /\ InUse(f)' => /\ InUse(f) /\ kind'[f] = kind[f]
                    /\ "delivery" \in rows[f] => "delivery" \in rows'[f]

LEMMA StepOfKeeps ==
  ASSUME FilesIInv, NEW f \in Files, StepOf(f), OldOnesMove(f),
         FileIsFine(f)', NamedByItsRow(f)'
  PROVE  FilesIInv'
  <1>1. FilesTyped'
    BY DEF FilesIInv, FilesTyped, StepOf
  <1>2. ASSUME NEW g \in Files PROVE FileIsFine(g)' /\ NamedByItsRow(g)'
    <2>1. CASE g = f
      BY <2>1
    <2>2. CASE g # f
      BY <2>2 DEF FilesIInv, FileIsFine, NamedByItsRow, InUse, StepOf
    <2> QED BY <2>1, <2>2
  <1>3. CandidateIsSeen'
    <2> SUFFICES ASSUME gc.phase = "check" PROVE CandidateIsSeen'
      BY DEF CandidateIsSeen, StepOf
    <2>1. gc.file \in old /\ gc.file \in Files
      BY DEF FilesIInv, CandidateIsSeen, FilesTyped
    <2>2. CASE gc.file = f
      BY <2>1, <2>2 DEF FilesIInv, CandidateIsSeen, OldOnesMove, StepOf
    <2>3. CASE gc.file # f
      BY <2>1, <2>3 DEF FilesIInv, CandidateIsSeen, InUse, StepOf
    <2> QED BY <2>2, <2>3
  <1> QED BY <1>1, <1>2, <1>3 DEF FilesIInv

\* A transaction on the rows of a file that was recorded.
LEMMA RowsBecomeKeeps ==
  ASSUME FilesIInv, NEW f \in Files, NEW set \in SUBSET Tables, RowsBecome(f, set),
         stage[f] = "kept", UNCHANGED <<kind, stage, disk, old, gc>>,
         \A t \in set : t \in {FirstRow[kind[f]], "recent", "delivery"},
         "delivery" \in set => kind[f] = "made",
         f \notin freed /\ set \cap Wanting # {} =>
           /\ kind[f] # "made" => FirstRow[kind[f]] \in set
           /\ kind[f] = "made" => /\ "artifact" \in set \/ "delivery" \in set
                                  /\ ~ ("artifact" \in set /\ "delivery" \in set)
                                  /\ "delivery" \in rows[f] => "delivery" \in set
           /\ "delivery" \in rows[f] => "delivery" \in set
  PROVE  FilesIInv'
  <1>1. /\ rows \in [Files -> SUBSET Tables] /\ rows' = [rows EXCEPT ![f] = set]
        /\ rows'[f] = set /\ \A g \in Files \ {f} : rows'[g] = rows[g]
        /\ rows' \in [Files -> SUBSET Tables]
    BY DEF RowsBecome, FilesIInv, FilesTyped
  <1>2. StepOf(f)
    BY <1>1 DEF RowsBecome, StepOf, FilesIInv, FilesTyped
  <1>3. f \notin freed' => f \notin freed /\ set \cap Wanting # {}
    BY DEF RowsBecome
  <1>4. FileIsFine(f)'
    BY <1>1 DEF FilesIInv, FileIsFine
  <1>5. NamedByItsRow(f)'
    BY <1>1, <1>3 DEF FilesIInv, NamedByItsRow, InUse
  <1>6. OldOnesMove(f)
    BY <1>1, <1>3 DEF OldOnesMove, InUse
  <1> QED BY <1>2, <1>4, <1>5, <1>6, StepOfKeeps

LEMMA FileFacts ==
  ASSUME FilesIInv, NEW f \in Files
  PROVE  /\ FileIsFine(f) /\ NamedByItsRow(f) /\ rows[f] \in SUBSET Tables
         /\ stage[f] \in {"unused", "saved", "kept", "dropped"}
         /\ kind[f] \in Kinds \cup {"none"}
  BY DEF FilesIInv, FilesTyped

LEMMA SaveFileKeeps ==
  ASSUME FilesIInv, NEW f \in Files, NEW what \in Kinds, SaveFile(f, what)
  PROVE  FilesIInv'
  <1>1. StepOf(f) /\ stage'[f] = "saved" /\ kind'[f] = what /\ f \in disk' /\ rows' = rows
        /\ old' = old /\ stage[f] = "unused"
    BY DEF SaveFile, StepOf, FilesIInv, FilesTyped
  <1> QED BY <1>1, FileFacts, StepOfKeeps DEF FileIsFine, NamedByItsRow, InUse, OldOnesMove

\* The row of a file that is still young.
LEMMA RecordFileKeeps ==
  ASSUME FilesIInv, NEW f \in Files, RecordFile(f)
  PROVE  FilesIInv'
  <1>1. kind[f] \in Kinds /\ f \in disk /\ f \notin old
    BY FileFacts DEF RecordFile, FileIsFine
  <1>2. FirstRow[kind[f]] \in Tables
        /\ (kind[f] = "made" => FirstRow[kind[f]] = "artifact")
    BY <1>1 DEF FirstRow, Kinds, Tables
  <1>3. /\ StepOf(f) /\ stage'[f] = "kept" /\ rows'[f] = {FirstRow[kind[f]]}
        /\ kind' = kind /\ disk' = disk /\ old' = old
    BY <1>2 DEF RecordFile, RowsBecome, StepOf, FilesIInv, FilesTyped
  <1>a. "delivery" \notin rows'[f]
    BY <1>1, <1>3 DEF FirstRow, Kinds
  <1>4. FileIsFine(f)' /\ NamedByItsRow(f)'
    BY <1>1, <1>2, <1>3, <1>a DEF FileIsFine, NamedByItsRow
  <1> QED BY <1>1, <1>3, <1>4, StepOfKeeps DEF OldOnesMove

LEMMA RecordFailsKeeps ==
  ASSUME FilesIInv, NEW f \in Files, RecordFails(f)
  PROVE  FilesIInv'
  <1>1. /\ StepOf(f) /\ stage'[f] = "dropped" /\ kind' = kind /\ rows' = rows /\ old' = old
        /\ stage[f] = "saved" /\ f \in freed'
    BY DEF RecordFails, StepOf, FilesIInv, FilesTyped
  <1> QED BY <1>1, FileFacts, StepOfKeeps DEF FileIsFine, NamedByItsRow, InUse, OldOnesMove

LEMMA AgeFileKeeps ==
  ASSUME FilesIInv, NEW f \in Files, AgeFile(f)
  PROVE  FilesIInv'
  <1>1. /\ StepOf(f) /\ UNCHANGED <<kind, stage, disk, rows, freed>> /\ stage[f] # "saved"
        /\ f \notin old /\ f \in disk
    BY DEF AgeFile, StepOf, FilesIInv, FilesTyped
  <1> QED BY <1>1, FileFacts, StepOfKeeps DEF FileIsFine, NamedByItsRow, InUse, OldOnesMove

LEMMA RowStepKeeps ==
  ASSUME FilesIInv, NEW f \in Files,
         \/ Remember(f) \/ Forget(f) \/ EndDelivery(f) \/ RetryWithFile(f) \/ SwitchReference(f)
         \/ \E delivers \in BOOLEAN : EndTask(f, delivers)
  PROVE  FilesIInv'
  <1> USE FileFacts
  <1>1. CASE Remember(f)
    BY <1>1, RowsBecomeKeeps
       DEF Remember, FileIsFine, NamedByItsRow, InUse, Tables
  <1>2. CASE Forget(f)
    <2> DEFINE set == rows[f] \ {"recent"}
    <2>1. /\ RowsBecome(f, set) /\ stage[f] = "kept" /\ set \in SUBSET Tables
          /\ UNCHANGED <<kind, stage, disk, old, gc>> /\ kind[f] \in Kinds
          /\ \A t \in set : t \in {FirstRow[kind[f]], "recent", "delivery"}
          /\ "delivery" \in set => kind[f] = "made"
      BY <1>2 DEF Forget, FileIsFine
    <2>2. f \notin freed =>
            /\ kind[f] # "made" => FirstRow[kind[f]] \in set
            /\ kind[f] = "made" => /\ "artifact" \in set \/ "delivery" \in set
                                   /\ ~ ("artifact" \in set /\ "delivery" \in set)
      BY <2>1 DEF NamedByItsRow, InUse, FirstRow, Kinds
    <2>3. "delivery" \in rows[f] => "delivery" \in set
      OBVIOUS
    <2> HIDE DEF set
    <2> QED BY <2>1, <2>2, <2>3, RowsBecomeKeeps
  <1>3. CASE EndDelivery(f)
    <2> DEFINE set == rows[f] \ {"delivery"}
    <2>1. /\ RowsBecome(f, set) /\ stage[f] = "kept" /\ set \in SUBSET Tables
          /\ UNCHANGED <<kind, stage, disk, old, gc>> /\ kind[f] \in Kinds
          /\ kind[f] = "made" /\ set \subseteq {"artifact", "recent"}
      BY <1>3 DEF EndDelivery, FileIsFine, FirstRow
    <2>2. f \notin freed => set \cap Wanting = {}
      BY <1>3, <2>1 DEF EndDelivery, NamedByItsRow, InUse, Wanting
    <2>3. "delivery" \notin set /\ \A t \in set : t \in {FirstRow[kind[f]], "recent", "delivery"}
      BY <2>1 DEF FirstRow
    <2> HIDE DEF set
    <2> QED BY <2>1, <2>2, <2>3, RowsBecomeKeeps
  <1>4. CASE RetryWithFile(f)
    BY <1>4, RowsBecomeKeeps
       DEF RetryWithFile, FileIsFine, NamedByItsRow, InUse, Tables, FirstRow, Kinds, Wanted, Wanting
  <1>5. CASE SwitchReference(f)
    <2>1. CASE rows[f] = {}
      <3>1. f \in freed
        BY <1>5, <2>1 DEF SwitchReference, NamedByItsRow, InUse
      <3>2. FirstRow[kind[f]] \in Tables /\ FirstRow[kind[f]] # "delivery"
        BY <1>5 DEF SwitchReference, FirstRow, Tables
      <3> QED BY <1>5, <2>1, <3>1, <3>2, RowsBecomeKeeps DEF SwitchReference
    <2>2. CASE rows[f] # {}
      BY <1>5, <2>2, RowsBecomeKeeps DEF SwitchReference, Wanting
    <2> QED BY <2>1, <2>2
  <1>6. ASSUME NEW delivers \in BOOLEAN, EndTask(f, delivers) PROVE FilesIInv'
    BY <1>6, RowsBecomeKeeps
       DEF EndTask, FileIsFine, NamedByItsRow, InUse, Tables, FirstRow, Kinds, Wanting
  <1> QED BY <1>1, <1>2, <1>3, <1>4, <1>5, <1>6

LEMMA DropKeeps ==
  ASSUME FilesIInv, NEW f \in Files, DropReference(f) \/ RemoveReference(f)
  PROVE  FilesIInv'
  <1>1. CASE DropReference(f)
    <2>1. /\ StepOf(f) /\ stage'[f] = "dropped" /\ kind' = kind /\ old' = old /\ rows'[f] = {}
          /\ f \in freed' /\ stage[f] = "kept"
      BY <1>1 DEF DropReference, RowsBecome, StepOf, FilesIInv, FilesTyped
    <2> QED BY <2>1, FileFacts, StepOfKeeps DEF FileIsFine, NamedByItsRow, InUse, OldOnesMove
  <1>2. CASE RemoveReference(f)
    <2>1. /\ StepOf(f) /\ stage[f] = "dropped" /\ UNCHANGED <<kind, stage, old, rows, freed>>
      BY <1>2 DEF RemoveReference, StepOf, FilesIInv, FilesTyped
    <2> QED BY <2>1, FileFacts, StepOfKeeps DEF FileIsFine, NamedByItsRow, InUse, OldOnesMove
  <1> QED BY <1>1, <1>2

\* What the collector does to files that it leaves there.
CollectorReads ==
  /\ UNCHANGED <<kind, stage, disk, old, rows, freed>>
  /\ gc' \in Collectors

LEMMA CollectorReadsKeeps ==
  ASSUME FilesIInv, CollectorReads, CandidateIsSeen'
  PROVE  FilesIInv'
  BY DEF FilesIInv, FilesTyped, CollectorReads, FileIsFine, NamedByItsRow, InUse

\* The record of the collector, one field after the other.
LEMMA CollectorFields ==
  ASSUME FilesIInv
  PROVE  /\ gc.phase \in {"rest", "scan", "list", "check"} /\ gc.read \in 0..5
         /\ gc.named \in SUBSET Files /\ gc.protected \in SUBSET Files
         /\ gc.file \in Files \cup {"none"} /\ gc \in Collectors
  BY OrderIsRead DEF FilesIInv, FilesTyped, Collectors

LEMMA RestingIs == Resting \in Collectors /\ Resting.phase = "rest"
  BY OrderIsRead DEF Resting, Collectors

LEMMA CollectorLooks ==
  ASSUME NEW c \in Collectors, NEW f \in Files, NEW named \in SUBSET Files, NEW read \in 0..5
  PROVE  [c EXCEPT !.phase = "check", !.read = read, !.named = named, !.file = f] \in Collectors
  BY OrderIsRead DEF Collectors

LEMMA CollectorReadsOn ==
  ASSUME NEW c \in Collectors, NEW named \in SUBSET Files, NEW read \in 0..5
  PROVE  [c EXCEPT !.read = read, !.named = named] \in Collectors
  BY OrderIsRead DEF Collectors

LEMMA BackToListIs ==
  ASSUME FilesIInv, BackToList
  PROVE  gc' \in Collectors /\ gc'.phase = "list"
  <1>1. gc \in Collectors /\ gc' = [gc EXCEPT !.phase = "list", !.named = {}, !.file = "none"]
    BY CollectorFields DEF BackToList
  <1> QED BY <1>1 DEF Collectors

LEMMA ElsewhereKeeps ==
  ASSUME FilesIInv, StartScan \/ ListFiles \/ Spare \/ EndScan
  PROVE  FilesIInv'
  <1>1. gc' \in Collectors /\ gc'.phase # "check"
    <2>1. CASE StartScan
      <3>1. gc' = [Resting EXCEPT !.phase = "scan"]
        BY <2>1 DEF StartScan
      <3> QED BY <3>1, RestingIs DEF Collectors
    <2>2. CASE ListFiles
      <3>1. gc \in Collectors /\ gc' = [gc EXCEPT !.phase = "list", !.protected = gc.named]
        BY <2>2, CollectorFields DEF ListFiles
      <3> QED BY <3>1 DEF Collectors
    <2>3. CASE Spare
      BY <2>3, BackToListIs DEF Spare
    <2>4. CASE EndScan
      BY <2>4, RestingIs DEF EndScan
    <2> QED BY <2>1, <2>2, <2>3, <2>4
  <1>2. UNCHANGED <<kind, stage, disk, old, rows, freed>>
    BY DEF StartScan, ListFiles, Spare, EndScan
  <1> QED BY <1>1, <1>2, CollectorReadsKeeps DEF CollectorReads, CandidateIsSeen

LEMMA TakeCandidateKeeps ==
  ASSUME FilesIInv, NEW f \in Files, TakeCandidate(f)
  PROVE  FilesIInv'
  <1>1. gc' = [gc EXCEPT !.phase = "check", !.read = 0, !.named = {}, !.file = f]
        /\ gc \in Collectors /\ f \in old' /\ {} \in SUBSET Files /\ 0 \in 0..5
    BY CollectorFields DEF TakeCandidate
  <1>2. gc'.read = 0 /\ gc'.file = f
    BY <1>1 DEF Collectors
  <1>3. gc' \in Collectors
    BY <1>1, CollectorLooks
  <1>4. CandidateIsSeen'
    BY <1>1, <1>2 DEF CandidateIsSeen
  <1> QED BY <1>3, <1>4, CollectorReadsKeeps DEF CollectorReads, TakeCandidate

\* The table that is read next names the candidate, or another did before.
LEMMA ReadTableKeeps ==
  ASSUME FilesIInv, ReadTable
  PROVE  FilesIInv'
  <1>1. PICK named \in SUBSET Files :
          /\ named = gc.named \cup {f \in Files : ReadOrder[gc.read + 1] \in rows[f]}
          /\ gc' = [gc EXCEPT !.read = gc.read + 1, !.named = named]
    BY CollectorFields DEF ReadTable
  <1>2. gc.read \in 0..4 /\ UNCHANGED <<kind, stage, disk, old, rows, freed>>
    BY OrderIsRead, CollectorFields DEF ReadTable
  <1>3. gc'.phase = gc.phase /\ gc'.read = gc.read + 1 /\ gc'.named = named /\ gc'.file = gc.file
    BY <1>1, CollectorFields DEF Collectors
  <1>4. gc' \in Collectors
    <2>1. PICK read \in 0..5 : read = gc.read + 1
      BY <1>2
    <2>2. gc' = [gc EXCEPT !.read = read, !.named = named]
      BY <1>1, <2>1
    <2> QED BY <2>2, CollectorFields, CollectorReadsOn
  <1>5. ASSUME gc.phase = "check", InUse(gc.file)
        PROVE  /\ kind[gc.file] = "inbound" /\ gc.read + 1 >= 3 => gc.file \in named
               /\ kind[gc.file] = "persona" /\ gc.read + 1 >= 5 => gc.file \in named
               /\ kind[gc.file] = "made" /\ gc.read + 1 >= 1 =>
                    gc.file \in named \/ ("delivery" \in rows[gc.file] /\ gc.read + 1 < 4)
    <2>1. /\ gc.file \in Files
          /\ kind[gc.file] = "inbound" /\ gc.read >= 3 => gc.file \in gc.named
          /\ kind[gc.file] = "persona" /\ gc.read >= 5 => gc.file \in gc.named
          /\ kind[gc.file] = "made" /\ gc.read >= 1 =>
               gc.file \in gc.named \/ ("delivery" \in rows[gc.file] /\ gc.read < 4)
      BY <1>5 DEF FilesIInv, FilesTyped, CandidateIsSeen
    <2>2. /\ kind[gc.file] = "inbound" => "run" \in rows[gc.file]
          /\ kind[gc.file] = "persona" => "persona" \in rows[gc.file]
          /\ kind[gc.file] = "made" => "artifact" \in rows[gc.file] \/ "delivery" \in rows[gc.file]
      BY <1>5, <2>1 DEF FilesIInv, NamedByItsRow, FirstRow
    <2>3. /\ gc.file \in gc.named => gc.file \in named
          /\ ReadOrder[gc.read + 1] \in rows[gc.file] => gc.file \in named
      BY <1>1, <2>1
    <2>4. CASE kind[gc.file] = "inbound"
      BY <1>2, <2>1, <2>2, <2>3, <2>4, OrderIsRead
    <2>5. CASE kind[gc.file] = "persona"
      BY <1>2, <2>1, <2>2, <2>3, <2>5, OrderIsRead
    <2>6. CASE kind[gc.file] = "made"
      BY <1>2, <2>1, <2>2, <2>3, <2>6, OrderIsRead
    <2> QED BY <2>4, <2>5, <2>6
  <1>6. CandidateIsSeen'
    BY <1>2, <1>3, <1>5 DEF CandidateIsSeen, InUse, FilesIInv
  <1> QED BY <1>2, <1>4, <1>6, CollectorReadsKeeps DEF CollectorReads

\* Only a file that no table named is removed, and one in use was named.
LEMMA CollectKeeps ==
  ASSUME FilesIInv, Collect
  PROVE  FilesIInv'
  <1>1. /\ gc.phase = "check" /\ gc.read = 5 /\ gc.file \notin gc.named /\ gc.file \in old
        /\ disk' = disk \ {gc.file} /\ UNCHANGED <<kind, stage, old, rows, freed>>
        /\ gc' \in Collectors /\ gc'.phase = "list"
    BY OrderIsRead, BackToListIs DEF Collect, NamesRead, FilesIInv, CandidateIsSeen
  <1>2. FilesTyped'
    BY <1>1 DEF FilesIInv, FilesTyped
  <1>3. ASSUME NEW f \in Files PROVE FileIsFine(f)' /\ NamedByItsRow(f)'
    <2>1. CASE f # gc.file
      BY <1>1, <2>1 DEF FilesIInv, FileIsFine, NamedByItsRow, InUse
    <2>2. CASE f = gc.file
      <3>1. stage[f] # "saved"
        BY <1>1, <2>2, FileFacts DEF FileIsFine
      <3>2. InUse(f) => kind[f] = "library"
        BY <1>1, <2>2, FileFacts DEF FilesIInv, CandidateIsSeen, InUse, FileIsFine, Kinds
      <3> QED BY <1>1, <3>1, <3>2, FileFacts DEF FileIsFine, NamedByItsRow, InUse
    <2> QED BY <2>1, <2>2
  <1> QED BY <1>1, <1>2, <1>3 DEF FilesIInv, CandidateIsSeen

LEMMA FilesStep ==
  ASSUME FilesIInv, [FilesNext]_filesVars
  PROVE  FilesIInv'
  <1>1. CASE UNCHANGED filesVars
    <2>1. CollectorReads
      BY <1>1 DEF filesVars, CollectorReads, FilesIInv, FilesTyped
    <2>2. CandidateIsSeen'
      BY <1>1 DEF filesVars, FilesIInv, CandidateIsSeen, InUse
    <2> QED BY <2>1, <2>2, CollectorReadsKeeps
  <1>2. ASSUME NEW f \in Files, FileStep(f) PROVE FilesIInv'
    BY <1>2, SaveFileKeeps, RecordFileKeeps, RecordFailsKeeps, AgeFileKeeps, RowStepKeeps,
       DropKeeps, TakeCandidateKeeps DEF FileStep
  <1> QED BY <1>1, <1>2, ElsewhereKeeps, ReadTableKeeps, CollectKeeps DEF FilesNext

\* The collector finds a file that is in use named before it has read every
\* table, for any number of files.
THEOREM FilesInvariance == FilesSpec => []FilesIInv
  <1>1. FilesIInv /\ [FilesNext]_filesVars => FilesIInv'
    BY FilesStep
  <1> QED BY <1>1, FilesStart, PTL DEF FilesSpec

\* Files, rows and the collector keep their shape.
THEOREM FilesTypes == FilesSpec => []FilesTypeOK
  <1>1. FilesIInv => FilesTypeOK
    BY DEF FilesIInv, FilesTyped, Collectors, FilesTypeOK, FileIsFine
  <1> QED BY <1>1, FilesInvariance, PTL

\* runMediaGCAudited removes no file that a task, a delivery or a persona has
\* named all the time, though it reads one table after the other while files
\* are handed from one to the next: it reads those that hand on first.
THEOREM WantedFilesAreKept == FilesSpec => []WantedFilesStay
  <1>1. FilesIInv => WantedFilesStay
    <2> SUFFICES ASSUME FilesIInv, NEW f \in Files, Wanted(f), "library" \notin rows[f], f \notin freed
                 PROVE  f \in disk
      BY DEF WantedFilesStay
    <2>1. stage[f] = "kept" /\ kind[f] \in Kinds
      BY FileFacts DEF FileIsFine, Wanted
    <2>2. kind[f] # "library"
      BY <2>1, FileFacts DEF NamedByItsRow, InUse, FirstRow
    <2> QED BY <2>1, <2>2, FileFacts DEF NamedByItsRow, InUse
  <1> QED BY <1>1, FilesInvariance, PTL

-----------------------------------------------------------------------------
(* The inductive invariant of the points.                                  *)

\* Who has an account has a live one; accounts are opened by the identity they
\* are named after, and a live one is never without members.
AccountsFine ==
  /\ accountOf \in [Identities -> Accounts \cup {None}]
  /\ opened \subseteq Accounts
  /\ mergedInto \in [Accounts -> Accounts \cup {None}]
  /\ \A i \in Identities :
       IF accountOf[i] = None THEN i \notin opened
       ELSE accountOf[i] \in opened /\ mergedInto[accountOf[i]] = None
  /\ \A a \in Accounts :
       IF mergedInto[a] = None THEN a \in opened => \E i \in Identities : accountOf[i] = a
       ELSE a \in opened /\ mergedInto[a] \in opened /\ mergedInto[mergedInto[a]] = None

OrderRows == [account : Accounts, who : Identities, points : Prices, status : OrderStatus]

TablesTyped ==
  /\ entries \subseteq Entries
  /\ checkins \subseteq Accounts \X CheckInDays
  /\ orders \in [OrderRefs -> OrderRows \cup {NoOrder}]
  /\ bindings \in [Identities -> Codes \cup {NoCode}]
  /\ owners \in [Codes -> Identities \cup {None}]
  /\ asked \subseteq Requests

OwnersBound == \A c \in Codes : owners[c] # None => bindings[owners[c]] = c

\* What an account was given for checking in stands in the table of check-ins.
CheckInsKnown ==
  \A e \in entries : e.kind = "check_in" => <<accountOf[e.who], e.day>> \in checkins

Booked(r) == {e \in entries : e.kind \in {"debit", "refund"} /\ e.ref = r}
DebitOf(r, o) == [who |-> o.who, kind |-> "debit", ref |-> r, points |-> -o.points]
RefundOf(r, o) == [who |-> o.who, kind |-> "refund", ref |-> r, points |-> o.points]

\* OrdersBooked in two parts: the entries of an order, and its account.
OrderEntries ==
  \A r \in OrderRefs :
    IF orders[r] = NoOrder THEN Booked(r) = {}
    ELSE Booked(r) = {DebitOf(r, orders[r])}
                       \cup IF orders[r].status = "refunded" THEN {RefundOf(r, orders[r])} ELSE {}
OrderAccounts ==
  \A r \in OrderRefs : orders[r] # NoOrder => accountOf[orders[r].who] = orders[r].account

\* OwnersPaidOnce in two parts.
AwardsApart ==
  \A e, f \in entries :
    e.kind = "invite" /\ f.kind = "invite" /\ e # f =>
      e.code # f.code \/ e.upto <= f.from \/ f.upto <= e.from
AwardsOwned == \A e \in entries : e.kind = "invite" => OwnsCode(e.who, e.code)

PointsIInv ==
  /\ AccountsFine /\ TablesTyped /\ OwnersBound /\ CheckInsKnown
  /\ OrderEntries /\ OrderAccounts /\ AwardsApart /\ AwardsOwned

LEMMA NotNone == \A i \in Identities : i # None /\ i \in Nat
  BY PointsAssumption DEF Identities, None

\* The conjuncts of the invariant are the properties of PointsLedger.
LEMMA PointsPromises ==
  ASSUME PointsIInv
  PROVE  PointsTypeOK /\ OrdersBooked /\ OwnersPaidOnce /\ MergesFlat
  <1>1. PointsTypeOK
    BY DEF PointsIInv, AccountsFine, TablesTyped, OwnersBound, PointsTypeOK, OrderRows
  <1>2. OrdersBooked
    BY DEF PointsIInv, OrdersBooked, OrderEntries, OrderAccounts, Booked, DebitOf, RefundOf
  <1>3. OwnersPaidOnce
    BY DEF PointsIInv, OwnersPaidOnce, AwardsApart, AwardsOwned
  <1>4. MergesFlat
    <2> SUFFICES ASSUME NEW a \in Accounts, mergedInto[a] # None
                 PROVE  /\ mergedInto[mergedInto[a]] = None /\ mergedInto[a] \in opened
                        /\ MembersOf(a) = {}
                        /\ \A r \in OrderRefs : orders[r] # NoOrder => orders[r].account # a
      BY DEF MergesFlat
    <2>1. \A i \in Identities : accountOf[i] # a
      BY NotNone DEF PointsIInv, AccountsFine, Accounts
    <2>2. MembersOf(a) = {}
      BY <2>1 DEF MembersOf
    <2>3. ASSUME NEW r \in OrderRefs, orders[r] # NoOrder PROVE orders[r].account # a
      <3>1. orders[r] \in OrderRows
        BY <2>3 DEF PointsIInv, TablesTyped
      <3>2. orders[r].who \in Identities
        BY <3>1 DEF OrderRows
      <3> QED BY <2>1, <2>3, <3>2 DEF PointsIInv, OrderAccounts
    <2> QED BY <2>2, <2>3 DEF PointsIInv, AccountsFine
  <1> QED BY <1>1, <1>2, <1>3, <1>4

-----------------------------------------------------------------------------
(* Accounts.                                                               *)

\* Members of S who have no account open one.
Opens(S) ==
  /\ accountOf' = [i \in Identities |-> IF i \in S THEN AccountFor(i) ELSE accountOf[i]]
  /\ opened' = opened \cup {i \in S : accountOf[i] = None}
  /\ UNCHANGED mergedInto

LEMMA OpensKeeps ==
  ASSUME PointsIInv, NEW S \in SUBSET Identities, Opens(S)
  PROVE  /\ AccountsFine'
         /\ \A i \in Identities : accountOf[i] # None => accountOf'[i] = accountOf[i]
         /\ \A i \in S : accountOf'[i] = AccountFor(i) /\ AccountFor(i) \in Accounts
  <1>1. /\ \A i \in Identities :
             accountOf'[i] = IF i \in S /\ accountOf[i] = None THEN i ELSE accountOf[i]
        /\ accountOf' \in [Identities -> Accounts \cup {None}]
    BY DEF Opens, AccountFor, PointsIInv, AccountsFine, Accounts
  <1>2. \A i \in Identities : i \in Accounts /\ i # None
    BY NotNone DEF Accounts
  <1>3. AccountsFine'
    <2>1. opened' \subseteq Accounts /\ mergedInto' = mergedInto
      BY <1>2 DEF Opens, PointsIInv, AccountsFine
    <2>2. ASSUME NEW i \in Identities
          PROVE  IF accountOf'[i] = None THEN i \notin opened'
                 ELSE accountOf'[i] \in opened' /\ mergedInto'[accountOf'[i]] = None
      BY <1>1, <1>2, <2>1 DEF Opens, PointsIInv, AccountsFine
    <2>3. ASSUME NEW a \in Accounts
          PROVE  IF mergedInto'[a] = None THEN a \in opened' => \E i \in Identities : accountOf'[i] = a
                 ELSE a \in opened' /\ mergedInto'[a] \in opened' /\ mergedInto'[mergedInto'[a]] = None
      <3>1. CASE mergedInto[a] # None
        BY <2>1, <3>1 DEF Opens, PointsIInv, AccountsFine
      <3>2. CASE a \in opened /\ mergedInto[a] = None
        <4>1. PICK i \in Identities : accountOf[i] = a
          BY <3>2 DEF PointsIInv, AccountsFine
        <4>2. accountOf'[i] = a
          BY <1>1, <1>2, <4>1 DEF Accounts
        <4> QED BY <2>1, <3>2, <4>2
      <3>3. CASE a \notin opened /\ mergedInto[a] = None
        <4>1. a \in opened' => a \in S /\ accountOf[a] = None
          BY <3>3 DEF Opens
        <4> QED BY <1>1, <2>1, <3>3, <4>1
      <3> QED BY <3>1, <3>2, <3>3
    <2> QED BY <1>1, <2>1, <2>2, <2>3 DEF PointsIInv, AccountsFine
  <1> QED BY <1>1, <1>2, <1>3 DEF AccountFor

MembersStay == \A i \in Identities : accountOf[i] # None => accountOf'[i] = accountOf[i]

LEMMA EntryFacts ==
  ASSUME NEW e \in Entries
  PROVE  /\ e.who \in Identities
         /\ e.kind = "check_in" => e.day \in CheckInDays
         /\ e.kind = "invite" => e.code \in Codes /\ e.from \in 0..MaxPaid /\ e.upto \in 1..MaxPaid
  BY DEF Entries

LEMMA CodeIsNot == \A c \in Codes : c # NoCode
  BY PointsAssumption

\* What an identity holds, it holds while it stays a member of its account.
LEMMA HoldingsStay ==
  ASSUME PointsIInv, MembersStay
  PROVE  /\ \A e \in entries : e.kind = "check_in" => <<accountOf'[e.who], e.day>> \in checkins
         /\ \A r \in OrderRefs :
              orders[r] # NoOrder => accountOf'[orders[r].who] = orders[r].account
         /\ \A i \in Identities, c \in Codes :
              OwnsCode(i, c) => accountOf'[i] # None /\ accountOf'[owners[c]] = accountOf'[i]
  <1>1. ASSUME NEW e \in entries, e.kind = "check_in"
        PROVE  <<accountOf'[e.who], e.day>> \in checkins
    <2>1. e.who \in Identities
      BY EntryFacts DEF PointsIInv, TablesTyped
    <2>2. <<accountOf[e.who], e.day>> \in checkins
      BY <1>1 DEF PointsIInv, CheckInsKnown
    <2>3. accountOf[e.who] \in Accounts
      BY <2>2 DEF PointsIInv, TablesTyped
    <2> QED BY <2>1, <2>2, <2>3, NotNone DEF MembersStay, Accounts
  <1>2. ASSUME NEW r \in OrderRefs, orders[r] # NoOrder
        PROVE  accountOf'[orders[r].who] = orders[r].account
    <2>1. orders[r] \in OrderRows
      BY <1>2 DEF PointsIInv, TablesTyped
    <2>2. orders[r].who \in Identities /\ orders[r].account \in Accounts
      BY <2>1 DEF OrderRows
    <2> QED BY <1>2, <2>2, NotNone DEF MembersStay, Accounts, PointsIInv, OrderAccounts
  <1>3. ASSUME NEW i \in Identities, NEW c \in Codes, OwnsCode(i, c)
        PROVE  accountOf'[i] # None /\ accountOf'[owners[c]] = accountOf'[i]
    <2>1. owners[c] \in Identities
      BY <1>3 DEF OwnsCode, PointsIInv, TablesTyped
    <2> QED BY <1>3, <2>1 DEF OwnsCode, MembersStay
  <1> QED BY <1>1, <1>2, <1>3

\* A step that opens accounts, or none, and takes nothing away.
LEMMA OpeningKeeps ==
  ASSUME PointsIInv, NEW S \in SUBSET Identities, Opens(S), UNCHANGED <<entries, orders>>,
         checkins \subseteq checkins', checkins' \subseteq Accounts \X CheckInDays,
         bindings' \in [Identities -> Codes \cup {NoCode}],
         owners' \in [Codes -> Identities \cup {None}], OwnersBound',
         \A c \in Codes : owners[c] # None => owners'[c] = owners[c],
         asked' \subseteq Requests
  PROVE  PointsIInv'
  <1>1. AccountsFine' /\ MembersStay
    BY OpensKeeps DEF MembersStay
  <1>2. TablesTyped'
    BY DEF PointsIInv, TablesTyped
  <1>3. CheckInsKnown'
    BY <1>1, HoldingsStay DEF CheckInsKnown
  <1>4. OrderEntries' /\ AwardsApart'
    BY DEF PointsIInv, OrderEntries, Booked, AwardsApart
  <1>5. OrderAccounts'
    BY <1>1, HoldingsStay DEF OrderAccounts
  <1>6. AwardsOwned'
    <2>1. ASSUME NEW e \in entries, e.kind = "invite" PROVE OwnsCode(e.who, e.code)'
      <3>1. e.who \in Identities /\ e.code \in Codes
        BY <2>1, EntryFacts DEF PointsIInv, TablesTyped
      <3>2. OwnsCode(e.who, e.code)
        BY <2>1 DEF PointsIInv, AwardsOwned
      <3>3. owners'[e.code] = owners[e.code] /\ owners[e.code] # None
        BY <3>1, <3>2 DEF OwnsCode
      <3> QED BY <1>1, <3>1, <3>2, <3>3, HoldingsStay DEF OwnsCode
    <2> QED BY <2>1 DEF AwardsOwned
  <1> QED BY <1>1, <1>2, <1>3, <1>4, <1>5, <1>6 DEF PointsIInv

LEMMA NobodyOpens ==
  ASSUME PointsIInv, UNCHANGED accountVars
  PROVE  Opens({})
  BY DEF Opens, PointsIInv, AccountsFine, accountVars

LEMMA EnsureOpens ==
  ASSUME PointsIInv, NEW i \in Identities, EnsureIdentity(i)
  PROVE  Opens({i})
  <1>1. accountOf' = [j \in Identities |-> IF j \in {i} THEN AccountFor(j) ELSE accountOf[j]]
    BY DEF EnsureIdentity, PointsIInv, AccountsFine
  <1>2. opened' = opened \cup {j \in {i} : accountOf[j] = None}
    BY DEF EnsureIdentity
  <1> QED BY <1>1, <1>2 DEF Opens, EnsureIdentity

LEMMA AskingKeeps ==
  ASSUME PointsIInv, UNCHANGED <<accountVars, entries, checkins, orders, bindings, owners>>,
         asked' \subseteq Requests
  PROVE  PointsIInv'
  <1>1. Opens({})
    BY NobodyOpens
  <1>2. OwnersBound'
    BY DEF PointsIInv, OwnersBound
  <1> QED BY <1>1, <1>2, OpeningKeeps DEF PointsIInv, TablesTyped

LEMMA OpenAccountKeeps ==
  ASSUME PointsIInv, NEW i \in Identities, OpenAccount(i)
  PROVE  PointsIInv'
  <1>1. Opens({i})
    BY EnsureOpens DEF OpenAccount
  <1>2. UNCHANGED <<entries, checkins, orders, bindings, owners, asked>>
    BY DEF OpenAccount, affiliateVars
  <1>3. OwnersBound'
    BY <1>2 DEF PointsIInv, OwnersBound
  <1> QED BY <1>1, <1>2, <1>3, OpeningKeeps DEF PointsIInv, TablesTyped

LEMMA BindKeeps ==
  ASSUME PointsIInv, NEW q \in asked, Bind(q)
  PROVE  PointsIInv'
  <1>1. q.who \in Identities /\ q.code \in Codes
    BY DEF PointsIInv, TablesTyped, Requests
  <1>2. PICK S \in SUBSET Identities : Opens(S)
    BY <1>1, EnsureOpens, NobodyOpens DEF Bind
  <1>3. /\ UNCHANGED <<entries, checkins, orders, owners>> /\ asked' \subseteq asked
        /\ bindings' = IF bindings[q.who] = NoCode THEN [bindings EXCEPT ![q.who] = q.code]
                       ELSE bindings
    BY DEF Bind
  <1>4. bindings' \in [Identities -> Codes \cup {NoCode}]
    BY <1>1, <1>3 DEF PointsIInv, TablesTyped
  <1>5. OwnersBound'
    <2> SUFFICES ASSUME NEW c \in Codes, owners[c] # None PROVE bindings'[owners[c]] = c
      BY <1>3 DEF OwnersBound
    <2>1. owners[c] \in Identities /\ bindings[owners[c]] = c /\ c # NoCode
      BY CodeIsNot DEF PointsIInv, TablesTyped, OwnersBound
    <2> QED BY <1>1, <1>3, <2>1 DEF PointsIInv, TablesTyped
  <1> QED BY <1>2, <1>3, <1>4, <1>5, OpeningKeeps DEF PointsIInv, TablesTyped

LEMMA ApproveOwnerKeeps ==
  ASSUME PointsIInv, NEW i \in Identities, NEW c \in Codes, ApproveOwner(i, c)
  PROVE  PointsIInv'
  <1>1. Opens({i})
    BY EnsureOpens DEF ApproveOwner
  <1>2. /\ UNCHANGED <<entries, checkins, orders, bindings, asked>>
        /\ owners' = IF owners[c] = None THEN [owners EXCEPT ![c] = i] ELSE owners
    BY DEF ApproveOwner
  <1>3. owners[c] = None => bindings[i] = c
    BY CodeIsNot DEF ApproveOwner, BoundCodes, OwnsCode
  <1>4. owners' \in [Codes -> Identities \cup {None}]
    BY <1>2 DEF PointsIInv, TablesTyped
  <1>5. OwnersBound'
    BY <1>2, <1>3 DEF PointsIInv, TablesTyped, OwnersBound
  <1>6. \A d \in Codes : owners[d] # None => owners'[d] = owners[d]
    BY <1>2 DEF PointsIInv, TablesTyped
  <1> QED BY <1>1, <1>2, <1>4, <1>5, <1>6, OpeningKeeps DEF PointsIInv, TablesTyped

LEMMA RestartKeeps ==
  ASSUME PointsIInv, RestartPoints
  PROVE  PointsIInv'
  <1>1. PICK S \in SUBSET Identities :
          /\ Opens(S)
          /\ \A e \in entries : e.who \in S
    <2>1. PICK S : S = {i \in Identities : bindings[i] # NoCode \/ \E e \in entries : e.who = i}
      OBVIOUS
    <2>2. Opens(S)
      BY <2>1 DEF RestartPoints, Opens
    <2>3. \A e \in entries : e.who \in Identities
      BY EntryFacts DEF PointsIInv, TablesTyped
    <2> QED BY <2>1, <2>2, <2>3
  <1>2. /\ UNCHANGED <<entries, orders, bindings, owners>> /\ asked' = {}
        /\ checkins' = checkins \cup
             {<<AccountFor(e.who), e.day>> : e \in {f \in entries : f.kind = "check_in"}}
    BY DEF RestartPoints
  <1>3. \A e \in entries : e.kind = "check_in" =>
          AccountFor(e.who) \in Accounts /\ e.day \in CheckInDays
    BY <1>1, OpensKeeps, EntryFacts DEF PointsIInv, TablesTyped
  <1>4. checkins' \subseteq Accounts \X CheckInDays
    BY <1>2, <1>3 DEF PointsIInv, TablesTyped
  <1>5. OwnersBound'
    BY <1>2 DEF PointsIInv, OwnersBound
  <1> QED BY <1>1, <1>2, <1>4, <1>5, OpeningKeeps DEF PointsIInv, TablesTyped

-----------------------------------------------------------------------------
(* Entries are added.                                                      *)

\* Nothing is booked twice: an entry for an order, or an award, comes alone.
LEMMA EntryAdded ==
  ASSUME PointsIInv, NEW e \in Entries, entries' = entries \cup {e}, e.kind = "check_in",
         UNCHANGED orders
  PROVE  OrderEntries' /\ AwardsApart'
  <1>1. \A r \in OrderRefs : Booked(r)' = Booked(r)
    BY DEF Booked
  <1>2. OrderEntries'
    BY <1>1 DEF PointsIInv, OrderEntries
  <1>3. AwardsApart'
    BY DEF PointsIInv, AwardsApart
  <1> QED BY <1>2, <1>3

LEMMA CheckInKeeps ==
  ASSUME PointsIInv, NEW i \in Identities, NEW day \in CheckInDays, CheckIn(i, day)
  PROVE  PointsIInv'
  <1>1. Opens({i}) /\ MembersStay /\ accountOf'[i] = AccountFor(i) /\ AccountFor(i) \in Accounts
        /\ AccountsFine'
    BY EnsureOpens, OpensKeeps DEF CheckIn, MembersStay
  <1>2. UNCHANGED <<orders, bindings, owners, asked>>
    BY DEF CheckIn, affiliateVars
  <1>3. OwnersBound'
    BY <1>2 DEF PointsIInv, OwnersBound
  <1>4. CASE UNCHANGED <<checkins, entries>>
    BY <1>1, <1>2, <1>3, <1>4, OpeningKeeps DEF PointsIInv, TablesTyped
  <1>5. CASE /\ checkins' = checkins \cup {<<AccountFor(i), day>>}
             /\ entries' = entries \cup
                  {[who |-> i, kind |-> "check_in", day |-> day, points |-> CheckInPoints]}
    <2>1. PICK e \in Entries :
            e = [who |-> i, kind |-> "check_in", day |-> day, points |-> CheckInPoints]
      BY DEF Entries
    <2>2. entries' = entries \cup {e} /\ e.kind = "check_in" /\ e.who = i /\ e.day = day
      BY <1>5, <2>1
    <2>3. OrderEntries' /\ AwardsApart'
      BY <1>2, <2>2, EntryAdded
    <2>4. TablesTyped'
      BY <1>1, <1>2, <1>5, <2>2 DEF PointsIInv, TablesTyped
    <2>5. CheckInsKnown'
      BY <1>1, <1>5, <2>2, HoldingsStay DEF CheckInsKnown
    <2>6. OrderAccounts'
      BY <1>1, <1>2, HoldingsStay DEF OrderAccounts
    <2>7. AwardsOwned'
      <3>1. ASSUME NEW f \in entries, f.kind = "invite" PROVE OwnsCode(f.who, f.code)'
        <4>1. f.who \in Identities /\ f.code \in Codes
          BY <3>1, EntryFacts DEF PointsIInv, TablesTyped
        <4>2. OwnsCode(f.who, f.code)
          BY <3>1 DEF PointsIInv, AwardsOwned
        <4> QED BY <1>1, <1>2, <4>1, <4>2, HoldingsStay DEF OwnsCode
      <3> QED BY <2>2, <3>1 DEF AwardsOwned
    <2> QED BY <1>1, <1>3, <2>3, <2>4, <2>5, <2>6, <2>7 DEF PointsIInv
  <1> QED BY <1>4, <1>5 DEF CheckIn

\* The high-water mark is a count and no award goes beyond it.
LEMMA HighWaterMark ==
  ASSUME PointsIInv, NEW i, NEW c
  PROVE  /\ HighWater(i, c) \in 0..MaxPaid
         /\ \A e \in Awards(c) : e.upto <= HighWater(i, c)
  <1> DEFINE marks == {e.upto : e \in Awards(c)} \cup {0}
  <1>1. MaxPaid \in Nat
    BY PointsAssumption
  <1>2. marks \subseteq 0..MaxPaid
    <2>1. \A e \in Awards(c) : e.upto \in 1..MaxPaid
      BY EntryFacts DEF Awards, PointsIInv, TablesTyped
    <2> QED BY <1>1, <2>1
  <1>3. marks \in SUBSET Nat /\ marks # {} /\ IsFiniteSet(marks)
    <2>1. IsFiniteSet(0..MaxPaid)
      <3>1. 0 \in Int /\ MaxPaid \in Int
        BY <1>1
      <3> QED BY <3>1, FS_Interval, Zenon
    <2>2. IsFiniteSet(marks)
      BY <1>2, <2>1, FS_Subset, Zenon
    <2> QED BY <1>1, <1>2, <2>2
  <1>4. Max(marks) \in marks /\ \A n \in marks : Max(marks) >= n
    BY <1>3, GreatestOfFinite
  <1>5. HighWater(i, c) = Max(marks)
    BY DEF HighWater
  <1>6. \A e \in Awards(c) : e.upto \in marks
    OBVIOUS
  <1>7. \A n \in marks : n \in Nat
    BY <1>3
  <1> HIDE DEF marks
  <1> QED BY <1>2, <1>4, <1>5, <1>6, <1>7

LEMMA CreditKeeps ==
  ASSUME PointsIInv, NEW q \in asked, NEW rate \in Rates, Credit(q, rate)
  PROVE  PointsIInv'
  <1>1. /\ UNCHANGED <<accountVars, checkins, orders, bindings, owners>> /\ asked' = asked \ {q}
        /\ q.who \in Identities /\ q.code \in Codes /\ q.count \in 0..MaxPaid
    BY DEF Credit, PointsIInv, TablesTyped, Requests
  <1>2. PICK from : from = HighWater(q.who, q.code)
    OBVIOUS
  <1>3. CASE UNCHANGED entries
    BY <1>1, <1>3, AskingKeeps DEF PointsIInv, TablesTyped
  <1>4. CASE /\ Verified(q.who, q.code) /\ q.count > from
             /\ entries' = entries \cup
                  {[who |-> q.who, kind |-> "invite", code |-> q.code, from |-> from,
                    upto |-> q.count, points |-> (q.count - from) * rate]}
    <2>1. from \in 0..MaxPaid /\ \A e \in Awards(q.code) : e.upto <= from
      BY <1>2, HighWaterMark
    <2>2. q.count \in 1..MaxPaid /\ (q.count - from) * rate \in Nat
      <3>1. MaxPaid \in Nat /\ rate \in Nat
        BY PointsAssumption
      <3>2. q.count - from \in Nat /\ q.count \in 1..MaxPaid
        BY <1>1, <1>4, <2>1, <3>1
      <3>3. \A n, k \in Nat : n * k \in Nat
        OBVIOUS
      <3> QED BY <3>1, <3>2, <3>3
    <2>3. PICK paid \in Nat : paid = (q.count - from) * rate
      BY <2>2
    <2>4. PICK e \in Entries :
            e = [who |-> q.who, kind |-> "invite", code |-> q.code, from |-> from,
                 upto |-> q.count, points |-> paid]
      BY <1>1, <2>1, <2>2 DEF Entries
    <2>5. /\ entries' = entries \cup {e} /\ e.kind = "invite" /\ e.who = q.who /\ e.code = q.code
          /\ e.from = from /\ e.upto = q.count
      BY <1>4, <2>3, <2>4
    <2>6. AccountsFine' /\ OwnersBound' /\ OrderAccounts'
      BY <1>1 DEF PointsIInv, AccountsFine, OwnersBound, OrderAccounts, accountVars
    <2>7. TablesTyped'
      BY <1>1, <2>5 DEF PointsIInv, TablesTyped
    <2>8. CheckInsKnown'
      BY <1>1, <2>5 DEF PointsIInv, CheckInsKnown, accountVars
    <2>9. OrderEntries'
      <3>1. \A r \in OrderRefs : Booked(r)' = Booked(r)
        BY <2>5 DEF Booked
      <3> QED BY <1>1, <3>1 DEF PointsIInv, OrderEntries
    <2>10. AwardsApart'
      <3>1. \A f \in entries : f.kind = "invite" /\ f.code = e.code => f.upto <= e.from
        BY <2>1, <2>5 DEF Awards
      <3>2. \A f, g \in entries :
              f.kind = "invite" /\ g.kind = "invite" /\ f # g =>
                f.code # g.code \/ f.upto <= g.from \/ g.upto <= f.from
        BY DEF PointsIInv, AwardsApart
      <3> QED BY <2>5, <3>1, <3>2 DEF AwardsApart
    <2>11. AwardsOwned'
      <3>1. OwnsCode(q.who, q.code)
        BY <1>4 DEF Verified
      <3> QED BY <1>1, <2>5, <3>1 DEF PointsIInv, AwardsOwned, OwnsCode, accountVars
    <2> QED BY <2>6, <2>7, <2>8, <2>9, <2>10, <2>11 DEF PointsIInv
  <1> QED BY <1>2, <1>3, <1>4 DEF Credit

-----------------------------------------------------------------------------
(* Orders.                                                                 *)

\* A live account is its own canonical one, and the canonical one is live.
LEMMA CanonicalIsLive ==
  ASSUME PointsIInv, NEW a \in opened
  PROVE  /\ a \in Accounts
         /\ Canonical(a) \in opened /\ Canonical(a) \in Accounts
         /\ mergedInto[Canonical(a)] = None
         /\ Canonical(a) = a <=> mergedInto[a] = None
  <1>1. a \in Accounts /\ \A b \in opened : b \in Accounts
    BY DEF PointsIInv, AccountsFine
  <1>2. CASE mergedInto[a] = None
    BY <1>1, <1>2 DEF Canonical, Hop
  <1>3. CASE mergedInto[a] # None
    <2>1. mergedInto[a] \in opened /\ mergedInto[mergedInto[a]] = None
      BY <1>1, <1>3 DEF PointsIInv, AccountsFine
    <2>2. Canonical(a) = mergedInto[a]
      BY <1>3, <2>1 DEF Canonical, Hop
    <2> QED BY <1>1, <1>3, <2>1, <2>2
  <1> QED BY <1>2, <1>3

LEMMA ReserveOrderKeeps ==
  ASSUME PointsIInv, NEW r \in OrderRefs, NEW a \in Accounts, NEW points \in Prices,
         ReserveOrder(r, a, points)
  PROVE  PointsIInv'
  <1>1. PICK account : account = Canonical(a)
    OBVIOUS
  <1>2. account \in opened /\ account \in Accounts /\ mergedInto[account] = None
    BY <1>1, CanonicalIsLive DEF ReserveOrder
  <1>3. PICK who \in Identities : who = Min(MembersOf(account)) /\ accountOf[who] = account
    <2>1. MembersOf(account) # {} /\ MembersOf(account) \in SUBSET Nat
      BY <1>2, NotNone DEF MembersOf, PointsIInv, AccountsFine
    <2>2. Min(MembersOf(account)) \in MembersOf(account)
      BY <2>1, MinIsLeast
    <2> QED BY <2>2 DEF MembersOf
  <1>4. points \in Nat /\ -points \in Int
    BY PointsAssumption
  <1>5. PICK o \in OrderRows :
          o = [account |-> account, who |-> who, points |-> points, status |-> "reserved"]
    BY <1>2 DEF OrderRows, OrderStatus
  <1>6. /\ o.account = account /\ o.who = who /\ o.points = points /\ o.status = "reserved"
        /\ o # NoOrder
    BY <1>5 DEF NoOrder
  <1>7. PICK e \in Entries : e = [who |-> who, kind |-> "debit", ref |-> r, points |-> -points]
    BY <1>4 DEF Entries
  <1>8. /\ e.kind = "debit" /\ e.ref = r /\ e = DebitOf(r, o)
    BY <1>6, <1>7 DEF DebitOf
  <1>9. /\ orders[r] = NoOrder /\ orders' = [orders EXCEPT ![r] = o]
        /\ entries' = entries \cup {e}
        /\ UNCHANGED <<accountVars, checkins, bindings, owners, asked>>
    BY <1>1, <1>3, <1>5, <1>7 DEF ReserveOrder, affiliateVars
  <1>10. orders'[r] = o /\ \A s \in OrderRefs \ {r} : orders'[s] = orders[s]
    BY <1>9 DEF PointsIInv, TablesTyped
  <1>11. AccountsFine' /\ OwnersBound'
    BY <1>9 DEF PointsIInv, AccountsFine, OwnersBound, accountVars
  <1>12. TablesTyped'
    BY <1>9 DEF PointsIInv, TablesTyped
  <1>13. CheckInsKnown' /\ AwardsApart' /\ AwardsOwned'
    BY <1>8, <1>9 DEF PointsIInv, CheckInsKnown, AwardsApart, AwardsOwned, OwnsCode, accountVars
  <1>14. OrderEntries'
    <2>1. Booked(r) = {}
      BY <1>9 DEF PointsIInv, OrderEntries
    <2>2. Booked(r)' = {e}
      BY <1>8, <1>9, <2>1 DEF Booked
    <2>3. \A s \in OrderRefs \ {r} : Booked(s)' = Booked(s)
      BY <1>8, <1>9 DEF Booked
    <2> QED BY <1>6, <1>8, <1>10, <2>2, <2>3 DEF PointsIInv, OrderEntries
  <1>15. OrderAccounts'
    BY <1>3, <1>6, <1>9, <1>10 DEF PointsIInv, OrderAccounts, accountVars
  <1> QED BY <1>11, <1>12, <1>13, <1>14, <1>15 DEF PointsIInv

LEMMA ResolveOrderKeeps ==
  ASSUME PointsIInv, NEW r \in OrderRefs, NEW status \in OrderStatus, ResolveOrder(r, status)
  PROVE  PointsIInv'
  <1>1. orders[r].status = "reserved" /\ orders[r] # NoOrder /\ orders[r] \in OrderRows
    BY DEF ResolveOrder, NoOrder, PointsIInv, TablesTyped
  <1>2. PICK o \in OrderRows : o = [orders[r] EXCEPT !.status = status]
    BY <1>1 DEF OrderRows
  <1>3. /\ o.account = orders[r].account /\ o.who = orders[r].who /\ o.points = orders[r].points
        /\ o.status = status /\ o # NoOrder
    BY <1>1, <1>2 DEF OrderRows, NoOrder
  <1>4. o.points \in Int /\ o.who \in Identities
    <2>1. o.points \in Prices /\ o.who \in Identities
      BY DEF OrderRows
    <2>2. o.points \in Nat
      BY <2>1, PointsAssumption
    <2> QED BY <2>1, <2>2
  <1>5. PICK e \in Entries : e = [who |-> o.who, kind |-> "refund", ref |-> r, points |-> o.points]
    BY <1>4 DEF Entries
  <1>6. e.kind = "refund" /\ e.ref = r /\ e = RefundOf(r, o)
    BY <1>5 DEF RefundOf
  <1>7. /\ status \in {"committed", "refunded"} /\ orders' = [orders EXCEPT ![r] = o]
        /\ entries' = IF status = "refunded" THEN entries \cup {e} ELSE entries
        /\ UNCHANGED <<accountVars, checkins, bindings, owners, asked>>
    BY <1>2, <1>3, <1>5 DEF ResolveOrder, affiliateVars
  <1>8. orders'[r] = o /\ \A s \in OrderRefs \ {r} : orders'[s] = orders[s]
    BY <1>7 DEF PointsIInv, TablesTyped
  <1>9. AccountsFine' /\ OwnersBound'
    BY <1>7 DEF PointsIInv, AccountsFine, OwnersBound, accountVars
  <1>10. TablesTyped'
    BY <1>7 DEF PointsIInv, TablesTyped
  <1>11. CheckInsKnown' /\ AwardsApart' /\ AwardsOwned'
    BY <1>6, <1>7 DEF PointsIInv, CheckInsKnown, AwardsApart, AwardsOwned, OwnsCode, accountVars
  <1>12. OrderEntries'
    <2>1. Booked(r) = {DebitOf(r, orders[r])} /\ DebitOf(r, orders[r]) = DebitOf(r, o)
      BY <1>1, <1>3 DEF PointsIInv, OrderEntries, DebitOf
    <2>2. Booked(r)' = {DebitOf(r, o)} \cup IF status = "refunded" THEN {RefundOf(r, o)} ELSE {}
      BY <1>6, <1>7, <2>1 DEF Booked
    <2>3. \A s \in OrderRefs \ {r} : Booked(s)' = Booked(s)
      BY <1>6, <1>7 DEF Booked
    <2> QED BY <1>3, <1>8, <2>2, <2>3 DEF PointsIInv, OrderEntries
  <1>13. OrderAccounts'
    BY <1>1, <1>3, <1>7, <1>8 DEF PointsIInv, OrderAccounts, accountVars
  <1> QED BY <1>9, <1>10, <1>11, <1>12, <1>13 DEF PointsIInv

-----------------------------------------------------------------------------
(* Links and merges.                                                       *)

LEMMA LinkIdentityKeeps ==
  ASSUME PointsIInv, NEW i \in Identities, NEW a \in Accounts, LinkIdentity(i, a)
  PROVE  PointsIInv'
  <1>1. PICK account : account = Canonical(a)
    OBVIOUS
  <1>2. /\ account \in opened /\ account \in Accounts /\ mergedInto[account] = None
    BY <1>1, CanonicalIsLive DEF LinkIdentity
  <1>3. /\ accountOf[i] = None /\ accountOf' = [accountOf EXCEPT ![i] = account]
        /\ UNCHANGED <<opened, mergedInto, entries, checkins, orders, bindings, owners, asked>>
    BY <1>1 DEF LinkIdentity, affiliateVars
  <1>4. /\ accountOf' \in [Identities -> Accounts \cup {None}]
        /\ accountOf'[i] = account /\ \A j \in Identities \ {i} : accountOf'[j] = accountOf[j]
    BY <1>2, <1>3 DEF PointsIInv, AccountsFine
  <1>5. MembersStay
    BY <1>3, <1>4 DEF MembersStay
  <1>6. AccountsFine'
    <2>1. ASSUME NEW j \in Identities
          PROVE  IF accountOf'[j] = None THEN j \notin opened
                 ELSE accountOf'[j] \in opened /\ mergedInto[accountOf'[j]] = None
      BY <1>2, <1>4, NotNone DEF PointsIInv, AccountsFine, Accounts
    <2>2. ASSUME NEW b \in Accounts, mergedInto[b] = None, b \in opened
          PROVE  \E j \in Identities : accountOf'[j] = b
      <3>1. PICK j \in Identities : accountOf[j] = b
        BY <2>2 DEF PointsIInv, AccountsFine
      <3>2. j # i
        BY <1>3, <3>1, NotNone DEF Accounts
      <3> QED BY <1>4, <3>1, <3>2
    <2> QED BY <1>3, <1>4, <2>1, <2>2 DEF PointsIInv, AccountsFine
  <1>7. TablesTyped' /\ OwnersBound' /\ OrderEntries' /\ AwardsApart'
    BY <1>3 DEF PointsIInv, TablesTyped, OwnersBound, OrderEntries, Booked, AwardsApart
  <1>8. CheckInsKnown' /\ OrderAccounts'
    BY <1>3, <1>5, HoldingsStay DEF CheckInsKnown, OrderAccounts
  <1>9. AwardsOwned'
    <2>1. ASSUME NEW e \in entries, e.kind = "invite" PROVE OwnsCode(e.who, e.code)'
      <3>1. e.who \in Identities /\ e.code \in Codes
        BY <2>1, EntryFacts DEF PointsIInv, TablesTyped
      <3>2. OwnsCode(e.who, e.code)
        BY <2>1 DEF PointsIInv, AwardsOwned
      <3> QED BY <1>3, <1>5, <3>1, <3>2, HoldingsStay DEF OwnsCode
    <2> QED BY <1>3, <2>1 DEF AwardsOwned
  <1> QED BY <1>6, <1>7, <1>8, <1>9 DEF PointsIInv

LEMMA MergeAccountsKeeps ==
  ASSUME PointsIInv, NEW source \in Accounts, NEW asTarget \in Accounts,
         MergeAccounts(source, asTarget)
  PROVE  PointsIInv'
  <1>1. PICK target : target = Canonical(asTarget)
    OBVIOUS
  <1>2. /\ source \in opened /\ mergedInto[source] = None
        /\ target \in opened /\ target \in Accounts /\ mergedInto[target] = None
        /\ source # target
    <2>1. source \in opened /\ asTarget \in opened
      BY DEF MergeAccounts
    <2>2. Canonical(source) = source /\ source # target
      BY <1>1 DEF MergeAccounts
    <2> QED BY <1>1, <2>1, <2>2, CanonicalIsLive
  <1>3. /\ checkins' = SharedCheckins(source, target)
        /\ accountOf' = [i \in Identities |-> IF accountOf[i] = source THEN target
                                              ELSE accountOf[i]]
        /\ orders' = MovedOrders(source, target)
        /\ mergedInto' = MergeTargets(source, target)
        /\ UNCHANGED <<opened, entries, bindings, owners, asked>>
    BY <1>1 DEF MergeAccounts, affiliateVars
  <1>4. \A i \in Identities : accountOf'[i] = IF accountOf[i] = source THEN target ELSE accountOf[i]
    BY <1>3
  <1>5. \A a \in Accounts : mergedInto'[a] = IF a = source \/ mergedInto[a] = source THEN target
                                             ELSE mergedInto[a]
    BY <1>3 DEF MergeTargets
  <1>6. \A a \in Accounts : a # None
    BY NotNone DEF Accounts
  <1>7. AccountsFine'
    <2>1. /\ accountOf' \in [Identities -> Accounts \cup {None}]
          /\ mergedInto' \in [Accounts -> Accounts \cup {None}]
      BY <1>2, <1>3 DEF PointsIInv, AccountsFine, MergeTargets
    <2>2. ASSUME NEW i \in Identities
          PROVE  IF accountOf'[i] = None THEN i \notin opened
                 ELSE accountOf'[i] \in opened /\ mergedInto'[accountOf'[i]] = None
      <3>1. CASE accountOf[i] = source
        BY <1>2, <1>4, <1>5, <1>6, <3>1
      <3>2. CASE accountOf[i] # source /\ accountOf[i] # None
        <4>1. accountOf[i] \in opened /\ accountOf[i] \in Accounts /\ mergedInto[accountOf[i]] = None
          BY <3>2 DEF PointsIInv, AccountsFine
        <4> QED BY <1>4, <1>5, <1>6, <3>2, <4>1
      <3>3. CASE accountOf[i] = None
        BY <1>4, <1>6, <3>3 DEF PointsIInv, AccountsFine
      <3> QED BY <3>1, <3>2, <3>3
    <2>3. ASSUME NEW a \in Accounts, mergedInto'[a] = None, a \in opened
          PROVE  \E i \in Identities : accountOf'[i] = a
      <3>1. mergedInto[a] = None /\ a # source
        BY <1>2, <1>5, <1>6, <2>3
      <3>2. PICK i \in Identities : accountOf[i] = a
        BY <2>3, <3>1 DEF PointsIInv, AccountsFine
      <3> QED BY <1>4, <3>1, <3>2
    <2>4. ASSUME NEW a \in Accounts, mergedInto'[a] # None
          PROVE  a \in opened /\ mergedInto'[a] \in opened /\ mergedInto'[mergedInto'[a]] = None
      <3>1. mergedInto'[target] = None
        BY <1>2, <1>5, <1>6
      <3>2. CASE a = source
        BY <1>2, <1>5, <3>1, <3>2
      <3>3. CASE a # source
        <4>1. /\ a \in opened /\ mergedInto[a] \in opened /\ mergedInto[a] \in Accounts
              /\ mergedInto[mergedInto[a]] = None
          BY <1>5, <2>4, <3>3, <1>6 DEF PointsIInv, AccountsFine
        <4>2. CASE mergedInto[a] = source
          BY <1>2, <1>5, <3>1, <4>1, <4>2
        <4>3. CASE mergedInto[a] # source
          BY <1>5, <1>6, <3>3, <4>1, <4>3
        <4> QED BY <4>2, <4>3
      <3> QED BY <3>2, <3>3
    <2> QED BY <1>3, <2>1, <2>2, <2>3, <2>4 DEF PointsIInv, AccountsFine
  <1>8. ASSUME NEW r \in OrderRefs, orders[r] # NoOrder
        PROVE  /\ orders[r] \in OrderRows /\ orders'[r] \in OrderRows /\ orders'[r] # NoOrder
               /\ orders'[r].who = orders[r].who /\ orders'[r].points = orders[r].points
               /\ orders'[r].status = orders[r].status
               /\ orders'[r].account = IF orders[r].account = source THEN target
                                       ELSE orders[r].account
    <2>1. orders[r] \in OrderRows
      BY <1>8 DEF PointsIInv, TablesTyped
    <2>2. CASE orders[r].account = source
      <3>1. PICK o \in OrderRows : o = [orders[r] EXCEPT !.account = target]
        BY <1>2, <2>1 DEF OrderRows
      <3>2. orders'[r] = o
        BY <1>3, <1>8, <2>2, <3>1 DEF MovedOrders
      <3>3. /\ o.who = orders[r].who /\ o.points = orders[r].points
            /\ o.status = orders[r].status /\ o.account = target
        BY <2>1, <3>1 DEF OrderRows
      <3>4. o # NoOrder
        <4>1. o.status # "none"
          BY DEF OrderRows, OrderStatus
        <4> QED BY <4>1 DEF NoOrder
      <3> QED BY <2>1, <2>2, <3>2, <3>3, <3>4
    <2>3. CASE orders[r].account # source
      <3>1. orders'[r] = orders[r]
        BY <1>3, <2>3 DEF MovedOrders
      <3> QED BY <1>8, <2>1, <2>3, <3>1
    <2> QED BY <2>2, <2>3
  <1>9. \A r \in OrderRefs : orders[r] = NoOrder => orders'[r] = NoOrder
    BY <1>3 DEF MovedOrders
  <1>10. TablesTyped'
    <2>1. orders' \in [OrderRefs -> OrderRows \cup {NoOrder}]
      <3>1. \A r \in OrderRefs : orders'[r] \in OrderRows \cup {NoOrder}
        BY <1>8, <1>9
      <3> QED BY <1>3, <3>1 DEF MovedOrders
    <2>2. checkins' \subseteq Accounts \X CheckInDays
      <3>1. \A p \in checkins' : p \in checkins \/ \E d \in CheckInDays : p = <<target, d>>
        BY <1>3 DEF SharedCheckins
      <3> QED BY <1>2, <3>1 DEF PointsIInv, TablesTyped
    <2> QED BY <1>3, <2>1, <2>2 DEF PointsIInv, TablesTyped
  <1>11. OwnersBound' /\ AwardsApart'
    BY <1>3 DEF PointsIInv, OwnersBound, AwardsApart
  <1>12. CheckInsKnown'
    <2>1. ASSUME NEW e \in entries, e.kind = "check_in"
          PROVE  <<accountOf'[e.who], e.day>> \in checkins'
      <3>1. e.who \in Identities /\ e.day \in CheckInDays
        BY <2>1, EntryFacts DEF PointsIInv, TablesTyped
      <3>2. <<accountOf[e.who], e.day>> \in checkins
        BY <2>1 DEF PointsIInv, CheckInsKnown
      <3> QED BY <1>3, <1>4, <3>1, <3>2 DEF SharedCheckins
    <2> QED BY <1>3, <2>1 DEF CheckInsKnown
  <1>13. OrderEntries'
    <2>1. ASSUME NEW r \in OrderRefs
          PROVE  IF orders'[r] = NoOrder THEN Booked(r)' = {}
                 ELSE Booked(r)' = {DebitOf(r, orders'[r])}
                        \cup IF orders'[r].status = "refunded" THEN {RefundOf(r, orders'[r])}
                             ELSE {}
      <3>1. Booked(r)' = Booked(r)
        BY <1>3 DEF Booked
      <3>2. CASE orders[r] = NoOrder
        BY <1>9, <3>1, <3>2 DEF PointsIInv, OrderEntries
      <3>3. CASE orders[r] # NoOrder
        <4>1. /\ orders'[r] # NoOrder /\ orders'[r].status = orders[r].status
              /\ DebitOf(r, orders'[r]) = DebitOf(r, orders[r])
              /\ RefundOf(r, orders'[r]) = RefundOf(r, orders[r])
          BY <1>8, <3>3 DEF DebitOf, RefundOf
        <4> QED BY <3>1, <3>3, <4>1 DEF PointsIInv, OrderEntries
      <3> QED BY <3>2, <3>3
    <2> QED BY <2>1 DEF OrderEntries
  <1>14. OrderAccounts'
    <2>1. ASSUME NEW r \in OrderRefs, orders'[r] # NoOrder
          PROVE  accountOf'[orders'[r].who] = orders'[r].account
      <3>1. orders[r] # NoOrder
        BY <1>9, <2>1
      <3>2. orders[r].who \in Identities
        BY <1>8, <3>1 DEF OrderRows
      <3>3. accountOf[orders[r].who] = orders[r].account
        BY <3>1 DEF PointsIInv, OrderAccounts
      <3> QED BY <1>4, <1>8, <3>1, <3>2, <3>3
    <2> QED BY <2>1 DEF OrderAccounts
  <1>15. AwardsOwned'
    <2>1. ASSUME NEW e \in entries, e.kind = "invite" PROVE OwnsCode(e.who, e.code)'
      <3>1. e.who \in Identities /\ e.code \in Codes
        BY <2>1, EntryFacts DEF PointsIInv, TablesTyped
      <3>2. OwnsCode(e.who, e.code)
        BY <2>1 DEF PointsIInv, AwardsOwned
      <3>3. owners[e.code] \in Identities
        BY <3>1, <3>2 DEF OwnsCode, PointsIInv, TablesTyped
      <3> QED BY <1>2, <1>3, <1>4, <1>6, <3>1, <3>2, <3>3 DEF OwnsCode
    <2> QED BY <1>3, <2>1 DEF AwardsOwned
  <1> QED BY <1>7, <1>10, <1>11, <1>12, <1>13, <1>14, <1>15 DEF PointsIInv

-----------------------------------------------------------------------------
(* The theorems.                                                           *)

LEMMA PointsStart == PointsInit => PointsIInv
  <1> SUFFICES ASSUME PointsInit PROVE PointsIInv
    OBVIOUS
  <1>1. AccountsFine /\ TablesTyped
    BY DEF PointsInit, AccountsFine, TablesTyped
  <1>2. OwnersBound /\ CheckInsKnown /\ OrderEntries /\ OrderAccounts /\ AwardsApart /\ AwardsOwned
    BY DEF PointsInit, OwnersBound, CheckInsKnown, OrderEntries, Booked, OrderAccounts,
           AwardsApart, AwardsOwned
  <1> QED BY <1>1, <1>2 DEF PointsIInv

LEMMA PointsStep == PointsIInv /\ [PointsNext]_pointsVars => PointsIInv'
  <1> SUFFICES ASSUME PointsIInv, [PointsNext]_pointsVars PROVE PointsIInv'
    OBVIOUS
  <1>1. ASSUME NEW i \in Identities, NEW c \in Codes,
               AskBind(i, c) \/ AskSync(i, c)
        PROVE  PointsIInv'
    <2>1. [step |-> "bind", who |-> i, code |-> c, count |-> 0] \in Requests
          /\ [step |-> "sync", who |-> i, code |-> c, count |-> 0] \in Requests
      BY PointsAssumption DEF Requests
    <2>2. asked' \subseteq Requests
      BY <1>1, <2>1 DEF AskBind, AskSync, AskService, PointsIInv, TablesTyped
    <2> QED BY <1>1, <2>2, AskingKeeps DEF AskBind, AskSync
  <1>2. ASSUME NEW q \in asked, NEW n \in 0..MaxPaid, Answered(q, n) \/ Unanswered(q)
        PROVE  PointsIInv'
    <2>1. q \in Requests
      BY DEF PointsIInv, TablesTyped
    <2>2. [q EXCEPT !.step = "credit", !.count = n] \in Requests
      BY <2>1 DEF Requests
    <2>3. asked' \subseteq Requests
      BY <1>2, <2>2 DEF Answered, Unanswered, PointsIInv, TablesTyped
    <2> QED BY <1>2, <2>3, AskingKeeps DEF Answered, Unanswered
  <1>3. ASSUME NEW q \in asked, Unanswered(q) PROVE PointsIInv'
    BY <1>3, AskingKeeps DEF Unanswered, PointsIInv, TablesTyped
  <1>4. CASE UNCHANGED pointsVars
    BY <1>4, AskingKeeps DEF pointsVars, accountVars, PointsIInv, TablesTyped
  <1> QED BY <1>1, <1>2, <1>3, <1>4, OpenAccountKeeps, CheckInKeeps, LinkIdentityKeeps,
             ApproveOwnerKeeps, MergeAccountsKeeps, ReserveOrderKeeps, ResolveOrderKeeps,
             BindKeeps, CreditKeeps, RestartKeeps DEF PointsNext

\* The inductive invariant of the accounts, the ledger and the invite codes.
THEOREM PointsInvariance == PointsSpec => []PointsIInv
  BY PointsStart, PointsStep, PTL DEF PointsSpec

\* The tables of the points have their shape, and the verified owner of a code
\* is bound to it.
THEOREM PointsTypes == PointsSpec => []PointsTypeOK
  BY PointsInvariance, PointsPromises, PTL

\* Every order is booked once and given back just when it is refunded
\* (reservePointsOrder, resolvePointsOrder, mergePointsAccounts).
THEOREM OrdersAreBooked == PointsSpec => []OrdersBooked
  BY PointsInvariance, PointsPromises, PTL

\* Each paid invitee is paid for once, to the account of the verified owner,
\* whatever answers overtake one another (creditInvitePoints).
THEOREM InviteesPaidOnce == PointsSpec => []OwnersPaidOnce
  BY PointsInvariance, PointsPromises, PTL

\* Merges leave no chains, and nothing with a merged account: so two hops of
\* pointsCanonicalAccount always reach the live account.
THEOREM MergesStayFlat == PointsSpec => []MergesFlat
  BY PointsInvariance, PointsPromises, PTL

\* An account checks in once a day, however its identities are linked and
\* merged meanwhile (recordDailyCheckIn).
THEOREM CheckedInOnce == PointsSpec => CheckInOnce
  <1>1. ASSUME PointsIInv, [PointsNext]_pointsVars
        PROVE  \A e \in entries' \ entries : e.kind = "check_in" =>
                 ~ \E f \in entries : /\ f.kind = "check_in" /\ f.day = e.day
                                      /\ accountOf'[f.who] = accountOf'[e.who]
    <2> SUFFICES ASSUME NEW e \in entries', e \notin entries, e.kind = "check_in",
                        NEW f \in entries, f.kind = "check_in", f.day = e.day,
                        accountOf'[f.who] = accountOf'[e.who]
                 PROVE  FALSE
      OBVIOUS
    <2>1. ASSUME NEW i \in Identities, NEW day \in CheckInDays, CheckIn(i, day)
          PROVE  FALSE
      <3>1. MembersStay /\ accountOf'[i] = AccountFor(i)
        BY <1>1, <2>1, EnsureOpens, OpensKeeps DEF CheckIn, MembersStay
      <3>2. <<accountOf'[f.who], f.day>> \in checkins
        BY <1>1, <3>1, HoldingsStay
      <3>3. e.who = i /\ e.day = day /\ <<AccountFor(i), day>> \notin checkins
        BY <2>1 DEF CheckIn
      <3> QED BY <3>1, <3>2, <3>3
    <2>2. ASSUME NEW r \in OrderRefs, NEW a \in Accounts, NEW points \in Prices,
                 ReserveOrder(r, a, points)
          PROVE  FALSE
      BY <2>2 DEF ReserveOrder
    <2>3. ASSUME NEW r \in OrderRefs, NEW status \in OrderStatus, ResolveOrder(r, status)
          PROVE  FALSE
      BY <2>3 DEF ResolveOrder
    <2>4. ASSUME NEW q \in asked, NEW rate \in Rates, Credit(q, rate)
          PROVE  FALSE
      BY <2>4 DEF Credit
    <2>5. CASE entries' = entries
      BY <2>5
    <2>6. CASE entries' # entries
      BY <1>1, <2>1, <2>2, <2>3, <2>4, <2>6
         DEF PointsNext, pointsVars, OpenAccount, LinkIdentity, AskBind, ApproveOwner, AskSync,
             MergeAccounts, Bind, Unanswered, Answered, RestartPoints
    <2> QED BY <2>5, <2>6
  <1> QED BY <1>1, PointsInvariance, PTL DEF PointsSpec, CheckInOnce

-----------------------------------------------------------------------------
(* No account goes below zero.                                             *)

\* What NoOverdraft says, of sums; a sum is of a finite set.
Funds ==
  /\ IsFiniteSet(entries)
  /\ \A a \in Accounts : SumOfPoints(EntriesOf(a)) >= 0

LEMMA BalanceIsSum == \A a : Balance(a) = SumOfPoints(EntriesOf(a))
  BY DEF Balance, SumOfPoints

\* Every entry is in an account and moves points.
LEMMA EntryHolder ==
  ASSUME PointsIInv, NEW e \in entries
  PROVE  e.who \in Identities /\ accountOf[e.who] \in Accounts /\ e.points \in Int
  <1>1. e \in Entries
    BY DEF PointsIInv, TablesTyped
  <1>2. e.who \in Identities
    BY <1>1, EntryFacts
  <1>3. e.points \in Int /\ e.kind \in {"check_in", "invite", "debit", "refund"}
        /\ (e.kind \in {"debit", "refund"} => e.ref \in OrderRefs)
    BY <1>1, PointsAssumption DEF Entries
  <1>4. CASE e.kind = "check_in"
    BY <1>2, <1>3, <1>4 DEF PointsIInv, CheckInsKnown, TablesTyped
  <1>5. CASE e.kind = "invite"
    BY <1>2, <1>3, <1>5 DEF PointsIInv, AwardsOwned, OwnsCode, AccountsFine
  <1>6. CASE e.kind \in {"debit", "refund"}
    <2>1. PICK r \in OrderRefs : e \in Booked(r)
      BY <1>3, <1>6 DEF Booked
    <2>2. /\ orders[r] # NoOrder
          /\ e = DebitOf(r, orders[r]) \/ e = RefundOf(r, orders[r])
      BY <2>1 DEF PointsIInv, OrderEntries
    <2>3. e.who = orders[r].who
      BY <2>2 DEF DebitOf, RefundOf
    <2>4. orders[r].account \in Accounts
      BY <2>2 DEF PointsIInv, TablesTyped, OrderRows
    <2> QED BY <1>2, <1>3, <2>2, <2>3, <2>4 DEF PointsIInv, OrderAccounts
  <1> QED BY <1>3, <1>4, <1>5, <1>6

LEMMA FundsAddUp ==
  ASSUME PointsIInv, Funds, NEW a
  PROVE  IsFiniteSet(EntriesOf(a)) /\ HasPoints(EntriesOf(a)) /\ SumOfPoints(EntriesOf(a)) \in Int
  <1>1. EntriesOf(a) \in SUBSET entries
    BY DEF EntriesOf
  <1>2. IsFiniteSet(EntriesOf(a)) /\ HasPoints(EntriesOf(a))
    BY <1>1, EntryHolder, FS_Subset DEF Funds, HasPoints
  <1> QED BY <1>2, PointsAddUp

\* No entry changes its account.
EntriesStay == \A e \in entries : accountOf'[e.who] = accountOf[e.who]

LEMMA MembersKeepEntries ==
  ASSUME PointsIInv, MembersStay
  PROVE  EntriesStay
  BY EntryHolder, NotNone DEF MembersStay, EntriesStay, Accounts

LEMMA FundsStay ==
  ASSUME PointsIInv, Funds, UNCHANGED entries, EntriesStay
  PROVE  Funds'
  <1>1. \A a : EntriesOf(a)' = EntriesOf(a)
    BY DEF EntriesOf, EntriesStay
  <1> QED BY <1>1 DEF Funds

\* One more entry, that an account can pay.
LEMMA EntryPaid ==
  ASSUME PointsIInv, Funds, EntriesStay, NEW x \in Entries, entries' = entries \cup {x},
         x.points >= 0 \/ SumOfPoints(EntriesOf(accountOf'[x.who])) + x.points >= 0
  PROVE  Funds'
  <1>1. x.points \in Int
    BY PointsAssumption DEF Entries
  <1>2. IsFiniteSet(entries')
    BY FS_AddElement DEF Funds
  <1>3. CASE x \in entries
    BY <1>3, FundsStay
  <1>4. ASSUME NEW a \in Accounts, x \notin entries PROVE SumOfPoints(EntriesOf(a)') >= 0
    <2>1. EntriesOf(a)' = IF accountOf'[x.who] = a THEN EntriesOf(a) \cup {x} ELSE EntriesOf(a)
      BY DEF EntriesOf, EntriesStay
    <2>2. x \notin EntriesOf(a)
      BY <1>4 DEF EntriesOf
    <2>3. SumOfPoints(EntriesOf(a) \cup {x}) = SumOfPoints(EntriesOf(a)) + x.points
      BY <1>1, <2>2, FundsAddUp, PointsAddUp
    <2>4. SumOfPoints(EntriesOf(a)) >= 0 /\ SumOfPoints(EntriesOf(a)) \in Int
      BY FundsAddUp DEF Funds
    <2>5. CASE accountOf'[x.who] # a
      BY <2>1, <2>4, <2>5
    <2>6. CASE accountOf'[x.who] = a
      <3>1. x.points >= 0 \/ SumOfPoints(EntriesOf(a)) + x.points >= 0
        BY <2>6
      <3>2. EntriesOf(a)' = EntriesOf(a) \cup {x}
        BY <2>1, <2>6
      <3> QED BY <1>1, <2>3, <2>4, <3>1, <3>2
    <2> QED BY <2>5, <2>6
  <1> QED BY <1>2, <1>3, <1>4 DEF Funds

LEMMA CheckInPaid ==
  ASSUME PointsIInv, Funds, NEW i \in Identities, NEW day \in CheckInDays, CheckIn(i, day)
  PROVE  Funds'
  <1>1. EntriesStay
    BY EnsureOpens, OpensKeeps, MembersKeepEntries DEF CheckIn, MembersStay
  <1>2. PICK e \in Entries :
          e = [who |-> i, kind |-> "check_in", day |-> day, points |-> CheckInPoints]
    BY DEF Entries
  <1>3. e.points >= 0
    BY <1>2, PointsAssumption
  <1>4. UNCHANGED entries \/ entries' = entries \cup {e}
    BY <1>2 DEF CheckIn
  <1> QED BY <1>1, <1>3, <1>4, EntryPaid, FundsStay

LEMMA CreditPaid ==
  ASSUME PointsIInv, Funds, NEW q \in asked, NEW rate \in Rates, Credit(q, rate)
  PROVE  Funds'
  <1>1. EntriesStay /\ q.who \in Identities /\ q.code \in Codes /\ q.count \in 0..MaxPaid
    BY DEF Credit, EntriesStay, accountVars, PointsIInv, TablesTyped, Requests
  <1>2. PICK from : from = HighWater(q.who, q.code)
    OBVIOUS
  <1>3. from \in 0..MaxPaid
    BY <1>2, HighWaterMark
  <1>4. CASE UNCHANGED entries
    BY <1>1, <1>4, FundsStay
  <1>5. CASE /\ q.count > from
             /\ entries' = entries \cup
                  {[who |-> q.who, kind |-> "invite", code |-> q.code, from |-> from,
                    upto |-> q.count, points |-> (q.count - from) * rate]}
    <2>1. q.count \in 1..MaxPaid /\ (q.count - from) * rate \in Nat
      <3>1. MaxPaid \in Nat /\ rate \in Nat
        BY PointsAssumption
      <3>2. q.count - from \in Nat /\ q.count \in 1..MaxPaid
        BY <1>1, <1>3, <1>5, <3>1
      <3>3. \A n, k \in Nat : n * k \in Nat
        OBVIOUS
      <3> QED BY <3>1, <3>2, <3>3
    <2>2. PICK paid \in Nat : paid = (q.count - from) * rate
      BY <2>1
    <2>3. PICK e \in Entries :
            e = [who |-> q.who, kind |-> "invite", code |-> q.code, from |-> from,
                 upto |-> q.count, points |-> paid]
      BY <1>1, <1>3, <2>1 DEF Entries
    <2>4. e.points >= 0
      BY <2>3
    <2>5. entries' = entries \cup {e}
      BY <1>5, <2>2, <2>3
    <2> QED BY <1>1, <2>4, <2>5, EntryPaid
  <1> QED BY <1>2, <1>4, <1>5 DEF Credit

LEMMA ReserveOrderPaid ==
  ASSUME PointsIInv, Funds, NEW r \in OrderRefs, NEW a \in Accounts, NEW points \in Prices,
         ReserveOrder(r, a, points)
  PROVE  Funds'
  <1>1. PICK account : account = Canonical(a)
    OBVIOUS
  <1>2. account \in opened /\ account \in Accounts /\ mergedInto[account] = None
    BY <1>1, CanonicalIsLive DEF ReserveOrder
  <1>3. PICK who \in Identities : who = Min(MembersOf(account)) /\ accountOf[who] = account
    <2>1. MembersOf(account) # {} /\ MembersOf(account) \in SUBSET Nat
      BY <1>2, NotNone DEF MembersOf, PointsIInv, AccountsFine
    <2>2. Min(MembersOf(account)) \in MembersOf(account)
      BY <2>1, MinIsLeast
    <2> QED BY <2>2 DEF MembersOf
  <1>4. points \in Nat /\ -points \in Int
    BY PointsAssumption
  <1>5. PICK e \in Entries : e = [who |-> who, kind |-> "debit", ref |-> r, points |-> -points]
    BY <1>4 DEF Entries
  <1>6. /\ entries' = entries \cup {e} /\ accountOf' = accountOf
        /\ SumOfPoints(EntriesOf(account)) >= points
    BY <1>1, <1>3, <1>5, BalanceIsSum DEF ReserveOrder, accountVars, Affordable
  <1>7. e.points = -points /\ accountOf'[e.who] = account
    BY <1>3, <1>5, <1>6
  <1>8. SumOfPoints(EntriesOf(account)) \in Int
    BY FundsAddUp
  <1>9. SumOfPoints(EntriesOf(account)) + e.points >= 0
    BY <1>4, <1>6, <1>7, <1>8
  <1> QED BY <1>6, <1>7, <1>9, EntryPaid DEF EntriesStay

LEMMA ResolveOrderPaid ==
  ASSUME PointsIInv, Funds, NEW r \in OrderRefs, NEW status \in OrderStatus, ResolveOrder(r, status)
  PROVE  Funds'
  <1>1. orders[r].status = "reserved" /\ orders[r] # NoOrder /\ orders[r] \in OrderRows
    BY DEF ResolveOrder, NoOrder, PointsIInv, TablesTyped
  <1>2. orders[r].points \in Nat /\ orders[r].points \in Int /\ orders[r].who \in Identities
    <2>1. orders[r].points \in Prices /\ orders[r].who \in Identities
      BY <1>1 DEF OrderRows
    <2>2. orders[r].points \in Nat
      BY <2>1, PointsAssumption
    <2> QED BY <2>1, <2>2
  <1>3. PICK e \in Entries : e = [who |-> orders[r].who, kind |-> "refund", ref |-> r,
                                  points |-> orders[r].points]
    BY <1>2 DEF Entries
  <1>4. e.points >= 0 /\ EntriesStay
    BY <1>2, <1>3 DEF ResolveOrder, accountVars, EntriesStay
  <1>5. UNCHANGED entries \/ entries' = entries \cup {e}
    BY <1>3 DEF ResolveOrder
  <1> QED BY <1>4, <1>5, EntryPaid, FundsStay

\* What an account had goes into the account it is merged into.
LEMMA MergePaid ==
  ASSUME PointsIInv, Funds, NEW source \in Accounts, NEW asTarget \in Accounts,
         MergeAccounts(source, asTarget)
  PROVE  Funds'
  <1>1. PICK target : target = Canonical(asTarget)
    OBVIOUS
  <1>2. target \in Accounts /\ source # target
    <2>1. asTarget \in opened /\ Canonical(source) = source /\ source # target
      BY <1>1 DEF MergeAccounts
    <2> QED BY <1>1, <2>1, CanonicalIsLive
  <1>3. /\ \A i \in Identities : accountOf'[i] = IF accountOf[i] = source THEN target
                                                 ELSE accountOf[i]
        /\ entries' = entries
    BY <1>1 DEF MergeAccounts
  <1>4. \A e \in entries : accountOf'[e.who] = IF accountOf[e.who] = source THEN target
                                               ELSE accountOf[e.who]
    BY <1>3, EntryHolder
  <1>5. ASSUME NEW a \in Accounts PROVE SumOfPoints(EntriesOf(a)') >= 0
    <2>1. CASE a = source
      <3>1. EntriesOf(a)' = {}
        BY <1>2, <1>3, <1>4, <2>1 DEF EntriesOf
      <3>2. IsFiniteSet({}) /\ HasPoints({})
        BY FS_EmptySet DEF HasPoints
      <3> QED BY <3>1, <3>2, PointsAddUp
    <2>2. CASE a = target
      <3>1. EntriesOf(a)' = EntriesOf(target) \cup EntriesOf(source)
        BY <1>2, <1>3, <1>4, <2>2 DEF EntriesOf
      <3>2. EntriesOf(target) \cap EntriesOf(source) = {}
        BY <1>2 DEF EntriesOf
      <3>3. SumOfPoints(EntriesOf(a)') = SumOfPoints(EntriesOf(target)) + SumOfPoints(EntriesOf(source))
        BY <3>1, <3>2, FundsAddUp, SumOfUnion
      <3>4. /\ SumOfPoints(EntriesOf(target)) >= 0 /\ SumOfPoints(EntriesOf(target)) \in Int
            /\ SumOfPoints(EntriesOf(source)) >= 0 /\ SumOfPoints(EntriesOf(source)) \in Int
        BY <1>2, FundsAddUp DEF Funds
      <3> QED BY <3>3, <3>4
    <2>3. CASE a # source /\ a # target
      <3>1. EntriesOf(a)' = EntriesOf(a)
        BY <1>3, <1>4, <2>3 DEF EntriesOf
      <3> QED BY <3>1 DEF Funds
    <2> QED BY <2>1, <2>2, <2>3
  <1> QED BY <1>3, <1>5 DEF Funds

LEMMA FundsStart == PointsInit => Funds
  <1> SUFFICES ASSUME PointsInit PROVE Funds
    OBVIOUS
  <1>1. entries = {} /\ IsFiniteSet({}) /\ HasPoints({})
    BY FS_EmptySet DEF PointsInit, HasPoints
  <1>2. \A a : EntriesOf(a) = {}
    BY <1>1 DEF EntriesOf
  <1> QED BY <1>1, <1>2, PointsAddUp DEF Funds

LEMMA FundsStep ==
  ASSUME PointsIInv, Funds, [PointsNext]_pointsVars
  PROVE  Funds'
  <1>1. CASE UNCHANGED entries /\ EntriesStay
    BY <1>1, FundsStay
  <1>2. ASSUME NEW i \in Identities, OpenAccount(i) PROVE Funds'
    <2>1. UNCHANGED entries /\ MembersStay
      BY <1>2, EnsureOpens, OpensKeeps DEF OpenAccount, MembersStay
    <2> QED BY <1>1, <2>1, MembersKeepEntries
  <1>3. ASSUME NEW i \in Identities, NEW a \in Accounts, LinkIdentity(i, a) PROVE Funds'
    <2>1. UNCHANGED entries /\ MembersStay
      BY <1>3 DEF LinkIdentity, MembersStay
    <2> QED BY <1>1, <2>1, MembersKeepEntries
  <1>4. ASSUME NEW i \in Identities, NEW c \in Codes, ApproveOwner(i, c) PROVE Funds'
    <2>1. UNCHANGED entries /\ MembersStay
      BY <1>4, EnsureOpens, OpensKeeps DEF ApproveOwner, MembersStay
    <2> QED BY <1>1, <2>1, MembersKeepEntries
  <1>5. ASSUME NEW q \in asked, Bind(q) PROVE Funds'
    <2>1. q.who \in Identities
      BY DEF PointsIInv, TablesTyped, Requests
    <2>2. UNCHANGED entries /\ MembersStay
      BY <1>5, <2>1, EnsureOpens, OpensKeeps DEF Bind, MembersStay, accountVars
    <2> QED BY <1>1, <2>2, MembersKeepEntries
  <1>6. ASSUME RestartPoints PROVE Funds'
    <2>1. UNCHANGED entries /\ MembersStay
      BY <1>6 DEF RestartPoints, AccountFor, MembersStay
    <2> QED BY <1>1, <2>1, MembersKeepEntries
  <1>7. ASSUME NEW i \in Identities, NEW c \in Codes, AskBind(i, c) \/ AskSync(i, c) PROVE Funds'
    BY <1>1, <1>7 DEF AskBind, AskSync, accountVars, EntriesStay
  <1>8. ASSUME NEW q \in asked, Unanswered(q) \/ \E n \in 0..MaxPaid : Answered(q, n)
        PROVE  Funds'
    BY <1>1, <1>8 DEF Unanswered, Answered, accountVars, EntriesStay
  <1>9. CASE UNCHANGED pointsVars
    BY <1>1, <1>9 DEF pointsVars, EntriesStay
  <1> QED BY <1>2, <1>3, <1>4, <1>5, <1>6, <1>7, <1>8, <1>9, CheckInPaid, CreditPaid,
             ReserveOrderPaid, ResolveOrderPaid, MergePaid DEF PointsNext

\* No sequence of orders, refunds, links and merges overdraws an account, and
\* nothing else takes points away (reservePointsOrder, mergePointsAccounts).
THEOREM NobodyOverdraws == PointsSpec => []NoOverdraft
  <1>1. PointsIInv /\ Funds /\ [PointsNext]_pointsVars => Funds'
    BY FundsStep
  <1>2. Funds => NoOverdraft
    BY BalanceIsSum DEF Funds, NoOverdraft
  <1> QED BY <1>1, <1>2, FundsStart, PointsInvariance, PTL DEF PointsSpec

-----------------------------------------------------------------------------
(* Health of a provider.                                                   *)

CheckRecord == [at : {"idle", "read", "last", "write", "sample"},
                healthy : BOOLEAN, routed : BOOLEAN, failures : Nat, alone : BOOLEAN]
RowType == [routed : BOOLEAN, failures : Nat]

\* The findings of s that end at i are n of one value, as InARow says of since.
RowIn(s, i, n, healthy) == i >= n /\ \A k \in (i - n + 1)..i : s[k] = healthy

FailedIn(s) ==
  \E i \in 1..Len(s) :
    /\ RowIn(s, i, RemoveAfter, FALSE)
    /\ \A k \in (i + 1)..Len(s) : ~ RowIn(s, k, 2, TRUE)
RecoveredIn(s) ==
  \E i \in 1..Len(s) :
    /\ RowIn(s, i, 2, TRUE)
    /\ \A k \in (i + 1)..Len(s) : ~ RowIn(s, k, RemoveAfter, FALSE)

\* The failures at the end of s are f, or all of s are and others were before.
Counted(f, s) ==
  \/ f < Len(s) /\ s[Len(s) - f] /\ \A k \in (Len(s) - f + 1)..Len(s) : ~ s[k]
  \/ f >= Len(s) /\ \A k \in 1..Len(s) : ~ s[k]

\* A row that agrees with the findings s.
Agrees(r, s) ==
  /\ Counted(r.failures, s)
  /\ FailedIn(s) => ~ r.routed
  /\ RecoveredIn(s) => r.routed

\* An endpoint that is out has the last finding for its last sample.
EndsIn(r, s, l) == ~ r.routed /\ Len(s) > 0 => l = s[Len(s)]

\* The row after one more check.
AfterCheck(r, l, healthy) ==
  [routed |-> IF healthy THEN r.routed \/ l ELSE r.routed /\ r.failures + 1 < RemoveAfter,
   failures |-> IF healthy THEN 0 ELSE r.failures + 1]

LEMMA AppendFacts ==
  ASSUME NEW s \in Seq(BOOLEAN), NEW healthy \in BOOLEAN
  PROVE  /\ Append(s, healthy) \in Seq(BOOLEAN) /\ Len(Append(s, healthy)) = Len(s) + 1
         /\ Len(s) \in Nat
         /\ \A k \in 1..Len(s) : Append(s, healthy)[k] = s[k]
         /\ Append(s, healthy)[Len(s) + 1] = healthy
  BY AppendProperties, LenProperties

\* A finding at the end changes no row that ends before it.
LEMMA RowsBefore ==
  ASSUME NEW s \in Seq(BOOLEAN), NEW healthy \in BOOLEAN, NEW i \in 1..Len(s), NEW n \in Nat,
         NEW value \in BOOLEAN
  PROVE  RowIn(Append(s, healthy), i, n, value) <=> RowIn(s, i, n, value)
  <1>1. /\ Len(s) \in Nat /\ \A k \in 1..Len(s) : Append(s, healthy)[k] = s[k]
    BY AppendFacts
  <1>2. i >= n => \A k \in (i - n + 1)..i : k \in 1..Len(s)
    BY <1>1
  <1> QED BY <1>1, <1>2 DEF RowIn

\* A row that ends with the new finding is of its value.
LEMMA RowsEnding ==
  ASSUME NEW s \in Seq(BOOLEAN), NEW healthy \in BOOLEAN, NEW n \in Nat \ {0},
         NEW value \in BOOLEAN, RowIn(Append(s, healthy), Len(s) + 1, n, value)
  PROVE  value = healthy
  <1>1. Len(s) \in Nat /\ Append(s, healthy)[Len(s) + 1] = healthy
    BY AppendFacts
  <1>2. Len(s) + 1 >= n => Len(s) + 1 \in ((Len(s) + 1) - n + 1)..(Len(s) + 1)
    BY <1>1
  <1> QED BY <1>1, <1>2 DEF RowIn

\* What was reached last, before or with a new finding.
LEMMA FailedBefore ==
  ASSUME NEW s \in Seq(BOOLEAN), NEW healthy \in BOOLEAN, FailedIn(Append(s, healthy))
  PROVE  \/ RowIn(Append(s, healthy), Len(s) + 1, RemoveAfter, FALSE)
         \/ FailedIn(s) /\ ~ RowIn(Append(s, healthy), Len(s) + 1, 2, TRUE)
  <1> DEFINE t == Append(s, healthy)
             n == Len(s)
  <1>1. n \in Nat /\ Len(t) = n + 1
    BY AppendFacts
  <1>2. PICK i \in 1..(n + 1) : /\ RowIn(t, i, RemoveAfter, FALSE)
                                /\ \A k \in (i + 1)..(n + 1) : ~ RowIn(t, k, 2, TRUE)
    BY <1>1 DEF FailedIn
  <1>3. CASE i = n + 1
    BY <1>2, <1>3
  <1>4. CASE i \in 1..n
    <2>1. RowIn(s, i, RemoveAfter, FALSE)
      BY <1>2, <1>4, RowsBefore, HealthAssumption
    <2>2. \A k \in (i + 1)..n : k \in 1..n /\ k \in (i + 1)..(n + 1)
      BY <1>1, <1>4
    <2>3. \A k \in (i + 1)..n : ~ RowIn(s, k, 2, TRUE)
      BY <1>2, <2>2, RowsBefore
    <2>4. n + 1 \in (i + 1)..(n + 1)
      BY <1>1, <1>4
    <2> QED BY <1>2, <1>4, <2>1, <2>3, <2>4 DEF FailedIn
  <1>5. i = n + 1 \/ i \in 1..n
    BY <1>1
  <1> QED BY <1>3, <1>4, <1>5

LEMMA RecoveredBefore ==
  ASSUME NEW s \in Seq(BOOLEAN), NEW healthy \in BOOLEAN, RecoveredIn(Append(s, healthy))
  PROVE  \/ RowIn(Append(s, healthy), Len(s) + 1, 2, TRUE)
         \/ RecoveredIn(s) /\ ~ RowIn(Append(s, healthy), Len(s) + 1, RemoveAfter, FALSE)
  <1> DEFINE t == Append(s, healthy)
             n == Len(s)
  <1>1. n \in Nat /\ Len(t) = n + 1
    BY AppendFacts
  <1>2. PICK i \in 1..(n + 1) : /\ RowIn(t, i, 2, TRUE)
                                /\ \A k \in (i + 1)..(n + 1) : ~ RowIn(t, k, RemoveAfter, FALSE)
    BY <1>1 DEF RecoveredIn
  <1>3. CASE i = n + 1
    BY <1>2, <1>3
  <1>4. CASE i \in 1..n
    <2>1. RowIn(s, i, 2, TRUE)
      BY <1>2, <1>4, RowsBefore
    <2>2. \A k \in (i + 1)..n : k \in 1..n /\ k \in (i + 1)..(n + 1)
      BY <1>1, <1>4
    <2>3. \A k \in (i + 1)..n : ~ RowIn(s, k, RemoveAfter, FALSE)
      BY <1>2, <2>2, RowsBefore, HealthAssumption
    <2>4. n + 1 \in (i + 1)..(n + 1)
      BY <1>1, <1>4
    <2> QED BY <1>2, <1>4, <2>1, <2>3, <2>4 DEF RecoveredIn
  <1>5. i = n + 1 \/ i \in 1..n
    BY <1>1
  <1> QED BY <1>3, <1>4, <1>5

LEMMA FailureAdded ==
  ASSUME NEW s \in Seq(BOOLEAN), NEW r \in RowType, NEW l \in BOOLEAN, Agrees(r, s)
  PROVE  Agrees(AfterCheck(r, l, FALSE), Append(s, FALSE))
  <1> DEFINE t == Append(s, FALSE)
             n == Len(s)
  <1>1. /\ t \in Seq(BOOLEAN) /\ Len(t) = n + 1 /\ n \in Nat
        /\ \A k \in 1..n : t[k] = s[k] /\ s[k] \in BOOLEAN
        /\ t[n + 1] = FALSE
    BY AppendFacts
  <1>2. PICK f \in Nat : f = r.failures
    BY DEF RowType
  <1>3. RemoveAfter \in Nat \ {0}
    BY HealthAssumption
  <1>4. PICK q : q = AfterCheck(r, l, FALSE)
    OBVIOUS
  <1>5. q.failures = f + 1 /\ (q.routed <=> r.routed /\ f + 1 < RemoveAfter)
    BY <1>2, <1>4 DEF AfterCheck
  <1>6. ~ RowIn(t, n + 1, 2, TRUE)
    <2>1. 2 \in Nat \ {0}
      OBVIOUS
    <2> QED BY <2>1, RowsEnding
  <1>6a. RowIn(t, n + 1, RemoveAfter, FALSE) \/ FailedIn(s) \/ ~ FailedIn(t)
    BY FailedBefore
  <1>6b. RecoveredIn(t) => RecoveredIn(s) /\ ~ RowIn(t, n + 1, RemoveAfter, FALSE)
    BY <1>6, RecoveredBefore
  <1>6c. Counted(f, s) /\ (FailedIn(s) => ~ r.routed) /\ (RecoveredIn(s) => r.routed)
    BY <1>2 DEF Agrees
  <1>6d. RecoveredIn(s) => \E k \in 1..n : s[k]
    <2> SUFFICES ASSUME NEW i \in 1..n, RowIn(s, i, 2, TRUE) PROVE s[i]
      BY DEF RecoveredIn
    <2>1. i \in (i - 2 + 1)..i
      BY <1>1
    <2> QED BY <2>1 DEF RowIn
  <1>6e. \/ f < n /\ s[n - f] /\ \A k \in (n - f + 1)..n : ~ s[k]
         \/ f >= n /\ \A k \in 1..n : ~ s[k]
    BY <1>6c DEF Counted
  <1> HIDE DEF t, n
  <1>7. \/ f < n /\ t[n - f] /\ \A k \in (n - f + 1)..(n + 1) : k \in 1..(n + 1) /\ t[k] = FALSE
        \/ f >= n /\ \A k \in 1..(n + 1) : t[k] = FALSE
    <2>1. CASE f < n /\ s[n - f] /\ \A k \in (n - f + 1)..n : ~ s[k]
      <3>1. n - f \in 1..n /\ \A k \in (n - f + 1)..(n + 1) :
              k = n + 1 \/ (k \in (n - f + 1)..n /\ k \in 1..n)
        BY <1>1, <2>1
      <3> QED BY <1>1, <2>1, <3>1
    <2>2. CASE f >= n /\ \A k \in 1..n : ~ s[k]
      <3>1. \A k \in 1..(n + 1) : k = n + 1 \/ k \in 1..n
        BY <1>1
      <3> QED BY <1>1, <2>2, <3>1
    <2> QED BY <1>6e, <2>1, <2>2
  <1>8. Counted(f + 1, t)
    <2>1. (n + 1) - (f + 1) = n - f /\ (n + 1) - (f + 1) + 1 = n - f + 1
      BY <1>1
    <2>2. (f < n => f + 1 < n + 1) /\ (f >= n => f + 1 >= n + 1)
      BY <1>1
    <2> QED BY <1>1, <1>7, <2>1, <2>2 DEF Counted
  <1>9. RowIn(t, n + 1, RemoveAfter, FALSE) => f + 1 >= RemoveAfter
    <2> SUFFICES ASSUME n + 1 >= RemoveAfter, ~ (f + 1 >= RemoveAfter),
                        \A k \in ((n + 1) - RemoveAfter + 1)..(n + 1) : t[k] = FALSE
                 PROVE  FALSE
      BY DEF RowIn
    <2>1. f < n /\ n - f \in ((n + 1) - RemoveAfter + 1)..(n + 1)
      BY <1>1, <1>3
    <2>2. t[n - f]
      BY <1>1, <1>7, <2>1
    <2> QED BY <2>1, <2>2
  <1>10. FailedIn(t) => ~ q.routed
    <2>1. f + 1 >= RemoveAfter => ~ (f + 1 < RemoveAfter)
      BY <1>2, <1>3
    <2> QED BY <1>5, <1>6a, <1>6c, <1>9, <2>1
  <1>11. RecoveredIn(t) => q.routed
    <2> SUFFICES ASSUME RecoveredIn(t), ~ (f + 1 < RemoveAfter) PROVE FALSE
      BY <1>5, <1>6b, <1>6c
    <2>1. f < n
      BY <1>1, <1>6b, <1>6d, <1>6e
    <2>2. n + 1 >= RemoveAfter
          /\ \A k \in ((n + 1) - RemoveAfter + 1)..(n + 1) : k \in (n - f + 1)..(n + 1)
      BY <1>1, <1>3, <2>1
    <2>3. \A k \in ((n + 1) - RemoveAfter + 1)..(n + 1) : t[k] = FALSE
      BY <1>1, <1>7, <2>1, <2>2
    <2> QED BY <1>6b, <2>2, <2>3 DEF RowIn
  <1>12. Agrees(q, t)
    BY <1>5, <1>8, <1>10, <1>11 DEF Agrees
  <1> QED BY <1>4, <1>12 DEF t

LEMMA SuccessAdded ==
  ASSUME NEW s \in Seq(BOOLEAN), NEW r \in RowType, NEW l \in BOOLEAN,
         Agrees(r, s), EndsIn(r, s, l)
  PROVE  Agrees(AfterCheck(r, l, TRUE), Append(s, TRUE))
  <1> DEFINE t == Append(s, TRUE)
             n == Len(s)
  <1>1. /\ t \in Seq(BOOLEAN) /\ Len(t) = n + 1 /\ n \in Nat
        /\ \A k \in 1..n : t[k] = s[k] /\ s[k] \in BOOLEAN
        /\ t[n + 1] = TRUE
    BY AppendFacts
  <1>2. RemoveAfter \in Nat \ {0}
    BY HealthAssumption
  <1>3. PICK q : q = AfterCheck(r, l, TRUE)
    OBVIOUS
  <1>4. q.failures = 0 /\ (q.routed <=> r.routed \/ l)
    BY <1>3 DEF AfterCheck
  <1>5. ~ RowIn(t, n + 1, RemoveAfter, FALSE)
    BY <1>2, RowsEnding
  <1>5a. FailedIn(t) => FailedIn(s) /\ ~ RowIn(t, n + 1, 2, TRUE)
    BY <1>5, FailedBefore
  <1>5b. RecoveredIn(t) => RowIn(t, n + 1, 2, TRUE) \/ RecoveredIn(s)
    BY RecoveredBefore
  <1>5c. (FailedIn(s) => ~ r.routed /\ n > 0) /\ (RecoveredIn(s) => r.routed)
    <2>1. FailedIn(s) => n > 0
      BY <1>1 DEF FailedIn
    <2> QED BY <2>1 DEF Agrees
  <1>5d. ~ r.routed /\ n > 0 => l = s[n]
    BY DEF EndsIn
  <1> HIDE DEF t, n
  <1>6. RowIn(t, n + 1, 2, TRUE) <=> n > 0 /\ s[n]
    <2>1. ASSUME n > 0, s[n] PROVE RowIn(t, n + 1, 2, TRUE)
      <3>1. n + 1 >= 2 /\ n \in 1..n /\ \A k \in ((n + 1) - 2 + 1)..(n + 1) : k = n \/ k = n + 1
        BY <1>1, <2>1
      <3> QED BY <1>1, <2>1, <3>1 DEF RowIn
    <2>2. ASSUME RowIn(t, n + 1, 2, TRUE) PROVE n > 0 /\ s[n]
      <3>1. n > 0 /\ n \in 1..n /\ n \in ((n + 1) - 2 + 1)..(n + 1)
        BY <1>1, <2>2 DEF RowIn
      <3> QED BY <1>1, <2>2, <3>1 DEF RowIn
    <2> QED BY <2>1, <2>2
  <1>7. Counted(0, t)
    <2>1. 0 < n + 1 /\ (n + 1) - 0 = n + 1 /\ \A k \in ((n + 1) - 0 + 1)..(n + 1) : FALSE
      BY <1>1
    <2> QED BY <1>1, <2>1 DEF Counted
  <1>8. n > 0 => s[n] \in BOOLEAN
    BY <1>1
  <1>9. FailedIn(t) => ~ q.routed
    BY <1>4, <1>5a, <1>5c, <1>5d, <1>6, <1>8
  <1>10. RecoveredIn(t) => q.routed
    BY <1>4, <1>5b, <1>5c, <1>5d, <1>6, <1>8
  <1>11. Agrees(q, t)
    BY <1>4, <1>7, <1>9, <1>10 DEF Agrees
  <1> QED BY <1>3, <1>11 DEF t

-----------------------------------------------------------------------------
(* The checks.                                                             *)

\* A check that was not disturbed: no other is past its reading of the row, it
\* is about to write what follows from the row and the last sample, and once it
\* did, the row agrees with the findings, its own included.
AloneInStep(c) ==
  /\ Within(c) /\ \A d \in Checkers : Within(d) => d = c
  /\ checks[c].at = "last" => checks[c].healthy /\ ~ row.routed /\ checks[c].failures = 0
  /\ checks[c].at = "write" =>
       [routed |-> checks[c].routed, failures |-> checks[c].failures]
         = AfterCheck(row, last, checks[c].healthy)
  /\ checks[c].at = "sample" => Agrees(row, Append(since, checks[c].healthy))

RowInStep ==
  (\A c \in Checkers : checks[c].at # "sample") => Agrees(row, since) /\ EndsIn(row, since, last)

HealthIInv ==
  /\ HealthTypeOK
  /\ \A c \in Checkers : checks[c].alone => AloneInStep(c)
  /\ RowInStep

LEMMA HealthTyped ==
  HealthTypeOK => /\ row \in RowType /\ last \in BOOLEAN /\ since \in Seq(BOOLEAN)
                  /\ Len(since) <= MaxChecks /\ checks \in [Checkers -> CheckRecord]
  BY DEF HealthTypeOK, RowType, CheckRecord

\* Nothing is said of a row when there is no finding.
LEMMA NothingFound ==
  ASSUME NEW r \in RowType, NEW l
  PROVE  Agrees(r, <<>>) /\ EndsIn(r, <<>>, l)
  <1>1. Len(<<>>) = 0 /\ r.failures \in Nat
    BY DEF RowType
  <1> QED BY <1>1 DEF Agrees, Counted, FailedIn, RecoveredIn, EndsIn

\* One check moves, but not past its first write, and others are disturbed at
\* most; the row, the last sample and the findings stay.
LEMMA CheckMoves ==
  ASSUME HealthIInv, NEW c \in Checkers, NEW k \in CheckRecord,
         checks[c].at # "sample", k.at # "sample",
         checks' \in [Checkers -> CheckRecord], checks'[c] = k,
         \A d \in Checkers \ {c} :
           /\ checks'[d].at = checks[d].at /\ checks'[d].healthy = checks[d].healthy
           /\ checks'[d].routed = checks[d].routed /\ checks'[d].failures = checks[d].failures
           /\ checks'[d].alone => checks[d].alone /\ k.at \in {"idle", "read"},
         UNCHANGED <<row, last, since>>,
         k.alone =>
           /\ k.at \in {"last", "write"} /\ \A d \in Checkers \ {c} : ~ Within(d)
           /\ k.at = "last" => k.healthy /\ ~ row.routed /\ k.failures = 0
           /\ k.at = "write" => [routed |-> k.routed, failures |-> k.failures]
                                  = AfterCheck(row, last, k.healthy)
  PROVE  HealthIInv'
  <1>1. HealthTypeOK'
    BY DEF HealthIInv, HealthTypeOK, CheckRecord
  <1>2. RowInStep'
    BY DEF HealthIInv, RowInStep
  <1>3. \A d \in Checkers \ {c} : Within(d)' <=> Within(d)
    BY DEF Within
  <1>4. ASSUME NEW d \in Checkers, checks'[d].alone PROVE AloneInStep(d)'
    <2>1. CASE d = c
      BY <1>3, <1>4, <2>1 DEF AloneInStep, Within
    <2>2. CASE d # c
      <3>1. AloneInStep(d) /\ ~ Within(c)'
        BY <1>4, <2>2 DEF HealthIInv, Within
      <3> QED BY <1>3, <2>2, <3>1 DEF AloneInStep
    <2> QED BY <2>1, <2>2
  <1> QED BY <1>1, <1>2, <1>4 DEF HealthIInv

LEMMA ProbeKeeps ==
  ASSUME HealthIInv, NEW c \in Checkers, NEW healthy \in BOOLEAN, Probe(c, healthy)
  PROVE  HealthIInv'
  <1>1. checks \in [Checkers -> CheckRecord] /\ checks[c] \in CheckRecord /\ checks[c].at = "idle"
    BY HealthTyped DEF HealthIInv, Probe
  <1>2. ~ checks[c].alone
    BY <1>1 DEF HealthIInv, AloneInStep, Within
  <1>3. PICK k \in CheckRecord : k = [checks[c] EXCEPT !.at = "read", !.healthy = healthy]
    BY <1>1 DEF CheckRecord
  <1>4. k.at = "read" /\ k.alone = checks[c].alone
    BY <1>1, <1>3 DEF CheckRecord
  <1>5. checks' = [checks EXCEPT ![c] = k] /\ UNCHANGED <<row, last, since>>
    BY <1>3 DEF Probe
  <1> QED BY <1>1, <1>2, <1>4, <1>5, CheckMoves

LEMMA ReadRowKeeps ==
  ASSUME HealthIInv, NEW c \in Checkers, NEW found \in {row, NoRow}, ReadRow(c, found)
  PROVE  HealthIInv'
  <1>1. /\ row \in RowType /\ last \in BOOLEAN /\ checks \in [Checkers -> CheckRecord]
        /\ checks[c] \in CheckRecord /\ found \in RowType
    <2>1. NoRow \in RowType
      BY DEF NoRow, RowType
    <2> QED BY <2>1, HealthTyped DEF HealthIInv
  <1>2. PICK f \in Nat : f = FailuresAfter(c, found)
    BY <1>1 DEF FailuresAfter, RowType
  <1>3. PICK r \in BOOLEAN : r = (found.routed /\ (checks[c].healthy \/ f < RemoveAfter))
    BY <1>1 DEF RowType
  <1>4. PICK at \in {"last", "write"} :
          at = IF checks[c].healthy /\ ~ found.routed THEN "last" ELSE "write"
    OBVIOUS
  <1>5. PICK a \in BOOLEAN : a = (found = row /\ \A e \in Checkers : ~ Within(e))
    OBVIOUS
  <1>6. PICK k \in CheckRecord :
          k = [checks[c] EXCEPT !.at = at, !.failures = f, !.routed = r, !.alone = a]
    BY <1>1 DEF CheckRecord
  <1>7. /\ k.at = at /\ k.failures = f /\ k.routed = r /\ k.healthy = checks[c].healthy
        /\ k.alone = a /\ checks[c].at = "read"
    <2>1. checks[c].at = "read"
      BY DEF ReadRow
    <2>2. k = [at |-> at, healthy |-> checks[c].healthy, routed |-> r, failures |-> f, alone |-> a]
      BY <1>1, <1>6 DEF CheckRecord
    <2> QED BY <2>1, <2>2
  <1>8. /\ checks' = [d \in Checkers |->
                        IF d # c THEN [checks[d] EXCEPT !.alone = FALSE] ELSE k]
        /\ UNCHANGED <<row, last, since>>
    <2> DEFINE moved == [checks[c] EXCEPT
                 !.at = IF checks[c].healthy /\ ~ found.routed THEN "last" ELSE "write",
                 !.failures = FailuresAfter(c, found),
                 !.routed = found.routed /\ (checks[c].healthy \/ FailuresAfter(c, found) < RemoveAfter),
                 !.alone = found = row /\ \A e \in Checkers : ~ Within(e)]
    <2>1. k = moved
      BY <1>2, <1>3, <1>4, <1>5, <1>6
    <2>2. /\ checks' = [d \in Checkers |->
                          IF d # c THEN [checks[d] EXCEPT !.alone = FALSE] ELSE moved]
          /\ UNCHANGED <<row, last, since>>
      BY DEF ReadRow
    <2> HIDE DEF moved
    <2> QED BY <2>1, <2>2
  <1>9. \A d \in Checkers : [checks[d] EXCEPT !.alone = FALSE] \in CheckRecord
    BY <1>1 DEF CheckRecord
  <1>10. checks' \in [Checkers -> CheckRecord] /\ checks'[c] = k
    BY <1>8, <1>9
  <1>11. \A d \in Checkers \ {c} :
           /\ checks'[d].at = checks[d].at /\ checks'[d].healthy = checks[d].healthy
           /\ checks'[d].routed = checks[d].routed /\ checks'[d].failures = checks[d].failures
           /\ ~ checks'[d].alone
    BY <1>1, <1>8 DEF CheckRecord
  <1>12. ASSUME k.alone
         PROVE  /\ \A d \in Checkers \ {c} : ~ Within(d)
                /\ k.at = "last" => k.healthy /\ ~ row.routed /\ k.failures = 0
                /\ k.at = "write" => [routed |-> k.routed, failures |-> k.failures]
                                       = AfterCheck(row, last, k.healthy)
    <2>1. found = row /\ \A e \in Checkers : ~ Within(e)
      BY <1>5, <1>7, <1>12
    <2>2. row.routed \in BOOLEAN /\ checks[c].healthy \in BOOLEAN
      BY <1>1 DEF RowType, CheckRecord
    <2>3. k.at = "last" => k.healthy /\ ~ row.routed /\ k.failures = 0
      BY <1>2, <1>4, <1>7, <2>1 DEF FailuresAfter
    <2>4. ASSUME ~ (checks[c].healthy /\ ~ row.routed)
          PROVE  [routed |-> r, failures |-> f] = AfterCheck(row, last, checks[c].healthy)
      <3>1. CASE checks[c].healthy
        <4>1. f = 0 /\ r = TRUE /\ row.routed
          BY <1>2, <1>3, <2>1, <2>2, <2>4, <3>1 DEF FailuresAfter
        <4>2. (row.routed \/ last) = TRUE
          BY <4>1
        <4> QED BY <3>1, <4>1, <4>2 DEF AfterCheck
      <3>2. CASE ~ checks[c].healthy
        <4>1. f = row.failures + 1 /\ r = (row.routed /\ f < RemoveAfter)
          BY <1>2, <1>3, <2>1, <2>2, <3>2 DEF FailuresAfter
        <4> QED BY <3>2, <4>1 DEF AfterCheck
      <3> QED BY <3>1, <3>2
    <2> QED BY <1>4, <1>7, <2>1, <2>3, <2>4
  <1>13. k.at # "sample" /\ k.at \in {"last", "write"} /\ checks[c].at # "sample"
    BY <1>7
  <1> QED BY <1>8, <1>10, <1>11, <1>12, <1>13, CheckMoves

LEMMA ReadSampleKeeps ==
  ASSUME HealthIInv, NEW c \in Checkers, NEW back \in {last, FALSE}, ReadSample(c, back)
  PROVE  HealthIInv'
  <1>1. /\ row \in RowType /\ last \in BOOLEAN /\ checks \in [Checkers -> CheckRecord]
        /\ checks[c] \in CheckRecord /\ back \in BOOLEAN
    BY HealthTyped DEF HealthIInv
  <1>2. PICK a \in BOOLEAN : a = (checks[c].alone /\ back = last)
    BY <1>1 DEF CheckRecord
  <1>3. PICK k \in CheckRecord : k = [checks[c] EXCEPT !.at = "write", !.routed = back, !.alone = a]
    BY <1>1 DEF CheckRecord
  <1>4. /\ k.at = "write" /\ k.failures = checks[c].failures /\ k.routed = back
        /\ k.healthy = checks[c].healthy /\ k.alone = a /\ checks[c].at = "last"
    BY <1>1, <1>3 DEF CheckRecord, ReadSample
  <1>5. checks' = [checks EXCEPT ![c] = k] /\ UNCHANGED <<row, last, since>>
    BY <1>1, <1>2, <1>3 DEF ReadSample, CheckRecord
  <1>6. \A d \in Checkers \ {c} : ~ checks[d].alone
    BY <1>4 DEF HealthIInv, AloneInStep, Within
  <1>7. ASSUME k.alone
        PROVE  /\ \A d \in Checkers \ {c} : ~ Within(d)
               /\ [routed |-> k.routed, failures |-> k.failures] = AfterCheck(row, last, k.healthy)
    <2>1. AloneInStep(c) /\ back = last
      BY <1>2, <1>4, <1>7 DEF HealthIInv
    <2>2. checks[c].healthy /\ ~ row.routed /\ checks[c].failures = 0
      BY <1>4, <2>1 DEF AloneInStep
    <2>3. (row.routed \/ last) = last
      BY <1>1, <2>2
    <2>4. AfterCheck(row, last, k.healthy) = [routed |-> last, failures |-> 0]
      BY <1>4, <2>2, <2>3 DEF AfterCheck
    <2> QED BY <1>4, <2>1, <2>2, <2>4 DEF AloneInStep
  <1>8. checks' \in [Checkers -> CheckRecord] /\ checks'[c] = k
        /\ \A d \in Checkers \ {c} : checks'[d] = checks[d]
    BY <1>1, <1>5
  <1> QED BY <1>4, <1>5, <1>6, <1>7, <1>8, CheckMoves

LEMMA WriteHealthKeeps ==
  ASSUME HealthIInv, NEW c \in Checkers, WriteHealth(c)
  PROVE  HealthIInv'
  <1>1. /\ row \in RowType /\ last \in BOOLEAN /\ since \in Seq(BOOLEAN)
        /\ checks \in [Checkers -> CheckRecord] /\ checks[c] \in CheckRecord
    BY HealthTyped DEF HealthIInv
  <1>2. PICK k \in CheckRecord : k = [checks[c] EXCEPT !.at = "sample"]
    BY <1>1 DEF CheckRecord
  <1>3. /\ k.at = "sample" /\ k.healthy = checks[c].healthy /\ k.alone = checks[c].alone
        /\ checks[c].at = "write" /\ checks[c].healthy \in BOOLEAN
    BY <1>1, <1>2 DEF CheckRecord, WriteHealth
  <1>4. /\ row' = [routed |-> checks[c].routed, failures |-> checks[c].failures]
        /\ row' \in RowType
        /\ checks' = [checks EXCEPT ![c] = k] /\ UNCHANGED <<last, since>>
    BY <1>1, <1>2 DEF WriteHealth, RowType, CheckRecord
  <1>5. checks' \in [Checkers -> CheckRecord] /\ checks'[c] = k
        /\ \A d \in Checkers \ {c} : checks'[d] = checks[d]
    BY <1>1, <1>4
  <1>6. HealthTypeOK'
    BY <1>4, <1>5 DEF HealthIInv, HealthTypeOK, RowType, CheckRecord
  <1>7. RowInStep'
    BY <1>3, <1>5 DEF RowInStep
  <1>8. \A d \in Checkers \ {c} : ~ checks[d].alone
    BY <1>3 DEF HealthIInv, AloneInStep, Within
  <1>9. ASSUME checks[c].alone PROVE AloneInStep(c)'
    <2>1. AloneInStep(c)
      BY <1>9 DEF HealthIInv
    <2>2. \A d \in Checkers : checks[d].at # "sample"
      BY <1>3, <2>1 DEF AloneInStep, Within
    <2>3. Agrees(row, since) /\ EndsIn(row, since, last)
      BY <2>2 DEF HealthIInv, RowInStep
    <2>4. row' = AfterCheck(row, last, checks[c].healthy)
      BY <1>3, <1>4, <2>1 DEF AloneInStep
    <2>5. Agrees(row', Append(since, checks[c].healthy))
      BY <1>1, <1>3, <2>3, <2>4, FailureAdded, SuccessAdded
    <2>6. Agrees(row', Append(since', checks'[c].healthy))
      BY <1>3, <1>4, <1>5, <2>5
    <2>7. Within(c)' /\ \A d \in Checkers : Within(d)' => d = c
      BY <1>3, <1>5, <2>1 DEF AloneInStep, Within
    <2> QED BY <1>3, <1>5, <2>6, <2>7 DEF AloneInStep
  <1>10. \A d \in Checkers : checks'[d].alone => AloneInStep(d)'
    BY <1>3, <1>5, <1>8, <1>9
  <1> QED BY <1>6, <1>7, <1>10 DEF HealthIInv

LEMMA WriteSampleKeeps ==
  ASSUME HealthIInv, NEW c \in Checkers, WriteSample(c)
  PROVE  HealthIInv'
  <1>1. /\ row \in RowType /\ last \in BOOLEAN /\ since \in Seq(BOOLEAN)
        /\ checks \in [Checkers -> CheckRecord] /\ checks[c] \in CheckRecord
    BY HealthTyped DEF HealthIInv
  <1>2. PICK h \in BOOLEAN : h = checks[c].healthy
    BY <1>1 DEF CheckRecord
  <1>3. /\ last' = h /\ since' = IF checks[c].alone THEN Append(since, h) ELSE <<>>
        /\ checks[c].at = "sample" /\ Len(since) < MaxChecks
        /\ checks' = [checks EXCEPT ![c] = NoCheck] /\ row' = row
    BY <1>2 DEF WriteSample
  <1>4. NoCheck \in CheckRecord /\ NoCheck.at = "idle" /\ NoCheck.alone = FALSE
    BY DEF NoCheck, CheckRecord
  <1>5. checks' \in [Checkers -> CheckRecord] /\ checks'[c] = NoCheck
        /\ \A d \in Checkers \ {c} : checks'[d] = checks[d]
    BY <1>1, <1>3, <1>4
  <1>6. since' \in Seq(BOOLEAN) /\ Len(since') <= MaxChecks
    <2>1. MaxChecks \in Nat
      BY HealthAssumption
    <2>2. Append(since, h) \in Seq(BOOLEAN) /\ Len(Append(since, h)) = Len(since) + 1
          /\ Len(since) \in Nat
      BY <1>1, AppendFacts
    <2>3. <<>> \in Seq(BOOLEAN) /\ Len(<<>>) = 0
      OBVIOUS
    <2>4. CASE checks[c].alone
      BY <1>3, <2>1, <2>2, <2>4
    <2>5. CASE ~ checks[c].alone
      BY <1>3, <2>1, <2>3, <2>5
    <2> QED BY <2>4, <2>5
  <1>7. HealthTypeOK'
    BY <1>3, <1>5, <1>6 DEF HealthIInv, HealthTypeOK, CheckRecord
  <1>8. \A d \in Checkers : ~ checks'[d].alone
    BY <1>3, <1>4, <1>5 DEF HealthIInv, AloneInStep, Within
  <1>9. Agrees(row, since') /\ EndsIn(row, since', last')
    <2>1. CASE checks[c].alone
      <3>1. AloneInStep(c)
        BY <2>1 DEF HealthIInv
      <3>2. Agrees(row, Append(since, h))
        BY <1>2, <1>3, <3>1 DEF AloneInStep
      <3>3. Len(Append(since, h)) = Len(since) + 1 /\ Append(since, h)[Len(since) + 1] = h
        BY <1>1, AppendFacts
      <3> QED BY <1>3, <2>1, <3>2, <3>3 DEF EndsIn
    <2>2. CASE ~ checks[c].alone
      BY <1>1, <1>3, <2>2, NothingFound
    <2> QED BY <2>1, <2>2
  <1> QED BY <1>3, <1>7, <1>8, <1>9 DEF HealthIInv, RowInStep

LEMMA BreakOffKeeps ==
  ASSUME HealthIInv, NEW c \in Checkers, CheckBreaksOff(c)
  PROVE  HealthIInv'
  <1>1. /\ row \in RowType /\ last \in BOOLEAN /\ since \in Seq(BOOLEAN)
        /\ checks \in [Checkers -> CheckRecord] /\ Len(since) <= MaxChecks
    BY HealthTyped DEF HealthIInv
  <1>2. NoCheck \in CheckRecord /\ NoCheck.at = "idle" /\ NoCheck.alone = FALSE
    BY DEF NoCheck, CheckRecord
  <1>3. checks' \in [Checkers -> CheckRecord] /\ checks'[c] = NoCheck
        /\ \A d \in Checkers \ {c} : checks'[d] = checks[d]
    BY <1>1, <1>2 DEF CheckBreaksOff
  <1>4. CASE checks[c].at # "sample"
    <2>1. UNCHANGED <<row, last, since>>
      BY <1>4 DEF CheckBreaksOff
    <2> QED BY <1>2, <1>3, <1>4, <2>1, CheckMoves
  <1>5. CASE checks[c].at = "sample"
    <2>1. since' = <<>> /\ row' = row /\ last' = last
      BY <1>5 DEF CheckBreaksOff
    <2>2. <<>> \in Seq(BOOLEAN) /\ Len(<<>>) = 0 /\ 0 <= MaxChecks
      BY HealthAssumption
    <2>3. HealthTypeOK'
      BY <1>3, <2>1, <2>2 DEF HealthIInv, HealthTypeOK, CheckRecord
    <2>4. \A d \in Checkers : ~ checks'[d].alone
      BY <1>2, <1>3, <1>5 DEF HealthIInv, AloneInStep, Within
    <2> QED BY <1>1, <2>1, <2>3, <2>4, NothingFound DEF HealthIInv, RowInStep
  <1> QED BY <1>4, <1>5

LEMMA ReportSampleKeeps ==
  ASSUME HealthIInv, NEW healthy \in BOOLEAN, ReportSample(healthy)
  PROVE  HealthIInv'
  <1>1. row \in RowType /\ checks \in [Checkers -> CheckRecord]
    BY HealthTyped DEF HealthIInv
  <1>2. /\ since' = <<>> /\ last' = healthy /\ row' = row
        /\ checks' = [c \in Checkers |-> [checks[c] EXCEPT !.alone = FALSE]]
    BY DEF ReportSample
  <1>3. \A c \in Checkers : /\ [checks[c] EXCEPT !.alone = FALSE] \in CheckRecord
                            /\ [checks[c] EXCEPT !.alone = FALSE].alone = FALSE
    BY <1>1 DEF CheckRecord
  <1>4. checks' \in [Checkers -> CheckRecord] /\ \A c \in Checkers : ~ checks'[c].alone
    BY <1>2, <1>3
  <1>5. <<>> \in Seq(BOOLEAN) /\ Len(<<>>) = 0 /\ 0 <= MaxChecks
    BY HealthAssumption
  <1>6. HealthTypeOK'
    BY <1>2, <1>4, <1>5 DEF HealthIInv, HealthTypeOK, CheckRecord
  <1> QED BY <1>1, <1>2, <1>4, <1>6, NothingFound DEF HealthIInv, RowInStep

\* The inductive invariant of the checks and what they have written.
THEOREM HealthInvariance == HealthSpec => []HealthIInv
  <1>1. HealthInit => HealthIInv
    <2> SUFFICES ASSUME HealthInit PROVE HealthIInv
      OBVIOUS
    <2>1. /\ row = [routed |-> TRUE, failures |-> 0] /\ last = FALSE /\ since = <<TRUE, TRUE>>
          /\ checks = [c \in Checkers |-> NoCheck]
      BY DEF HealthInit, NoRow
    <2>2. since \in Seq(BOOLEAN) /\ Len(since) = 2 /\ since[1] = TRUE /\ since[2] = TRUE
          /\ 2 <= MaxChecks
      BY <2>1, HealthAssumption
    <2>3. HealthTypeOK
      BY <2>1, <2>2 DEF HealthTypeOK, NoCheck
    <2>4. Counted(0, since)
      <3>1. 0 < 2 /\ 2 - 0 = 2 /\ \A k \in (2 - 0 + 1)..2 : FALSE
        OBVIOUS
      <3> QED BY <2>2, <3>1 DEF Counted
    <2>5. ~ FailedIn(since)
      <3> SUFFICES ASSUME NEW i \in 1..2, RowIn(since, i, RemoveAfter, FALSE) PROVE FALSE
        BY <2>2 DEF FailedIn
      <3>1. i \in (i - RemoveAfter + 1)..i /\ i \in {1, 2}
        BY HealthAssumption
      <3> QED BY <2>2, <3>1 DEF RowIn
    <2>6. Agrees(row, since) /\ EndsIn(row, since, last)
      BY <2>1, <2>4, <2>5 DEF Agrees, EndsIn
    <2>7. \A c \in Checkers : ~ checks[c].alone
      BY <2>1 DEF NoCheck
    <2> QED BY <2>3, <2>6, <2>7 DEF HealthIInv, RowInStep
  <1>2. HealthIInv /\ [HealthNext]_healthVars => HealthIInv'
    <2> SUFFICES ASSUME HealthIInv, [HealthNext]_healthVars PROVE HealthIInv'
      OBVIOUS
    <2>1. CASE UNCHANGED healthVars
      BY <2>1 DEF healthVars, HealthIInv, HealthTypeOK, RowInStep, AloneInStep, Within
    <2> QED BY <2>1, ProbeKeeps, ReadRowKeeps, ReadSampleKeeps, WriteHealthKeeps, WriteSampleKeeps,
               BreakOffKeeps, ReportSampleKeeps DEF HealthNext
  <1> QED BY <1>1, <1>2, PTL DEF HealthSpec

\* The row, the findings and the checks under way keep their types.
THEOREM HealthTypes == HealthSpec => []HealthTypeOK
  <1>1. HealthIInv => HealthTypeOK
    BY DEF HealthIInv
  <1> QED BY <1>1, HealthInvariance, PTL

\* Whatever overlapped, failed or was reported before, failures in a row take
\* an endpoint out and two successes bring it back, for every number of
\* failures that takes one out and any number of checks at once
\* (recordProviderHealth).
THEOREM RoutingFollowsSamples == HealthSpec => []RoutedBySamples
  <1>1. HealthIInv => RoutedBySamples
    BY DEF HealthIInv, RowInStep, Agrees, RoutedBySamples, FailedLast, RecoveredLast, FailedIn,
           RecoveredIn, RowIn, InARow
  <1> QED BY <1>1, HealthInvariance, PTL

-----------------------------------------------------------------------------
(* The chain of routes.                                                    *)

Turn(k) == (start + k) % Len(chain.creds)
TriedRoute(t) == \E i \in 1..Len(tried) : tried[i].route = t

\* Each attempt so far was for a route that has been tried or whose credential
\* is refused; no refused credential was used again; and the last of a second
\* one ended the request.
ChainIInv ==
  /\ ChainTypeOK /\ tried \in Seq([route : ChainRoutes, answer : Answers])
  /\ attempt <= TotalAttempts /\ Len(tried) <= attempt
  /\ \A k \in 0..(attempt - 1) : CredOf(Turn(k)) \in rejected \/ TriedRoute(Turn(k))
  /\ \A i, j \in 1..Len(tried) : i < j /\ tried[i].answer = "denied" =>
       CredOf(tried[j].route) # CredOf(tried[i].route)
  /\ outcome # "denied" => ~ (Cardinality(rejected) >= 2)
  /\ outcome = "exhausted" => attempt = TotalAttempts
  /\ outcome = "answered" => tried # <<>>

LEMMA ModBelow == \A n, x \in Nat : n > 0 /\ x < n => x % n = x
  OBVIOUS
LEMMA ModOnce == \A n, x \in Nat : n > 0 /\ x >= n /\ x < 2 * n => x % n = x - n
  OBVIOUS
LEMMA ModRange == \A n, x \in Nat : n > 0 => x % n \in 0..(n - 1)
  OBVIOUS

\* The chain has routes, and a request at least one attempt for each and at
\* most four more than it has routes.
LEMMA AttemptsBounded ==
  ASSUME ChainTypeOK
  PROVE  /\ Len(chain.creds) \in Nat /\ Len(chain.creds) > 0
         /\ TotalAttempts \in Nat
         /\ TotalAttempts >= Len(chain.creds) /\ TotalAttempts <= Len(chain.creds) + 4
         /\ start \in Nat /\ start < Len(chain.creds)
  <1>1. PICK n \in Nat : n = Len(chain.creds) /\ n > 0
    BY ChainAssumption, LenProperties DEF ChainTypeOK
  <1>2. start \in Nat /\ start < n /\ start + 1 \in 1..n
    BY <1>1 DEF ChainTypeOK, ChainRoutes
  <1>3. PICK m \in Nat : m = chain.retries[start + 1] + 1
    <2>1. chain.retries[start + 1] \in 0..MaxRetries
      BY <1>1, <1>2, ElementOfSeq DEF ChainTypeOK
    <2> QED BY <2>1, ChainAssumption
  <1>4. PICK x \in Nat : x = Max({n, m}) /\ x >= n
    <2>1. \E y \in {n, m} : \A z \in {n, m} : y >= z
      OBVIOUS
    <2>2. Max({n, m}) \in {n, m} /\ \A z \in {n, m} : Max({n, m}) >= z
      BY <2>1 DEF Max
    <2> QED BY <2>2
  <1>5. TotalAttempts = Smaller(x, n + 4)
    BY <1>1, <1>3, <1>4 DEF TotalAttempts
  <1> QED BY <1>1, <1>2, <1>4, <1>5 DEF Smaller

LEMMA SomeAttempts == ChainTypeOK => TotalAttempts >= 0
  BY AttemptsBounded

\* The attempts of one round lead past every route.
LEMMA EveryRouteHasItsTurn ==
  ASSUME ChainTypeOK, NEW t \in ChainRoutes
  PROVE  \E k \in 0..(Len(chain.creds) - 1) : Turn(k) = t
  <1>1. PICK n \in Nat : n = Len(chain.creds) /\ n > 0
    BY AttemptsBounded
  <1>2. start \in Nat /\ start < n /\ t \in Nat /\ t < n
    BY <1>1, AttemptsBounded DEF ChainRoutes
  <1>3. CASE t >= start
    <2>1. t - start \in 0..(n - 1) /\ start + (t - start) = t
      BY <1>1, <1>2, <1>3
    <2>2. t % n = t
      BY <1>1, <1>2, ModBelow
    <2> QED BY <1>1, <2>1, <2>2 DEF Turn
  <1>4. CASE ~ (t >= start)
    <2>1. /\ t - start + n \in 0..(n - 1) /\ start + (t - start + n) = t + n
          /\ t + n \in Nat /\ t + n >= n /\ t + n < 2 * n /\ (t + n) - n = t
      BY <1>1, <1>2, <1>4
    <2>2. (t + n) % n = t
      BY <1>1, <2>1, ModOnce
    <2> QED BY <1>1, <2>1, <2>2 DEF Turn
  <1> QED BY <1>3, <1>4

LEMMA RouteIsOne ==
  ASSUME ChainTypeOK
  PROVE  Route \in ChainRoutes /\ Route = Turn(attempt)
  <1>1. PICK n \in Nat : n = Len(chain.creds) /\ n > 0
    BY AttemptsBounded
  <1>2. start + attempt \in Nat
    BY AttemptsBounded DEF ChainTypeOK
  <1>3. (start + attempt) % n \in 0..(n - 1)
    BY <1>1, <1>2, ModRange
  <1> QED BY <1>1, <1>3 DEF Route, Turn, ChainRoutes

LEMMA ChainPromises ==
  ASSUME ChainIInv
  PROVE  RoutesCovered
  <1>1. ASSUME outcome = "exhausted", NEW t \in ChainRoutes
        PROVE  CredOf(t) \in rejected \/ TriedRoute(t)
    <2>1. PICK k \in 0..(Len(chain.creds) - 1) : Turn(k) = t
      BY EveryRouteHasItsTurn DEF ChainIInv
    <2>2. k \in 0..(attempt - 1)
      BY <1>1, AttemptsBounded DEF ChainIInv
    <2> QED BY <2>1, <2>2 DEF ChainIInv
  <1>2. Len(tried) <= Len(chain.creds) + 4
    <2>1. Len(tried) \in Nat /\ attempt \in Nat
      BY LenProperties DEF ChainIInv, ChainTypeOK
    <2> QED BY <2>1, AttemptsBounded DEF ChainIInv
  <1> QED BY <1>1, <1>2 DEF ChainIInv, RoutesCovered, TriedRoute

-----------------------------------------------------------------------------
LEMMA FunctionIsSequence ==
  ASSUME NEW S, NEW l \in Nat, NEW f \in [1..l -> S]
  PROVE  f \in Seq(S) /\ Len(f) = l
  OBVIOUS

LEMMA ChainStart == ChainInit => ChainIInv
  <1> SUFFICES ASSUME ChainInit PROVE ChainIInv
    OBVIOUS
  <1>1. /\ start = 0 /\ attempt = 0 /\ rejected = {} /\ tried = <<>>
        /\ outcome = "open" /\ requests = 0
    BY DEF ChainInit
  <1>2a. PICK n \in 1..MaxTargets :
           \E chat \in BOOLEAN :
             \E creds \in [1..n -> Credentials], retries \in [1..n -> {0, MaxRetries}] :
               chain = Bounded(creds, retries, chat)
    BY Zenon DEF ChainInit
  <1>2b. PICK chat \in BOOLEAN :
           \E creds \in [1..n -> Credentials], retries \in [1..n -> {0, MaxRetries}] :
             chain = Bounded(creds, retries, chat)
    BY <1>2a, Zenon
  <1>2. PICK creds \in [1..n -> Credentials], retries \in [1..n -> {0, MaxRetries}] :
          chain = Bounded(creds, retries, chat)
    BY <1>2b, Zenon
  <1>3. n \in Nat /\ creds \in Seq(Credentials) /\ Len(creds) = n
    BY <1>2, ChainAssumption
  <1>4. PICK l \in 1..n : l = IF chat THEN Smaller(n, ChatTargets) ELSE n
    BY <1>2, <1>3, ChainAssumption DEF Smaller
  <1>5. /\ chain.creds = SubSeq(creds, 1, l)
        /\ chain.retries = [i \in 1..l |-> IF chat THEN 0 ELSE retries[i]]
    BY <1>2, <1>3, <1>4 DEF Bounded
  <1>6. chain.creds \in Seq(Credentials) /\ Len(chain.creds) = l
    <2>1. \A i \in 1..l : i \in 1..Len(creds) /\ creds[i] \in Credentials
      BY <1>3, <1>4, ElementOfSeq
    <2>2. SubSeq(creds, 1, l) = [i \in 1..l |-> creds[i]]
      BY <1>3, <1>4
    <2> QED BY <1>5, <2>1, <2>2
  <1>7. chain.retries \in Seq(0..MaxRetries) /\ Len(chain.retries) = l
    <2>1. \A i \in 1..l : (IF chat THEN 0 ELSE retries[i]) \in 0..MaxRetries
      <3>1. \A i \in 1..l : i \in 1..n
        BY <1>3, <1>4
      <3> QED BY <1>2, <3>1, ChainAssumption
    <2>2. l \in Nat
      BY <1>3, <1>4
    <2>3. chain.retries \in [1..l -> 0..MaxRetries]
      BY <1>5, <2>1
    <2> QED BY <2>2, <2>3, FunctionIsSequence
  <1>8. l \in 1..MaxTargets /\ 0 \in 0..(l - 1)
    BY <1>2, <1>4, ChainAssumption
  <1>9. Len(tried) = 0 /\ tried \in Seq([route : ChainRoutes, answer : Answers])
    BY <1>1
  <1>10. ChainTypeOK
    <2>1. 0 \in 0..MaxRequests
      BY ChainAssumption
    <2>2. rejected = {CredOf(tried[i].route) : i \in {j \in 1..Len(tried) : tried[j].answer = "denied"}}
      BY <1>1, <1>9
    <2> QED BY <1>1, <1>6, <1>7, <1>8, <1>9, <2>1, <2>2 DEF ChainTypeOK, ChainRoutes
  <1>11. /\ attempt <= TotalAttempts /\ Len(tried) <= attempt
         /\ \A k \in 0..(attempt - 1) : FALSE
    BY <1>1, <1>9, <1>10, AttemptsBounded
  <1>12. ~ (Cardinality(rejected) >= 2)
    BY <1>1, FS_EmptySet
  <1> QED BY <1>1, <1>9, <1>10, <1>11, <1>12 DEF ChainIInv

LEMMA SkipKeeps ==
  ASSUME ChainIInv, Skip
  PROVE  ChainIInv'
  <1>1. /\ outcome = "open" /\ attempt < TotalAttempts /\ CredOf(Route) \in rejected
        /\ attempt' = attempt + 1 /\ UNCHANGED <<chain, start, rejected, tried, outcome, requests>>
    BY DEF Skip
  <1>2. /\ attempt \in Nat /\ TotalAttempts \in Nat /\ Len(tried) \in Nat
    BY AttemptsBounded, LenProperties DEF ChainIInv, ChainTypeOK
  <1>3. /\ attempt' \in Nat /\ attempt' <= TotalAttempts /\ Len(tried) <= attempt'
        /\ \A k \in 0..(attempt' - 1) : k = attempt \/ k \in 0..(attempt - 1)
    BY <1>1, <1>2 DEF ChainIInv
  <1>4. Route = Turn(attempt)
    BY RouteIsOne DEF ChainIInv
  <1>5. ChainTypeOK'
    BY <1>1, <1>3 DEF ChainIInv, ChainTypeOK, ChainRoutes, CredOf
  <1>6. \A k \in 0..(attempt' - 1) : CredOf(Turn(k)) \in rejected \/ TriedRoute(Turn(k))
    BY <1>1, <1>3, <1>4 DEF ChainIInv
  <1> QED BY <1>1, <1>3, <1>5, <1>6 DEF ChainIInv, Turn, TriedRoute, CredOf, TotalAttempts,
                                        ChainRoutes

LEMMA RequestEnds ==
  ASSUME ChainIInv, OutOfTime \/ Exhaust
  PROVE  ChainIInv'
  <1>1. /\ UNCHANGED <<chain, start, attempt, rejected, tried, requests>>
        /\ outcome = "open" /\ outcome' \in {"late", "exhausted"}
        /\ outcome' = "exhausted" => attempt = TotalAttempts
    BY DEF OutOfTime, Exhaust
  <1>2. ChainTypeOK'
    BY <1>1 DEF ChainIInv, ChainTypeOK, ChainRoutes, CredOf
  <1> QED BY <1>1, <1>2 DEF ChainIInv, Turn, TriedRoute, CredOf, TotalAttempts, ChainRoutes

LEMMA TryKeeps ==
  ASSUME ChainIInv, NEW answer \in Answers, Try(answer)
  PROVE  ChainIInv'
  <1>1. /\ outcome = "open" /\ attempt < TotalAttempts /\ CredOf(Route) \notin rejected
        /\ attempt' = attempt + 1 /\ UNCHANGED <<chain, start, requests>>
        /\ tried' = Append(tried, [route |-> Route, answer |-> answer])
        /\ rejected' = IF answer = "denied" THEN rejected \cup {CredOf(Route)} ELSE rejected
    BY DEF Try
  <1>2. /\ attempt \in Nat /\ TotalAttempts \in Nat /\ Len(tried) \in Nat /\ Len(tried) <= attempt
    BY AttemptsBounded, LenProperties DEF ChainIInv, ChainTypeOK
  <1>3. /\ attempt' \in Nat /\ attempt' <= TotalAttempts /\ Len(tried) + 1 <= attempt'
        /\ \A k \in 0..(attempt' - 1) : k = attempt \/ k \in 0..(attempt - 1)
    BY <1>1, <1>2
  <1>4. Route = Turn(attempt) /\ Route \in ChainRoutes
    BY RouteIsOne DEF ChainIInv
  <1>5. PICK r \in [route : ChainRoutes, answer : Answers] : r = [route |-> Route, answer |-> answer]
    BY <1>4
  <1>6. r.route = Route /\ r.answer = answer
    BY <1>5
  <1>7. PICK n \in Nat : n = Len(tried)
    BY <1>2
  <1>8. /\ tried' \in Seq([route : ChainRoutes, answer : Answers]) /\ Len(tried') = n + 1
        /\ \A i \in 1..n : tried'[i] = tried[i]
        /\ tried'[n + 1] = r
        /\ \A i \in 1..(n + 1) : i \in 1..n \/ i = n + 1
    <2>1. tried \in Seq([route : ChainRoutes, answer : Answers])
      BY DEF ChainIInv
    <2> QED BY <1>1, <1>5, <1>7, <2>1, AppendProperties
  <1>9. /\ ChainRoutes' = ChainRoutes /\ TotalAttempts' = TotalAttempts
        /\ \A k : Turn(k)' = Turn(k) /\ CredOf(k)' = CredOf(k)
    BY <1>1 DEF ChainRoutes, TotalAttempts, Turn, CredOf
  <1>10. \A i \in 1..(n + 1) : tried'[i].route \in ChainRoutes /\ tried'[i].answer \in Answers
    BY <1>5, <1>7, <1>8 DEF ChainIInv, ChainTypeOK
  <1>11. rejected' = {CredOf(tried'[i].route) : i \in {j \in 1..(n + 1) : tried'[j].answer = "denied"}}
    <2>1. rejected = {CredOf(tried[i].route) : i \in {j \in 1..n : tried[j].answer = "denied"}}
      BY <1>7 DEF ChainIInv, ChainTypeOK
    <2>2. n + 1 \in 1..(n + 1) /\ \A i \in 1..n : i \in 1..(n + 1)
      OBVIOUS
    <2> QED BY <1>1, <1>6, <1>8, <2>1, <2>2
  <1>12. outcome' \in {"answered", "open", "denied", "refused"}
    BY DEF Try, Answers
  <1>13. ChainTypeOK'
    BY <1>1, <1>3, <1>8, <1>9, <1>10, <1>11, <1>12 DEF ChainIInv, ChainTypeOK
  <1>14. \A t : TriedRoute(t) \/ t = Route => TriedRoute(t)'
    <2>1. n + 1 \in 1..(n + 1) /\ \A i \in 1..n : i \in 1..(n + 1)
      OBVIOUS
    <2> QED BY <1>6, <1>7, <1>8, <2>1 DEF TriedRoute
  <1>15. \A k \in 0..(attempt' - 1) : CredOf(Turn(k))' \in rejected' \/ TriedRoute(Turn(k))'
    <2>1. ASSUME NEW k \in 0..(attempt' - 1)
          PROVE  CredOf(Turn(k)) \in rejected' \/ TriedRoute(Turn(k))'
      <3>1. CASE k = attempt
        BY <1>4, <1>9, <1>14, <3>1
      <3>2. CASE k \in 0..(attempt - 1)
        BY <1>1, <1>9, <1>14, <3>2 DEF ChainIInv
      <3> QED BY <1>3, <2>1, <3>1, <3>2
    <2> QED BY <1>9, <2>1
  <1>16. \A i, j \in 1..(n + 1) : i < j /\ tried'[i].answer = "denied" =>
           CredOf(tried'[j].route) # CredOf(tried'[i].route)
    <2> SUFFICES ASSUME NEW i \in 1..(n + 1), NEW j \in 1..(n + 1), i < j,
                        tried'[i].answer = "denied"
                 PROVE  CredOf(tried'[j].route) # CredOf(tried'[i].route)
      OBVIOUS
    <2>1. i \in 1..n
      OBVIOUS
    <2>2. CredOf(tried[i].route) \in rejected
      BY <1>7, <1>8, <2>1 DEF ChainIInv, ChainTypeOK
    <2>3. CASE j = n + 1
      BY <1>1, <1>6, <1>8, <2>1, <2>2, <2>3
    <2>4. CASE j \in 1..n
      BY <1>7, <1>8, <2>1, <2>4 DEF ChainIInv
    <2> QED BY <1>8, <2>3, <2>4
  <1>17. outcome' # "denied" => ~ (Cardinality(rejected') >= 2)
    BY <1>1 DEF ChainIInv, Try, NoMoreCredentials, Answers
  <1>18. tried' # <<>>
    BY <1>8
  <1>19. (\A k \in 0..(attempt - 1) : CredOf(Turn(k)) \in rejected \/ TriedRoute(Turn(k)))'
    <2>1. chain' = chain /\ start' = start
      BY <1>1
    <2> QED BY <1>15, <2>1 DEF Turn, CredOf, TriedRoute
  <1>20. (\A i, j \in 1..Len(tried) : i < j /\ tried[i].answer = "denied" =>
            CredOf(tried[j].route) # CredOf(tried[i].route))'
    <2>1. chain' = chain /\ Len(tried') = n + 1
      BY <1>1, <1>8
    <2> QED BY <1>16, <2>1 DEF CredOf
  <1>21. /\ (attempt <= TotalAttempts)' /\ (Len(tried) <= attempt)'
         /\ (tried \in Seq([route : ChainRoutes, answer : Answers]))'
    BY <1>3, <1>7, <1>8, <1>9
  <1>22. /\ outcome' # "exhausted"
         /\ (outcome # "denied" => ~ (Cardinality(rejected) >= 2))'
    BY <1>12, <1>17
  <1> QED BY <1>13, <1>18, <1>19, <1>20, <1>21, <1>22 DEF ChainIInv

LEMMA NextRequestKeeps ==
  ASSUME ChainIInv, NextRequest
  PROVE  ChainIInv'
  <1>1. /\ outcome = "answered" /\ requests < MaxRequests /\ requests' = requests + 1
        /\ start' = tried[Len(tried)].route /\ attempt' = 0 /\ rejected' = {}
        /\ tried' = <<>> /\ outcome' = "open" /\ UNCHANGED chain
    BY DEF NextRequest
  <1>2. start' \in ChainRoutes
    <2>1. Len(tried) \in 1..Len(tried)
      <3>1. tried # <<>> /\ tried \in Seq([route : ChainRoutes, answer : Answers])
        BY <1>1 DEF ChainIInv
      <3> QED BY <3>1, EmptySeq, LenProperties
    <2> QED BY <1>1, <2>1 DEF ChainIInv, ChainTypeOK
  <1>3. requests' \in 0..MaxRequests
    BY <1>1, ChainAssumption DEF ChainIInv, ChainTypeOK
  <1>4. Len(tried') = 0 /\ tried' \in Seq([route : ChainRoutes', answer : Answers])
    BY <1>1
  <1>5. ChainTypeOK'
    <2>1. \A i \in 1..Len(tried') : FALSE
      BY <1>4
    <2> QED BY <1>1, <1>2, <1>3, <1>4, <2>1 DEF ChainIInv, ChainTypeOK, ChainRoutes
  <1>6. (TotalAttempts >= 0)'
    BY <1>5, SomeAttempts, PTL
  <1>7. ~ (Cardinality(rejected') >= 2)
    BY <1>1, FS_EmptySet
  <1> QED BY <1>1, <1>4, <1>5, <1>6, <1>7 DEF ChainIInv

\* The inductive invariant of a request: every attempt so far had its turn on
\* a route that has been tried or whose credential is refused.
THEOREM ChainInvariance == ChainSpec => []ChainIInv
  <1>1. ChainIInv /\ [ChainNext]_chainVars => ChainIInv'
    <2> SUFFICES ASSUME ChainIInv, [ChainNext]_chainVars PROVE ChainIInv'
      OBVIOUS
    <2>1. CASE UNCHANGED chainVars
      BY <2>1 DEF chainVars, ChainIInv, ChainTypeOK, ChainRoutes, CredOf, Turn, TriedRoute,
                  TotalAttempts
    <2> QED BY <2>1, SkipKeeps, RequestEnds, TryKeeps, NextRequestKeeps DEF ChainNext
  <1> QED BY <1>1, ChainStart, PTL DEF ChainSpec

\* Positions are routes, and what was rejected was tried.
THEOREM ChainTypes == ChainSpec => []ChainTypeOK
  <1>1. ChainIInv => ChainTypeOK
    BY DEF ChainIInv
  <1> QED BY <1>1, ChainInvariance, PTL

\* chatCompletionWithTargets gives up as exhausted only after every route whose
\* credential was not refused, uses no refused credential again, ends at the
\* second one, and makes at most four requests more than it has routes; for any
\* number of routes and retries, wherever a request starts.
THEOREM GivesUpLast == ChainSpec => []RoutesCovered
  BY ChainPromises, ChainInvariance, PTL

-----------------------------------------------------------------------------
(* Long-term memory.                                                       *)

FactRows == [id : Ids, says : Statements, source : {"auto_capture", "manual"},
             event : {0} \cup Messages, observed : {0} \cup Messages, live : BOOLEAN]
SearchRows == [phase : {"none", "embed", "store", "check", "delete"},
               tool : {"recall", "forget"}, todo : SUBSET Items,
               unknown : SUBSET Items, result : SUBSET Items]

\* The content of a row is unique.
SaidOnce(seq) == IsInjective([i \in DOMAIN seq |-> seq[i].says])
OneFact(seq) ==
  \A f, g \in CurrentFacts(seq) : KeyOf[f.says] = KeyOf[g.says] => f = g

FactsFine(seq) == seq \in Seq(FactRows) /\ SaidOnce(seq) /\ OneFact(seq)
VectorsFine == vectors \subseteq Items /\ \A v \in vectors : \E f \in ToSet(facts) : f.id = v.id
MemoryIInv ==
  /\ FactsFine(facts) /\ minted \in 0..MaxIds /\ VectorsFine
  /\ searches \in [Searchers -> SearchRows]

LEMMA MemoryPromises ==
  ASSUME MemoryIInv
  PROVE  MemoryTypeOK /\ OneFactPerKey
  <1>1. \A f : f \in ToSet(facts) => \E i \in DOMAIN facts : facts[i] = f
    BY DEF ToSet
  <1>2. \A v \in vectors : \E i \in DOMAIN facts : facts[i].id = v.id
    BY <1>1 DEF MemoryIInv, VectorsFine
  <1> QED BY <1>2 DEF MemoryIInv, FactsFine, SaidOnce, OneFact, VectorsFine, MemoryTypeOK,
                      OneFactPerKey, FactRows, SearchRows

LEMMA MessageNumbers == Messages = 1..Len(Says) /\ Len(Says) \in Nat
  BY MemoryAssumption DEF Messages

\* Rows that have the same content are the same row.
LEMMA SaidOnceIs ==
  ASSUME NEW seq \in Seq(FactRows), SaidOnce(seq)
  PROVE  \A f, g \in ToSet(seq) : f.says = g.says => f = g
  BY DEF SaidOnce, IsInjective, ToSet

LEMMA FactIs ==
  ASSUME MemoryIInv, NEW f \in ToSet(facts)
  PROVE  f \in FactRows /\ f.observed \in Nat /\ ItemOf(f) \in Items
  <1>1. f \in FactRows
    BY DEF MemoryIInv, FactsFine, ToSet
  <1>2. f.observed \in {0} \cup Messages /\ f.id \in Ids /\ f.says \in Statements
    BY <1>1 DEF FactRows
  <1>3. f.observed \in Nat
    BY <1>2, MessageNumbers
  <1>4. ItemOf(f) \in Items
    BY <1>2 DEF ItemOf, Items
  <1> QED BY <1>1, <1>3, <1>4

\* Fewer rows are fine.
LEMMA FewerFacts ==
  ASSUME NEW seq, FactsFine(seq), NEW S
  PROVE  FactsFine(Only(seq, S)) /\ ToSet(Only(seq, S)) = ToSet(seq) \cap S
  <1> DEFINE out == Only(seq, S)
             at(k) == PlaceOf(seq, S, k)
  <1>0. seq \in Seq(FactRows)
    BY DEF FactsFine
  <1>1. /\ out \in Seq(FactRows) /\ ToSet(out) = ToSet(seq) \cap S
        /\ \A k \in DOMAIN out : at(k) \in DOMAIN seq /\ out[k] = seq[at(k)]
        /\ \A k, m \in DOMAIN out : at(k) = at(m) => k = m
    BY <1>0, OnlyThose
  <1> HIDE DEF out, at
  <1>2. SaidOnce(out)
    BY <1>1 DEF FactsFine, SaidOnce, IsInjective
  <1>3. OneFact(out)
    BY <1>1 DEF FactsFine, OneFact, CurrentFacts, Unexpired
  <1> QED BY <1>1, <1>2, <1>3 DEF FactsFine, out

\* One more row, of a content nobody has.
LEMMA OneMoreFact ==
  ASSUME NEW seq \in Seq(FactRows), SaidOnce(seq), NEW x \in FactRows,
         \A f \in ToSet(seq) : f.says # x.says
  PROVE  /\ Append(seq, x) \in Seq(FactRows) /\ SaidOnce(Append(seq, x))
         /\ ToSet(Append(seq, x)) = ToSet(seq) \cup {x}
  <1> DEFINE out == Append(seq, x)
  <1>1. /\ out \in Seq(FactRows) /\ Len(seq) \in Nat /\ Len(out) = Len(seq) + 1
        /\ DOMAIN seq = 1..Len(seq) /\ DOMAIN out = 1..(Len(seq) + 1)
    OBVIOUS
  <1>2. \A i \in DOMAIN out : IF i \in DOMAIN seq THEN out[i] = seq[i]
                              ELSE i = Len(seq) + 1 /\ out[i] = x
    BY <1>1
  <1>3. \A i \in DOMAIN seq : i \in DOMAIN out /\ out[i] = seq[i] /\ seq[i] \in ToSet(seq)
    BY <1>1 DEF ToSet
  <1>4. Len(seq) + 1 \in DOMAIN out /\ out[Len(seq) + 1] = x
    BY <1>1
  <1> HIDE DEF out
  <1>5. ToSet(out) = ToSet(seq) \cup {x}
    BY <1>2, <1>3, <1>4 DEF ToSet
  <1>6. SaidOnce(out)
    <2>1. ASSUME NEW i \in DOMAIN out, NEW j \in DOMAIN out, out[i].says = out[j].says
          PROVE  i = j
      <3>1. CASE i \in DOMAIN seq /\ j \in DOMAIN seq
        BY <1>3, <2>1, <3>1 DEF SaidOnce, IsInjective
      <3>2. CASE i \notin DOMAIN seq /\ j \notin DOMAIN seq
        BY <1>2, <3>2
      <3>3. CASE i \in DOMAIN seq /\ j \notin DOMAIN seq
        BY <1>2, <1>3, <2>1, <3>3
      <3>4. CASE i \notin DOMAIN seq /\ j \in DOMAIN seq
        BY <1>2, <1>3, <2>1, <3>4
      <3> QED BY <3>1, <3>2, <3>3, <3>4
    <2> QED BY <2>1 DEF SaidOnce, IsInjective
  <1> QED BY <1>1, <1>5, <1>6 DEF out

LEMMA AddedFine ==
  ASSUME MemoryIInv, NEW s \in Statements, NEW source \in {"auto_capture", "manual"}, MintFor(s),
         KeyOf[s] = NoKey \/ source = "manual"
  PROVE  /\ FactsFine(Added(s, source)) /\ minted' \in 0..MaxIds
         /\ \A g \in CurrentFacts(Added(s, source)) : g \in CurrentFacts(facts)
  <1>0. facts \in Seq(FactRows) /\ SaidOnce(facts) /\ OneFact(facts) /\ minted \in 0..MaxIds
        /\ MaxIds \in Nat
    BY MemoryAssumption DEF MemoryIInv, FactsFine
  <1>1. CASE \E f \in ToSet(facts) : f.says = s
    BY <1>0, <1>1 DEF Added, MintFor, FactsFine
  <1>2. CASE ~ \E f \in ToSet(facts) : f.says = s
    <2>1. minted + 1 \in Ids /\ minted' \in 0..MaxIds
      BY <1>0, <1>2 DEF MintFor, Ids
    <2>2. PICK x \in FactRows : x = [id |-> minted + 1, says |-> s, source |-> source,
                                     event |-> 0, observed |-> 0, live |-> TRUE]
      BY <2>1 DEF FactRows
    <2>3. Added(s, source) = Append(facts, x) /\ x.says = s /\ x.source = source
      BY <1>2, <2>2 DEF Added
    <2>4. /\ Append(facts, x) \in Seq(FactRows) /\ SaidOnce(Append(facts, x))
          /\ ToSet(Append(facts, x)) = ToSet(facts) \cup {x}
      BY <1>0, <1>2, <2>3, OneMoreFact
    <2>5. \A g \in CurrentFacts(Append(facts, x)) : g \in CurrentFacts(facts)
      BY <2>3, <2>4 DEF CurrentFacts, Unexpired
    <2>6. OneFact(Append(facts, x))
      BY <1>0, <2>5 DEF OneFact
    <2> QED BY <2>1, <2>3, <2>4, <2>5, <2>6 DEF FactsFine
  <1> QED BY <1>1, <1>2

LEMMA SupersededFine ==
  ASSUME MemoryIInv, NEW e \in Messages, NEW s \in Statements, MintFor(s), KeyOf[s] # NoKey
  PROVE  /\ FactsFine(Superseded(e, s)) /\ minted' \in 0..MaxIds
         /\ \A g \in CurrentFacts(Superseded(e, s)) :
              g \in CurrentFacts(facts) \/ (g.observed = e /\ g.says = s)
  <1> DEFINE others == Only(facts, {f \in ToSet(facts) : f.says # s})
             same == {f \in ToSet(facts) : f.says = s}
             Past(f) == IF f \in Kin(KeyOf[s]) THEN [f EXCEPT !.live = FALSE] ELSE f
             past == [i \in DOMAIN others |-> Past(others[i])]
             id == IF same = {} THEN minted + 1 ELSE (CHOOSE f \in same : TRUE).id
  <1>0. facts \in Seq(FactRows) /\ SaidOnce(facts) /\ OneFact(facts) /\ minted \in 0..MaxIds
        /\ MaxIds \in Nat /\ FactsFine(facts)
    BY MemoryAssumption DEF MemoryIInv, FactsFine
  <1>1. \A f \in ToSet(facts) : f \in FactRows
    BY <1>0 DEF ToSet
  <1>2. id \in Ids /\ minted' \in 0..MaxIds
    <2>1. CASE same = {}
      BY <1>0, <2>1 DEF MintFor, Ids
    <2>2. CASE same # {}
      BY <1>0, <1>1, <2>2 DEF MintFor, FactRows
    <2> QED BY <2>1, <2>2
  <1>3. PICK x \in FactRows :
          x = [id |-> id, says |-> s, source |-> "auto_capture", event |-> e, observed |-> e,
               live |-> TRUE]
    BY <1>2 DEF FactRows
  <1>4. Superseded(e, s) = Append(past, x)
    BY <1>3 DEF Superseded
  <1>5. FactsFine(others) /\ ToSet(others) = {f \in ToSet(facts) : f.says # s}
    BY <1>0, FewerFacts
  <1> HIDE DEF others, same, id
  <1>6. \A f \in FactRows :
          /\ Past(f) \in FactRows /\ Past(f).says = f.says
          /\ f \in Kin(KeyOf[s]) => ~ Past(f).live
          /\ f \notin Kin(KeyOf[s]) => Past(f) = f
    BY DEF FactRows
  <1>7. others \in Seq(FactRows) /\ SaidOnce(others)
    BY <1>5 DEF FactsFine
  <1>8. \A i \in DOMAIN others : others[i] \in FactRows /\ others[i] \in ToSet(others)
    BY <1>7 DEF ToSet
  <1>9. DOMAIN past = DOMAIN others /\ \A i \in DOMAIN others : past[i] = Past(others[i])
    OBVIOUS
  <1>10. past \in Seq(FactRows)
    <2>1. \A i \in 1..Len(others) : Past(others[i]) \in FactRows
      BY <1>6, <1>7, <1>8
    <2>2. Len(others) \in Nat /\ DOMAIN others = 1..Len(others)
      BY <1>7
    <2> HIDE DEF Past
    <2>3. past = [i \in 1..Len(others) |-> Past(others[i])]
      BY <2>2
    <2> HIDE DEF past
    <2> QED BY <2>1, <2>2, <2>3
  <1> HIDE DEF past, Past
  <1>11. SaidOnce(past)
    BY <1>6, <1>7, <1>8, <1>9 DEF SaidOnce, IsInjective
  <1>12. \A g \in ToSet(past) : \E f \in ToSet(others) : f \in FactRows /\ g = Past(f)
    BY <1>8, <1>9 DEF ToSet
  <1>13. x.says = s /\ x.observed = e /\ x.source = "auto_capture"
    BY <1>3
  <1>14. \A g \in ToSet(past) : g.says # x.says
    BY <1>5, <1>6, <1>12, <1>13
  <1>15. /\ Append(past, x) \in Seq(FactRows) /\ SaidOnce(Append(past, x))
         /\ ToSet(Append(past, x)) = ToSet(past) \cup {x}
    BY <1>10, <1>11, <1>14, OneMoreFact
  <1>16. ASSUME NEW g \in ToSet(past), g.live
         PROVE  g \in ToSet(facts) /\ g \notin Kin(KeyOf[s])
    BY <1>5, <1>6, <1>12, <1>16
  <1>17. ASSUME NEW g \in CurrentFacts(Append(past, x))
         PROVE  (g \in CurrentFacts(facts) /\ KeyOf[g.says] # KeyOf[s]) \/ g = x
    <2>1. g \in ToSet(past) \cup {x} /\ g.live /\ g.source = "auto_capture" /\ KeyOf[g.says] # NoKey
      BY <1>15, <1>17 DEF CurrentFacts, Unexpired
    <2> QED BY <1>16, <2>1 DEF CurrentFacts, Unexpired, Kin
  <1>18. OneFact(Append(past, x))
    BY <1>0, <1>13, <1>17 DEF OneFact
  <1> QED BY <1>2, <1>4, <1>13, <1>15, <1>17, <1>18 DEF FactsFine

\* A table that is fine, and that brings back nothing old.
Newer(seq) ==
  \A g \in CurrentFacts(seq) :
    \/ g \in CurrentFacts(facts)
    \/ \A f \in CurrentFacts(facts) : KeyOf[f.says] = KeyOf[g.says] => g.observed >= f.observed
VectorsStay == \A v \in vectors' \ vectors : Remembered(v)

LEMMA KeepFine ==
  ASSUME MemoryIInv, NEW seq, FactsFine(seq), Newer(seq), Keep(seq)
  PROVE  FactsFine(facts') /\ VectorsFine' /\ VectorsStay /\ FactsStay
  <1>1. /\ facts' = seq /\ vectors' \subseteq vectors
        /\ \A v \in vectors' : \E f \in ToSet(seq) : f.id = v.id
    BY DEF Keep
  <1>2. VectorsFine'
    BY <1>1 DEF MemoryIInv, VectorsFine
  <1>3. ASSUME NEW f \in CurrentFacts(facts) PROVE f.observed >= f.observed
    <2>1. f \in ToSet(facts)
      BY DEF CurrentFacts, Unexpired
    <2>2. f.observed \in Nat
      BY <2>1, FactIs
    <2> QED BY <2>2
  <1>4. FactsStay
    <2> SUFFICES ASSUME NEW f \in CurrentFacts(facts), NEW g \in CurrentFacts(seq),
                        KeyOf[f.says] = KeyOf[g.says]
                 PROVE  g.observed >= f.observed
      BY <1>1 DEF FactsStay
    <2>1. CASE g \in CurrentFacts(facts)
      <3>1. f = g
        BY <2>1 DEF MemoryIInv, FactsFine, OneFact
      <3> QED BY <1>3, <3>1
    <2>2. CASE g \notin CurrentFacts(facts)
      BY <2>2 DEF Newer
    <2> QED BY <2>1, <2>2
  <1> QED BY <1>1, <1>2, <1>4 DEF VectorsStay

LEMMA OnlyKept ==
  ASSUME MemoryIInv, NEW seq, FactsFine(seq), Newer(seq), NEW S
  PROVE  FactsFine(Only(seq, S)) /\ Newer(Only(seq, S))
  BY FewerFacts DEF Newer, CurrentFacts, Unexpired

LEMMA TrimmedKept ==
  ASSUME MemoryIInv, NEW seq, FactsFine(seq), Newer(seq)
  PROVE  FactsFine(Trimmed(seq)) /\ Newer(Trimmed(seq))
  <1>1. \E S : Trimmed(seq) = Only(seq, S)
    BY DEF Trimmed
  <1> QED BY <1>1, OnlyKept

\* A step that keeps rows, and lets the searches be.
MemoryStep == MemoryIInv' /\ FactsStay /\ VectorsStay
NothingTold == \A r \in Searchers : searches'[r].result \subseteq searches[r].result

LEMMA CaptureStep ==
  ASSUME MemoryIInv, NEW e \in Messages, Capture(e)
  PROVE  MemoryStep
  <1>1. PICK s \in Statements : s = Says[e]
    BY MemoryAssumption DEF Messages
  <1>2. FactsFine(facts) /\ Newer(facts)
    BY DEF MemoryIInv, Newer
  <1>3. CASE KeyOf[s] = NoKey
    <2>1. MintFor(s) /\ Keep(Trimmed(Added(s, "auto_capture")))
      BY <1>1, <1>3 DEF Capture
    <2>2. FactsFine(Added(s, "auto_capture")) /\ Newer(Added(s, "auto_capture"))
          /\ minted' \in 0..MaxIds
      BY <1>3, <2>1, AddedFine DEF Newer
    <2> QED BY <2>1, <2>2, TrimmedKept, KeepFine DEF MemoryStep, MemoryIInv, Capture
  <1>4. CASE KeyOf[s] # NoKey /\ (Outdated(e, KeyOf[s]) \/ ByHand(s))
    <2>1. UNCHANGED minted /\ Keep(Trimmed(facts))
      BY <1>1, <1>4 DEF Capture
    <2> QED BY <1>2, <2>1, TrimmedKept, KeepFine DEF MemoryStep, MemoryIInv, Capture
  <1>5. CASE KeyOf[s] # NoKey /\ ~ (Outdated(e, KeyOf[s]) \/ ByHand(s))
    <2>1. MintFor(s) /\ Keep(Trimmed(Superseded(e, s)))
      BY <1>1, <1>5 DEF Capture
    <2>2. FactsFine(Superseded(e, s)) /\ minted' \in 0..MaxIds
      BY <1>5, <2>1, SupersededFine
    <2>3. Newer(Superseded(e, s))
      <3>1. ASSUME NEW g \in CurrentFacts(Superseded(e, s)), g.observed = e, g.says = s,
                   NEW f \in CurrentFacts(facts), KeyOf[f.says] = KeyOf[g.says]
            PROVE  g.observed >= f.observed
        <4>1. f \in ToSet(facts) /\ f \in Kin(KeyOf[s])
          BY <3>1 DEF CurrentFacts, Unexpired, Kin
        <4>2. ~ (f.observed > e)
          BY <1>5, <4>1 DEF Outdated
        <4>3. f.observed \in Nat /\ e \in Nat
          BY <4>1, FactIs, MessageNumbers
        <4> QED BY <3>1, <4>2, <4>3
      <3> QED BY <1>5, <2>1, <3>1, SupersededFine DEF Newer
    <2> QED BY <2>1, <2>2, <2>3, TrimmedKept, KeepFine DEF MemoryStep, MemoryIInv, Capture
  <1> QED BY <1>3, <1>4, <1>5

LEMMA RememberStep ==
  ASSUME MemoryIInv, NEW s \in Statements, RememberFact(s) \/ AddByHand(s)
  PROVE  MemoryStep
  <1>1. MintFor(s) /\ UNCHANGED searches
        /\ (Keep(Trimmed(Added(s, "manual"))) \/ Keep(Added(s, "manual")))
    BY DEF RememberFact, AddByHand
  <1>2. FactsFine(Added(s, "manual")) /\ Newer(Added(s, "manual")) /\ minted' \in 0..MaxIds
    BY <1>1, AddedFine DEF Newer
  <1> QED BY <1>1, <1>2, TrimmedKept, KeepFine DEF MemoryStep, MemoryIInv

LEMMA CorrectStep ==
  ASSUME MemoryIInv, NEW f \in ToSet(facts), NEW s \in Statements, Correct(f, s)
  PROVE  MemoryStep
  <1> DEFINE rest == Only(facts, ToSet(facts) \ {f})
  <1>1. FactsFine(rest) /\ ToSet(rest) = ToSet(facts) \ {f}
    BY FewerFacts DEF MemoryIInv
  <1>2. f \in FactRows
    BY DEF MemoryIInv, FactsFine, ToSet
  <1>3. PICK x \in FactRows : x = [id |-> f.id, says |-> s, source |-> "manual", event |-> 0,
                                   observed |-> 0, live |-> TRUE]
    BY <1>2 DEF FactRows
  <1>4. Keep(Append(rest, x)) /\ UNCHANGED <<minted, searches>>
    BY <1>3 DEF Correct
  <1>5. x.says = s /\ x.source = "manual"
    BY <1>3
  <1> HIDE DEF rest
  <1>6. \A g \in ToSet(rest) : g.says # x.says
    BY <1>1, <1>5 DEF Correct
  <1>7. rest \in Seq(FactRows) /\ SaidOnce(rest) /\ OneFact(rest)
    BY <1>1 DEF FactsFine
  <1>8. /\ Append(rest, x) \in Seq(FactRows) /\ SaidOnce(Append(rest, x))
        /\ ToSet(Append(rest, x)) = ToSet(rest) \cup {x}
    BY <1>6, <1>7, OneMoreFact
  <1>9. \A g \in CurrentFacts(Append(rest, x)) :
          g \in CurrentFacts(rest) /\ g \in CurrentFacts(facts)
    BY <1>1, <1>5, <1>8 DEF CurrentFacts, Unexpired
  <1>10. FactsFine(Append(rest, x)) /\ Newer(Append(rest, x))
    BY <1>7, <1>8, <1>9 DEF FactsFine, OneFact, Newer
  <1> QED BY <1>4, <1>10, KeepFine DEF MemoryStep, MemoryIInv

LEMMA RemovalStep ==
  ASSUME MemoryIInv, NEW S, Keep(Only(facts, S)), UNCHANGED minted,
         searches' \in [Searchers -> SearchRows]
  PROVE  MemoryStep
  <1>1. FactsFine(facts) /\ Newer(facts)
    BY DEF MemoryIInv, Newer
  <1> QED BY <1>1, OnlyKept, KeepFine DEF MemoryStep, MemoryIInv

-----------------------------------------------------------------------------
(* The searches.                                                           *)

\* A step of one search, that writes at most a vector.
LEMMA SearcherStep ==
  ASSUME MemoryIInv, NEW r \in Searchers, NEW q \in SearchRows,
         searches' = [searches EXCEPT ![r] = q], UNCHANGED <<facts, minted>>,
         VectorsFine', VectorsStay
  PROVE  MemoryStep
  <1>1. ASSUME NEW f \in CurrentFacts(facts) PROVE f.observed >= f.observed
    <2>1. f \in ToSet(facts)
      BY DEF CurrentFacts, Unexpired
    <2>2. f.observed \in Nat
      BY <2>1, FactIs
    <2> QED BY <2>2
  <1>2. FactsStay
    BY <1>1 DEF FactsStay, MemoryIInv, FactsFine, OneFact
  <1>3. MemoryIInv'
    BY DEF MemoryIInv
  <1> QED BY <1>2, <1>3 DEF MemoryStep

\* What is told is remembered.
Told(r) == \A it \in searches'[r].result \ searches[r].result : Remembered(it)

LEMMA SearchSteps ==
  ASSUME MemoryIInv, NEW r \in Searchers, UNCHANGED <<facts, minted>>,
         NEW q \in SearchRows, searches' = [searches EXCEPT ![r] = q],
         \A it \in q.result \ searches[r].result : Remembered(it)
  PROVE  \A p \in Searchers : Told(p)
  BY DEF Told, MemoryIInv

LEMMA BeginSearchStep ==
  ASSUME MemoryIInv, NEW r \in Searchers, NEW tool \in {"recall", "forget"}, Begin(r, tool)
  PROVE  MemoryStep /\ \A p \in Searchers : Told(p)
  <1> DEFINE read == {ItemOf(f) : f \in Unexpired(facts)}
  <1>1. read \in SUBSET Items
    BY FactIs DEF Unexpired
  <1>2. PICK q \in SearchRows : searches' = [searches EXCEPT ![r] = q] /\ q.result = {}
    <2>1. CASE tool = "forget"
      <3>1. PICK matched \in SUBSET read : searches' = [searches EXCEPT ![r] =
               [NoSearch EXCEPT !.phase = "check", !.tool = tool, !.todo = matched]]
        BY <2>1 DEF Begin
      <3>2. PICK q \in SearchRows :
              q = [NoSearch EXCEPT !.phase = "check", !.tool = tool, !.todo = matched]
        BY <1>1 DEF NoSearch, SearchRows
      <3>3. q.result = {}
        BY <3>2 DEF NoSearch
      <3> QED BY <3>1, <3>2, <3>3
    <2>2. CASE tool = "recall"
      <3>1. searches' = [searches EXCEPT ![r] =
              [NoSearch EXCEPT !.phase = "embed", !.todo = read, !.unknown = read \ vectors]]
        BY <2>2 DEF Begin
      <3>2. PICK q \in SearchRows :
              q = [NoSearch EXCEPT !.phase = "embed", !.todo = read, !.unknown = read \ vectors]
        BY <1>1 DEF NoSearch, SearchRows
      <3>3. q.result = {}
        BY <3>2 DEF NoSearch
      <3> QED BY <3>1, <3>2, <3>3
    <2> QED BY <2>1, <2>2
  <1>3. UNCHANGED <<facts, minted, vectors>>
    BY DEF Begin
  <1>4. VectorsFine' /\ VectorsStay
    BY <1>3 DEF MemoryIInv, VectorsFine, VectorsStay
  <1> QED BY <1>2, <1>3, <1>4, SearcherStep, SearchSteps

\* Phases between the reading and the answer.
LEMMA BetweenStep ==
  ASSUME MemoryIInv, NEW r \in Searchers, Embedded(r) \/ Match(r) \/ Answer(r)
  PROVE  MemoryStep /\ \A p \in Searchers : Told(p)
  <1>1. searches[r] \in SearchRows
    BY DEF MemoryIInv
  <1>2. PICK q \in SearchRows : searches' = [searches EXCEPT ![r] = q]
                                /\ q.result \subseteq searches[r].result
    <2>1. CASE searches' = [searches EXCEPT ![r].phase = "store"]
      <3>1. PICK q \in SearchRows : q = [searches[r] EXCEPT !.phase = "store"]
        BY <1>1 DEF SearchRows
      <3>2. q.result = searches[r].result /\ searches' = [searches EXCEPT ![r] = q]
        BY <1>1, <2>1, <3>1 DEF SearchRows
      <3> QED BY <3>2
    <2>2. ASSUME NEW matched \in SUBSET searches[r].todo,
                 searches' = [searches EXCEPT ![r].phase = "check", ![r].todo = matched,
                                              ![r].unknown = {}]
          PROVE  \E q \in SearchRows : searches' = [searches EXCEPT ![r] = q]
                                       /\ q.result \subseteq searches[r].result
      <3>1. PICK q \in SearchRows :
              q = [searches[r] EXCEPT !.phase = "check", !.todo = matched, !.unknown = {}]
        BY <1>1 DEF SearchRows
      <3>2. q.result = searches[r].result /\ searches' = [searches EXCEPT ![r] = q]
        BY <1>1, <2>2, <3>1 DEF SearchRows
      <3> QED BY <3>2
    <2>3. ASSUME NEW matched \in SUBSET searches[r].todo,
                 searches' = [searches EXCEPT ![r].phase = "check", ![r].todo = matched]
          PROVE  \E q \in SearchRows : searches' = [searches EXCEPT ![r] = q]
                                       /\ q.result \subseteq searches[r].result
      <3>1. PICK q \in SearchRows : q = [searches[r] EXCEPT !.phase = "check", !.todo = matched]
        BY <1>1 DEF SearchRows
      <3>2. q.result = searches[r].result /\ searches' = [searches EXCEPT ![r] = q]
        BY <1>1, <2>3, <3>1 DEF SearchRows
      <3> QED BY <3>2
    <2>4. CASE Answer(r)
      <3>1. PICK q \in SearchRows :
              /\ q = IF searches[r].tool = "recall" \/ searches[r].result = {} THEN NoSearch
                     ELSE [searches[r] EXCEPT !.phase = "delete"]
              /\ q.result \subseteq searches[r].result
        <4>1. NoSearch \in SearchRows /\ NoSearch.result = {}
          BY DEF NoSearch, SearchRows
        <4>2. /\ [searches[r] EXCEPT !.phase = "delete"] \in SearchRows
              /\ [searches[r] EXCEPT !.phase = "delete"].result = searches[r].result
          BY <1>1 DEF SearchRows
        <4> QED BY <4>1, <4>2
      <3>2. searches' = [searches EXCEPT ![r] = q]
        BY <2>4, <3>1 DEF Answer
      <3> QED BY <3>1, <3>2
    <2> QED BY <2>1, <2>2, <2>3, <2>4 DEF Embedded, Match
  <1>3. UNCHANGED <<facts, minted, vectors>>
    BY DEF Embedded, Match, Answer
  <1>4. VectorsFine' /\ VectorsStay
    BY <1>3 DEF MemoryIInv, VectorsFine, VectorsStay
  <1>5. \A it \in q.result \ searches[r].result : Remembered(it)
    BY <1>2
  <1> QED BY <1>2, <1>3, <1>4, <1>5, SearcherStep, SearchSteps

LEMMA StoreVectorStep ==
  ASSUME MemoryIInv, NEW r \in Searchers, NEW it \in Items, StoreVector(r, it)
  PROVE  MemoryStep /\ \A p \in Searchers : Told(p)
  <1>1. searches[r] \in SearchRows
    BY DEF MemoryIInv
  <1>2. PICK q \in SearchRows : q = [searches[r] EXCEPT !.unknown = @ \ {it}]
    BY <1>1 DEF SearchRows
  <1>3. q.result = searches[r].result /\ searches' = [searches EXCEPT ![r] = q]
    BY <1>1, <1>2 DEF SearchRows, StoreVector
  <1>4. UNCHANGED <<facts, minted>>
        /\ vectors' = IF Storable(it) THEN {v \in vectors : v.id # it.id} \cup {it} ELSE vectors
    BY DEF StoreVector
  <1>5. Storable(it) => Remembered(it) /\ \E f \in ToSet(facts) : f.id = it.id
    BY DEF Storable, Remembered, Unexpired, ItemOf
  <1>6. VectorsFine' /\ VectorsStay
    BY <1>4, <1>5 DEF MemoryIInv, VectorsFine, VectorsStay
  <1> QED BY <1>3, <1>4, <1>6, SearcherStep, SearchSteps

LEMMA CheckResultStep ==
  ASSUME MemoryIInv, NEW r \in Searchers, NEW it \in Items, Check(r, it)
  PROVE  MemoryStep /\ \A p \in Searchers : Told(p)
  <1>1. searches[r] \in SearchRows
    BY DEF MemoryIInv
  <1>2. PICK q \in SearchRows :
          q = [searches[r] EXCEPT !.todo = @ \ {it},
                 !.result = IF StillCurrent(it) THEN @ \cup {it} ELSE @]
    BY <1>1 DEF SearchRows
  <1>3. /\ q.result = IF StillCurrent(it) THEN searches[r].result \cup {it} ELSE searches[r].result
        /\ searches' = [searches EXCEPT ![r] = q]
    BY <1>1, <1>2 DEF SearchRows, Check
  <1>4. UNCHANGED <<facts, minted, vectors>>
    BY DEF Check
  <1>5. VectorsFine' /\ VectorsStay
    BY <1>4 DEF MemoryIInv, VectorsFine, VectorsStay
  <1>6. StillCurrent(it) => Remembered(it)
    BY DEF StillCurrent, Remembered, Unexpired
  <1>7. \A k \in q.result \ searches[r].result : Remembered(k)
    BY <1>3, <1>6
  <1> QED BY <1>3, <1>4, <1>5, <1>7, SearcherStep, SearchSteps

LEMMA ForgetFactStep ==
  ASSUME MemoryIInv, NEW r \in Searchers, NEW it \in Items, ForgetFact(r, it)
  PROVE  MemoryStep /\ \A p \in Searchers : Told(p)
  <1>1. searches[r] \in SearchRows
    BY DEF MemoryIInv
  <1>2. PICK q \in SearchRows :
          /\ q = IF searches[r].result = {it} THEN NoSearch
                 ELSE [searches[r] EXCEPT !.result = @ \ {it}]
          /\ q.result \subseteq searches[r].result
    <2>1. NoSearch \in SearchRows /\ NoSearch.result = {}
      BY DEF NoSearch, SearchRows
    <2>2. /\ [searches[r] EXCEPT !.result = @ \ {it}] \in SearchRows
          /\ [searches[r] EXCEPT !.result = @ \ {it}].result \subseteq searches[r].result
      BY <1>1 DEF SearchRows
    <2> QED BY <2>1, <2>2
  <1>3. searches' = [searches EXCEPT ![r] = q] /\ UNCHANGED minted
    <2>1. searches' = [searches EXCEPT ![r] =
            IF searches[r].result = {it} THEN NoSearch
            ELSE [searches[r] EXCEPT !.result = @ \ {it}]]
      BY <1>1 DEF ForgetFact, MemoryIInv
    <2>2. UNCHANGED minted
      BY DEF ForgetFact
    <2> QED BY <1>2, <2>1, <2>2
  <1>4. searches' \in [Searchers -> SearchRows]
    BY <1>3 DEF MemoryIInv
  <1>5. MemoryStep
    BY <1>3, <1>4, RemovalStep DEF ForgetFact, Delete
  <1>6. \A p \in Searchers : Told(p)
    BY <1>2, <1>3 DEF Told, MemoryIInv
  <1> QED BY <1>5, <1>6

LEMMA RestartMemoryStep ==
  ASSUME MemoryIInv, RestartMemory
  PROVE  MemoryStep /\ \A p \in Searchers : Told(p)
  <1>1. NoSearch \in SearchRows /\ NoSearch.result = {}
    BY DEF NoSearch, SearchRows
  <1>2. searches' = [r \in Searchers |-> NoSearch]
    BY DEF RestartMemory
  <1>3. searches' \in [Searchers -> SearchRows] /\ \A p \in Searchers : Told(p)
    BY <1>1, <1>2 DEF Told
  <1> QED BY <1>3, RemovalStep DEF RestartMemory

LEMMA MemoryStart == MemoryInit => MemoryIInv
  <1> SUFFICES ASSUME MemoryInit PROVE MemoryIInv
    OBVIOUS
  <1>1. MaxIds \in Nat /\ 1 \in Ids /\ NoSearch \in SearchRows
    BY MemoryAssumption DEF Ids, NoSearch, SearchRows
  <1>2. VectorsFine /\ searches \in [Searchers -> SearchRows] /\ minted \in 0..MaxIds
    BY <1>1, MemoryAssumption DEF MemoryInit, VectorsFine
  <1>3. CASE facts = <<>>
    <2>1. ToSet(facts) = {}
      BY <1>3 DEF ToSet
    <2>2. facts \in Seq(FactRows) /\ SaidOnce(facts)
      BY <1>3 DEF SaidOnce, IsInjective
    <2> QED BY <1>2, <2>1, <2>2 DEF MemoryIInv, FactsFine, OneFact, CurrentFacts, Unexpired
  <1>4. ASSUME NEW s \in Statements, facts = <<Legacy(s)>> PROVE MemoryIInv
    <2>1. PICK x \in FactRows : x = Legacy(s)
      BY <1>1 DEF FactRows, Legacy
    <2>2. facts = <<x>> /\ DOMAIN facts = {1} /\ facts[1] = x /\ facts \in Seq(FactRows)
      BY <1>4, <2>1
    <2>3. ToSet(facts) = {x}
      BY <2>2 DEF ToSet
    <2>4. SaidOnce(facts)
      BY <2>2 DEF SaidOnce, IsInjective
    <2> QED BY <1>2, <2>2, <2>3, <2>4 DEF MemoryIInv, FactsFine, OneFact, CurrentFacts, Unexpired
  <1> QED BY <1>3, <1>4 DEF MemoryInit

LEMMA MemorySteps ==
  ASSUME MemoryIInv, [MemoryNext]_memoryVars
  PROVE  MemoryStep /\ \A p \in Searchers : Told(p)
  <1>1. UNCHANGED searches => \A p \in Searchers : Told(p)
    BY DEF Told
  <1>2. UNCHANGED searches => searches' \in [Searchers -> SearchRows]
    BY DEF MemoryIInv
  <1>3. ASSUME NEW e \in Messages, Capture(e) PROVE MemoryStep /\ \A p \in Searchers : Told(p)
    BY <1>1, <1>3, CaptureStep DEF Capture
  <1>4. ASSUME NEW s \in Statements, RememberFact(s) \/ AddByHand(s)
        PROVE  MemoryStep /\ \A p \in Searchers : Told(p)
    BY <1>1, <1>4, RememberStep DEF RememberFact, AddByHand
  <1>5. ASSUME NEW f \in ToSet(facts), NEW s \in Statements, Correct(f, s)
        PROVE  MemoryStep /\ \A p \in Searchers : Told(p)
    BY <1>1, <1>5, CorrectStep DEF Correct
  <1>6. ASSUME NEW f \in ToSet(facts), DeleteByHand(f)
        PROVE  MemoryStep /\ \A p \in Searchers : Told(p)
    BY <1>1, <1>2, <1>6, RemovalStep DEF DeleteByHand, Delete
  <1>7. CASE Prune
    BY <1>1, <1>2, <1>7, RemovalStep DEF Prune
  <1>8. CASE UNCHANGED memoryVars
    <2>1. UNCHANGED <<facts, minted, vectors, searches>>
      BY <1>8 DEF memoryVars
    <2>2. FactsFine(facts) /\ Newer(facts)
      BY DEF MemoryIInv, Newer
    <2>3. Keep(facts)
      BY <2>1 DEF Keep, MemoryIInv, VectorsFine
    <2>4. MemoryStep
      BY <2>1, <2>2, <2>3, KeepFine DEF MemoryStep, MemoryIInv
    <2> QED BY <1>1, <2>1, <2>4
  <1> QED BY <1>3, <1>4, <1>5, <1>6, <1>7, <1>8, BeginSearchStep, BetweenStep, StoreVectorStep,
             CheckResultStep, ForgetFactStep, RestartMemoryStep DEF MemoryNext

\* The inductive invariant of the memory.
THEOREM MemoryInvariance == MemorySpec => []MemoryIInv
  <1>1. MemoryIInv /\ [MemoryNext]_memoryVars => MemoryIInv'
    BY MemorySteps DEF MemoryStep
  <1> QED BY <1>1, MemoryStart, PTL DEF MemorySpec

\* Rows, vectors and searches have their shape, contents are unique.
THEOREM MemoryTypes == MemorySpec => []MemoryTypeOK
  BY MemoryInvariance, MemoryPromises, PTL

\* However messages are delayed, repeated and corrected, no two captured
\* statements about one fact hold at the same time (captureMemoryFact).
THEOREM FactsAreOne == MemorySpec => []OneFactPerKey
  BY MemoryInvariance, MemoryPromises, PTL

\* What was forgotten or superseded is neither told nor cached again, and a
\* fact gives way only to a later one.
THEOREM OldWordsOut == MemorySpec => OldWordsStayOut
  <1>1. MemoryIInv /\ [MemoryNext]_memoryVars =>
          [/\ FactsStay
           /\ \A r \in Searchers : \A it \in searches'[r].result \ searches[r].result : Remembered(it)
           /\ \A v \in vectors' \ vectors : Remembered(v)]_memoryVars
    BY MemorySteps DEF MemoryStep, Told, VectorsStay
  <1> QED BY <1>1, MemoryInvariance, PTL DEF MemorySpec, OldWordsStayOut

-----------------------------------------------------------------------------
(* Private bots.                                                           *)

Selections == [owner : Owners, place : Places, bot : Bots]
ClerkRows ==
  [op : {"none", "create", "update", "edit", "select"}, bot : Bots \cup {NoBot},
   owner : Owners \cup {NoBot}, place : Places, status : BotStatuses \cup {"none"},
   item : Keys \cup {NoBot}]

\* A request at work knows the bot, the owner or the status it is about.
ClerkFine(q) ==
  /\ q.op = "create" => q.owner \in Owners
  /\ q.op \in {"update", "edit"} => q.bot \in Bots /\ q.status \in BotStatuses
  /\ q.op = "select" => q.bot \in Bots /\ q.owner \in Owners

RowsTyped ==
  /\ bots \in [Bots -> [status : BotStatuses \cup {"none"}, enabled : BOOLEAN]]
  /\ byKey \in [Owners \X Keys -> Bots \cup {NoBot}]
  /\ clerks \in [Clerks -> ClerkRows] /\ \A c \in Clerks : ClerkFine(clerks[c])

\* Of an owner, one selection is active for a place.
OnePerPlace(seq) ==
  \A m, n \in DOMAIN seq : seq[m].owner = seq[n].owner /\ seq[m].place = seq[n].place => m = n

\* Where one owner has selections, the bot selected last is the one of its
\* selection for the connector, or else of that for any.
SoleOwner(sel, i) ==
  \A p, q \in sel : p.place \in {i, Anyone} /\ q.place \in {i, Anyone} => p.owner = q.owner
ChosenAt(sel, i, b) ==
  IF \E p \in sel : p.place = i THEN \A p \in sel : p.place = i => p.bot = b
  ELSE \A p \in sel : p.place = Anyone => p.bot = b
ChosenHolds ==
  /\ chosen \in [Connectors -> Bots \cup {NoBot}]
  /\ \A i \in Connectors :
       SoleOwner(ToSet(selections), i) => ChosenAt(ToSet(selections), i, chosen[i])

BotsIInv == /\ RowsTyped /\ selections \in Seq(Selections) /\ OnePerPlace(selections)
            /\ ChosenHolds

LEMMA NotAnyone == \A i \in Connectors : i # Anyone
  BY PrivateBotsAssumption

LEMMA BotsShape == BotsIInv => BotsTypeOK
  BY DEF BotsIInv, RowsTyped, Selections, OnePerPlace, ChosenHolds, ClerkRows, BotsTypeOK, IsInjective

LEMMA OwnersAreFinite ==
  ASSUME BotsIInv, NEW i
  PROVE  IsFiniteSet(OwnersAt(i))
  <1> DEFINE D == {m \in DOMAIN selections : selections[m].place \in {i, Anyone}}
             f == [n \in D |-> selections[n].owner]
  <1>1. D \in SUBSET (1..Len(selections)) /\ Len(selections) \in Nat
    BY DEF BotsIInv
  <1>2. IsFiniteSet(1..Len(selections))
    BY <1>1, FS_Interval
  <1>3. IsFiniteSet(D)
    BY <1>1, <1>2, FS_Subset
  <1>4. f \in Surjection(D, OwnersAt(i))
    BY DEF Surjection, OwnersAt
  <1> QED BY <1>3, <1>4, FS_Surjection

\* The resolution finds it.
LEMMA ChosenIsResolved ==
  ASSUME BotsIInv, NEW i \in Connectors, Cardinality(OwnersAt(i)) = 1,
         bots[chosen[i]].status = "active"
  PROVE  Resolved(i) = chosen[i]
  <1> DEFINE sel == ToSet(selections)
             at(n) == selections[n].place
  <1>1. \A n \in DOMAIN selections : selections[n] \in sel /\ n \in Int
    BY DEF ToSet, BotsIInv
  <1>2. PICK o : OwnersAt(i) = {o}
    BY OwnersAreFinite, FS_Singleton
  <1>3. \A n \in DOMAIN selections : at(n) \in {i, Anyone} => selections[n].owner = o
    BY <1>2 DEF OwnersAt
  <1>4. SoleOwner(sel, i)
    BY <1>3 DEF SoleOwner, ToSet
  <1>5. ChosenAt(sel, i, chosen[i])
    BY <1>4 DEF BotsIInv, ChosenHolds
  <1>6. PICK k \in DOMAIN selections : at(k) \in {i, Anyone}
    BY <1>2 DEF OwnersAt
  <1>7. \A m, n \in DOMAIN selections : at(m) \in {i, Anyone} /\ at(n) = at(m) => m = n
    BY <1>3 DEF BotsIInv, OnePerPlace
  <1>8. i # Anyone
    BY NotAnyone
  <1>9. CASE \E n \in DOMAIN selections : at(n) = i
    <2>1. PICK n \in DOMAIN selections : at(n) = i
      BY <1>9
    <2>2. selections[n].bot = chosen[i]
      BY <1>1, <1>5, <2>1 DEF ChosenAt
    <2>3. n \in Candidates(i)
      BY <2>1, <2>2 DEF Candidates
    <2>4. \A m \in Candidates(i) \ {n} : m \in DOMAIN selections /\ at(m) = Anyone
      BY <1>7, <2>1 DEF Candidates
    <2>5. \A m \in Candidates(i) \ {n} : Better(n, m, i) /\ ~ Better(m, n, i)
      BY <1>8, <2>1, <2>4 DEF Better
    <2>6. (CHOOSE m \in Candidates(i) : \A l \in Candidates(i) \ {m} : Better(m, l, i)) = n
      BY <2>3, <2>5
    <2> QED BY <2>2, <2>3, <2>6 DEF Resolved
  <1>10. CASE ~ \E n \in DOMAIN selections : at(n) = i
    <2>1. at(k) = Anyone /\ ~ \E p \in sel : p.place = i
      BY <1>6, <1>10 DEF ToSet
    <2>2. selections[k].bot = chosen[i]
      BY <1>1, <1>5, <2>1 DEF ChosenAt
    <2>3. Candidates(i) = {k}
      <3>1. k \in Candidates(i)
        BY <2>1, <2>2 DEF Candidates
      <3>2. \A n \in Candidates(i) : n \in DOMAIN selections /\ at(n) = at(k)
        BY <1>10, <2>1 DEF Candidates
      <3> QED BY <1>6, <1>7, <3>1, <3>2
    <2>4. (CHOOSE m \in Candidates(i) : \A l \in Candidates(i) \ {m} : Better(m, l, i)) = k
      BY <2>3
    <2> QED BY <2>2, <2>3, <2>4 DEF Resolved
  <1> QED BY <1>9, <1>10

-----------------------------------------------------------------------------
(* A step of a request.                                                    *)

LEMMA NoClerkIsFine == NoClerk \in ClerkRows /\ ClerkFine(NoClerk)
  BY DEF NoClerk, ClerkRows, ClerkFine, Places

LEMMA ClerkMoves ==
  ASSUME RowsTyped, NEW c \in Clerks, NEW q \in ClerkRows, ClerkFine(q),
         clerks' = [clerks EXCEPT ![c] = q]
  PROVE  clerks' \in [Clerks -> ClerkRows] /\ \A d \in Clerks : ClerkFine(clerks'[d])
  BY DEF RowsTyped

LEMMA StatusSet ==
  ASSUME RowsTyped, NEW b \in Bots, NEW status \in BotStatuses, WithStatus(b, status)
  PROVE  bots' \in [Bots -> [status : BotStatuses \cup {"none"}, enabled : BOOLEAN]]
  BY DEF RowsTyped, WithStatus

\* Requests that only write rows of bots.
LEMMA RowsStep ==
  ASSUME BotsIInv, RowsTyped', UNCHANGED <<selections, chosen>>
  PROVE  BotsIInv'
  BY DEF BotsIInv, ChosenHolds

LEMMA BeginningStep ==
  ASSUME BotsIInv, NEW c \in Clerks,
         \/ \E o \in Owners, k \in Keys \cup {NoBot} : BeginCreate(c, o, k)
         \/ \E b \in Bots : BeginUpdate(c, b) \/ BeginRename(c, b)
         \/ \E o \in Owners, b \in Bots, place \in Places : BeginSelect(c, o, b, place)
  PROVE  BotsIInv'
  <1>1. PICK q \in ClerkRows : ClerkFine(q) /\ clerks' = [clerks EXCEPT ![c] = q]
    <2>1. ASSUME NEW o \in Owners, NEW k \in Keys \cup {NoBot}, BeginCreate(c, o, k)
          PROVE  \E q \in ClerkRows : ClerkFine(q) /\ clerks' = [clerks EXCEPT ![c] = q]
      <3>1. PICK q \in ClerkRows : q = [NoClerk EXCEPT !.op = "create", !.owner = o, !.item = k]
        BY DEF NoClerk, ClerkRows, Places
      <3>2. ClerkFine(q)
        BY <3>1 DEF ClerkFine, NoClerk
      <3> QED BY <2>1, <3>1, <3>2 DEF BeginCreate
    <2>2. ASSUME NEW b \in Bots, NEW status \in BotStatuses,
                 clerks' = [clerks EXCEPT
                   ![c] = [NoClerk EXCEPT !.op = "update", !.bot = b, !.status = status]]
          PROVE  \E q \in ClerkRows : ClerkFine(q) /\ clerks' = [clerks EXCEPT ![c] = q]
      <3>1. PICK q \in ClerkRows : q = [NoClerk EXCEPT !.op = "update", !.bot = b, !.status = status]
        BY DEF NoClerk, ClerkRows, Places
      <3>2. ClerkFine(q)
        BY <3>1 DEF ClerkFine, NoClerk
      <3> QED BY <2>2, <3>1, <3>2
    <2>3. ASSUME NEW o \in Owners, NEW b \in Bots, NEW place \in Places, BeginSelect(c, o, b, place)
          PROVE  \E q \in ClerkRows : ClerkFine(q) /\ clerks' = [clerks EXCEPT ![c] = q]
      <3>1. PICK q \in ClerkRows :
              q = [NoClerk EXCEPT !.op = "select", !.bot = b, !.owner = o, !.place = place]
        BY DEF NoClerk, ClerkRows, Places
      <3>2. ClerkFine(q)
        BY <3>1 DEF ClerkFine, NoClerk
      <3> QED BY <2>3, <3>1, <3>2 DEF BeginSelect
    <2>4. ASSUME NEW b \in Bots, BeginRename(c, b) PROVE bots[b].status \in BotStatuses
      BY <2>4 DEF BeginRename, Exists, BotsIInv, RowsTyped
    <2> QED BY <2>1, <2>2, <2>3, <2>4 DEF BeginUpdate, BeginRename
  <1>2. UNCHANGED <<bots, byKey, selections, chosen>>
    BY DEF BeginCreate, BeginUpdate, BeginRename, BeginSelect
  <1>3. RowsTyped'
    BY <1>1, <1>2, ClerkMoves DEF BotsIInv, RowsTyped
  <1> QED BY <1>2, <1>3, RowsStep

LEMMA CreateStep ==
  ASSUME BotsIInv, NEW c \in Clerks, NEW b \in Bots, NEW status \in BotStatuses,
         Create(c, b, status)
  PROVE  BotsIInv'
  <1>1. clerks[c] \in ClerkRows /\ ClerkFine(clerks[c]) /\ clerks[c].op = "create" /\ RowsTyped
    BY DEF BotsIInv, RowsTyped, Create
  <1>2. clerks[c].owner \in Owners /\ clerks[c].item \in Keys \cup {NoBot}
    BY <1>1 DEF ClerkRows, ClerkFine
  <1>3. bots' \in [Bots -> [status : BotStatuses \cup {"none"}, enabled : BOOLEAN]]
    BY <1>1, StatusSet DEF Create, RowsTyped
  <1>4. byKey' \in [Owners \X Keys -> Bots \cup {NoBot}]
    BY <1>1, <1>2 DEF Create, RowsTyped
  <1>5. RowsTyped'
    BY <1>1, <1>3, <1>4, ClerkMoves, NoClerkIsFine DEF Create, Leave, RowsTyped
  <1> QED BY <1>5, RowsStep DEF Create

LEMMA UpdateStep ==
  ASSUME BotsIInv, NEW c \in Clerks, CheckUpdate(c) \/ Update(c)
  PROVE  BotsIInv'
  <1>1. clerks[c] \in ClerkRows /\ ClerkFine(clerks[c]) /\ RowsTyped
    BY DEF BotsIInv, RowsTyped
  <1>2. PICK q \in ClerkRows : ClerkFine(q) /\ clerks' = [clerks EXCEPT ![c] = q]
    <2>1. CASE clerks' = [clerks EXCEPT ![c].op = "edit"] /\ clerks[c].op = "update"
      <3>1. PICK q \in ClerkRows : q = [clerks[c] EXCEPT !.op = "edit"]
        BY <1>1 DEF ClerkRows
      <3>2. ClerkFine(q)
        BY <1>1, <2>1, <3>1 DEF ClerkFine, ClerkRows
      <3> QED BY <2>1, <3>1, <3>2
    <2>2. CASE Leave(c)
      BY <2>2, NoClerkIsFine DEF Leave
    <2> QED BY <2>1, <2>2 DEF CheckUpdate, Update
  <1>3. bots' \in [Bots -> [status : BotStatuses \cup {"none"}, enabled : BOOLEAN]]
    BY <1>1, StatusSet DEF CheckUpdate, Update, RowsTyped, ClerkFine
  <1>4. RowsTyped'
    BY <1>1, <1>2, <1>3, ClerkMoves DEF CheckUpdate, Update, RowsTyped
  <1> QED BY <1>4, RowsStep DEF CheckUpdate, Update

\* A row at the end of a selection of rows.
LEMMA OneMoreSelection ==
  ASSUME BotsIInv, NEW S, NEW x \in Selections,
         \A p \in ToSet(selections) \cap S : p.owner # x.owner \/ p.place # x.place
  PROVE  LET seq == Append(Only(selections, S), x) IN
         /\ seq \in Seq(Selections) /\ OnePerPlace(seq)
         /\ ToSet(seq) = (ToSet(selections) \cap S) \cup {x}
  <1> DEFINE kept == Only(selections, S)
             out == Append(kept, x)
             at(k) == PlaceOf(selections, S, k)
  <1>0. selections \in Seq(Selections) /\ OnePerPlace(selections)
    BY DEF BotsIInv
  <1>1. /\ kept \in Seq(Selections) /\ ToSet(kept) = ToSet(selections) \cap S
        /\ \A k \in DOMAIN kept : at(k) \in DOMAIN selections /\ kept[k] = selections[at(k)]
        /\ \A k, m \in DOMAIN kept : at(k) = at(m) => k = m
    BY <1>0, OnlyThose
  <1> HIDE DEF kept, at
  <1>2. /\ out \in Seq(Selections) /\ DOMAIN kept = 1..Len(kept) /\ Len(kept) \in Nat
        /\ DOMAIN out = 1..(Len(kept) + 1)
    BY <1>1
  <1>3. \A k \in DOMAIN out : IF k \in DOMAIN kept THEN out[k] = kept[k]
                              ELSE k = Len(kept) + 1 /\ out[k] = x
    BY <1>1, <1>2
  <1>4. \A k \in DOMAIN kept : k \in DOMAIN out /\ out[k] = kept[k] /\ kept[k] \in ToSet(kept)
    BY <1>1, <1>2 DEF ToSet
  <1>5. Len(kept) + 1 \in DOMAIN out /\ out[Len(kept) + 1] = x
    BY <1>1, <1>2
  <1> HIDE DEF out
  <1>6. ToSet(out) = ToSet(kept) \cup {x}
    BY <1>3, <1>4, <1>5 DEF ToSet
  <1>7. ASSUME NEW m \in DOMAIN out, NEW n \in DOMAIN out, out[m].owner = out[n].owner,
               out[m].place = out[n].place
        PROVE  m = n
    <2>1. CASE m \in DOMAIN kept /\ n \in DOMAIN kept
      <3>1. at(m) = at(n)
        BY <1>0, <1>1, <1>4, <1>7, <2>1 DEF OnePerPlace
      <3> QED BY <1>1, <2>1, <3>1
    <2>2. CASE m \notin DOMAIN kept /\ n \notin DOMAIN kept
      BY <1>3, <2>2
    <2>3. CASE m \in DOMAIN kept /\ n \notin DOMAIN kept
      BY <1>1, <1>3, <1>4, <1>7, <2>3
    <2>4. CASE m \notin DOMAIN kept /\ n \in DOMAIN kept
      BY <1>1, <1>3, <1>4, <1>7, <2>4
    <2> QED BY <2>1, <2>2, <2>3, <2>4
  <1>8. OnePerPlace(out)
    BY <1>7 DEF OnePerPlace
  <1> QED BY <1>1, <1>2, <1>6, <1>8 DEF out, kept

LEMMA SelectStep ==
  ASSUME BotsIInv, NEW c \in Clerks, Select(c)
  PROVE  BotsIInv'
  <1> DEFINE o == clerks[c].owner
             b == clerks[c].bot
             place == clerks[c].place
             sel == ToSet(selections)
             S == {p \in sel : ~ (p.owner = o /\ Meets(p, place))}
  <1>1. clerks[c] \in ClerkRows /\ ClerkFine(clerks[c]) /\ clerks[c].op = "select" /\ RowsTyped
    BY DEF BotsIInv, RowsTyped, Select
  <1>2. o \in Owners /\ b \in Bots /\ place \in Places
    BY <1>1 DEF ClerkFine, ClerkRows
  <1>3. RowsTyped'
    BY <1>1, ClerkMoves, NoClerkIsFine DEF Select, Leave, RowsTyped
  <1>4. CASE UNCHANGED <<selections, chosen>>
    BY <1>3, <1>4, RowsStep
  <1>5. CASE /\ selections' = Append(Only(selections, S), [owner |-> o, place |-> place, bot |-> b])
             /\ chosen' = [i \in Connectors |-> IF place \in {i, Anyone} THEN b ELSE chosen[i]]
    <2>1. PICK x \in Selections : x = [owner |-> o, place |-> place, bot |-> b]
      BY <1>2 DEF Selections
    <2>2. x.owner = o /\ x.place = place /\ x.bot = b
      BY <2>1
    <2>3. \A p \in sel \cap S : p.owner # x.owner \/ p.place # x.place
      BY <2>2 DEF Meets
    <2>4. /\ selections' \in Seq(Selections) /\ OnePerPlace(selections')
          /\ ToSet(selections') = S \cup {x}
      <3>1. selections' = Append(Only(selections, S), x) /\ sel \cap S = S
        BY <1>5, <2>1
      <3> HIDE DEF S
      <3> QED BY <2>3, <3>1, OneMoreSelection
    <2>5. chosen' \in [Connectors -> Bots \cup {NoBot}]
      BY <1>2, <1>5 DEF BotsIInv, ChosenHolds
    <2>6. ASSUME NEW i \in Connectors, SoleOwner(S \cup {x}, i)
          PROVE  ChosenAt(S \cup {x}, i, chosen'[i])
      <3>1. i # Anyone
        BY NotAnyone
      <3>2. CASE place \in {i, Anyone}
        <4>1. chosen'[i] = b
          BY <1>5, <3>2
        <4>2. \A p \in S \cup {x} : p.place = i => p.bot = b
          BY <2>2, <2>6, <3>1, <3>2 DEF SoleOwner, Meets
        <4>3. place = i \/ \A p \in S \cup {x} : p.place = Anyone => p.bot = b
          BY <2>2, <2>6, <3>1, <3>2 DEF SoleOwner, Meets
        <4> QED BY <2>2, <4>1, <4>2, <4>3 DEF ChosenAt
      <3>3. CASE place \notin {i, Anyone}
        <4>1. chosen'[i] = chosen[i]
          BY <1>5, <3>3
        <4>2. \A p : p.place \in {i, Anyone} => (p \in S \cup {x} <=> p \in sel)
          BY <2>2, <3>3 DEF Meets
        <4>3. SoleOwner(sel, i)
          BY <2>6, <4>2 DEF SoleOwner
        <4>4. ChosenAt(sel, i, chosen[i])
          BY <4>3 DEF BotsIInv, ChosenHolds
        <4> QED BY <4>1, <4>2, <4>4 DEF ChosenAt
      <3> QED BY <3>2, <3>3
    <2> QED BY <1>3, <2>4, <2>5, <2>6 DEF BotsIInv, ChosenHolds
  <1> QED BY <1>4, <1>5 DEF Select

LEMMA ArchiveStep ==
  ASSUME BotsIInv, NEW b \in Bots, Archive(b)
  PROVE  BotsIInv'
  <1>1. RowsTyped'
    BY StatusSet DEF Archive, BotStatuses, BotsIInv, RowsTyped
  <1> QED BY <1>1, RowsStep DEF Archive

LEMMA BotsStart == BotsInit => BotsIInv
  <1> SUFFICES ASSUME BotsInit PROVE BotsIInv
    OBVIOUS
  <1>1. RowsTyped
    BY NoClerkIsFine DEF BotsInit, RowsTyped
  <1>2. selections = <<>> /\ ToSet(selections) = {}
    BY DEF BotsInit, ToSet
  <1>3. ChosenHolds
    BY <1>2 DEF BotsInit, ChosenHolds, ChosenAt
  <1>4. selections \in Seq(Selections) /\ OnePerPlace(selections)
    BY <1>2 DEF OnePerPlace
  <1> QED BY <1>1, <1>3, <1>4 DEF BotsIInv

LEMMA BotsStep == BotsIInv /\ [BotsNext]_botsVars => BotsIInv'
  <1>1. ASSUME BotsIInv, UNCHANGED botsVars PROVE BotsIInv'
    BY <1>1 DEF botsVars, BotsIInv, RowsTyped, ChosenHolds
  <1> QED BY <1>1, BeginningStep, CreateStep, UpdateStep, SelectStep, ArchiveStep
          DEF BotsNext, ClerkStep

\* The inductive invariant of the private bots.
THEOREM BotsInvariance == BotsSpec => []BotsIInv
  BY BotsStart, BotsStep, PTL DEF BotsSpec

\* Rows have their shape; of an owner, one selection is active for a place.
THEOREM BotsTypes == BotsSpec => []BotsTypeOK
  BY BotsInvariance, BotsShape, PTL

\* The bot selected last for a connection answers while it is active
\* (selectPrivateBot, resolveAgentInstance).
THEOREM SelectionsDecide == BotsSpec => []SelectionDecides
  <1>1. BotsIInv => SelectionDecides
    BY ChosenIsResolved DEF SelectionDecides
  <1> QED BY <1>1, BotsInvariance, PTL
=============================================================================
