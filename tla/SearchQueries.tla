---------------------------- MODULE SearchQueries -----------------------------
(***************************************************************************)
(* The web searches of one run (grokResearchForRunWithPrompt): a query is  *)
(* claimed by a row of agent_search_queries before it is sent, and its     *)
(* row keeps the answer.  A query stands for its normalised hash.          *)
(***************************************************************************)
EXTENDS Integers, FiniteSets

CONSTANTS
  Queries,    \* distinct queries
  Callers,    \* searches at the same time
  Budget,     \* maxSearchQueriesPerRun
  MaxHitches, \* bound: restarts, retries and writes that fail
  NoQuery

ASSUME SearchAssumption ==
  /\ IsFiniteSet(Queries) /\ NoQuery \notin Queries
  /\ Budget \in Nat \ {0} /\ MaxHitches \in Nat

VARIABLES
  queries,  \* the row of each query
  caller,   \* the query a caller has been let through with
  sent,     \* queries sent in this execution of the run, and
  spared,   \* those whose answer it had when it began
  twice,    \* queries sent a second time in it
  hitches

searchVars == <<queries, caller, sent, spared, twice, hitches>>

\* Rows and callers have their shape, and the callers do not share a query.
SearchTypeOK ==
  /\ queries \in [Queries -> {"absent", "running", "succeeded", "failed"}]
  /\ caller \in [Callers -> Queries \cup {NoQuery}]
  /\ sent \subseteq Queries /\ spared \subseteq Queries /\ twice \subseteq sent
  /\ hitches \in 0..MaxHitches
  /\ \A c, d \in Callers : caller[c] = caller[d] /\ c # d => caller[c] = NoQuery

\* A run starts without rows, or with those the old table had for it, which
\* are moved before the workers start.
SearchInit ==
  /\ queries \in [Queries -> {"absent", "succeeded", "failed"}]
  /\ Cardinality({q \in Queries : queries[q] # "absent"}) <= 1
  /\ caller = [c \in Callers |-> NoQuery]
  /\ sent = {} /\ spared = {q \in Queries : queries[q] # "absent"} /\ twice = {}
  /\ hitches = 0

Hitch == hitches < MaxHitches /\ hitches' = hitches + 1

Taken == {q \in Queries : queries[q] # "absent"}

\* INSERT OR IGNORE .. WHERE the rows of the run are fewer than the budget.
\* A query that has its row, or finds no room, is not sent: the caller gets
\* the answer, the failure, "already attempted" or "budget exhausted".
BeginSearch(c, q) ==
  /\ caller[c] = NoQuery
  /\ q \notin Taken /\ Cardinality(Taken) < Budget
  /\ queries' = [queries EXCEPT ![q] = "running"]
  /\ caller' = [caller EXCEPT ![c] = q]
  /\ twice' = IF q \in sent THEN twice \cup {q} ELSE twice
  /\ sent' = sent \cup {q}
  /\ UNCHANGED <<spared, hitches>>

FailureFreed == "absent"
\* A failed query keeps its row, and its place in the budget.
Failure == "failed"

\* UPDATE .. WHERE status = 'running': the answer of a caller whose claim is
\* gone is an error.
FinishSearch(c, found) ==
  /\ caller[c] # NoQuery
  /\ queries' = IF queries[caller[c]] # "running" THEN queries
                ELSE [queries EXCEPT ![caller[c]] = IF found THEN "succeeded" ELSE Failure]
  /\ caller' = [caller EXCEPT ![c] = NoQuery]
  /\ UNCHANGED <<sent, spared, twice, hitches>>

\* Neither write is repeated: the row stays as it was claimed.
FinishFails(c) ==
  /\ caller[c] # NoQuery /\ Hitch
  /\ caller' = [caller EXCEPT ![c] = NoQuery]
  /\ UNCHANGED <<queries, sent, spared, twice>>

\* A new execution: claims are freed, and what has been answered stays.
Anew(rows) ==
  /\ queries' = rows
  /\ caller' = [c \in Callers |-> NoQuery]
  /\ sent' = {} /\ twice' = {}
  /\ spared' = {q \in Queries : rows[q] # "absent"}

RestartSearches ==
  /\ Hitch
  /\ Anew([q \in Queries |-> IF queries[q] = "running" THEN "absent" ELSE queries[q]])

\* retryTask deletes what did not succeed, when no caller is left.
RetrySearches ==
  /\ \A c \in Callers : caller[c] = NoQuery
  /\ Hitch
  /\ Anew([q \in Queries |-> IF queries[q] # "succeeded" THEN "absent" ELSE queries[q]])

SearchNext ==
  \/ \E c \in Callers, q \in Queries : BeginSearch(c, q)
  \/ \E c \in Callers, found \in BOOLEAN : FinishSearch(c, found)
  \/ \E c \in Callers : FinishFails(c)
  \/ RestartSearches \/ RetrySearches

SearchSpec == SearchInit /\ [][SearchNext]_searchVars

\* One execution of a run sends no query twice and, with those it already had
\* an answer to, no more than the budget, however many callers there are and
\* whichever fail.  ("At most three different queries for each execution";
\* "success or failure uses up the place of one", SYSTEM_GUIDE.md.)
SearchesBounded == twice = {} /\ Cardinality(sent \cup spared) <= Budget
=============================================================================
