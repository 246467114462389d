---------------------------- MODULE ProviderChain -----------------------------
(***************************************************************************)
(* One model request over a chain of routes (chatCompletionWithTargets):   *)
(* which route is tried next, and when the chain gives up.  Successive     *)
(* requests of a run start at the route that answered last.                *)
(***************************************************************************)
EXTENDS Integers, Sequences, FiniteSets, FiniteSetsExt

CONSTANTS
  MaxTargets,   \* bound: routes of a run
  Credentials,  \* base and key of a route
  MaxRetries,   \* bound: providerRetries
  ChatTargets,  \* plainChatProviderTargetLimit
  MaxRequests   \* bound: requests of a run

ASSUME ChainAssumption ==
  /\ MaxTargets \in Nat \ {0} /\ MaxRetries \in Nat
  /\ ChatTargets \in Nat \ {0} /\ MaxRequests \in Nat

VARIABLES
  chain,     \* the routes of the run: credential of each, retries of each
  start,     \* where this request starts
  attempt,   \* the loop variable
  rejected,  \* credentials that were refused
  tried,     \* the routes tried, and how they answered
  outcome,   \* of this request: open, answered, denied, refused, late, exhausted
  requests

chainVars == <<chain, start, attempt, rejected, tried, outcome, requests>>

\* ok; no usable content, timeout of the attempt or a transient error; 401 or
\* 403; any other error.
Answers == {"ok", "again", "denied", "refused"}

ChainRoutes == 0..(Len(chain.creds) - 1)
CredOf(t) == chain.creds[t + 1]

\* Positions are routes, and what was rejected was tried.
ChainTypeOK ==
  /\ chain.creds \in Seq(Credentials) /\ chain.retries \in Seq(0..MaxRetries)
  /\ Len(chain.creds) \in 1..MaxTargets /\ Len(chain.retries) = Len(chain.creds)
  /\ start \in ChainRoutes /\ attempt \in Nat /\ requests \in 0..MaxRequests
  /\ outcome \in {"open", "answered", "denied", "refused", "late", "exhausted"}
  /\ \A i \in 1..Len(tried) : tried[i].route \in ChainRoutes /\ tried[i].answer \in Answers
  /\ rejected = {CredOf(tried[i].route) : i \in {j \in 1..Len(tried) : tried[j].answer = "denied"}}

Smaller(m, n) == IF m < n THEN m ELSE n

\* boundedProviderTargets: plain chat uses the first few routes, once each.
Bounded(creds, retries, chat) ==
  LET n == IF chat THEN Smaller(Len(creds), ChatTargets) ELSE Len(creds)
  IN [creds |-> SubSeq(creds, 1, n),
      retries |-> [i \in 1..n |-> IF chat THEN 0 ELSE retries[i]]]

ChainInit ==
  /\ \E n \in 1..MaxTargets, chat \in BOOLEAN :
       \E creds \in [1..n -> Credentials], retries \in [1..n -> {0, MaxRetries}] :
         chain = Bounded(creds, retries, chat)
  /\ start = 0 /\ attempt = 0 /\ rejected = {} /\ tried = <<>>
  /\ outcome = "open" /\ requests = 0

OwnRetries == chain.retries[start + 1] + 1
\* As many attempts as the first route may have, and at least one round.
TotalAttempts == Smaller(Max({Len(chain.creds), chain.retries[start + 1] + 1}), Len(chain.creds) + 4)

Route == (start + attempt) % Len(chain.creds)

\* The attempt goes to waste.
Skip ==
  /\ outcome = "open" /\ attempt < TotalAttempts
  /\ CredOf(Route) \in rejected
  /\ attempt' = attempt + 1
  /\ UNCHANGED <<chain, start, rejected, tried, outcome, requests>>

\* Less than two seconds are left of the budget of the step.
OutOfTime ==
  /\ outcome = "open" /\ attempt < TotalAttempts
  /\ CredOf(Route) \notin rejected /\ tried # <<>>
  /\ outcome' = "late"
  /\ UNCHANGED <<chain, start, attempt, rejected, tried, requests>>

\* A second refused credential, or no other one, ends the request.
NoMoreCredentials(refused) ==
  Cardinality(refused) >= 2 \/ \A t \in ChainRoutes : CredOf(t) \in refused

Try(answer) ==
  /\ outcome = "open" /\ attempt < TotalAttempts
  /\ CredOf(Route) \notin rejected
  /\ tried' = Append(tried, [route |-> Route, answer |-> answer])
  /\ rejected' = IF answer = "denied" THEN rejected \cup {CredOf(Route)} ELSE rejected
  /\ attempt' = attempt + 1
  /\ outcome' = CASE answer = "ok" -> "answered"
                  [] answer = "again" -> "open"
                  [] answer = "denied" -> IF NoMoreCredentials(rejected') THEN "denied" ELSE "open"
                  [] answer = "refused" -> "refused"
  /\ UNCHANGED <<chain, start, requests>>

Exhaust ==
  /\ outcome = "open" /\ attempt = TotalAttempts
  /\ outcome' = "exhausted"
  /\ UNCHANGED <<chain, start, attempt, rejected, tried, requests>>

\* The next request of the run starts at the route that answered.
NextRequest ==
  /\ outcome = "answered" /\ requests < MaxRequests
  /\ requests' = requests + 1
  /\ start' = tried[Len(tried)].route
  /\ attempt' = 0 /\ rejected' = {} /\ tried' = <<>> /\ outcome' = "open"
  /\ UNCHANGED chain

ChainNext == Skip \/ OutOfTime \/ (\E answer \in Answers : Try(answer)) \/ Exhaust \/ NextRequest

ChainSpec == ChainInit /\ [][ChainNext]_chainVars

\* A chain that gives up as exhausted has tried every route whose credential
\* was not refused, wherever it started and whatever it skipped; a refused
\* credential costs one request, a second one is the last, and a chain makes
\* at most four requests more than it has routes.  ("One hop to a target with
\* a different credential pair is allowed; a second rejected credential ends
\* the request immediately.")
RoutesCovered ==
  /\ outcome = "exhausted" =>
       \A t \in ChainRoutes : CredOf(t) \in rejected \/ \E i \in 1..Len(tried) : tried[i].route = t
  /\ \A i, j \in 1..Len(tried) : i < j /\ tried[i].answer = "denied" =>
       CredOf(tried[j].route) # CredOf(tried[i].route)
  /\ Cardinality(rejected) >= 2 => outcome = "denied"
  /\ Len(tried) <= Len(chain.creds) + 4
=============================================================================
