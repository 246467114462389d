---------------------------- MODULE MediaPromise ----------------------------
(***************************************************************************)
(* What a costly media task promises the account that pays for it, without *)
(* receipts, reservations, restarts or retries: the provider is made to    *)
(* generate at most once for the request and at most once more to correct  *)
(* it, and the task has one result, which is one of those and stays.       *)
(***************************************************************************)
EXTENDS Naturals

CONSTANT Runs

VARIABLES made,     \* made[r][a]: what the provider generated for attempt a of r
          result    \* result[r]: the attempt that was handed over, 0 for none

promiseVars == <<made, result>>

Attempts == {1, 2}

PromiseInit == /\ made = [r \in Runs |-> [a \in Attempts |-> 0]]
               /\ result = [r \in Runs |-> 0]

Generate(r, a) == /\ made[r][a] = 0 /\ result[r] = 0
                  /\ a = 2 => made[r][1] = 1
                  /\ made' = [made EXCEPT ![r][a] = 1]
                  /\ UNCHANGED result

HandOver(r, a) == /\ result[r] = 0 /\ made[r][a] = 1
                  /\ result' = [result EXCEPT ![r] = a]
                  /\ UNCHANGED made

PromiseNext == \E r \in Runs, a \in Attempts : Generate(r, a) \/ HandOver(r, a)

PromiseSpec == PromiseInit /\ [][PromiseNext]_promiseVars
=============================================================================
