---------------------------- MODULE ProviderHealth ----------------------------
(***************************************************************************)
(* Whether an endpoint is routed to (recordProviderHealth): the periodic   *)
(* worker and an operator's test check it, and a check reads the row of    *)
(* the endpoint and its last sample, writes the row and then a sample.     *)
(***************************************************************************)
EXTENDS Integers, Sequences

CONSTANTS
  Checkers,    \* the worker and tests of an operator
  RemoveAfter, \* failures in a row that take the endpoint out
  MaxChecks    \* bound: samples since a disturbance, and failures counted

ASSUME HealthAssumption == RemoveAfter \in Nat \ {0} /\ MaxChecks \in Nat \ {0, 1}

VARIABLES
  row,        \* model_health: routed, consecutive_failures
  last,       \* whether there is a sample and the newest was a success
  checks,     \* what each checker has found and read
  since       \* history: what checks made one at a time found, in order, since
              \* the last check that was disturbed or left no sample

healthVars == <<row, last, checks, since>>

\* What is put in the place of a row that could not be read.
NoRow == [routed |-> TRUE, failures |-> 0]
NoCheck == [at |-> "idle", healthy |-> FALSE, routed |-> FALSE, failures |-> 0,
            alone |-> FALSE]

\* The row, the history and the checks have their shape.
HealthTypeOK ==
  /\ row \in [routed : BOOLEAN, failures : Nat] /\ last \in BOOLEAN
  /\ since \in Seq(BOOLEAN) /\ Len(since) <= MaxChecks
  /\ checks \in [Checkers -> [at : {"idle", "read", "last", "write", "sample"},
                              healthy : BOOLEAN, routed : BOOLEAN, failures : Nat,
                              alone : BOOLEAN]]

\* An endpoint without a row is routed to, as if it had been found healthy.
HealthInit ==
  /\ row = NoRow /\ last = FALSE /\ since = <<TRUE, TRUE>>
  /\ checks = [c \in Checkers |-> NoCheck]

\* The provider answers the probe.
Probe(c, healthy) ==
  /\ checks[c].at = "idle" /\ Len(since) < MaxChecks /\ row.failures < MaxChecks
  /\ checks' = [checks EXCEPT ![c].at = "read", ![c].healthy = healthy]
  /\ UNCHANGED <<row, last, since>>

Within(c) == checks[c].at \in {"last", "write", "sample"}
FailuresKept(c, found) == IF checks[c].healthy THEN found.failures ELSE found.failures + 1
FailuresAfter(c, found) == IF checks[c].healthy THEN 0 ELSE found.failures + 1

\* The row is read, and taken for a healthy one if that fails; a failure may
\* take the endpoint out, a success that finds it out has to look at the last
\* sample.  The check disturbs those it overlaps, and they disturb it.
ReadRow(c, found) ==
  /\ checks[c].at = "read" /\ found \in {row, NoRow}
  /\ LET failures == FailuresAfter(c, found) IN
       checks' = [d \in Checkers |->
         IF d # c THEN [checks[d] EXCEPT !.alone = FALSE]
         ELSE [checks[c] EXCEPT
           !.at = IF checks[c].healthy /\ ~ found.routed THEN "last" ELSE "write",
           !.failures = failures,
           !.routed = found.routed /\ (checks[c].healthy \/ failures < RemoveAfter),
           !.alone = found = row /\ \A e \in Checkers : ~ Within(e)]]
  /\ UNCHANGED <<row, last, since>>

\* Two successes in a row bring it back; a sample that cannot be read, or was
\* pruned, does not.
ReadSample(c, back) ==
  /\ checks[c].at = "last" /\ back \in {last, FALSE}
  /\ checks' = [checks EXCEPT ![c].at = "write", ![c].routed = back,
                              ![c].alone = @ /\ back = last]
  /\ UNCHANGED <<row, last, since>>

WriteHealth(c) ==
  /\ checks[c].at = "write"
  /\ row' = [routed |-> checks[c].routed, failures |-> checks[c].failures]
  /\ checks' = [checks EXCEPT ![c].at = "sample"]
  /\ UNCHANGED <<last, since>>

WriteSample(c) ==
  /\ checks[c].at = "sample" /\ Len(since) < MaxChecks
  /\ last' = checks[c].healthy
  /\ since' = IF checks[c].alone THEN Append(since, checks[c].healthy) ELSE <<>>
  /\ checks' = [checks EXCEPT ![c] = NoCheck]
  /\ UNCHANGED row

\* A write fails, or the process stops in the middle of a check.
CheckBreaksOff(c) ==
  /\ checks[c].at # "idle"
  /\ checks' = [checks EXCEPT ![c] = NoCheck]
  /\ since' = IF checks[c].at = "sample" THEN <<>> ELSE since
  /\ UNCHANGED <<row, last>>

\* An operator reports a sample, which leaves the row alone.
ReportSample(healthy) ==
  /\ last' = healthy /\ since' = <<>>
  /\ checks' = [c \in Checkers |-> [checks[c] EXCEPT !.alone = FALSE]]
  /\ UNCHANGED row

HealthNext ==
  \/ \E c \in Checkers :
       \/ \E healthy \in BOOLEAN : Probe(c, healthy)
       \/ \E found \in {row, NoRow} : ReadRow(c, found)
       \/ \E back \in {last, FALSE} : ReadSample(c, back)
       \/ WriteHealth(c) \/ WriteSample(c) \/ CheckBreaksOff(c)
  \/ \E healthy \in BOOLEAN : ReportSample(healthy)

HealthSpec == HealthInit /\ [][HealthNext]_healthVars

\* The findings that end at i are n of one kind.
InARow(i, n, healthy) == i >= n /\ \A k \in (i - n + 1)..i : since[k] = healthy

\* Failures in a row take the endpoint out until two successes in a row, and
\* those bring it back until such failures.
FailedLast ==
  \E i \in 1..Len(since) :
    /\ InARow(i, RemoveAfter, FALSE)
    /\ \A k \in (i + 1)..Len(since) : ~ InARow(k, 2, TRUE)
RecoveredLast ==
  \E i \in 1..Len(since) :
    /\ InARow(i, 2, TRUE)
    /\ \A k \in (i + 1)..Len(since) : ~ InARow(k, RemoveAfter, FALSE)

\* Checks that overlap, reads and writes that fail and samples that an operator
\* reports may leave the endpoint wrongly in or out, but not for longer than it
\* takes to fail three times or succeed twice in a row without a further such
\* disturbance: then, whenever no check is between its two writes, the endpoint
\* is out after the former and routed to after the latter, whatever the row and
\* the samples were before.  (SYSTEM_GUIDE.md: "three consecutive failures
\* remove, two consecutive successes restore".)
RoutedBySamples ==
  (\A c \in Checkers : checks[c].at # "sample") =>
    /\ FailedLast => ~ row.routed
    /\ RecoveredLast => row.routed
=============================================================================
