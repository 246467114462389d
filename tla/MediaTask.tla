----------------------------- MODULE MediaTask ------------------------------
(***************************************************************************)
(* A costly media operation of a run: its step in the task graph           *)
(* (task_graph.go), the member's daily quota (media_quota.go), the         *)
(* checkpointed generate-and-check loop (media_quality.go) and the tasks of *)
(* the video provider (video_runtime.go).  One action is one write of the  *)
(* database or one call of the provider, since a worker may stop between   *)
(* any two of them.                                                        *)
(***************************************************************************)
EXTENDS Naturals, FiniteSets, Sequences

CONSTANTS
  Runs,       \* runs of one member with one costly operation each
  Videos,     \* those whose operation is a video; the others make an image
  Checked,    \* those whose results are assessed (mediaQualityEnabled)
  Ops,        \* operation ids: the digest of what a call asks for
  Routes,     \* the video routes (base, model) that may be configured
  Days,
  Limits,     \* the daily limits an administrator may set, any time
  MaxClaims,                         \* bounds: claims of each run,
  MaxFaults, MaxCrashes              \* failing writes, restarts

NoOp == "no op"

ASSUME MediaAssumption == /\ NoOp \notin Ops
                          /\ Videos \subseteq Runs /\ Checked \subseteq Runs
                          /\ Days \subseteq Nat \ {0} /\ 1 \in Days
                          /\ Limits \subseteq Nat /\ Limits # {}
                          /\ MaxFaults \in Nat /\ MaxCrashes \in Nat

VARIABLES
  run,        \* agent_runs.state
  step,       \* agent_task_steps of the operation: status and output
  quality,    \* the media_quality receipt, NoQuality while there is none
  video,      \* video[r][op][a]: the media_generation receipt of an attempt
  holder,     \* what the goroutine that executes r holds
  made,       \* made[r][a]: generations the provider accepted (environment)
  used, reserved,         \* media_quota_usage by day
  today,                  \* the day in Shanghai
  charged,                \* how often a run was charged
  claims, faults, crashes

tables == <<run, step, quality, video>>
quota == <<used, reserved, charged>>
bounds == <<claims, faults, crashes>>
mediaVars == <<run, step, quality, video, holder, made, used, reserved,
               today, charged, claims, faults, crashes>>

Tries == {1, 2}
NoQuality == [op |-> NoOp, gens |-> <<>>, checks |-> <<>>, results |-> 0, selected |-> 0]
NoVideo == [phase |-> "none", route |-> "none"]
Idle == [at |-> "idle", op |-> NoOp, attempt |-> 1, day |-> 0, routes |-> {},
         route |-> "none", answer |-> "none"]

\* The other runs were cancelled before anyone claimed them.
MediaStart(cast, spent) ==
  /\ run = [r \in Runs |-> IF r \in cast THEN "queued" ELSE "cancelled"]
  /\ step = [r \in Runs |-> [status |-> "none", result |-> 0]]
  /\ quality = [r \in Runs |-> NoQuality]
  /\ video = [r \in Runs |-> [op \in Ops |-> [a \in Tries |-> NoVideo]]]
  /\ holder = [r \in Runs |-> Idle]
  /\ made = [r \in Runs |-> [a \in Tries |-> 0]]
  /\ used = [d \in Days |-> 0] /\ reserved = [d \in Days |-> 0]
  /\ today = 1
  /\ charged = [r \in Runs |-> 0]
  /\ claims = [r \in Runs |-> 0] /\ faults = spent /\ crashes = 0

MediaInit ==
  \E cast \in SUBSET Runs, spent \in 0..MaxFaults : MediaStart(cast, spent)

At(r, place) == holder[r].at = place
Goto(r, place) == holder' = [holder EXCEPT ![r].at = place]
Answer(r, word) == holder' = [holder EXCEPT ![r].at = "answer", ![r].answer = word]
Receipt(r) == video[r][holder[r].op][holder[r].attempt]
SaveReceipt(r, receipt) ==
  video' = [video EXCEPT ![r][holder[r].op][holder[r].attempt] = receipt]
SaveQuality(r, receipt) == quality' = [quality EXCEPT ![r] = receipt]

-----------------------------------------------------------------------------
(* The step of the task graph around the operation.                        *)

\* A receipt of the run that says how far its generation got.
Checkpoint(r) == \/ quality[r] # NoQuality
                 \/ \E op \in Ops, a \in Tries : video[r][op][a] # NoVideo

Uncertain(r) == step[r].status = "running" /\ ~ Checkpoint(r)

Take(r, op) ==
  /\ run[r] = "queued" /\ claims[r] < MaxClaims[r]
  /\ run' = [run EXCEPT ![r] = "running"]
  /\ claims' = [claims EXCEPT ![r] = @ + 1]
  /\ holder' = [holder EXCEPT ![r] = [Idle EXCEPT !.at = "open", !.op = op]]
  /\ UNCHANGED <<step, quality, video, made, quota, today, faults, crashes>>

\* A finished operation is not executed again, nor one whose end is unknown.
OpenStep(r) ==
  /\ At(r, "open")
  /\ \/ /\ step[r].status = "succeeded"
        /\ Goto(r, "done") /\ UNCHANGED step
     \/ /\ Uncertain(r)
        /\ Goto(r, "lost") /\ UNCHANGED step
     \/ /\ step[r].status # "succeeded" /\ ~ Uncertain(r)
        /\ step' = [step EXCEPT ![r].status = "running"]
        /\ Goto(r, "reserve")
  /\ UNCHANGED <<run, quality, video, made, quota, today, bounds>>

\* finishTaskStep; when it fails the step stays as it is.
FinishStep(r) ==
  /\ At(r, "finish")
  /\ step' = [step EXCEPT ![r] = [status |-> "succeeded", result |-> quality[r].selected]]
  /\ Goto(r, "done")
  /\ UNCHANGED <<run, quality, video, made, quota, today, bounds>>

FailStep(r) ==
  /\ At(r, "failed")
  /\ step' = [step EXCEPT ![r] = [status |-> "failed", result |-> 0]]
  /\ Goto(r, "lost")
  /\ UNCHANGED <<run, quality, video, made, quota, today, bounds>>

\* The goroutine settles the run, unless it was cancelled meanwhile.  A result
\* whose artifacts cannot be recorded fails the run as well.
EndRun(r) ==
  /\ holder[r].at \in {"done", "lost"}
  /\ \E end \in {"delivered", "failed"} :
       /\ At(r, "lost") => end = "failed"
       /\ run' = [run EXCEPT ![r] = IF @ = "running" THEN end ELSE @]
  /\ holder' = [holder EXCEPT ![r] = Idle]
  /\ UNCHANGED <<step, quality, video, made, quota, today, bounds>>

\* retryTask: what failed becomes pending, the media receipts stay.
RetryMedia(r) ==
  /\ run[r] = "failed" /\ ~ Uncertain(r)
  /\ run' = [run EXCEPT ![r] = "queued"]
  /\ step' = IF step[r].status \in {"failed", "running"}
             THEN [step EXCEPT ![r] = [status |-> "pending", result |-> 0]] ELSE step
  /\ UNCHANGED <<quality, video, holder, made, quota, today, bounds>>

\* Where the context of the run is used; the books have one of their own.
Cancellable == {"resume", "attempt", "generate", "answer", "check", "assess", "submit",
                "create", "accepted", "rejected", "poll"}

\* cancelRun closes the run and cancels the context of its worker; what is
\* already on its way to the books goes on.
CancelMedia(r) ==
  /\ run[r] \in {"queued", "running"}
  /\ run' = [run EXCEPT ![r] = "cancelled"]
  /\ step' = IF step[r].status \in {"pending", "running"}
             THEN [step EXCEPT ![r].status = "cancelled"] ELSE step
  /\ holder' = IF holder[r].at \in Cancellable THEN [holder EXCEPT ![r].at = "release"] ELSE holder
  /\ UNCHANGED <<quality, video, made, quota, today, bounds>>

-----------------------------------------------------------------------------
(* The quota around the generation.                                        *)

\* The upsert of reserveSubject: the first row of a day only asks for a limit.
HasQuota(d, limit) == IF used[d] + reserved[d] = 0 THEN limit > 0
                      ELSE used[d] + reserved[d] < limit

\* The configuration is read once: the member may be spared then.
Reserve(r) ==
  /\ At(r, "reserve")
  /\ \/ /\ run[r] = "running"
        /\ Goto(r, "resume") /\ UNCHANGED reserved
     \/ /\ run[r] = "running" /\ \E limit \in Limits : HasQuota(today, limit)
        /\ reserved' = [reserved EXCEPT ![today] = @ + 1]
        /\ holder' = [holder EXCEPT ![r].at = "resume", ![r].day = today]
     \/ /\ run[r] = "cancelled" \/ \E limit \in Limits : ~ HasQuota(today, limit)
        /\ Goto(r, "failed") /\ UNCHANGED reserved
  /\ UNCHANGED <<tables, made, used, charged, today, bounds>>

\* A reservation belongs to the day it was made on, however late it ends.
Today(r) == today
DayOf(r) == holder[r].day

Reserved(r) == holder[r].day # 0 /\ reserved[DayOf(r)] > 0

ChargeExempt(r) ==
  /\ At(r, "charge") /\ holder[r].day = 0 /\ Goto(r, "finish")
  /\ UNCHANGED <<tables, made, quota, today, bounds>>

Commit(r) ==
  /\ At(r, "charge") /\ Reserved(r)
  /\ reserved' = [reserved EXCEPT ![DayOf(r)] = @ - 1]
  /\ used' = [used EXCEPT ![DayOf(r)] = @ + 1]
  /\ charged' = [charged EXCEPT ![r] = @ + 1]
  /\ holder' = [holder EXCEPT ![r].at = "finish", ![r].day = 0]
  /\ UNCHANGED <<tables, made, today, bounds>>

\* The deferred release; its error is dropped, and the reservation with it.
ReleaseTo(r, left) ==
  /\ At(r, "release")
  /\ reserved' = left
  /\ holder' = [holder EXCEPT ![r].at = "failed", ![r].day = 0]
  /\ UNCHANGED <<tables, made, used, charged, today, crashes, claims>>

Release(r) == /\ ReleaseTo(r, IF Reserved(r)
                              THEN [reserved EXCEPT ![DayOf(r)] = @ - 1] ELSE reserved)
              /\ UNCHANGED faults

LoseRelease(r) == faults < MaxFaults /\ ReleaseTo(r, reserved) /\ faults' = faults + 1

-----------------------------------------------------------------------------
(* The loop of executeMediaQuality over its receipt.                       *)

OtherOperation(r) == quality[r].op \notin {NoOp, holder[r].op}

\* What the receipt of an earlier execution allows.
ResumeQuality(r) ==
  /\ At(r, "resume")
  /\ \/ quality[r].selected # 0 /\ Goto(r, "charge")
     \/ quality[r].selected = 0 /\ OtherOperation(r) /\ Goto(r, "release")
     \/ quality[r].selected = 0 /\ ~ OtherOperation(r) /\ Goto(r, "attempt")
  /\ UNCHANGED <<tables, made, quota, today, bounds>>

Fresh(r) == Len(quality[r].gens) < holder[r].attempt

StartAttempt(r) ==
  /\ At(r, "attempt") /\ Fresh(r)
  /\ SaveQuality(r, [quality[r] EXCEPT !.op = holder[r].op,
                       !.gens = Append(@, "started"), !.checks = Append(@, "pending")])
  /\ Goto(r, "generate")
  /\ UNCHANGED <<run, step, video, made, quota, today, bounds>>

\* An image whose generation was started and never answered is not made again.
AnyKind(r) == TRUE
Resumable(r) == r \in Videos

ReopenAttempt(r) ==
  /\ At(r, "attempt") /\ ~ Fresh(r)
  /\ LET a == holder[r].attempt
     IN  Goto(r, CASE quality[r].gens[a] = "failed" -> "release"
                   [] quality[r].gens[a] # "failed" /\ quality[r].results >= a -> "check"
                   [] quality[r].gens[a] # "failed" /\ quality[r].results < a ->
                        IF Resumable(r) THEN "generate" ELSE "release")
  /\ UNCHANGED <<tables, made, quota, today, bounds>>

\* Whether the provider was unavailable only matters to a correction.
Errors(r) == IF holder[r].attempt = 2 THEN {"refused", "unavailable"} ELSE {"refused"}

GenerateImage(r) ==
  /\ At(r, "generate") /\ r \notin Videos
  /\ \/ Answer(r, "artifact") /\ made' = [made EXCEPT ![r][holder[r].attempt] = @ + 1]
     \/ \E word \in Errors(r) \cup {"empty"} :
          /\ Answer(r, word)
          /\ made' \in {made, [made EXCEPT ![r][holder[r].attempt] = @ + 1]}
  /\ UNCHANGED <<tables, quota, today, bounds>>

\* The appearance or the task changed before the generation, or after it.
AppearanceChanged(r) ==
  /\ \/ At(r, "generate") /\ Answer(r, "refused")
     \/ At(r, "charge") /\ Goto(r, "release")
  /\ UNCHANGED <<tables, made, quota, today, bounds>>

\* Only a correction that could not be made leaves the first result.
KeepsFirst(r) == /\ holder[r].answer = "unavailable"
                 /\ holder[r].attempt = 2 /\ quality[r].results = 1

HandleAnswer(r) ==
  /\ At(r, "answer")
  /\ LET a == holder[r].attempt
         failed == [quality[r] EXCEPT !.gens[a] = "failed"]
     IN  \/ /\ holder[r].answer = "artifact"
            /\ SaveQuality(r, [quality[r] EXCEPT !.gens[a] = "completed", !.results = @ + 1])
            /\ Goto(r, "check")
         \/ /\ KeepsFirst(r)
            /\ SaveQuality(r, [failed EXCEPT !.checks[a] = "unverified", !.selected = 1])
            /\ Goto(r, "charge")
         \/ /\ holder[r].answer \in {"refused", "unavailable"} /\ ~ KeepsFirst(r)
            /\ SaveQuality(r, IF r \in Videos THEN quality[r] ELSE failed)
            /\ Goto(r, "release")
         \/ /\ holder[r].answer = "empty"
            /\ Goto(r, "release") /\ UNCHANGED quality
  /\ UNCHANGED <<run, step, video, made, quota, today, bounds>>

StartCheck(r) ==
  /\ At(r, "check") /\ quality[r].checks[holder[r].attempt] = "pending"
  /\ SaveQuality(r, [quality[r] EXCEPT !.checks[holder[r].attempt] = "check_started"])
  /\ Goto(r, "assess")
  /\ UNCHANGED <<run, step, video, made, quota, today, bounds>>

Verdicts(r) == IF r \in Checked THEN {"passed", "failed", "unverified"} ELSE {"unverified"}

\* assessMediaQuality: a verdict, or an artifact that is not valid.
Assess(r) ==
  /\ At(r, "assess")
  /\ \/ \E verdict \in Verdicts(r) :
          /\ SaveQuality(r, [quality[r] EXCEPT !.checks[holder[r].attempt] = verdict])
          /\ Goto(r, "check")
     \/ /\ r \in Checked
        /\ SaveQuality(r, [quality[r] EXCEPT !.gens[holder[r].attempt] = "failed",
                                             !.checks[holder[r].attempt] = "unverified"])
        /\ Goto(r, "release")
  /\ UNCHANGED <<run, step, video, made, quota, today, bounds>>

EitherResult(r) == Tries
\* Two failed results: the closer one, which the issue counts decide.
Selectable(r) == LET a == holder[r].attempt
                 IN  IF a = 2 /\ quality[r].checks[2] = "failed" THEN Tries ELSE {a}

Select(r) ==
  /\ At(r, "check") /\ quality[r].checks[holder[r].attempt] # "pending"
  /\ IF holder[r].attempt = 1 /\ quality[r].checks[1] = "failed"
     THEN /\ holder' = [holder EXCEPT ![r].at = "attempt", ![r].attempt = 2]
          /\ UNCHANGED quality
     ELSE /\ \E a \in Selectable(r) : SaveQuality(r, [quality[r] EXCEPT !.selected = a])
          /\ Goto(r, "charge")
  /\ UNCHANGED <<run, step, video, made, quota, today, bounds>>

-----------------------------------------------------------------------------
(* One attempt at a video: a task of the provider and its receipt.         *)

\* The routes that are enabled right now are read when the attempt starts.
OpenVideo(r) ==
  /\ At(r, "generate") /\ r \in Videos
  /\ \E enabled \in SUBSET Routes : LET phase == Receipt(r).phase
     IN  \/ phase = "completed" /\ Answer(r, "artifact")
         \/ phase \in {"creating", "failed"} /\ Answer(r, "refused")
         \/ phase = "accepted" /\ Receipt(r).route \in enabled /\ Goto(r, "poll")
         \/ phase = "accepted" /\ Receipt(r).route \notin enabled /\ Answer(r, "refused")
         \/ /\ phase \in {"none", "rejected"}
            /\ holder' = [holder EXCEPT ![r].at = "submit", ![r].routes = enabled]
  /\ UNCHANGED <<tables, made, quota, today, bounds>>

\* The receipt says "creating" before the provider is asked.
SubmitVideo(r) ==
  /\ At(r, "submit")
  /\ IF holder[r].routes = {}
     THEN \E word \in Errors(r) : Answer(r, word) /\ UNCHANGED video
     ELSE \E route \in holder[r].routes :
            /\ SaveReceipt(r, [phase |-> "creating", route |-> route])
            /\ holder' = [holder EXCEPT ![r].at = "create", ![r].route = route,
                                        ![r].routes = @ \ {route}]
  /\ UNCHANGED <<run, step, quality, made, quota, today, bounds>>

\* An answer that does not exclude that the task exists ends the attempt.
CreateVideo(r) ==
  /\ At(r, "create")
  /\ \/ Goto(r, "accepted") /\ made' = [made EXCEPT ![r][holder[r].attempt] = @ + 1]
     \/ Goto(r, "rejected") /\ UNCHANGED made
     \/ \E word \in Errors(r) :
          /\ Answer(r, word)
          /\ made' \in {made, [made EXCEPT ![r][holder[r].attempt] = @ + 1]}
  /\ UNCHANGED <<tables, quota, today, bounds>>

KeepCreated(r) ==
  /\ holder[r].at \in {"accepted", "rejected"}
  /\ SaveReceipt(r, [phase |-> holder[r].at, route |-> holder[r].route])
  /\ Goto(r, IF At(r, "accepted") THEN "poll" ELSE "submit")
  /\ UNCHANGED <<run, step, quality, made, quota, today, bounds>>

PollVideo(r) ==
  /\ At(r, "poll")
  /\ \/ \E word \in Errors(r) : Answer(r, word) /\ UNCHANGED video
     \/ SaveReceipt(r, [Receipt(r) EXCEPT !.phase = "failed"]) /\ Answer(r, "refused")
     \/ SaveReceipt(r, [Receipt(r) EXCEPT !.phase = "completed"]) /\ Answer(r, "artifact")
  /\ UNCHANGED <<run, step, quality, made, quota, today, bounds>>

-----------------------------------------------------------------------------
(* What goes wrong.                                                        *)

\* A write that fails is an error of the whole operation: nothing is stored.
Writing == {"attempt", "answer", "check", "assess", "submit", "accepted", "rejected", "poll"}

WriteFails(r) ==
  /\ faults < MaxFaults /\ faults' = faults + 1
  /\ \/ holder[r].at \in Writing \cup {"charge"} /\ Goto(r, "release")
     \/ holder[r].at \in {"open", "finish", "failed"} /\ Goto(r, "lost")
  /\ UNCHANGED <<tables, made, quota, today, claims, crashes>>

\* recoverInterruptedRuntime leaves costly steps and receipts as they are; the
\* quota store drops all reservations.
RestartMedia ==
  /\ crashes < MaxCrashes /\ crashes' = crashes + 1
  /\ holder' = [r \in Runs |-> Idle]
  /\ run' = [r \in Runs |-> IF run[r] = "running" THEN "queued" ELSE run[r]]
  /\ reserved' = [d \in Days |-> 0]
  /\ UNCHANGED <<step, quality, video, made, used, charged, today, claims, faults>>

NextDay ==
  /\ today + 1 \in Days /\ today' = today + 1
  /\ UNCHANGED <<tables, holder, made, quota, bounds>>

MediaStep(r) ==
  \/ \E op \in Ops : Take(r, op)
  \/ OpenStep(r) \/ FinishStep(r) \/ FailStep(r) \/ EndRun(r)
  \/ RetryMedia(r) \/ CancelMedia(r)
  \/ Reserve(r) \/ ChargeExempt(r) \/ Commit(r) \/ Release(r) \/ LoseRelease(r)
  \/ ResumeQuality(r) \/ StartAttempt(r) \/ ReopenAttempt(r) \/ GenerateImage(r)
  \/ AppearanceChanged(r) \/ HandleAnswer(r) \/ StartCheck(r) \/ Assess(r) \/ Select(r)
  \/ OpenVideo(r) \/ SubmitVideo(r) \/ CreateVideo(r) \/ KeepCreated(r) \/ PollVideo(r)
  \/ WriteFails(r)

MediaNext == \/ \E r \in Runs : MediaStep(r)
             \/ RestartMedia \/ NextDay

MediaSpec == MediaInit /\ [][MediaNext]_mediaVars

-----------------------------------------------------------------------------
(* Properties.                                                             *)

Places == {"idle", "open", "reserve", "resume", "attempt", "generate", "answer", "check",
           "assess", "submit", "create", "accepted", "rejected", "poll", "charge",
           "finish", "release", "failed", "done", "lost"}
Phases == {"none", "creating", "rejected", "accepted", "completed", "failed"}

\* Every table and every worker has its type, a receipt has as many checks as
\* generations and no more than two, and only results can be selected.
MediaTypeOK ==
  /\ run \in [Runs -> {"queued", "running", "delivered", "failed", "cancelled"}]
  /\ \A r \in Runs :
       /\ step[r].status \in {"none", "pending", "running", "succeeded", "failed", "cancelled"}
       /\ step[r].result \in 0..2
       /\ quality[r].op \in Ops \cup {NoOp}
       /\ Len(quality[r].gens) \in 0..2 /\ Len(quality[r].checks) = Len(quality[r].gens)
       /\ quality[r].results \in 0..Len(quality[r].gens)
       /\ quality[r].selected \in 0..quality[r].results
       /\ \A op \in Ops, a \in Tries : /\ video[r][op][a].phase \in Phases
                                          /\ video[r][op][a].route \in Routes \cup {"none"}
       /\ holder[r].at \in Places /\ holder[r].day \in Days \cup {0}
       /\ holder[r].routes \subseteq Routes

\* Through crashes, failing writes, retries and duplicate calls, the provider
\* generates at most once for a request and once to correct it, and a result
\* that was handed over stays (saveMediaReceipt before every call).
Promise == INSTANCE MediaPromise WITH result <- [r \in Runs |-> step[r].result]
KeepsPromise == Promise!PromiseSpec

\* Whoever works on a reservation of a day still has it in the table, after a
\* restart as well, so that a finished result can always be charged; and used
\* and reserved pieces of a day never exceed the highest limit that was ever
\* set, whatever runs end after it was lowered or the day has changed.
QuotaKept ==
  \A d \in Days :
    /\ Cardinality({r \in Runs : holder[r].day = d}) <= reserved[d]
    /\ \E limit \in Limits : used[d] + reserved[d] <= limit

\* SYSTEM_GUIDE.md:325: a member's quota is charged once per request.
ChargedOnce == \A r \in Runs : charged[r] <= 1
=============================================================================
