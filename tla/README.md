# erdai-agent in TLA+

A verification project for the Go runtime of erdai-agent (`src/go`): a chat
agent that answers in group and private conversations of many platforms, runs
costly media tasks, and keeps everything in one SQLite database. This file
says what the parts of the system are, which of them are modelled and how,
what TLC checks, and what TLAPS proves.

## 1. The system

One Go process. One SQLite database in WAL mode, opened with
`SetMaxOpenConns(1)` (`runtime.go:277`), so transactions are serial and each
is atomic; what is *not* atomic is a sequence of them. On top of it:

| Component | Where | State | Operations | Interacts with |
|---|---|---|---|---|
| Admission | `runtime.go:1075`, `task_intent.go:166` | rows of `agent_runs`, task id and revision | accept an event, open a task, follow up, revise, coalesce a burst | platform connectors call it; wakes workers |
| Run queue and workers | `runtime.go:1719-1990` | run states; two worker goroutines | claim, generate, finish, cancel, retry, retire | reads the queue, calls models and tools, writes the outbox |
| Reply outbox | `runtime.go:2992-3539` | `agent_deliveries` | enqueue progress and terminal rows, lease, ACK, FAIL | workers write, connector loops lease |
| Connector delivery | `platform_connector.go:134-260` | receipts in `platform_sent_deliveries`, `platform_sent_delivery_parts` | lease one row, check its task, send it part by part, keep receipts, ACK or FAIL | the outbox, external platforms |
| Task graph | `task_graph.go` | `agent_task_steps` | begin, finish, claim an operation, resume, retry | tools, media operations |
| Durable jobs | `durable_jobs.go` | `durable_jobs` | create, change the goal, transition, reconcile, claim, run, heartbeat, finish | a worker loop, a reconciler, the management API; synthetic rows of `agent_runs` |
| Event intake | `runtime.go:1075-1700`, `group_participation.go:92` | `agent_runs`, `participationMu` | fold a burst, let one unasked reply through, insert | connectors call it from many goroutines |
| Agent loop | `tool_runtime.go:188-500`, `task_model_checkpoint.go` | `agent_task_steps` of the run | plan, save the plan, announce, execute tools, keep receipts, resume | models, tools, run state |
| Points | `points_accounts.go`, `points_orders.go`, `affiliate_*.go` | accounts, identities, ledger, orders, bindings | link identities, merge accounts, check in, bind, award, reserve, settle, refund | chat commands, site plugins, the invite service |
| Media quota | `media_quota.go` | usage per day and kind, reservations | reserve, commit, release | media tools |
| Media quality, video | `media_quality.go`, `video_runtime.go` | receipts in `agent_task_steps` | generate, assess, correct, submit, poll | external generators |
| Search | `tool_runtime.go:1840` | `agent_search_queries` | claim a query, store, count | tools |
| Provider routing and health | `tool_runtime.go:700-900`, `provider_health.go` | failure counts, samples | try a chain of routes, check, route | model calls, operators |
| Media directory | `media_gc.go` and the writers of file names | files on disk, six tables that name them | store, record, hand on, collect | intake, tasks, deliveries, personas |
| Memory | `memory_*.go` | `agent_memories`, cached vectors | capture, remember, correct, trim, prune, recall, forget | agent loop, embedding service |
| Inbound connectors | `*_connector.go` | offset, sync buffer, sequence numbers, claims of events | poll, resume, acknowledge, answer webhooks | platforms, event intake |
| Private bots | `private_bots.go` | bots, keys, selections | create, edit, archive, select, resolve | management clients, event intake |
| Realtime | `realtime.go` | sessions, sequence numbers, sockets | register, read, acknowledge, accept a text, deliver | desktop clients, outbox |
| Personas, knowledge, skills, MCP, visual direction, configuration, management API, web UI | many files | their own tables | CRUD, conversions and I/O | see section 7 |

### What is hard

The database makes every transaction atomic, so the hard behaviour sits
between transactions: a worker generates for minutes while its run is
cancelled, superseded by a correction or retried; a connector sends while its
lease runs out; the process stops anywhere; a retry deletes rows a connector
holds; a month-old intent is retired; a file is handed from one table to the
next while the collector reads them; a query to an embedding service outlives
the row it was about. `PROJECT.json` lists every such hazard
at its line with the properties that would catch it going wrong.


## 2. Plan

The order follows what members and operators would notice first. Everything in
the table is done.

| # | Module | Models | Relation to the others |
|---|---|---|---|
| 1 | `Outbox` | `agent_runs` and `agent_deliveries` and every transaction that moves a row of either | - |
| 2 | `ConversationFeed` | what the outbox promises a conversation, without leases, attempts or runs | `Outbox` refines it (`Feed == INSTANCE ... WITH`) |
| 3 | `DurableJobs` | long-lived jobs, their worker, and the synthetic runs the message runtime sees | recovery and claim of `agent_runs` |
| 4 | `DeliveryWorkers` | the connector loops: lease, send part by part, keep receipts, ACK or FAIL, crash in between | extends `Outbox`; a consumer becomes a process |
| 5 | `RunQueue` | the two statements of the claim, lanes, progress, silence, cancellation, restart | details the claim of `Outbox` |
| 6 | `Intake` | folding of bursts and the gate of unasked replies, between calls and workers | comes before the claim |
| 7 | `AgentLoop` | saved plans, contracts and tool receipts of a run that may be taken up again | inside one claim of `RunQueue` |
| 8 | `MediaTask`, `MediaPromise` | quota, receipts, checks, corrections and videos of a costly operation; what it promises the account that pays | `MediaTask` refines `MediaPromise` (`KeepsPromise`) |
| 9 | `PointsLedger` | identities, merges, check-ins, orders, invite awards | - |
| 10 | `SearchQueries`, `ProviderChain`, `ProviderHealth` | the budget of searches; which route is tried next; whether an endpoint is routed to | called by the agent loop |
| 11 | `MediaFiles`, `Memory` | the collector against the writers of names; the facts of a member and the searches over them | - |
| 12 | `Inbound`, `PrivateBots`, `Realtime` | the ways in and out: connectors by discipline, who answers a conversation, one gateway session | before `Intake`, beside `DeliveryWorkers` |

`MCServices`, `MCTasks`, `MCLiveness` and `MCConnectors` put small instances of
several of these side by side. Proof modules carry the name of what they prove
about: `OutboxProofs` (with the refinement of the feed), `ConnectorsProofs`
(`DeliveryWorkers`, `Realtime` and `MCConnectors`),
`QueuesProofs` (`RunQueue`, `DurableJobs` and `Inbound`), `TasksProofs` (`Intake`,
`MediaTask` with its promise, and `MCTasks`), `AgentLoopProofs`,
`ServicesProofs` (`SearchQueries`, `MediaFiles`, `PointsLedger`,
`ProviderHealth`, `ProviderChain`, `Memory`, `PrivateBots`) and
`CompositionProofs` (`MCServices`). `Rows` has the two operators on tables whose
order matters that `Memory` and `PrivateBots` share, and `NumberSets` the lemmas
about least and greatest numbers, ranks, rows and sums the proofs lean on. All
modules are written to be proved about: constants with named assumptions, one
action per transaction or handler, no `RECURSIVE`.

What could follow: pairing, revocation and presence of devices; the ordering of
routes by score.

## 3. How the model corresponds to the code

### Outbox

One action is one transaction of the code, because the database has one
connection. `PROJECT.json` maps each definition to its lines.

| Model | Code |
|---|---|
| `runs[r].state`, `.input`, `.retired`, `.task`, `.rev` | `agent_runs.state`, `input_cipher IS NOT NULL`, the intent's expiry, `task_id`, `task_revision` |
| `working` | the goroutines of `worker()` between `processNext`'s claim and its outcome |
| `outbox[d]`, `d` the rowid order; `nrows` | `agent_deliveries`; a row that `retryTask` deletes stays as `deleted`, so that its place is never used again |
| `lease`, `wait` and `Tick` | `lease_expires_at`, `next_attempt_at` and the clock, as countdowns |
| `AcceptChat`, `AcceptNewTask`, `AcceptFollowUp`, `AcceptRevision`, `CoalesceRun` | `acceptTransportEventWithTrust`, `admitTaskIntentTx`, `coalesceQueuedWakeRuns` |
| `ClaimRun`, `AdoptTask`, `EnqueueProgress`, `EnqueueTerminal`, `FinishWithoutDelivery`, `RestoreFails`, `AbandonRun` | `processNext`, `ensureToolTaskIntent`, `enqueueDelivery`, `finishRunWithoutDelivery` |
| `CancelRun`, `RetryTask`, `RestoreInput`, `Retire`, `Restart` | `cancelRun`, `retryTask`, `resumeTaskAfterContinue`, `pruneTaskIntentMetadata`, `recoverInterruptedRuntime` |
| `Lease` (its three statements are `Doomed`, `Expired`, `Ready`), `Ack`, `Fail` | `leaseTransportDeliveries`, `ackTransportDelivery`, `failTransportDelivery` |

A receipt is any (owner, attempts) pair a consumer may hold, however late, and
`NoReceipt` is what a caller without lease fields sends. What a worker generates
is irrelevant to these tables, so `EnqueueTerminal` picks any number of segments,
any delay and success or failure. The lane gate of the claim is left out
(it gives way after ten minutes, so every order is possible); `RunQueue`
models it. `Retire` is disabled while a worker holds a run of the same task: a
retired intent is 30 days old and a continuable one at most six hours.

### DeliveryWorkers

The module extends `Outbox` and replaces its anonymous consumers by the four
goroutines of `platformConnectorManager.Start`, which share the lease owner
`erdai-go-platforms`.

| Model | Code |
|---|---|
| `loops[l]` | a `deliveryLoop` goroutine inside `deliverPending`: the next call it makes (`step`), the row it leased and the attempt number of its lease (`row`, `turn`), the part `Deliver` is at, what is left of the 270 s of its context |
| `partSent`, `rowSent` | `platform_sent_delivery_parts`, `platform_sent_deliveries` |
| `seen`, `late` | what the platform has and what a loop was told (`posted`: nothing; `unnamed`: sent, in an answer without a message id; `confirmed`): bookkeeping of the environment, no table |
| `LeaseRow`, `LeaseNothing`, `CheckRow`, `EnsureRow` | the top of `deliverPending`: `leaseTransportDeliveries(..., 1, 300)`, `platformDeliveryWasSent`, `platformRoute`, `ensureDeliveryTaskCurrent` |
| `CheckPart`, `EnsurePart`, `KeepPart` | `deliverPart` of the QQ connector, the one that keeps part receipts (`Tracked`) |
| `Post`, `Refuse`, `LoseAnswer` | the call to the platform, which takes the part, refuses it, or answers too late |
| `Answer`, `AnswerUntracked` | `recordTaskOutboundMessage` in `saveTaskOutboundReceipt` (`Uncertain` = `qq_sent_receipt_uncertain`); `Deliver` of Telegram and the others |
| `MarkRow`, `AckRow`, `FailRow`, `Unreported` | `markPlatformDeliverySent`, `ackDelivery`, `failDelivery`, whose errors are only logged |
| `Crash`, `TimePasses` | a restart with `recoverInterruptedRuntime`; the clock, which also counts down the deadlines |

`giveup` is a FAIL with `retryable` false, `fail` one with true. An attachment
is checked once more between its upload and its message; the model has the later
of the two looks. `retryTask` deletes the part receipts of the rows it deletes;
as such a row is never leased again, the model keeps them. Not modelled: a
platform that goes on processing a message after the client's deadline, and
database calls around a send that together take longer than the 30 s between
the deadline and the end of the lease; either would let two sends of a
conversation overlap.

### DurableJobs

| Model | Code |
|---|---|
| `jobs[j]` | a row of `durable_jobs`: `status`, `goal_cipher`, `requires_approval`, a plan with an interval, `next_run_at` (`NoTime` = NULL), `attempts`, `lease_expires_at`, `lease_owner IS NOT NULL`. `approved` is read off `durable_job_events`: an approval of the present goal |
| `worker` | what `runOneDurableJob` holds, as read when it claimed |
| `runs[j][a]` | the `agent_runs` row `durable-job:<id>:<attempts>` |
| `shown[j][a]` | how often that row was executed |
| `CreateJob`, `UpdateGoal`, `Transition` | `createDurableJob`, `updateDurableJobGoal`, `transitionDurableJob` |
| `Reconcile` | `reconcileDurableJobs`, one transaction over all due rows |
| `Claim`, `StartJob`, `OpenRun`, `Heartbeat`, `FinishJob`, `CloseRun`, `LoseJob` | `claimDurableJob`, `setDurableJobRunning`, `durableJobRunRecord`, `heartbeatDurableJob`, both transactions of `finishDurableJob`, any of them failing |
| `Restart`, `Rerun`, `RerunEnds` | `recoverInterruptedRuntime`, and `processNext` on the synthetic row |

A goal is a member of a small set; being risky or periodic (`durableJobNeedsApproval`,
`durableJobPlanFromGoal`) is a property of the goal. The statuses
`checkpointed`, `waiting_external` and `failed` are in the code's tables but no
code writes them, so they are left out.

### RunQueue

| Model | Code |
|---|---|
| `queue[r]` | `agent_runs.state`, whether a progress row that is not cancelled exists, whether `updated_at` is ten minutes old |
| `hands[w]` | a goroutine of `worker()`: has looked, has claimed, works with a registered context, or with a cancelled one |
| `overtook` | history: runs queued between the look and the claim of another worker |
| `EnqueueRun`, `Retry`, `Cancel`, `Recover` | the insert of the intake, `retryTask`, `cancelRun`, `recoverInterruptedRuntime` |
| `Look`, `TakeRun`, `Register` | the SELECT and the UPDATE of `processNext`, `taskRunContext` |
| `AnnounceRun`, `Finish`, `LoseOutcome`, `Stop` | `enqueueDelivery` of progress, the outcome of a run, a failing write of it, a context that was cancelled |
| `FallSilent` | the clock `LaneFree` compares `updated_at` with |

Runs are numbered by `created_at`, which is read before the row is inserted, so
they are inserted in any order.

### Intake

`turns` are the rows of `agent_runs` (a run is named by its event), `calls` the
calls of `acceptTransportEventWithTrust` in progress, `busy` is
`participationMu`. A call runs `Receive` (the duplicate check), `Gather` and
`Fold` (the SELECT and the UPDATEs of `coalesceQueuedWakeRuns`), `EnterGate` or
`TurnedAway` (`admitProactiveRun`), `Stamp`, `Insert`, `Returns`; each is one
statement or transaction, and other calls and the workers (`ClaimTurn`,
`SettleTurn`, `Requeue`, `Reboot`) come in between. Who is addressed, what is a
trifling message and how many messages fit a batch are constants.

### AgentLoop

`plans` and `receipts` are the rows of kind `model` and `tool` of a run in
`agent_task_steps`, `loop` what `runAgentLoopWithTargets` holds, `settings` the
configuration a plan depends on (`taskModelContract`). `Restore` and
`OpenRequest` are `prepareTaskModelStep`; `PlanArrives`, `NotPlanned`,
`SavePlan`, `StepWriteFails` the answer of the model and `finishTaskModelStep`;
`Announce` the progress row; `Reuse`, `OpenTool`, `Execute`, `StoreResult` are
`executePersistentToolCall`. `effects` counts executions and `causes` notes why
a saved plan may be unusable: both are history. Costly tools resume by rules of
their own and are `MediaTask`.

### MediaTask and MediaPromise

| Model | Code |
|---|---|
| `run`, `step` | `agent_runs.state`, the row of the operation in `agent_task_steps` |
| `quality[r]`, `video[r][op][a]` | the `media_quality` and `media_generation` receipts |
| `holder[r]` | the goroutine that executes the tool |
| `used`, `reserved`, `today`, `charged` | `media_quota_usage`, the reservations, the day in Shanghai, history of charges |
| `made` | what the provider generated, external |
| `OpenStep`, `Reserve`, `StartAttempt`, `ReopenAttempt`, `HandleAnswer`, `StartCheck`, `Assess`, `Select` | `executePersistentOperation`, `reserveSubject`, the loop of `executeMediaQuality` |
| `OpenVideo`, `SubmitVideo`, `CreateVideo`, `KeepCreated`, `PollVideo` | `generateVideoAttempt`, `createVideoTask` |
| `Commit`, `Release`, `LoseRelease`, `FinishStep`, `FailStep`, `EndRun` | `executeQuotaMedia` and the ends of the operation and of its run |
| `WriteFails`, `RestartMedia`, `CancelMedia`, `RetryMedia`, `NextDay` | a failing receipt, `recoverInterruptedRuntime`, `cancelRun`, `retryTask`, the clock |

Every receipt is written before the call it is about, so each write and each
call is an action. `MediaPromise` knows only generations and the result.

### PointsLedger

`Canonical` follows the redirections of merged accounts as
`pointsCanonicalAccount` does (two hops stand for its 64, since one is always
enough: `MergesFlat`); entries of the ledger stay
with the identity that earned them and a balance is their sum over the account's
identities. `LinkIdentity`, `MergeAccounts`, `CheckIn`, `ReserveOrder`,
`ResolveOrder`, `Bind`, `ApproveOwner`, `Credit` are one transaction each;
`AskBind`, `AskSync`, `Answered`, `Unanswered` are the requests to the invite
service, kept in flight in `asked`, and may be answered in any order;
`RestartPoints` is the migration at startup.

### SearchQueries, ProviderChain, ProviderHealth

`SearchQueries`: the rows of `agent_search_queries` of a run, the queries the
concurrent callers hold, what was sent in this execution. `BeginSearch` counts
and inserts in one transaction, `FinishSearch`, `FinishFails`, `RestartSearches`
and `RetrySearches` follow. `ProviderChain`: one iteration of the loop in
`chatCompletionWithTargets` is `Try` or `Skip`; `OutOfTime`,
`NoMoreCredentials` and `Exhaust` are its exits. `ProviderHealth`: `ReadRow`,
`ReadSample`, `WriteHealth`, `WriteSample` are the four statements of
`recordProviderHealth`, run by the worker and by operators' tests at once. Each
read has two outcomes, what is there and what the code puts in the place of a
failed read: a healthy row without failures (`NoRow`), a sample that failed.
`ReportSample` is the sample an operator posts. `since` is history: what checks
found, in order, since the last that overlapped another, was misled by a failed
read or left no sample; only checks made one at a time are appended.

### MediaFiles

`disk` and `old` are the directory, `rows[f]` the tables with a row naming `f`,
`gc` the collector: phase, tables read, names found, candidate. `ReadTable` is
one SELECT of `protectedMediaFiles`, in its order; `ListFiles`,
`TakeCandidate`, `Spare` and `Collect` the scan with its second look.
`SaveFile`, `RecordFile`, `RecordFails`, `Remember`, `Forget`, `EndTask`,
`EndDelivery`, `RetryWithFile`, `SwitchReference`, `DropReference`,
`RemoveReference` are the transactions of the writers that move a name from one
table to another.

### Memory

`facts` are the rows of one scope in the order of `updated_at`, `vectors` the
embeddings cached for them, `searches` the calls of `searchMemories` in
progress. `Capture`, `RememberFact`, `AddByHand`, `Correct`, `Delete`, `Prune`
are transactions; `Embedded`, `StoreVector`, `Match`, `Check` and `Answer` the
steps of a search around the call of the embedding service. What text states is a
constant (`Statements`, `KeyOf`, `Says`).

### Inbound

One behaviour is about one of eight connectors, one for each way of confirming
messages: Telegram (an offset in memory), personal WeChat (a saved buffer),
Satori and KOOK (a number to resume at; `kook_gateway` is KOOK with a configured
gateway URL, which `resolveGateway` uses without the number), Slack (an acknowledgement of each
envelope), LINE and the official QQ bot (a webhook, QQ with a claim of the
event). `Poll`, `HandleNext`, `Read`, `Connect`, `Disconnect`, `Post`,
`AnsweredWell`, `AnsweredBadly`, `ClaimExpires`, `RestartInbound` are the
handlers; what the platform still keeps is external. `TellNumber` is the number
Satori's READY and META announce, which is stored whatever was read. `missed` is
history: the messages let go by a restart, by a connection without a number, and
by one with a number ahead of them.

### PrivateBots

`bots`, `byKey`, `selections` are `private_bots`, `private_bot_idempotency` and
the active rows of `private_bot_sessions`; `clerks` what requests have read
(`BeginCreate`, `BeginUpdate`, `CheckUpdate`, `BeginSelect`) and are about to
write (`Create`, `Update`, `Archive`, `Select`). `Resolved` is
`resolveAgentInstance`.

### Realtime

| Model | Code |
|---|---|
| `client`, `live`, `reader` | `hub.clients` of the session, sockets that are open, the goroutine of each |
| `last`, `accepted`, `answered` | `last_client_sequence`, texts that have a run, texts the device was told are accepted |
| `Connect`, `Leave`, `ReadNext` | `register`, `unregister`, the loop of `handleWebSocket` |
| `ClaimNumber` (`Advances`), `HandleAck`, `AcceptText`, `TextFails` | `handleEvent` with `claimSequence` and `acceptText` |
| `WriteReply`, `Await`, `AckTimeout` | `Deliver` |
| `Say`, `Vanish`, `Outage` | the device and its connection, external |

`presence.update` and `speech.finished` claim numbers as acknowledgements do and
have no action of their own. The device repeats texts that were not answered, in
their order, when it connects anew.

## 4. What TLC checks

| Run | Instance | Distinct states | Shows |
|---|---|---|---|
| `outbox` | two runs of one member in one group with two rows, or one run with up to four rows and three leases | 414,199 | a run is answered once per attempt, its state tells what members saw, a dead one is never sent, rows are final in order, the outbox refines `ConversationFeed` |
| `workers_parts` | one loop and one run, of a connector with part receipts or of one without: a row of three parts, three attempts, two faults | 435,312 | no row delivered that was not sent, confirmed parts go once, except the one of section 6, a withdrawn row stops after the part on its way, every row is settled |
| `connectors` | two interchangeable loops and two rows, retries slower than the segments; or two sockets, three events, two outages of a gateway session | 616,078 | one sender per conversation, rows shown in order; no accepted text and no reply is lost |
| `liveness` | two jobs of different priority, the less urgent one never paused, cancelled or gated; or two messages of one conversation and two workers | 73,800 | leases end, the most urgent queued job is taken, no queued run waits for ever |
| `tasks` | five messages of two members with two calls at a time; or a video, an image, and two images of one member | 597,550 | each message answered by one run and none lost, one unasked reply at a time; one generation per attempt, one result, the quota |
| `services` | one of: orders, invites, agent loop, searches, route chain, health, files, one durable job with three goals, facts, recall, inbound, bot requests, bot selections, two queued runs | 611,278 | the properties of each of these, below |
| `jobs_stuck`, `jobs_rerun`, `workers_receipt`, `media_charged`, `intake_duplicate`, `bots_scope` | the smallest instance of their module | stop at the violation | the disagreements of section 6 |

In `services`: balances never negative (`NoOverdraft`), orders and refunds booked
once (`OrdersBooked`), an invitee paid for once (`OwnersPaidOnce`), one check-in
a day per account (`CheckInOnce`); tools and promises only on a saved plan
(`PlanBeforeEffects`), saved steps stay (`SavedStepsStay`) and are taken up again
(`PlansResume`); `SearchesBounded`; a chain that is exhausted has tried every
route whose credential was not refused, and no refused credential twice
(`RoutesCovered`); three failures in a row take an endpoint out and two successes
in a row bring it back, whatever overlapping checks, failed reads and writes and
reported samples did before (`RoutedBySamples`; seven findings hold a
removal, a recovery and failures after it); a file that a task, a pending delivery or a
persona names is never removed (`WantedFilesStay`); `ApprovalGate` and `OwnExecution` of jobs; two workers
generate for one conversation only if one run was queued between the other's
look and claim (`OneGeneration`); one fact per key (`OneFactPerKey`); a current fact
is not replaced by an older statement, and nothing withdrawn is told or cached
(`OldWordsStayOut`); messages are lost
only where the connector's way of confirming them lets it, among them what came
while a socket connected without its number or with one that ran ahead
(`LossesExplained`);
the selection made last decides who answers (`SelectionDecides`).

Every property of a passing run has a mutant in `PROJECT.json`, an operator of
the module that changes one mapped definition the way a slip in that code
would; TLC finds the property violated with it.

### Merged runs

`outbox`, `connectors`, `liveness`, `tasks` and `services` choose their question
or part in the initial state, and only that part moves. The parts share no
table, so the states of the run are the sum, not the product, of those of its
parts, and nothing a part can do alone is left out.

### Bounds and why they are enough

- `NumRuns`, `MaxRows`, `MaxSegments`, `MaxBatch`: a property of the outbox
  relates at most two runs or two rows of a conversation; the question
  `segments` lets a third and a fourth row be in between. `workers_parts` is about
  the parts of one row, `connectors` about two rows.
- `LeaseCap`, `AttemptCap`: the code does not bound leases or claims; the bound
  lets a row be leased once more after its last attempt, and a job be claimed
  after every kind of end (`services` has jobs claimed twice, `liveness` more
  often). In `workers_parts` `LeaseCap` is `MaxAttempts +
  MaxFaults`, so no bound keeps a row from being leased again.
- `MaxFaults`, `MaxCrashes`, `MaxMishaps`, `MaxTroubles`, `MaxHitches`,
  `MaxErrors`, `MaxOutages` bound restarts, failing writes and operator
  actions. One or two let a fault meet the repair of an earlier one; a fault
  leaves no trace but the rows the next step reads.
- `NumParts` of three lets a part with a receipt, one without and one not yet
  sent meet in one row; `SendTime` is one below `LeaseTime`, as 270 s are below
  300 s. Timers are countdowns of one or two units: only "live", "expired" and
  the order of two timers matter.
- `BatchSize` 3 with at most three messages of a member: a batch gets full.
  `MaxCopies` 2: an event is repeated once.
- `tasks`: a run may be claimed twice (one retry or restart with a resumption);
  the pair of images is there for the quota and is only disturbed by restarts,
  and `Limits` of 0 and 1 let the limit be lowered below what is reserved.
- `NumIdentities` 3 with `MaxMerges` 2: two chained redirections. `MaxPaid` 2
  with a rate of 1 and `MaxInFlight` 2: an old and a new answer cross. Orders run
  with one request for one invitee, invites without orders: the two meet only
  in the sum of the ledger.
- `Budget` 3 with four queries and two callers: the budget runs out with both at
  work. `MaxTargets` 3 with `MaxRetries` 6: more attempts than routes and fewer.
- `MaxFacts` 2 of three statements: trimming happens. `recall` writes at most two
  rows and has one searcher, `facts` writes three and has none.
- `NumMessages` 3, `MaxErrors` 3: a message before, between and after two
  failures.
- `MaxNumber` 3 and two sockets: two texts with an acknowledgement between them,
  repeated on a new socket while the goroutine of the old one is still at work.
- The passing runs and some violation runs say `CHECK_DEADLOCK FALSE`: with every run
  accepted, every row settled and every fault spent the instance is done.
  The theorems of section 5 hold without any of these bounds.

### Fairness

`workers_parts` assumes `WF(LoopStep(l))` of each loop, which polls on a ticker
for as long as the process lives and whose calls to platforms end with their
context (`platform_connector.go:171-183`, `223`), and `WF(TimePasses)`, since
time passes. Nothing is assumed of the runs, of the platform's answers, of
receipts or reports being written. Without a bound on faults a row may be lost
again and again; `RowsSettle` is about finitely many. `DurableJobs` assumes
`WF(Reconcile)` and `WF(WorkerStep)`, run by tickers of 15 and 2 seconds
(`durable_jobs.go:761-790`), and the model and tool calls of an execution have
timeouts; and `WF(Tick)`. Nothing is assumed of operators, heartbeats, failing
transactions or restarts. Under these a process may still restart for ever,
which is why `UrgentJobsRun` is about a job below its bound of claims being
taken and not about its success. `RunQueue` assumes `WF(WorkOn(w))` of each
worker, which has a ticker and whose calls have timeouts, and weak fairness of
running rows falling silent, which is the clock; announcements, cancellations,
retries and lost outcomes are free. All other modules state no fairness: their
properties are safety.

## 5. What is proved

TLAPS checks the following for every value of the constants that satisfies the
assumption of the module: `OutboxAssumption`, with `WorkersAssumption` for the loops, `JobsAssumption` and
`NamesAssumption` for the jobs, and `QueueAssumption`, `IntakeAssumption`,
`MediaAssumption`, `AgentAssumption`, `SearchAssumption`, `FilesAssumption`,
`PointsAssumption`, `HealthAssumption`, `ChainAssumption`, `MemoryAssumption`,
`PrivateBotsAssumption`, `RealtimeAssumption` and `InboundAssumption`. They say what the code has by construction: sets of events
and calls are finite, a placeholder such as `NoOp` or `NoEvent` is none of the
values it stands beside, a batch has room for a message. `TasksAssumption` says
of the instance `MCTasks` that the runs it examines are runs and that a message
may come twice. TLC evaluates all of them on the runs.

**Outbox** (`OutboxProofs`). The inductive invariant `IInv` has eleven parts:
the type, what rows and runs have in common (`SettledRowsQuiet`: no lease or
owner on a settled row; `TasksOpened`: tasks are named after a run and its
revision is positive; `RespondingRowsAlive`: the rows of a responding run are
not failed or cancelled), and the safety properties themselves, which need one
another: `AnsweredOnce` needs `LiveRunsKeepInput` to know that a run with rows
has no input, `RunOutcome` needs `RespondingRowsAlive` to see that the last ACK
leaves nothing open, `FifoPerConversation` is preserved by a lease only because
`Ready` looks at the swept table. One lemma per action shows that it keeps `IInv`;
`DeliveredInOrder`, `AnsweredAtMostOnce`, `HeldByOneWorker`, `OutcomeOfRuns`,
`ProgressOnce`, `LiveRunsResumable`, `RetiredRunsStayOut` follow, and the action
properties `SettledRowsStay`, `DeadRunsSilent` from `IInv` and the step.

**Refinement** (last part of `OutboxProofs`). `Spec => Feed!Spec`: initial tables map to
an empty feed, an enqueue posts (and drops what it cancels), an ACK shows, every
other step drops or stutters. The `Show` guard is `FifoPerConversation`.

**Delivery loops** (`ConnectorsProofs`). The loops take only steps of
`Outbox` (`WorkersImplementOutbox`), so its theorems hold of them too.
`WorkersIInv` adds to `IInv` what a loop may rely on. `Holds` says that a busy
loop has the live lease of its row, and that the lease is longer than the time
the loop may still spend (`Margin`): this is where 270 < 300 is used, and why a
shared lease owner does no harm. A loop either holds its row or the row was
withdrawn behind its back; `LoopSound` adds what was sent before the part it is
at, and that a confirmed part has its receipt unless the loop is about to give
the row up. `RowSound` says the same of rows no loop has, `LoopsApart` that no
two loops have one row, and `LeasedInOrder` that a row that was ever handed out
has no open row before it, which carries `FifoPerConversation` through a
requeue. Others disturb a loop in few ways (`Carried`), so one lemma covers all
steps of the runs. `NoTwoSenders`, `DeliveredMeansSent`, `WithdrawnRowsStop`,
`ConfirmedPartsOnce` and `RowsShownInOrder` follow.

**Durable jobs** (`QueuesProofs`). `IInv` adds to the type: `JobsSound` (of
each job: an owner just while it is in hand, and a risky goal without
`requires_approval` was approved), `Followed` (the worker's copy is the latest
claim and, while the job is in hand, its goal), `Numbered` (no synthetic run is
ahead of the attempts) and `Opened` (an execution has its run). `ApprovalGate`,
`OwnExecution` and `FreshAttempt` are not inductive alone: an edit of a job in
hand, for example, keeps `OwnExecution` only because it also takes the job out
of hand. `GateHolds`, `ExecutionsAreTold`, `AttemptsAreFresh`, `JobsTyped` and
`VerdictsHold` follow.

**Run queue** (`QueuesProofs`). `OneGeneration` needs to know what a worker
may conclude from a look that is no longer fresh. `HeldRows`: the row of a run
in a worker's hands is running or over; `HeldOnce`: no two workers hold one run;
`SawTheOldest`: since a worker looked, an older run of the conversation can only
have come; `SawTheLane`: what it saw stands beside a generation only if one of
the two runs came after the look. `GenerationsApart` follows.

**Searches** (`ServicesProofs`). The queries this execution sent
and those whose answer it had are together just the rows that are taken, so the
count in the INSERT of `BeginSearch` bounds what was sent, across restarts and
failing writes. `BudgetHolds` is for any finite set
of queries and any budget, with cardinalities.

**Inbound connectors** (`QueuesProofs`). For the polled connectors: a message
is kept by the platform or settled (`KeptOrSettled`), what the cursor has passed
is at hand or settled (`PassedIsAtHand`), what was saved is settled
(`SavedIsSettled`), messages are handled one by one, and the offset of the next
poll is just before the rest of the batch (`OffsetBefore`). For pushed ones and
the QQ bot: a message is with the platform, with a handler, or dealt with
(`HandedOn`), and a claimed event is at work or taken (`ClaimsBacked`); the number
of a KOOK connection is before everything the platform still keeps
(`NumberBefore`), so nothing is let go by resuming at it, which Satori's announced
numbers do not allow.
`OnlyExplainedLosses` follows for every connector, any number of messages and of
errors.

**Realtime** (`ConnectorsProofs`). The gateway drops a text as old when its number
is not above the last one claimed, and answers it as if it had a run. That is right
only if no higher number can overtake a text that has no run yet, which is what
`RealtimeIInv` carries: on every socket, replaced ones included, a text without an
answer is dealt with or comes before any event with a higher number
(`TextsComeFirst`); the socket the device uses carries all of them
(`SocketCarries`, since it repeats them in order when it connects); and numbers
claimed so far leave none behind (`ClaimedInOrder`). An acknowledgement on a wire
is of a reply that was shown. `WordsAreKept` follows for any number of sockets,
events and outages. Texts that fail, or are cut off by a restart, after their number
was claimed are the exception the property states; see section 6.

**Agent loop** (`AgentLoopProofs`). `PlanBeforeEffects` speaks of tables and the
loop speaks of memory; the invariant connects them: the loop asks with its own
row open (`AsksForItsRow`), acts on the plan that is saved (`ActsOnSavedPlan`),
the tool it executes is open and has no result (`ToolIsOpen`), its history is
that of the saved steps (`KnowsItsHistory`, `SavedInOrder`), and its run is running
or was cancelled behind its back (`WorksOnItsRun`). `EffectsFollowPlans` and
`SavedStepsKept` follow. `InterruptedRunsResume` (`PlansResume`) needs one more
part, `Undisturbed`: while no cause is noted, a saved plan was made from the
settings that still hold and from results that a new execution reads again
unchanged, so the contract of each restored step matches.

**Intake** (`TasksProofs`). The difficulty is that a call decides on what it has
read and acts later. `IntakeIInv` says what it may rely on: a text has one place,
a run or a call, unless an operator queued its run again (`OnePlace`); texts are of
events that have a run, and a call that waits at the gate has none of others
(`TextsKnown`, `CallsInOrder`); while nothing failed and nothing was repeated, each
text is carried by someone (`NothingLost`); who is between the gate and the commit
holds the mutex (`GateHeld`).
`MessagesAnsweredOnce`, `BurstsKeptWhole` and the step property
`UnaskedOneByOne` follow for any events, calls, batch sizes and mishaps.

**Media operations** (`TasksProofs`). `MediaInvariant` relates three writers of
one request: the receipts on disk, the goroutine and the provider. For each place
a goroutine may be at it says what is on disk and what the provider has made; for
a row nobody works on, what a later execution will find. `QuotaIsKept` rests on the
part about reservations: who works on one has it in the table, on the day it was
made. `PromiseIsKept` is the refinement of `MediaPromise`: each step of
`MediaTask` is a generation, a result handed over, or a stutter.

**Media files** (`ServicesProofs`). A file that stays in use while the collector
reads is named in some table at any time (`NamedByItsRow`), and moves only from the
table that is read first to one that is read later. So the collector has either
found its name, or has yet to read the table that names it (`CandidateIsSeen`);
since it reads the tables again for each candidate, `WantedFilesAreKept` follows
for any number of files.

**Points** (`ServicesProofs`). In `PointsIInv` every identity is with a live
account and a merged account redirects to a live one (`AccountsFine`), which a
merge keeps because it moves the members and the older redirections in one
transaction; an order has its debit and, when refunded, its refund, and is with the
account of its member (`OrderEntries`, `OrderAccounts`); check-ins stand with
the account of the member (`CheckInsKnown`); and the awards of a code are apart
and go to accounts that own it (`AwardsApart`, `AwardsOwned`), because a new award
starts at the highest mark of the earlier ones (`HighWaterMark`). `OrdersAreBooked`,
`InviteesPaidOnce`, `MergesStayFlat` and the step property `CheckedInOnce`
follow, for any identities, prices, counts and any order of answers.
`NobodyOverdraws` needs the balances themselves, which are sums over a set of
entries. `NumberSets` proves of such a sum that it is the fold the model uses
(`FoldIsSum`), that one more entry adds its points (`PointsAddUp`) and that the sum
of two disjoint sets is the sum of their sums (`SumOfUnion`), each by taking a
smallest set for which it would fail. The invariant `Funds` says the ledger is
finite and no live or merged account has a negative sum: an order is the only step
that takes points, and it looks at the balance in its own transaction; a merge
adds up the entries of two accounts.

**Health and routes** (`ServicesProofs`). Nothing can be said of the row while
checks disturb each other, so the invariant is about what was found since: the
row agrees with it (`Agrees`), and so does what a check has read and is about to
write, as long as it is alone (`AloneInStep`), and the row between the two writes
of one (`RowInStep`). A success that finds the endpoint out looks at the last
sample, hence the part about it. `RoutingFollowsSamples` follows for every number
of failures that takes an endpoint out.
For a request over routes, each attempt so far had its turn on a route that was
tried or whose credential is refused (`ChainIInv`); since the turns are counted
modulo the number of routes (`EveryRouteHasItsTurn`) and there is at least one
round of them (`AttemptsBounded`), `GivesUpLast` follows.

**Memory** (`ServicesProofs`). In `MemoryIInv` no two rows say the same
(`SaidOnce`), no two current facts have one key (`OneFact`), and a vector belongs
to a row that is there (`VectorsFine`). `FactsAreOne` is a part of it. A search
holds ids and contents it read before the embedding service answered, and may rely
on none of them; `OldWordsOut` is a property of each step: `StoreVector` and
`Check` look at the rows again, and a transaction takes a captured fact out only
for a statement that was made later. It does not say that a statement is gone for
good: once a fact was deleted, its message captured again writes it anew. Rows that are trimmed, pruned or deleted leave the
others as they are: `OnlyThose` in `NumberSets`, from the ranks of the numbers
that stay (`NthHasRank`, `RanksAreApart`).

**Private bots** (`ServicesProofs`). `SelectionDecides` compares what
`resolveAgentInstance` reads from three tables with the selection somebody made
last. `BotsIInv` carries it: an owner has one selection for each place
(`OnePerPlace`), and where a connector has the selections of one owner only, the
bot chosen last is that of the selection for the connector, or of the one for any
connector when there is none (`ChosenHolds`). The condition on the owner is the
one section 6 is about: nothing keeps two owners apart.

**Instances side by side** (`CompositionProofs`, `TasksProofs`,
`ConnectorsProofs`). A behaviour of `MCServices` is one of each of its eleven
parts (`PartsAreImplemented`), one of `MCTasks` is one of `Intake` and of
`MediaTask` (`TasksImplementParts`), one of `MCConnectors` is one of
`DeliveryWorkers` and of `Realtime` (`ConnectorsImplementParts`): initial states
are initial states, and a step is a step of one part while the state of the others
stays. So the initial states the instances choose are ones the parts have, and
everything the runs `services`, `tasks` and `connectors` check, the types
included, is a theorem for every value of the constants: `ServicesAreCorrect`,
`ServicesTypes`, `TasksAreCorrect`, `TasksTypes`, `ConnectorsAreCorrect`. The
last one also says that what the connectors show implements `ConversationFeed`.

Proved but not given a run of their own, since a run could only repeat them on
small instances: `HeldByOneWorker`, `ProgressOnce`, `LiveRunsResumable`,
`RetiredRunsStayOut`, `SettledRowsStay`, `AttemptsAreFresh`, `VerdictsHold`,
`MergesStayFlat` and the types of the parts.

Only model-checked: liveness (`RowsSettle`, `LeasesEnd`, `UrgentJobsRun`,
`QueueDrains`), since the prover has no fairness, and the violations of section 6,
which are about single behaviours. Every invariant and every step property of a
passing run is a theorem.

## 6. Where the code and its words disagree

Each of these has a run that ends in a counterexample.

1. `jobs_stuck`: cancel then retry brings a job that waits for approval into the
   queue with `requires_approval` set; no action gets it out except cancel, pause
   or an edit. The comment at `durable_jobs.go:593` describes that very state.
2. `jobs_rerun`: an interrupted execution is queued again as an ordinary run
   after a restart, although the guide (`SYSTEM_GUIDE.md:376`) says executions
   with an expired lease are not blindly run again.
3. `workers_receipt`: the guide (`SYSTEM_GUIDE.md:89`) says an error of a receipt
   write is logged and never taken for "not sent". For connectors without part
   receipts the failure of `markPlatformDeliverySent` is reported as a retryable
   FAIL, and the confirmed row is sent again. QQ has part receipts; there a part
   whose answer had a message id is sent again only if the process stops or the
   FAIL is lost as well. Without one the loop was told that the part was sent,
   `saveTaskOutboundReceipt` keeps nothing (`qq_official_connector.go:1089`), and an
   error of `markPlatformDeliveryPartSent` (`:1070`) is not a
   `platformDeliveryError`, hence retryable (`platform_connector.go:230`): the
   confirmed part is sent again with no fault at all, against the same line of the
   guide. Both are the conditions in `ConfirmedOnce`.
4. `media_charged`: the charge and the receipt of the operation are two writes;
   a restart between them charges the request again (`SYSTEM_GUIDE.md:325`).
5. `intake_duplicate`: an event repeated while it is being taken in folds its own
   run away, and is answered by none (`README.md:37`, "idempotent event intake").
6. `bots_scope`: two owners can hold one conversation, one for every connection
   and one for a single connection, although the comment at
   `private_bots.go:499` wants the conflict reported.

Smaller ones were met while modelling and have no run of their own.

- Runs. `processNext` looks and claims in two statements (`runtime.go:1748-1784`),
  so a run queued in between may be generated beside a sibling, against the
  comment on one text generation at a time; that is the exception in
  `OneGeneration`. A cancel between the claim and `taskRunContext` does not reach
  the worker's context. A retried run that had announced progress does not hold
  its lane. The stale-reply check counts no pending rows (`runtime.go:3058`).
- Jobs. An operator's retry is accepted for a running job with a live lease
  (`durable_jobs.go:343`). `attempts` counts claims, not failures
  (`durable_jobs.go:981`). The task inbox offers a retry of dead jobs
  (`TaskInboxPage.tsx:187`), which `durableJobTransitionAllowed` refuses.
- Agent loop. A tool that answered `ok: false` is executed again after a restart
  (`task_graph.go:237`); its new answer may make the plan saved after it
  unusable (`task_model_checkpoint.go:97`), where the guide promises resumption
  (`SYSTEM_GUIDE.md:371`). `PlansResume` names this cause.
- Health. Any error of the read of `model_health` is taken for a healthy row
  without failures, which is written back (`provider_health.go:163-167`): an
  endpoint that is out returns with one success, and one with two failures stays in
  after the third, where `SYSTEM_GUIDE.md:251` says three failures remove and two
  successes restore. Overlapping checks may lose a failure as well, and a sample
  an operator reports counts as the first of two successes. `RoutedBySamples`
  bounds how long such a mistake lasts.
- Files. The collector reads the references of personas that are enabled
  (`media_gc.go:333`) and never those of appearance libraries, so both of the
  others may be collected, where `SYSTEM_GUIDE.md:317` says references are
  protected; `WantedFilesStay` leaves these out. A
  remembered document is written to a table the collector has read already.
- Memory. A newer statement that was also written by hand does not replace the
  older automatic record it contradicts (`memory_facts.go:130`, against
  `SYSTEM_GUIDE.md:191`). A
  correction by hand drops the key of the fact. `memory_remember` of a statement
  whose row has expired is lost. Trimming counts expired rows and prefers captured
  ones. Forgetting goes by id, even when the row was rewritten since.
- Bots. A rename that overlaps archiving restores the old status
  (`private_bots.go:410`); activities are changed the same way
  (`private_bots.go:773`, `SYSTEM_GUIDE.md:615`).
- Inbound. The QQ webhook answers 200 to a repeated post while the first one is
  at work, and the message is lost if that one then fails. KOOK with a
  configured gateway URL connects without its number (`kook_connector.go:280-282`)
  and misses what is said between connections, as do the connectors that only read
  a stream. Satori stores the number of READY and META whatever was read
  (`satori_connector.go:182-188`, `202-204`); if it is ahead of unread events, the
  next connection resumes after them. `LossesExplained` names both.
- Gateway. The number of a text is claimed before the text is accepted
  (`realtime.go:511`): when the acceptance fails, the repeated text is answered as
  a duplicate; `WordsKept` exempts just these texts. An acknowledgement
  that arrives between the write and the wait is dropped and the reply sent
  again. A client that was replaced marks the session offline when it leaves. A
  device that was authenticated before a revocation registers after it. Server
  numbers are assigned before the write lock, so events may be written out of
  order.
- WeChat official accounts count a passive reply as sent when the post it answers
  has just given up waiting.

## 7. What is not modelled, and why

`PROJECT.json` lists every component with its files. Not modelled: dialogue and
reply shaping, knowledge, documents and skills, visual direction (pure text,
scores and conversions, where the order of steps hardly matters);
configuration, schema migrations and the management API (CRUD in single
transactions; the handlers that steer jobs, tasks, points, bots and memories are
actions of the modelled components); MCP (request and response, one call at a
time); the web UI, scripts and side containers.

Modelled in part: the task graph (the inbox and the export only read); media
quality and video (scores and wording are an outcome); provider routing (how
routes are ordered by score and cost, and accounting of usage); the gateway
(pairing, revocation, presence, server numbers); memory (relationship counters,
dialogue events, the learning worker, scoring); personas (their files only);
platform adapters (wire formats, sign-in, media, passive replies, and the
connectors that only read a stream); private bots (access lists, activities,
capability manifests).

The modelled code is about an eighth of the implementation. The larger part of
the rest builds prompts, converts formats, edits configuration and talks to
external services; it keeps no state between steps that a model could get into a
wrong order.
