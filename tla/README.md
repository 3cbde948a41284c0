# FabOps Decision Lab: a TLA+ verification project

This directory models the stateful parts of FabOps Decision Lab in TLA+, checks
them with TLC on small instances and proves the most important invariants with
TLAPS for every value of the constants. Every definition that models code is
listed in `PROJECT.json` under `map` with the source lines it translates.

## 1. Inventory: the system and its parts

FabOps watches a (simulated) semiconductor line. A simulator publishes events to
Redpanda; a stream worker ingests them into PostgreSQL, where a detector
materialises *cases*; humans take cases through a workflow; a projection worker
keeps an RCA graph; an intelligence worker trains small models and asks for
narrated assessments through a durable queue served by an inference worker; an
API and a web UI show it all. PostgreSQL is the source of truth.

| Component | State it keeps | Operations | Talks to |
|---|---|---|---|
| **Inference queue** (`adapters/postgres/repository.py`, `migrations/005`, `services/narration/queue.py`) | table of jobs: status, priority, lease, attempts, failures, age, dedupe key | enqueue, recover leases, expire, claim, requeue, finish | API and intelligence worker enqueue; inference worker claims |
| **Inference worker** (`systems/inference_worker`) | the job it claimed | claim, generate, persist plan and report, finish or requeue | queue, narration service, report table |
| **Case workflow** (`services/workflow`, API handlers) | case document and state, decision audit | request evidence, propose, approve, reject, close, time out | case table, shared with the detector |
| **Ingestion** (`services/ingestion`, `systems/stream_worker`, `adapters/redpanda`) | event log, reservations, checkpoint, outbox, quarantine, DLQ, consumer offsets | consume, validate, reserve, append, detect, commit; retry, DLQ | broker, detector, PostgreSQL |
| **Detection** (`services/detection`) | EWMA, anomalies, yields per lot, in memory | consume an event, materialise a case | event log replay at start, case table |
| **RCA projection** (`services/rca`, `adapters/postgres/graph.py`, `adapters/neo4j`, `systems/projection_worker`) | graph, checkpoint | rebuild, rebuild recent, catch up, prune, hydrate a lot | event log (by sequence), API readiness |
| **Narration service and governor** (`services/narration/service.py`, `governance.py`) | brief cache; per provider a rate window, the day's budget, active calls, a circuit | generate over the chain of providers, govern a call | inference worker, API, LLM providers |
| **Narration gateway** (`services/narration/gateway.py`) | a semaphore | admit, load, dispatch, time out | LM Studio, shared with a person |
| **Demo policy** (`services/narration/demo.py`) | counts per session and client | issue, verify and consume a token | API |
| **Learning** (`services/intelligence/service.py`) | outcomes, model registry, predictions, feedback | synchronise outcomes, retrain, promote, predict, judge | event log, registry tables |
| **Assessment reviews** (`systems/intelligence_worker`) | signatures handled, plans, reports | queue a changed case, repeat a report | inference queue, cases, predictions |
| **Cockpit and signals** (`services/decision`, `services/intelligence/decision.py`, `planner.py`) | stored plans; the rest is computed per request | packets, episodes, action queue, signals | cases, graph, predictions |
| **RCA ranking** (`services/rca/ranking.py`) | none | rank the causes of a lot | graph |
| **Reliability primitives** (`services/reliability`) | circuit state, semaphore | guarded call | Neo4j adapter, external advisor |
| **API and runtimes** (`systems/api`) | composed runtime, demo rate limits | HTTP handlers, readiness | everything above |
| **Preview supervisor** (`infra/macmini/fabops_preview_idle_supervisor.py`) | state of the preview stack | activity, wake, sleep, monitor | docker compose |
| **Advisory, prediction backtest, release, observability** | none that outlives a call (telemetry: a recorder) | pure computations | API |
| **Simulator and live worker** | stream position | emit events | broker |
| **Web UI, evaluation, evidence, scripts** | browser state; files | view, offline gates | API, files |

What is hard here, and what each component must get right:

* *Queue and worker.* Leases that run out under a running generation, updates
  keyed by `job_id` alone, three transactions per completion, crashes between any
  two of them, a dedupe index that later updates must also respect. Correct
  means: one active job per key; no finished job without a published answer; the
  attempts bound the failures; a finished job stays finished; every job ends.
* *Workflow.* Every handler is read, check, overwrite, audit in separate
  transactions, in a thread pool, against a document that the detector also
  overwrites. Correct means: an approval covers the proposed action, was proposed
  and is audited; with requests that do not overlap the five-state lifecycle holds.
* *Ingestion and detection.* At-least-once delivery, duplicates, a transaction
  around database writes but not around the detector's memory, sequence numbers
  burnt by rollbacks, two consumer groups in the integration topology. Correct
  means: an event has its effects once; no message is passed over; the detector
  knows what the log says.
* *Projection.* Several autocommitted statements per cycle (read, project, store the
  checkpoint, prune) while the log grows. Correct means: what is below the
  checkpoint, and in the window, has been projected; the checkpoint advances.
* *Graph stores.* One store keeps four indexes by hand, the other is written
  statement by statement by a worker that may die within an event. Correct means:
  both give the same answers.
* *Narration.* Concurrency, rate and budget limits read and written around calls
  that take seconds, with clocks read before the lock; circuits closed by late
  answers; a slot given back under a running generation; a cache that holds what one
  caller could not have. Correct means: a place comes back once, a circuit is open
  exactly as long as its failures say, the model has no more generations than slots as
  far as the gateway can see them, and every call ends in a brief or a deferral.
* *Learning.* A loop of small transactions that may stop anywhere, over a log that
  grows meanwhile; versions that are registered again. Correct means: one champion a
  model, no prediction by a model that has seen the answer, feedback for what can be
  judged.
* *Reviews.* A memory in the process, plans and reports in tables, jobs in the queue,
  and a dashboard that queues jobs too. Correct means: a report was asked for under
  its signature, and a change of an urgent recent case is taken up in the end.
* *Cockpit, ranking, signals.* Pure, but of inputs read at different moments and by
  thresholds of several files. Correct means: what is shown at two places agrees, and
  ids last.
* *Reliability primitives.* A breaker without a lock under several threads. Correct
  means: an open one half-opens in the end.
* *Supervisor.* A state flag written by three threads around minutes-long docker
  operations. Correct means: the flag is true of the containers unless an operation
  will set it again; a wake ends; no page is served without what it needs below it.

The hazards behind this list, each at its line with the properties that would
catch it, are under `hazards` in `PROJECT.json`.

## 2. Plan

Done, the most important behaviour first: `InferenceQueue` with `JobPromise`;
`CaseWorkflow` with `CaseLifecycle`; `IngestionPipeline` with `EventLedger` (it
composes broker, ingestion transaction, detector and case table); `RcaProjection`;
`PreviewSupervisor`. Then what reads the log and the graph, and what asks models:
`NarrationService`, which extends `ProviderGovernor` and is shown to implement it;
`NarrationGateway`; `DemoSession`; `GuardedDependency`; `ContinuousLearning`;
`AssessmentReviews`; and the pure parts `GraphStores`, `LotDiagnosis`,
`IncidentEpisodes` and `DecisionSignals`, each as a function of inputs that several
actors change. Proof modules: one for each of the first four (with the stores in
`RcaProjectionProofs`), `NarrationProofs`, `AccessProofs` (gateway, demo, breaker,
supervisor), `IntelligenceProofs` and `DecisionProofs` (signals, diagnosis, episodes).

Left:

1. Readiness (`systems/api/runtime.py:243`), which compares a sequence with a count, on
   `IngestionPipeline`, whose burnt sequences make the two differ.
2. `AssessmentReviews` composed with `InferenceQueue` through `JobPromise`, in place of
   the jobs it abstracts now.
3. The detector's statistics, Neo4j's Cypher against `GraphStores`, the delivery status
   of an event, and grounding of a brief.

## 3. Modules and the code

### InferenceQueue (abstract: JobPromise)

`job` is the table, a record per row with the columns decisions depend on; time is
counted in ticks and every duration of the code is rounded up. A repository call
is one transaction and one action: `EnqueueInsert` is the
`INSERT ... ON CONFLICT DO NOTHING`, `EnqueueSelect` the query for the conflicting
row in a later snapshot; a worker's cycle is `RecoverLeases`, `ExpireJobs`,
`ClaimJob`, then one of the generation outcomes (`GenerateBusy`,
`GenerateRaised`, `GenerateLocalFailed`, `GenerateLocal`, `GenerateOther`), then
`PersistPlan`, `PersistReport` and `Finish`. A crash or a failed call is `Abort`,
between any two of them. Generation is a choice among what `NarrationService` can
return. Of `plans` only the worker's own write is modelled.

`JobPromise` is what a caller may rely on: open, answered or lapsed, one open
request per key, an answer published before the request counts as answered.
`KeepsPromise` is the refinement.

### CaseWorkflow (abstract: CaseLifecycle)

An operation of `CaseWorkflowService` reads a copy, checks it and prepares a write
(`RequestEvidence`, `ProposeAction`, `Approve`, `Reject`, `Close`,
`CheckTimeouts`), writes it back (`UpsertCase`) and appends to the audit
(`AppendAudit`): three transactions without version or lock. `Fail` ends an
operation between them. `Materialize` is the detector's overwrite of the whole
document. Roles are the names of the code; an action is a model value standing for
type, target and rationale, and `Forbidden` those of a refused type.
`check_timeouts` is called by tests only; it is modelled because it is an operation
of the service. In the database-backed preview every operation is refused
(`systems/api/runtime.py:178`), so this module is about the local and integration
runtimes; `Materialize` and the store exist in all.

### IngestionPipeline (abstract: EventLedger)

Per consumer, `pc` walks through `subscribe_forever`, `_ingest` and the start-up
of `stream_worker/main.py`; the transaction is `Reserve`, `AppendEvent`,
`Project`, `Commit`, or `Rollback`. What other transactions see of an open one is
kept: locks on the event id and on the case, and the sequence drawn, which a
rollback burns. The detector's memory is the sequence of events it consumed, and a
case's evidence that sequence when it was written: what the statistics make of it
is not modelled. `CommitUnacknowledged` is a commit whose acknowledgement is
lost (and any failure in the handler after the commit, such as a failing
`projection.catch_up`). Two deployments are defined in `MCIngestionPipeline`.

`EventLedger` accepts an event once, with its announcement, in one step.

### RcaProjection

The preview's projection worker: `Start` reads the stored checkpoint; `Clear`,
`ReadLots`, `ReadRows`, `ProjectNext`, `ReadLatest`, `PublishRebuild` are
`rebuild_recent`; `Fetch`, `FetchNothing`, `ProjectNext`, `Persist`, `ReadLots`,
`Prune` are `catch_up`. The connection is in autocommit, so rows are appended,
and the worker may crash, between any two of them. A row is its lot, the graph the
set of the rows whose nodes it holds; nodes without a lot are never pruned and are
left out. The stream worker appends rows of lots that are new or in the window:
the simulator releases lots in order, and the window is of at least fifty.

### GraphStores

`memory` is `InMemoryGraphProjection` with its four indexes, `tables` the two tables
of `postgres/graph.py`, and `statements` what a worker in autocommit has still to
write of the event or prune at hand. It may die there: `DieInEvent` projects the event
again, since its checkpoint is before it; after `DieInPrune`, before the first DELETE
or between the two, nothing does the rest, and `torn` keeps the lots whose nodes are
left in the tables, until a prune that runs to its end takes them. An event
brings the nodes and edges `_project_event` makes of it, a prune takes lots. The
queries of `GraphProjectionPort` are asked of both between events. `StoresAgree` says
that they answer alike, but for what a prune that was cut short has left.

### LotDiagnosis

A lot with one of the simulator's six faults, or none, emits its events; detector
and projection read them each at its own pace (`cases`, the graph as the prefix
read). `rank` is translated rule by rule with its scores in hundredths, the
decision packet's boundary, options and recommendation after it. A wafer's yield is
the difference from the threshold, below or above.

### IncidentEpisodes

Cases of a kind (classification, equipment, chamber) appear, are scored again and
closed; episodes, their ids and the action queue are functions of them, as the
cockpit computes them for every request.

### DecisionSignals

Predictions of a case change; the signal and urgency are computed anew, the plan
is stored under the material signature, whose buckets are rounded scores. A local
model may reword a plan's question. Thresholds are those of the files.

### ProviderGovernor and NarrationService

`ProviderGovernor` is `governance.py` per thread: `ReadClock`, then the critical
section that refuses or admits, then the call without the lock, then the outcome and
the release in two further critical sections. The clock was read before the lock was
waited for, so the sequence of admissions is not one of times. `NarrationService`
extends it with `generate`: the chain of providers, refusals, deferral, cache and the
deterministic brief. `NarrationProofs` shows the service an implementation of the
governor (every step is one of the governor's or leaves its variables alone), so what
is proved of the governor holds of the service.

### NarrationGateway

A request takes a slot, checks that LM Studio has no generation active, loads the
model, sleeps, checks again and dispatches its call in a thread; the wait may end first
and gives the slot back while the generation runs on. The person at LM Studio is
another generation, which begins and ends when it likes. Both are external. The checks
may miss a generation that runs (`lsof` or `lms ps` fails) and see one that does not.
`unseen` keeps the requests that sent theirs where the second check missed another;
`GenerationsFitSlots` is about all the others. What the code lets through it does not
forbid: a person's generation that begins after the second check
("closes most of the race", `gateway.py:283`), and as many requests as there are slots
beside it.

### DemoSession

Tokens carry their expiry by the wall clock, counts are kept in windows of the
monotonic clock; a request verifies first and counts under the lock later.

### GuardedDependency

The breaker within the bulkhead, one action per statement that reads or writes the
breaker's fields (`allow` reads `opened_at` twice), for several threads: the class
has no lock. `OpenBreakerRecovers` is about the order of the two writes of a failure
and the three of a success.

### ContinuousLearning

The learning half of `intelligence_worker/main.py`, transaction by transaction:
outcomes of the lots in the log, feedback for predictions, `retrain` of each model
with its promotion gate, `register_model`, predictions for the latest lot. What a
model computes is determined by the outcomes it was trained on, which stand for its
parameters and its version; whether a candidate passes the gate is a choice.
Exceptions end a cycle anywhere, restarts lose the process's memory.

### AssessmentReviews

The review half: the cases of the newest lots (`Recent`, sixteen of them in
`main.py:74`) by priority, their material signature, the plan, the job, the
process's memory of what it handled, and the report repeated when nothing changed.
A case the sixteen exclude is never a candidate, however urgent, and
`ChangesAreTakenUp` says nothing of it. A report is the signature it is stored under.
The queue is what `JobPromise` promises: a job reports or expires. The dashboard's
manual refresh queues jobs of its own scope.

### PreviewSupervisor

`flag` is `_state`; a block under `_lock` is one action (`Activity`, `RequestWake`,
`PostSleep`, `Decide`, `MonitorSleep`), so what an activity or the monitor read may be
stale when it acts. Threads that wait for the operation lock have no state of their
own and are counted. The one that holds it starts or stops a group of containers at
a time; a command may fail, or be cut short by a crash, after any part of its group
(`HalfDone`). "api" stands for the API and the workers started and stopped with it.
Times are ages in ticks of at least 15 s: the persisted activity, which a new
process reads, is up to one tick older than the last (`_persist` skips writes). Containers do not
stop by themselves: docker restarts them. `BootBlind` is a start at which docker
does not answer.

### The MC modules

Each `MC` module gives a component its deployments and sets. Three of them check
several components in one run: `MCNarration` (service with governor, gateway, demo,
dependency), `MCIntelligence` (learning, reviews), `MCRcaProjection` (projection,
stores, diagnosis, episodes, signals). Those components share no variable, in the
model or in the code's processes, so a behaviour moves one of them, its `part`, and
leaves the others at their start: every behaviour of each is explored, and their
product is not.

## 4. Runs, bounds, fairness

| Run | Instance | What it checks |
|---|---|---|
| `queue_single` | 1 worker, 2 jobs, 2 triggers, 1 crash, ticks of 150 s, 3 of them | as deployed, under fairness: `KeepsPromise`, `EndsOrOrphaned` |
| `queue_attempts` | 2 workers, 2 jobs of one key, ticks of 60 s, 7 of them, symmetry | leases lost under a running worker: `ActiveDedupe`, `FailureBudget`, `AttemptIdentifiesClaim` |
| `workflow_races` | 2 handlers, 1 case, 3 actions (1 forbidden), 3 roles, 5 requests, 1 failure, 2 detections, symmetry | what survives overlap: `ApprovalCoversAction`, `ApprovalsAreTraced`, `EscalatedWasOverdue` |
| `workflow_alone` | 1 handler, 2 cases, 5 requests, 1 failure | `FollowsLifecycle` |
| `workflow_detect` | 1 handler, 2 detections | violation of `DetectionKeepsState` |
| `ingest_preview` | 1 consumer, 5 events, 3 messages, 3 errors, 1 crash, fair | `NothingIsSkipped`, `ReadSideFollowsLog`, `KeepsLedger`, `MessagesAreHandled` |
| `ingest_groups` | 2 consumer groups, 2 events, 2 messages, 2 errors, 1 crash | overlapping transactions: `OncePerEvent` |
| `projection_worker` | 3 lots, window 2, batches of 2, 4 rows, 1 crash; stores of 2 lots and 4 events and prunes; a lot of 3 wafers; episodes of 3 lots and 2 kinds, gap and span 1; scores on both sides of every threshold | `WindowIsProjected`, `RowsArrive`; `StoresAgree`; `HoldsAreBacked`, `FaultsAreExplained`; `EpisodesPartitionCases`, `EpisodesAreStable`, `WorstIsQueued`; `SignalIsPlanned` |
| `supervisor` | 4 requests, 2 failed commands, 1 crash, idle window 2 ticks | `IngressOnTop`, `FlagIsTrue`, `WakesEnd` |
| `narration` | 2 callers, 2 providers, threshold 1, cooldown 2, 2 calls; gateway of 3 requests and a person, 2 slots; demo of 1 session, 2 handlers, 1 restart; 3 threads at a bulkhead of 2, threshold 2, 3 failures | `ActiveIsInFlight`, `CircuitMatchesFailures`, `CircuitKeepsOut`, `FallbackHidesNoCloud`, `EveryCallEnds`; `SlotsAreReturned`, `GenerationsFitSlots`; `TokenBuysItsLimit`; `OpenBreakerRecovers` |
| `intelligence` | 14 lots, 13 of them history, 2 wafers, 2 models, 1 failure; 3 cases of which 2 are recent, 2 signatures, 1 reviewed a cycle, 2 events | `OneChampion`, `PredictionIsOutOfSample`, `FeedbackArrives`; `RequestsComeFirst`, `ChangesAreTakenUp` |
| `intelligence_promotion` | 13 lots, 12 of them history | violation of `PromotionIsGuarded` |

Why these bounds are enough. *Queue:* a second job of the same key is what dedupe,
recovery and late requeues need; at 60 s a tick the lease (120 s), the age (300 s)
and the attempts (4) all run out within `MaxTime`, at 150 s the age runs out before
the lease, the case behind `Orphaned`; there is no reference to a third job
or worker in any statement but the claim's order. *Workflow:* five requests are two
full decisions, or one decided over while another is in flight; a forbidden
action, a role of each kind and one without rights are present. *Ingestion:* three
messages are a duplicate and one behind it; two attempts with three errors exhaust
one message and fail a second. Five events give one of each kind. *Projection:*
four rows with batches of two are two batches, or one with rows arriving around a
prune; three lots with a window of two evict one. *Stores:* two lots share the
equipment their nodes hang on; four events are one, a prune that dies, the event of a lot it left and the prune after it.
*Diagnosis:* three wafers are the fewest with a majority against one. *Episodes:* three
lots reach both cuts, at a gap and a span of one. *Signals:* for each target a score on
either side of the thresholds, 66 and 74 among them, which round into one bucket.
*Narration:* with two callers one may wait with an old clock while the other opens,
closes or fills what it is about to ask; a limit of two and a threshold of one make both
reachable. *Gateway:* two slots and three requests are a timed-out generation and one request too
many beside it, with or without a person's. *Demo:* six instants are two lives of a token of two. *Breaker:* three threads are a
late success beside the two failures that open it. *Reviews:* the third case is of the
oldest lot and drops out of sight when the other two exist. *Learning:* `minimum_rows` is 12
as in the code, next-lot targets need a lot more and the lot to be predicted a
fourteenth, so two trainings with different rows happen. *Supervisor:* four requests queue a
wake and a sleep behind a third operation with an activity in between; two failures
leave containers half started and half stopped; the ages reach both windows.
`MaxTime`, `MaxAborts`, `MaxRequests`, `MaxFailures`, `MaxDetections`, `MaxPublished`,
`MaxErrors`, `MaxCrashes`, `MaxRows`, `MaxEvents`, `MaxCalls`, `MaxClock`, `MaxDay`,
`MaxInstant`, `MaxRestarts`, `MaxTicks`, `MaxFailed`, `MaxScore`, and the number of lots and signatures, are bounds
of the model, not of the code; the theorems hold for all their values.
`CHECK_DEADLOCK FALSE` is set where the bounds let the system come to rest
(no message left to publish, no row to append, no request to begin); an idle
worker polls there, which changes nothing.

Symmetry is used in safety runs only.

Fairness. Queue: a worker's loop goes on (`while not stop_event.is_set()`), every
provider call has a timeout, a caller returns, time passes. Ingestion and
projection: the loop of a process goes on and its container is restarted
(`restart: unless-stopped` in `infra/macmini/docker-compose.preview-v07.live.yml`
and `docker-compose.yml`). Narration: the steps of a call its own thread takes
(`CallStep`), which the clients' timeouts justify. Learning and reviews: the worker's
loop goes on, since an exception ends a cycle and not the loop, and the interval
between reviews of a case passes. Supervisor: its threads run, docker commands end (an
assumption on docker, the waits for readiness have a limit), the process is kept
alive by launchd (`com.oosu.fabops-preview-idle-supervisor.plist`); requests are
bounded, since sleeps posted without end could overtake a waiting wake for ever:
the lock is not fair. Nothing that starts work (enqueue, publish, append, a new lot),
and no fault, is fair.

Mutants: each property of a passing run is broken by one faulty variant of a
definition (*Fault:* or *Mutant:* in the modules), such as an expiry that forgets RETRY
rows, a checkpoint stored before its rows, a slot given back by a request that has
none, a version registered without retiring the champion.

## 5. What is proved

For every value of the constants, under the named assumption of each module (sorts
of the bounds, the null values outside their sets, a window and a batch of at
least one). The theorems are about a component's own `Spec`; the runs that bundle
components check the same modules.

* **Queue** (`InferenceQueueProofs`). `TypeCorrect`: types and that a worker in flight
  holds a job (needed for every update by `job_id`). `DedupeCorrect`: inductive with
  types alone, since each statement that makes a row active is refused by the index.
  `ReportCorrect`: needs `FinishingHasReport`, that a worker about to finish has
  published. `AttemptCorrect` and `BudgetCorrect` from `ClaimInv`: the failures counted
  at a job, with the attempts below the maximum that workers in flight still hold
  (`Held`, a finite set since attempts identify claims), are at most `max_attempts - 1`
  and at most the attempts; `StepKinds` reduces the steps to claims, counted failures
  and those that touch neither. `PromiseKept`, the refinement of `JobPromise`, assumes
  one worker: the row of a worker in flight is then running (`InFlightRunning`), and a
  reclaimed or retried row shows no change of state or key.
* **Workflow** (`CaseWorkflowProofs`). `ApprovalCorrect` from `SoundDocuments`, which
  speaks of stored documents and of every write a handler has prepared: a stale copy
  is sound as well. `ApprovalTraced` from `AuditTrail`: a
  stored document is recorded, and a prepared write brings its record.
  `EscalationCorrect` from `EscalatedDocuments`: the sweep writes the copy it judged.
  `LifeFollowed`, the refinement of `CaseLifecycle`, is of any number of handlers and
  detections, in the executions in which no two handlers hold unwritten documents of one
  case (`WritesApart`) and no known case is materialised again (`DetectsAgain`): what is
  prepared then still fits the store when it is written (`Alone`), also in the middle of
  a sweep's list. It shows that a lost update and a repeated detection, which §6 tells
  of, are all that leaves the lifecycle; the API's thread pool and the detector may do
  both.
* **Ingestion** (`IngestionPipelineProofs`). `IInv` is types, `Places` (offsets and
  positions), `Locks` (one open transaction per event), `Rows` (a transaction's row is
  its own, invisible) and `Records` (`OncePerEvent` strengthened). `OnceCorrect` follows.
  `SkipCorrect` adds `Progress`: what lies before a process's position is handled,
  or will be before its offset is committed. `LedgerCorrect` maps each step to a
  ledger step or a stutter.
  `ReadSideCorrect` assumes `OneStreamWorker`, the preview's deployment. `FollowInv`
  says what a process knows on its way: it has the row at the end of the log, a replay
  has read a prefix of the log into an empty memory and holds the rest (`HasRead`), the
  case is the memory up to its last incident (`Shown`), the checkpoint is at a row and no
  committed row is beyond it (`Points`). `CommitAdds` is the step on which the
  three move together: a row becomes visible, and the events of the log grow by it.
* **Projection** (`RcaProjectionProofs`). `IInv` says what each phase knows:
  a rebuild holds all but the rows it read past (`RowsAreRead`, `RebuildHolds`), a
  batch has no gap (`BatchIsNext`), an old list of lots misses no lot of the graph
  that is in the window (`PruneKeeps`). The key lemma is `WindowMovesOn`: an appended
  row brings no lot back into the window. `WindowCorrect` and `CheckpointCorrect`
  follow. `StoresAlwaysAgree`: the set of node keys and the set of edges determine
  either store with all its indexes (`MemoryOf`, `TablesOf`), since a node's lot is in its
  key; each statement and each prune keeps that form (`StatementAdds`, `EventInMemory`,
  `MemoryPruned`, `TablesPruned`), and within an event or a prune the tables lack exactly
  what the statements left will add or take away (`StoresInv`), also after a death. What a
  prune that was cut short leaves is of the lots in `torn` (`Alike`), and a later prune
  finds its edges, since every edge of a lot has a node of the lot beside it (`Anchored`).
* **Narration** (`NarrationProofs`). `GovernorInv`: the count of active calls is the
  cardinality of those in flight (`PlacesCounted`), the circuit and the failures fit
  (`CircuitMatched`), and an admission lies before the opening or after the cooldown
  (`CircuitHolds`), which needs that the opening is later than the clocks read before it.
  `ServiceImplementsGovernor` carries them over to the service;
  `CloudNotHidden` adds what a call knows of the cache (`ServiceInv`).
* **Gateway, demo, breaker, supervisor** (`AccessProofs`). `SlotsReturned` from
  `GatewayInv`. `GenerationsFit` from `GeneratingFits`, which counts the requests past a
  second check beside the generations that run: a request gets past it when none runs,
  or is `unseen`, and those that pass while none runs hold slots.
  `TokensBuyTheirLimit` from `DemoInv`: a window of a session outlives its token.
  `BreakersRecover` from `GuardInvariant`: an open breaker without a time has a thread
  between the two writes.
  `IngressCorrect` and `FlagCorrect` from `StagesDone`: the holder of the supervisor's
  operation lock has done the groups before the one it is at, so a half-done
  group (`HalfKeeps`) breaks no order, and the flag set at the end is true.
* **Learning and reviews** (`IntelligenceProofs`). `RequestsFirst` from `ReviewsInv`: a
  cycle in progress, and a dashboard refresh in progress, are backed by what they read.
  `ChampionIsUnique` and `PredictionsAreOutOfSample` from `LearnInv`: outcomes were
  seen by the log, a model's data are old, the batch exists. The second needs arithmetic:
  the shadow window always holds two later lots (`TwoLater`, a cardinality argument), so
  fitting and calibration end before the lot a champion predicts.

* **Signals, diagnosis, episodes** (`DecisionProofs`). `UrgentSignalsArePlanned` from
  `QuestionsFit`: what is stored, asked for and shown is the question of the scores it
  was made of; the rest is arithmetic on buckets and thresholds. `HoldsBacked` and
  `FaultsExplained` compute the classification, the candidates and their
  order from what the detector and the graph have read, for any wafers and yields. The
  three about the cockpit take the episodes apart: the recursion over the lots of a
  kind has a solution (`GroupedDef`), the groups are runs without a large gap (`Runs`),
  and those of a prefix of the lots are a prefix but for the last, which only grows
  (`Prefix`). `EpisodesPartition`, `EpisodesStable` and, by counting what the queue leaves out
  (`AtMostN`), `WorstIncidentQueued` follow, for any gap, span, lots and queue.

Recursive functions and the folds of the community modules (`GroupedDef`, `UptoDef`,
`FoldedDef`) are argued by the least counterexample: a nonempty set of numbers has a
least element (`Least`, from `WFMin` and `NatLessThanWellFounded`), so a set that has 0
and a successor with each of its numbers has them all (`Upward`). No theorem with an
operator for a parameter is used.

Only model-checked: liveness (`EndsOrOrphaned`, `MessagesAreHandled`, `RowsArrive`,
`WakesEnd`, `EveryCallEnds`, `FeedbackArrives`, `ChangesAreTakenUp`), which is out of the
prover's reach, and the violations. Every invariant, action property and refinement
that a passing run checks is a theorem; `PromiseKept` and `ReadSideCorrect` are of one
worker and one consumer, as their runs are, and `LifeFollowed` is of the executions
described above, of which its run checks those of one handler.

## 6. Findings

Two runs show the code doing what a comment says it does not (`findings` in
`PROJECT.json` quotes both):

1. `workflow_detect`: the detector's upsert replaces the document of a known case
   by a fresh one in state `detected`.
2. `intelligence_promotion`: `register_model` overwrites the row of a version that is
   already there. A candidate trained on the champion's rows has its version, is
   rejected, and takes the champion's row along; the next one is `initial_champion`
   without a comparison.

Observed while modelling, without a run of their own.

*Queue.* A RUNNING job past its age whose worker died is ended by nothing
(`repository.py:918`, `:931`) and keeps its dedupe key. A BUSY model counts as an attempt,
so failures after it find fewer left (`inference_worker/main.py:164`, against
README.md:110 "BUSY means wait rather than fail"). `enqueue_inference_job` raises when
the row it conflicted with ended before it was read. Reports are unique per assessment
run (`repository.py:715`, `migrations/004:33`), so after a crash between the report and
`finish` every retry fails at the insert and the answered job ends EXPIRED.

*Workflow and ingestion.* Two overlapping workflow operations lose one's update, and a
rejection may be written over a case another operation moved on
(`state_machine.py:154`, `:157`). The integration start consumes the backlog and then
replays the log into the same detector, and a retried transaction feeds the detector
twice (`stream_worker/main.py:86`, `detection/service.py:94`). With two groups the
detection checkpoint may go back. After one burnt sequence the readiness test of
`runtime.py:243` compares unequal numbers for good.

*Projection and stores.* `rebuild_recent` reads rows first and the end of the log last,
and stores the latter: a row between the two is not projected
(`projection.py:79`); `WindowIsProjected` excepts what a rebuild read past. `ensure_lot` takes a partly
projected lot for a whole one; an edge whose endpoint is missing is dropped by Neo4j's
store only; the in-memory and the PostgreSQL prune differ on an empty set of lots. A worker
that dies between the two DELETEs of a prune (`postgres/graph.py:210`, `:222`) leaves nodes
without edges; they go with the next prune, unless that keeps their lot again.

*Narration.* A call that waited for the lock with an old clock may be admitted over the
rate of its minute (`governance.py:93`). With Vertex as the only provider, a caller
without cloud caches a fallback that a caller with cloud is served. A late fallback
overwrites a fresher cached brief. `consume` counts one request after the token's
expiry. The breaker's `opened_at` may become `None` between its two reads
(`circuit_breaker.py:30`): the caller gets a `TypeError` in place of `CircuitBreakerOpen`;
a late success closes a breaker whose failures are at the threshold; a stale refresh
half-opens one that was just opened again; and a half-open breaker admits as many
trials as the bulkhead is wide.

*Intelligence.* Only the sixteen cases of the newest lot ids are candidates
(`intelligence_worker/main.py:74`), so an urgent case of an older lot is not assessed
however its predictions change. A report repeated as `material_signature_unchanged` may be older than
the job still queued under that signature, and may be written over a fresh one
(`intelligence_worker/main.py:163-194`). Low-priority cases beyond the limit of a cycle
are never reviewed while more urgent ones keep it full; an expired first job is not
queued again while its signature stays. A restart loses the keys of the predictions made and makes them
again. A `ValueError` in `synchronize_outcomes` ends every cycle before training.
Outcomes, and the feedback from them, may be of lots partly inspected. "Next lot" is the
next by id, not by release (`service.py:713`, README.md:105).

*Cockpit and signals.* A predicted yield below 85 triggers a text that says HIGH and an
urgency that is only WATCH (`decision.py:188`). `risk_trajectory` calls a rising yield
RISING, and a change of exactly 0.01 is neither. A validated plan of the language model is
overwritten by a later one of the rules; buckets of the signature are coarser than
thresholds. A new case of an older lot changes its episode's id. The condition
`data_quality_clear` stays met without a candidate. The ranking explains a sensor's bias with a
"nominal" mean yield when it is low. Several mismatched runs make duplicate candidates.

*Supervisor.* The monitor never stops a stack whose flag is `partial` or `error`, though
the proxy's page says "The runtime sleeps after 45 minutes without traffic"
(`infra/macmini/public-preview-wake-nginx.conf:46`); an activity answered
"stopping" more than 30 s before the stop ends is not followed by a wake.

Hazards that no property covers: a failing transaction that has already fed the detector
(`services/ingestion/service.py:91`) breaks what the comment above it promises only
until the next replay, which `ReadSideFollowsLog` is about; a crash between a document and
its audit record (`state_machine.py:143`); a row committed while `rebuild_recent` reads
(`projection.py:79`). Not in the list because
nothing reads or runs what they concern: the outbox (`repository.py:246`), the timeout
sweep (`state_machine.py:175`), the delivery status of an event
(`services/ingestion/service.py:86`). Transactions that commit out of the order of
their sequences (`projection.py:98`) need a second writer of the log, which the
preview does not have.

## 7. Not modelled

`components` in `PROJECT.json` lists every part. Left for the plan (§2): readiness, the
detector's statistics, Neo4j, delivery status, grounding. Left out: `ensure_lot`, which returns early
on the persistent graph, and the CQRS comparison; fitting, calibration and backtests,
which are numeric; texts, layout and presentation of briefs and packets; wire formats of
providers and the routes of the gateway that only report; pagination and listing
queries; telemetry and release identity, on which nothing decides; the
anti-corruption layer, a renaming of fields (the schema appears as the set `Invalid`);
web UI, configuration, and offline gates over files.
