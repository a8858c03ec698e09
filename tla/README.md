# Sentraxis: a TLA+ verification project

Sentraxis detects anomalies in network events, correlates them into incidents
and answers incidents with containment actions.  It is a pipeline of single
process workers and one HTTP API that share a PostgreSQL database; the first
stage also uses a Redis stream.  All paths below are relative to the
repository; `app/` stands for `src/app/`.

## 1. Inventory

| Component | State it keeps | Operations | Talks to | What is hard | What makes it correct |
|---|---|---|---|---|---|
| Injector `app/workers/injector.py` | Redis checkpoint per scenario | replay lines into `events:raw`, flush, reset | Redis | crash between XADD and SET | no line skipped; duplicates absorbed later |
| Normalizer `app/workers/normalizer.py`, `persistence/repository.py`, `domain/events.py` | consumer group and its pending list; tables `entities`, `events` | claim, read, parse, persist, ack, dead-letter | Redis, DB | redelivery, several consumers, partial failure, transient errors | each valid event stored once, each message ends stored or dead-lettered |
| Detection worker `app/workers/detector.py`, `app/detectors/` | cursor, `entity_metric_state`, `detections` | tick: fetch by cursor, run detectors, insert, commit | DB | detector failure inside a batch, infinite z-scores, ids that commit late | state, detections and cursor move together; one detector cannot stall the rest |
| Correlation worker `app/workers/correlator.py`, `correlation/rules.py` | cursor, `incidents`, `incident_detections`, `llm_calls` | tick: fetch behind the watermark, cluster, draft, enrich, commit | DB, agent | ids do not follow event time, watermark, crash during LLM calls | each detection in exactly one incident, clusters whole |
| Agent and gateway `correlation/agent.py`, `llm/gateway.py` | Redis cache, budget and pacing keys; cooldowns in memory | chat with retries, fallback, repair | Redis, providers | budget races, stale cache, outage degrade | budget overrun bounded, an answer paid for once, the chain walked, always ends |
| Orchestrator `app/workers/orchestrator.py`, `orchestration/policy.py` | cursor, `actions`, `entities.status` | tick: expire, evaluate, create, execute; `decide` | DB, ledger | overlap with requests, crash, effectors that raise | approval gate, exactly-once creation and execution |
| Approval API `app/api/actions.py`, `api/deps.py` | `actions` (with `idem_key`) | approve, reject | DB, orchestrator code | overlap of requests, key races, stale ORM objects | callers and ledger agree on decisions, retries of lost answers decide nothing |
| Audit ledger `orchestration/audit.py` | `audit_log` hash chain | append_entry, verify_chain | called in the caller's transaction | concurrent append, rolled-back sequence numbers | every entry links back to a committed one; the chain verifies while transactions do not overlap |
| Incidents API `app/api/incidents.py` | `incidents` | list, get, analyze | DB, gateway | analyze always fails before it changes a row (section 6) | - |
| Auth, config, health, metrics, logging, migrations, scripts | users; settings | - | DB | - | - |

Workers never call each other.  A stage writes rows, the next one reads those
beyond its cursor (`worker_cursors`) and commits its results with the cursor
(ADR-005).  Requests run `ResponseOrchestrator.decide` inside the API process,
so the orchestrator worker and any number of requests touch `actions`,
`entities` and `audit_log` concurrently.  `docker-compose.yml` runs one process
of each worker and restarts it when it dies.

## 2. Modules

| Module | What it is |
|---|---|
| `ResponseOrchestrator` | orchestrator worker, approval API, policy and ledger over their shared database |
| `ResponseProperties` | what is claimed of it |
| `ActionLifecycle` | abstract specification of an action: every transaction one step |
| `ResponseProofs`, `IncidentProofs`, `LedgerProofs` | theorems about `ResponseOrchestrator`, proved with TLAPS |
| `LifecycleProofs` | two more: the links of the ledger, and the refinement of `ActionLifecycle` |
| `MCResponse` | TLC instances of it |
| `CorrelationRules` | clustering and risk, with a reference definition of a clustering |
| `Correlator` | the correlation worker and what is claimed of it |
| `CorrelatorProofs`, `MCCorrelator` | its theorems; its TLC instance |
| `Detectors` | the two streaming detectors: buckets, history, thresholds |
| `DetectionWorker` | the detection worker and the normalizers' transactions it reads behind |
| `DetectionProperties` | what is claimed of it, against a reference without batches |
| `DetectionProofs`, `MCDetection` | its theorems; its TLC instance |
| `Ingestion` | injector, Redis stream with consumer group, normalizers |
| `IngestionProperties`, `IngestionProofs`, `MCIngestion` | what is claimed of it; its theorems; its TLC instance |
| `LlmGateway` | gateway and agent, and what is claimed of them |
| `LlmGatewayProofs`, `MCLlmGateway` | its theorems; its TLC instance |

### ResponseOrchestrator

The tick and every request are processes; each runs one database transaction
in several steps.  What a step reads and writes follows READ COMMITTED and the
session settings of `persistence/db.py` (`autoflush=False`,
`expire_on_commit=False`):

| Variable | Code |
|---|---|
| `actions`, `entities`, `ledger`, `incidents`, `cursor` | committed rows of the tables |
| `nextSeq` | IDENTITY sequence of `audit_log`; a rollback does not give numbers back |
| `stale` | actions created before the approval cutoff |
| `pc`, `cur`, `row`, `goal` | where a process is, and the ORM object and transition it works on |
| `link` | the last entry `append_entry` selected |
| `dirty`, `own`, `touched` | rows it has flushed and not committed: the row locks it holds |
| `same` | the loaded entity already had the status its effector sets, so the ORM leaves that column out of the UPDATE |
| `work`, `upto` | what is left of the tick's lists, and its new cursor |
| `job`, `answer` | parameters and response of a request |

| Action | Code |
|---|---|
| `SelectLast`, `Flush` | `_transition` / `_create_action` with `append_entry`: the SELECT of the last entry, then the flush, which waits for the row lock and writes the action before the entry |
| `Effect`, `WriteEntity` | `_execute` and the effectors; the entity is the last row of that flush and waits for its own lock |
| `StartTick`, `Expire`, `FetchIncidents`, `CreateAction`, `CommitTick` | `tick` in program order |
| `Receive`, `TurnAway`, `Replay`, `Conflict`, `Decide` | `_decide` with its early returns |
| `CommitDecision`, `Refresh`, `DuplicateKey` | its end: the key and the commit; the `db.refresh` and the answer, before which others may commit and the request may die; the refusal of the unique index |
| `OpenIncident`, `TimeOut`, `Crash` | the correlator, the clock, the death of a process or of its connection |

Abstractions, all on purpose:

- An action's key is (incident, playbook): the policy creates at most one for each.
- `prev` is the sequence number of the entry whose hash `prev_hash` is; the hash
  covers `prev_hash`, so it identifies its entry.  Tampering is not modelled.
- An effector succeeds or raises, whichever it likes; an action type without
  one always fails.
- A `db.refresh` that fails after the commit is a `Crash` of the request: its
  caller gets nothing, or a bare 500, which the model does not tell apart.
- Playbooks do not change while the system runs.
- `_transition`'s ValueError branches have no action: the object is in a state
  the table allows whenever they are reached.
- Entities, users, keys and incidents are small sets; a risk is a percentage.
- Processes are one orchestrator (as in `docker-compose.yml`) and the requests.

### Correlator

`Fetch` is the SELECT of a tick, `Commit` the rest of it, `Crash` its rollback;
`Detect` and `Clock` are the environment.  The LLM calls lie between `Fetch` and
`Commit`, so rows arrive in between.  An answer of the agent is a choice between
none and a risk.  A detection's event time is any time up to the present,
because the worker inserts a batch detector by detector and events themselves
arrive late; only times after which the watermark still passes within the
clock's bound are used.

### DetectionWorker and Detectors

| Variable | Code |
|---|---|
| `events` | table `events` by id, each row with the transaction that holds it, or "committed", or "gone" after a rollback, which gives no id back |
| `detections`, `metrics`, `cursor` | tables `detections` and `entity_metric_state`, the detector's row of `worker_cursors` |
| `pc`, `batch` | the worker's tick: the ids it fetched |
| `passed`, `overtaken`, `saved`, `dropped` | history: ids of committed ticks; ids uncommitted when a larger one was fetched; ids a detector's saved state has counted; those of them in a call that raised |

| Action | Code |
|---|---|
| `InsertEvent`, `EndInsert` | `persist_batch` of a normalizer: rows get ids as they are inserted and are seen at the commit; `upsert_entities` locks the entity's row |
| `Fetch` | `_fetch_batch` |
| `Commit` | the rest of `tick`: each detector's `process`, which may raise at any entity, `record_detections`, `set_cursor`, commit |
| `Refused` | `record_detections` raises over an infinite z-score: the tick rolls back and the process ends |
| `Crash`, `Idle` | a death inside the tick; nothing to fetch |

`Detectors` holds `roll_buckets`, `update_welford`, `zscore` and the two
`process` loops as functions.  A float mean and variance become exact integers:
for a history of n buckets, `sum` is n times the mean and `dev` n times `m2`, so
that a z-score meets its trigger when the squares do.  Scores, severities and
the wording of details are left out.  The lock on destination entities is
ignored, which only lets more transactions overlap.

### Ingestion

A message is its position in the stream, an event the line of the scenario it
came from; a file is a function from lines to kinds: good, unreadable for the
injector, malformed for the normalizer only, refused by a constraint, refused
by any other error.

| Variable | Code |
|---|---|
| `inj`, `checkpoint` | the injector's run; `replay:checkpoint:<name>` |
| `stream`, `delivered`, `pending`, `stale` | `events:raw`, the group's last delivered id, its pending entries, those idle for `CLAIM_IDLE_MS` |
| `dead`, `stored` | `events:dead`; table `events` by `event_id` |
| `pc`, `hand`, `tries` | each normalizer: where it is in `process_batch`, its messages, its inline retries |

| Action | Code |
|---|---|
| `StartRun`, `SendChunk`, `SaveCheckpoint`, `EndRun` | `ReplayInjector.run` and its `flush` |
| `CollectEntries` | `XAUTOCLAIM`, then `XREADGROUP` for the rest of the batch |
| `DeadLetter`, `NothingLeft` | the parse loop of `process_batch`, `_dead_letter` |
| `Persist`, `Ack`, `FallBack`, `Raises` | `_persist_and_ack`: the commit, the XACK, `NonRetryableBatchError`, any exception nobody catches |
| `PersistOne`, `AckOne`, `OneFails` | `_persist_per_event`; what its `except Exception` takes for poison |
| `SendBreaks`, `DeadLetterBreaks`, `TransientError`, `InjectorDies`, `NormalizerDies` | broken pipelines without MULTI, a database outage (of one attempt or of all), deaths |
| `TimePasses` | pending entries grow idle, also those of a consumer still at work |

No row a scenario can hold today makes the database raise an IntegrityError, as
duplicates are skipped by `ON CONFLICT`; the kind "constraint" is there because
the code has a fallback for it.

### LlmGateway

| Variable | Code |
|---|---|
| `chain` | the providers with a key, in order |
| `cache`, `spent` | `llm:cache:*`, `llm:budget:<provider>:<today>` in the shared Redis |
| `redis` | whether a gateway object still has its client |
| `pc`, `job`, `outcome` | each caller's analysis: chat, provider, attempts, errors; the outcome the `llm_calls` row tells |
| `asked`, `parsed`, `burnt` | history: answers that parse each caller got to a key while its entry lived; answers of each provider today that parse; its answers, parsed or not, since its budget ran out today |

| Action | Code |
|---|---|
| `Analyze` | `CorrelationAgent.analyze` begins |
| `Lookup`, `Choose`, `GiveUp` | `chat_json`: cache, budget and chain, the exceptions that end it |
| `Post` | `_call_with_retries`, one attempt of `_call_once`: a JSON object, a 200 that is none or has another shape (`Unparsable`), an error worth a retry, one that is not, no connection |
| `Store`, `Spend` | the cache write, `_record_budget_spend` and the return to `analyze`, whose validation and repair are `Judge` |
| `LoseRedis`, `Crash`, `Expire`, `Midnight` | a Redis operation raises, done or not; the process dies; a cache entry or a day ends |

Callers are the correlator and the evaluation script; each has a gateway object
of its own.  What is slept, for cooldowns, retries and pacing, changes no state
and has no action.  The messages of a repair hold the rejected answer, which
takes one value here.

## 3. Runs

Passing runs:

| Run | Instance | Shows |
|---|---|---|
| `ResponseOverlap` | 1 incident of 3 profiles, 2 requests with 1 key or none, 2 approvers and a user without the role, 2 open transactions, 1 crash | `TypeOK`, `ApprovalGate`, `LedgerTellsRow`, `EachIncidentOnce`, `EffectsOnRecord`, `LinksResolve`, `AnswersOnRecord` and `RefinesLifecycle` hold whatever overlaps, and when an answer is lost after its commit and the request is sent again |
| `ResponseSharedKey` | a flood answered by both playbooks, both high-blast, 1 key, 2 requests, 2 open transactions | `AnswersOnRecord` on two pending actions: a 200 is one decision on record, a 409 or the 500 of a duplicate key none |
| `ResponseProgress` | 1 incident, 2 requests, 2 open transactions, 1 crash | `RequestsEnd`, `IncidentsReached`, `ApprovalsLapse` |
| `CorrelatorBatches` | 3 detections of 2 entities, batches of 2, times 0 to 3 with a window of 1, forced and normal ticks, 1 crash | `TypeOK`, `EvidenceOnce`, `ClustersRight`, `HeldBackInOrder`, `AllCorrelated` |
| `DetectionTicks` | 2 normalizers, 3 events of 5 kinds over 2 entities, 4 buckets and 2 ports, batches of 2, 1 raising detector, 1 crash | `TypeOK`, `MetricsTellEvents`, `DetectionsExact`, `CursorPassesSeen`, `EventsReached` |
| `Ingestion` | 4 files of 3 lines, chunks and batches of 2, 2 normalizers, 2 runs with limit 1 or none, resets, 1 fault | `TypeOK`, `AckedLanded`, `ReplayLeavesNoGap`, `DeadForAReason`, `EveryMessageLands` |
| `LlmGateway` | 2 callers, 1 prompt, no provider or 2, 2 attempts, a budget of 1, 2 analyses, 1 of midnight, expiry, lost client and crash | `TypeOK`, `BudgetHolds`, `AskedOnce`, `ChainWalked`, `AnalysesEnd` |

Runs that show a disagreement between the code and what it says of itself:

| Run | Violated | Disagreement |
|---|---|---|
| `ResponseDoubleExecution` | `ExecutedOnce` | `docs/security.md` promises a compare-and-set on the state; the code reads, then updates by key, so overlapping approvals both execute |
| `ResponseChainFork` | `ChainVerifies` | `verify_audit_chain.py` reports tampering after two honest transactions that overlapped |
| `ResponseStaleReplay` | `ReplayTellsOutcome` | `docs/security.md` and `_decide` promise a retry the recorded outcome; one that loaded the action before the first request committed answers with the state from before the decision |
| `CorrelatorSkips` | `HeldBackNotLost` | a detection the watermark "holds back" is passed by the cursor |
| `CorrelatorSplits` | `ClustersFetchedWhole` | a row leaves the watermark before its cluster is complete |

Further places where the code and its words part.  They show without interleavings, on
one path of one component, and have no run of their own; a property that passes
beside one names it and excepts it:

- `app/workers/detector.py:115`, "one bad detector must not stall the stream".  An
  infinite z-score (`detectors/base.py:84`) is refused by `record_detections` (120), outside
  the `try`; every later tick fetches the same batch and fails again.  `EventsReached`
  excepts these batches (`Stuck`).
- `app/workers/injector.py:5-6`, "a broken scenario never partially executes".  Chunks are
  sent as they fill (126), so those before the chunk with the bad line are on the stream
  when it is found.  `ReplayLeavesNoGap` says what is left: a gapless prefix, without the line.
- `app/workers/normalizer.py:176`, "one bad row cannot loop the whole pipeline".  One refused
  with anything but an IntegrityError, such as an identifier over 255 characters, ends the
  process before anything is acknowledged and is claimed again.  `EveryMessageLands`
  excepts these streams (`Looping`).
- `app/llm/gateway.py:5-6`, "when the budget is exhausted the gateway reports it instead of
  burning calls".  Only an answer that parses is charged (241); one that does not
  (333-338) costs the provider a call that the budget never sees, any number of times a
  day while the budget is open.  `BudgetHolds` counts these answers once it has run out.
- `app/llm/gateway.py:10-11` and 203-204 and `docs/decisions/ADR-006-llm-contracts.md:22-23`, repair
  rounds bust the cache.  The agent passes the key of the rejected answer
  (`correlation/agent.py:195`) with other messages, whose key differs, so the comparison at 211 is
  false: nothing is deleted, and a repair asked before is answered from the cache.
- `app/llm/gateway.py:200`, the answer comes "from the first healthy provider".  A refused
  connection or a body of another shape is not caught (243) and ends the chat with the
  providers after it unasked.  `ChainWalked` excepts these errors.

What overlap does to the response side.  The chain forks (`ResponseChainFork`), an action
is executed twice (`ResponseDoubleExecution`) or after its expiry, and a retry is told the state
from before the decision (`ResponseStaleReplay`).  What remains is `LinksResolve`, a fork
is the only way the chain breaks, and `RefinesLifecycle`: each run of an effector of a high-blast
action has an approver's decision of its own, and nothing is pending or created again.
The tests of the repository run one transaction at a time; the running system has no
such limit, and no property or theorem here assumes one.

`AnswersOnRecord` counts.  A commit and its answer are two steps, so a decision may be on
record whose caller got nothing: no more of them than crashes, beside those with an answer
on its way.  What makes a retry after the commit harmless is on the row: it is
not pending any more and has a key if one was sent.  A retry that overlaps the request it
repeats is another matter: `ResponseDoubleExecution`, `ResponseStaleReplay`.

Bounds.  Two requests and the worker are all the pairs of writers there are; each
process runs one transaction at a time, so a violation between two writers needs
two of them.  One crash puts a rollback at every point of a transaction, and a lost
answer after every commit.  One incident has a profile both playbooks answer, one
that only the isolation answers, and one of an internal entity that none does; the
theorems cover any number of incidents and batches.  Three detections give a chain
(two near steps, ends apart), a row the batch limit leaves over and an id out of
order.  Requests and approvers are interchangeable (`Interchangeable`) in the
runs without liveness properties; `RefinesLifecycle` treats approvers alike too.  In every run the system comes to rest by
itself only in the worker's idle loop, so deadlock stays checked.

For the pipeline's first stages: three events give a bucket with a history, one
that closes it and a late one, an id overtaken by a larger one, and a batch the
limit cuts.  The window is 2, `MinHistory`, `ZTrigger` and `Threshold` are 1, so
that three events can reach every branch; the code's own minimum for the port
threshold is 2, and the theorem holds for any.  Three lines make a chunk that
breaks in its middle, a second chunk with or without a bad line, a poison row beside a
good one, and a limit that stops inside the file; two normalizers claim each
other's messages while both work on them; two runs replay what the first left.  Real inline attempts are 3 and real
retries of a provider 3: two show the difference between the last attempt and
one before it.  With a budget of 1 and two callers the overrun is reached.  One
fault in each of these runs puts it at every step.

Fairness.  `WF(Tick)`: the worker's `while True` loop and the restart policy;
`WF(Handle(r))` for each request: the server runs the handlers it started.
Nobody has to send a request, open an incident, or crash.  Weak fairness
is enough although row locks exist: a request locks its action, then its entity,
and then only commits, and the tick expires before it touches an entity, so no
cycle of waits arises and every holder ends by its own fairness.
`ApprovalsLapse` asks only that the action leaves `pending_approval`, as a
decision may come first.  The correlator has weak fairness of the clock, of
`Fetch` and of `Commit`, the detection worker of its own two, for the same reason.
In `Ingestion` every normalizer step and the idle clock are weakly fair: the
loops run again after a death.  In `LlmGateway` an analysis goes on once begun,
since every wait in it has a bound; nobody has to begin one.

## 4. Proofs

`ResponseProofs` proves, for all values of the constants that satisfy
`ConstantsAssumption`:

- `TypesCorrect`: `Spec => []TypeOK`.
- `ApprovalGateHolds`: `Spec => []ApprovalGate`.

`TypeOK` is not inductive alone.  `TypeInv` adds that a process at the step
after an effector holds an action whose type has one (`EffectorKnown`), which
`WriteEntity` needs to type the status, and that a request past the role gate
has an approver as its user (`SenderApproved`).

`ApprovalGate` speaks of committed entries; to be preserved by a commit it needs
to know what transactions in flight hold.  A transaction commits all the entries
it wrote, so `GateInv` asks that those of each process obey the gate by
themselves, that a process about to write the "executing" entry of a high-blast
action has written the approver's "queued" entry itself, that its entries lie
below `nextSeq`, and that the worker queues no high-blast action.  The proof has
a step per action of `Next`; the gate is decided in `Flush` (a new entry) and in
the two commits (entries become visible).

`IncidentProofs` builds on it: `EachIncidentOnceHolds`, `Spec => []EachIncidentOnce`.
What is committed at the cursor is decided in the tick before, so `IncidentInv`
follows the tick: while it is at the incidents, the rows that exist and those it
has begun are the ones of the batch (`TickInv`); the worker alone creates rows,
and only fresh ones (`CreatesFresh`); requests work on rows that exist
(`Decides`), so that their commits, which overwrite rows, never make one appear.
A step of a request leaves all that alone (`RequestStep`), and one of the worker
is judged by what it does to its own part (`WorkerStep`).

`LedgerProofs` proves three more for any overlap of transactions:

- `LedgerTellsRowHolds`, from `StoryInv`.  A commit overwrites columns another
  transaction may have written in between, so rows and ledger agree only because
  of what each transaction carries: the entries it wrote tell the state and the
  decider of the rows it wrote (`Drafted`, `Signing`), the worker signs none
  (`Unsigning`), entries are newer than what is committed about their row, which
  the row locks guarantee (`Locked`), and none shares a number (`Numbered`).
- `AnswersOnRecordHolds`, from `AnswerInv`: a request in flight has written one human
  entry, the one its answer will stand for (`Spoken`); keys go with decided rows
  (`Keys`); both sides are counted with the lemmas of FiniteSetTheorems (`Counted`), a
  crash taking one from the callers that may still be told.
- `EffectsOnRecordHolds`, from `EffectInv`: a status a transaction wrote has its entry
  among those of the transaction, and an entry of an execution has its effect, or its
  process is about to write it (`Touches`).  An effector that finds the status in place
  writes nothing; that is sound because no entity ever becomes active again.

`LifecycleProofs` proves two more, again for any overlap:

- `LinksResolveHolds`, from `LinkInv`: the entries a transaction wrote, and the link it
  holds, lead to entries it can see, its own or committed ones (`Links`).  What it sees
  only grows, and a rollback takes its own entries with all that link to them.
- `RefinesLifecycleHolds`, from `PathInv`.  Under the mapping of `ResponseProperties`,
  the worker's commit is one `Sweep`, a request's one `Decide`, and every other step a
  stutter.  What a commit makes of a row is what the transaction took it to be when it
  loaded it, not what is committed now, so `Path` follows each draft from there: how it
  starts and continues (`Starts`, `Continues`), what a request and the worker may make of
  an action of either kind (`Draftable`), and that a transaction which ends in `executed`
  ran the effector once (`RanOnce`).  Only high-blast actions are ever read as pending,
  left to expire, or committed as pending (`Reads`, `Lapsing`, `Committed`).  With what
  `StoryInv` and `AnswerInv` say of drafts and rows, `CommitOne` joins
  them for a request and `TickSweeps` for the worker.  The theorem names no fairness:
  `ActionLifecycle` has none.

`CorrelatorProofs` proves all the invariants of the correlator, for any rows, window,
batch size, crashes and mixture of forced ticks:

- `ClustersRightHolds`.  The rows of one entity can be listed by time and id: the place
  of a row is the number of rows before it (`CanBeListed`).  The walk cuts the list where
  a gap exceeds the window, and the runs between two cuts, given by their ends, cover the
  rows (`CutsCover`), are linked by steps of at most a window (`RunLinked`), and lie
  further than a window apart (`RunsApart`); `ClustersAreRight` joins the entities.
- `TypesCorrect`; `EvidenceOnceHolds`, from `OnceInv`: a batch lies beyond the cursor,
  evidence behind it, and the clusters of a batch divide it.
- `HeldBackInOrderHolds`, from `HeldBackInv`: an open batch has every row from the
  cursor to its last (`FetchedPrefix`), so that what the watermark holds back is a
  suffix when times follow ids.

`DetectionProofs` proves every safety property of the detection worker, for any window,
trigger, history, threshold, events, normalizers, batch size and faults:

- `MetricsTellEventsHolds` and `DetectionsExactHolds`.  The model computes with three
  recursions: `Rolled` over the windows of a gap, `Upto` over the events of a batch, and
  the sums of the reference.  That each has a solution, and only one, is
  proved once (`RecursionExists`, `RecursionUnique`) from well-foundedness of the naturals:
  a least counterexample in place of an induction rule.  `Welford` shows that a step of
  the recurrence gives the variance of one value more.  `Has` says that a state
  tells a set of flows with a given bucket live; closing a bucket (`Close`), rolling to
  a time (`Roll`), counting and judging an event (`CountCounts`, `CountedJudged`), and
  skipping a late one (`LateTells`) keep it.  `OneEvent` joins them and
  `ProcessMakes` lifts that to a batch.  Flows added later change neither a
  closed history nor an earlier verdict (`HistoryStable`, `AnomalousStable`).
- `TypesCorrect`, from the invariant of those two, `DetInv`: what is passed is behind the
  cursor, what a tick holds beyond it (`Order`), so that `After` applies to every batch
  and nothing found is on record already (`AllRecorded`).
- `CursorPassesSeenHolds`.  A tick passes what it fetched, so `CursorInv` has to speak of
  the interval: every id in `1 .. cursor` is passed, overtaken, or gone, and an open tick
  accounts in the same way for the ids from the cursor to the last of its batch
  (`Swept`).  The lemma behind it is `BatchIsPrefix`: the batch leaves no visible id out
  below its largest.

The numbers of a metric state are exact in the model; the code's are floats, with a
tolerance of 1e-9 for no variance.

`IngestionProofs` proves, for any file, chunk, batch, number of normalizers and
faults:

- `TypesCorrect` and `AckedLandedHolds`, from `DeliveryInv`: a worker that is
  about to acknowledge has stored what it holds (`AckStored`), and one in the
  per-event fallback holds something (`Busy`).  `ReadIsNext` shows that what
  XREADGROUP returns is the interval after the last delivered message.
- `ReplayLeavesNoGapHolds`, from `ReplayInv`: while a run is on, all lines before
  its position are on the stream.  The hard step is the chunk sent after a reset
  or cut by a break (`SendReplay`).
- `DeadForAReasonHolds`, from `DeadInv`: what a worker is about to refuse has a
  reason already, and one in the fallback got there through a row a constraint
  refuses (`OneByOne`).

`LlmGatewayProofs` proves, for any chains, callers, budget and bounds:

- `TypesCorrect`, from `Inv`: a caller past `Choose` is inside the chain, and one
  past an answer holds it.
- `BudgetHoldsAlways`, in two parts.  Of the answers that parse, the only ones the code
  charges, from `BudgetInv`: answers not charged yet are those of
  callers between answer and charge, and of crashes (`Charged`); answers and the
  callers still asking together stay within budget, callers and crashes
  (`Bounded`), which a caller that finds budget left preserves by `Charged`.  Of all
  answers once the budget has run out, from `BurnInv`: a caller that still asks found
  the budget open, and was not the one whose charge closed it (`Burning`).  Both count
  sets of callers, with the lemmas of FiniteSetTheorems.
- `AskedOnceAlways`, from `AskedInv`: a caller that asks for a key, or a key without
  an entry that nobody is about to write, has cost nothing but for crashes
  (`PaidFor`).
- `ChainWalkedHolds`, an action property, from `WalkInv`: the providers a caller has
  recorded as refused or failed are those of the chain before the one it is at
  (`Walked`), and a caller without an answer has no reply but an error that escapes.

With these, every invariant and action property that a passing run checks is proved, and
so is the refinement.  Only model-checked are the liveness properties, which like ENABLED
are outside the prover's reach (`RequestsEnd`, `IncidentsReached`, `ApprovalsLapse`,
`AllCorrelated`, `EventsReached`, `EveryMessageLands`, `AnalysesEnd`).

## 5. Plan

1. Done: `ResponseOrchestrator`, `ActionLifecycle`, `ResponseProofs`, `CorrelationRules`, `Correlator`.
2. Done: `CorrelatorProofs`, `Detectors`, `DetectionWorker`, `DetectionProofs`.
3. Done: `Ingestion`, `IngestionProofs`.
4. Done: `LlmGateway`, `LlmGatewayProofs`.
5. Done: `LedgerProofs`, `LifecycleProofs`.

Left: the stages could be composed in one module, but TLC could check that only on
instances too small to show more than the stages do alone.

Each module is parameterised by CONSTANTS with a named assumption, has one action
per operation, and declares no RECURSIVE operator.

## 6. Not modelled

Authentication and token checks, health, metrics, logging, migrations and the
offline scripts have no protocol to check; listings are reads.

The analyze endpoint of the Incidents API has no action: it unpacks rows of
three columns into pairs (`app/api/incidents.py:187`), so with evidence present it
raises before it asks the agent or changes a row.  The statements behind it, which would
raise an incident's risk after the orchestrator passed it, are unreachable.

Of the gateway, pacing is only sleeping; that `SET NX` answers None and never
False, so the pacing key makes nobody wait (`app/llm/gateway.py:187`), shows in no
state.  The wording of titles, narratives and reasons, and the ATT&CK
techniques, decide nothing and are left out.

The stages are checked one by one: each takes the rows of the stage before it
from an environment that may produce any of a small set, which is all a stage
sees of another, since workers share nothing but committed rows and cursors.
