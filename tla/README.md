# A TLA+ verification of the OCR orchestrator

The orchestrator takes a document, splits it into pages, and drives every page
through two rate-limited models: *layout*, then *VLM*. Pages travel as entries of
a Redis stream; any worker may pick one up, crash with it, hand it back or take
over somebody else's. The promise to the client is that an admitted page is never
dropped, is settled once, is counted once, and that whoever watches is told. This
directory models that promise and the machinery around it, checks the models with
TLC on small instances, and proves their safety properties with TLAPS for every
instance.

    tlc -workers 2 -config recovery.cfg MCLifecycle    # a run
    tlapm PageLifecycleProofs.tla                      # the proofs of a module

## 1. The system and its models

| Component | Source | Module | Proofs |
|---|---|---|---|
| Page states, task queue, pipeline, worker, reaper, events | `app/queue/`, `app/worker/{main,pipeline,reaper}.py` | `PageStates`, `PageLifecycle`, `JobContract` | `PageLifecycleProofs`, `PageLifecycleTasks` |
| Dispatch loop and lanes | `app/worker/main.py`, `app/queue/streams.py` | `Dispatch` | `DispatchProofs` |
| TTLs and their renewal | `app/queue/state.py` | `Expiry` | `RenewalProofs` |
| Admission, ingestion, documents | `app/api/{admission,jobs}.py`, `app/pdf/splitter.py`, `app/worker/main.py` | `Ingestion` | `IngestionProofs` |
| SSE subscription, result stream | `app/api/stream.py`, `app/queue/results.py` | `Subscription` | `SubscriptionProofs` |
| Circuit breaker | `app/ratelimit/breaker.py` | `Breaker` | |
| Token bucket | `app/ratelimit/token_bucket.py` | `TokenBucket` | |
| Adaptive rate | `app/ratelimit/adaptive.py` | `AdaptiveRate` | |
| Model client, composing the three | `app/worker/client.py`, `app/ratelimit/retry.py` | `ModelCall` | `ModelCallProofs` |
| Mock models | `mock_model/` | `MockModel` | `MockModelProofs` |
| Metrics | `common/metrics.py`, `app/worker/metrics.py`, `app/api/metrics.py` | `FleetMetrics` | `RenewalProofs` |
| Evaluation | `app/eval/`, `app/api/evaluate.py` | `TreeEdit`, `TextScore`, `BoxMatch`, `Evaluate` | |

The `MC*` modules declare model values and the inputs of an instance; a `.cfg` gives
the constants. `PROJECT.json` maps every definition to its lines, lists the
components that are not modelled with the reason, and lists the hazards each
property guards against. Mutants of definitions stand next to the definition they
mutate, marked as such; nothing else uses them.

**One step.** asyncio code interleaves at awaits, so a step is one Redis command or
one model call together with the local code up to the next await. A Lua script is
one command. A pipeline is one step only where no other step could see it
half-done; the metrics flush and the requeue (XADD, then ack) are split.

### PageLifecycle

One job. Its variables:

| Variable | Code |
|---|---|
| `pageState`, `doneCount` | field `state` of the page hashes, `done_count` of the job hash |
| `owner` | per stream entry: not added, undelivered, in a consumer's pending list, or acked and deleted |
| `attempt` | the entry's `attempt` field |
| `toEnqueue` | what `enqueue_pages` has still to add |
| `age` | the page's age against `degrade_after_s` and `page_deadline_s` |
| `events` | the job's result stream |
| `up`, `co`, `batch` | processes, the control state of every coroutine, the reapers' claimed orphans |
| `crashes`, `faults` | how many crashes and Redis errors have happened |

A coroutine's `pc` names the await it is about to perform. `release_claim` and
`force_terminal` are two steps (read, compare-and-set) with the value read kept in
`seen`. `ctx` says which code is running, hence which handler an exception reaches:
`_emit` swallows it, the outer `except` of `process_page` fails the page, the net of
`_handle_page` forces or requeues it, and outside those the coroutine ends with its
entry still pending. `RedisError` is a command that raises without executing, `Raise`
inside `Proceed` one that executes and whose reply is lost.

XACK and XDEL of `ack` are one step: an entry acked but not deleted is never
delivered again, so it equals `Gone` here. The same holds for XPENDING and XCLAIM of
`claim_orphans`, whose minimum idle time re-checks at the claim what the listing saw.
Time is abstracted to what decisions distinguish: an entry nobody uses becomes idle;
an entry in use becomes idle only when `LeaseMayLapse`; ages only grow. Both lanes
are one queue in which any undelivered entry may be delivered next; the lanes
themselves are in `Dispatch`. A model call returns a result, saturation
(`RateLimitTimeout`, `CircuitOpen`) or failure; what is behind it is `ModelCall`.

`JobContract` is the abstract job: pages gain a layout, settle once, the counter
follows, announcements come after. `PageLifecycle!Job` instantiates it; in that view
rollbacks, redelivery and queue traffic are stuttering. `Subscription` builds on the
same contract for the job its clients watch.

### The other modules

- **Dispatch**: the loop of `Worker.run`. Entries of a lane are alike, so a lane is a
  count; `loop` holds where the pass is and its budgets, `slots` the tasks not yet
  reaped, `running` those still working. Reads of either lane, the blocking read over
  both, quarantine of entries that cannot be parsed, the own-pending read after a
  start, stop, drain, crash and reclaim are actions. After an empty read with pages in
  flight the loop parks until one of them ends, as in the code.
- **Expiry**: remaining lives of page and job hashes in ticks, the renewal inside the
  transition script, the sweep that renews the other pages once half a TTL has passed,
  late, partly or never run.
- **Ingestion**: requests on several API replicas: storing, counting, the admission
  lock of a replica, the admission script with its hysteresis and counters, rows,
  entries; then work, requeue, completion, deletion and the orphan sweep. A crash or
  a Redis error is possible at every step.
- **Subscription**: connections with slot, cursor, gap detection, history, tail and
  derived completion over a stream trimmed at MAXLEN, with drops and reconnections.
- **ModelCall**: callers running the retry loop against the shared keys of one
  endpoint. `Breaker`, `TokenBucket` and `AdaptiveRate` are the three scripts as
  operators on records; `wired` says which of them the client was given. Time is in
  ticks and the arithmetic in scaled integers.
- **MockModel**: leaders, followers, replay cache, eviction, expiry, reset and the
  statistics that the tests use as evidence.
- **FleetMetrics**: counters in a worker's memory, deltas at each flush, the commands
  of the flush one by one in the order of the pipeline, exits and torn flushes. A flush
  in progress is the vector of increments that have not run (`incrs`) and the command
  that follows them (`after`).
- **TreeEdit, TextScore, BoxMatch, Evaluate**: the algorithms with their tables and
  rows, next to the textbook recursions (forests by their rightmost roots, sequences
  from the front, boxes as sets of unit squares), and the handler that gates and
  combines them.

## 2. Runs

| Run | Instance | Shows |
|---|---|---|
| `nominal` | 2 pages, 2 workers, ageing past `degrade_after_s`, nothing crashes; fairness | one claimant and one live task per page, one partial, no failure after a layout, every page settles, `job.complete` is published |
| `recovery` | 1 page, 2 workers, 1 crash with or without restart; fairness | no page with attempts left loses its last entry; the queue drains |
| `faults` | 1 page, 2 workers, lapsing leases, one raising Redis command | the counter, unique and truthful events, the job contract |
| `dispatch` | 1 worker, concurrency 3 with a reserved slot or 1 without, 3 entries per lane; fairness | entries are conserved, residency, every entry settles unless the worker stops |
| `throttle` | 2 callers in three wirings, 2 attempts, callers may vanish; fairness | sends conform to the rate, debt is bounded, probe slots have owners, a recovered endpoint is used again |
| `subscriber` | 2 clients, 2 pages, MAXLEN 2, a drop, reconnects, a Redis error; fairness | no silent loss, completion is true, slots are exact, streams end |
| `ingest` | 3 jobs, 2 replicas, one fault, a requeue in progress; fairness | depth, leftovers of a refusal, order of rows and entries, life of the document, explained shedding |
| `expiry` | 2 pages, 2 workers, TTL 5, pauses and late sweeps of 1; fairness | an active job keeps its hashes; a settled one loses them |
| `mock` | 3 requests, 2 keys, a cache of one; fairness | single flight, once while remembered, followers are released |
| `metrics` | 2 workers, 2 attempts, one exit or torn flush | nothing is counted twice; live workers stay visible |
| `evaluate` | all pairs of trees up to 4 nodes, texts of up to 3 blocks, pages of up to 2 boxes | distances, matching and the work bound agree with their definitions |
| `fault_stranding` | 1 page, one raising Redis command | a disagreement, see section 4 |

Deadlock is an error only in `throttle` and `expiry`, where time never stops; in the
other instances a job that is done has nothing left to do.

**Bounds.** `MaxEntries` caps the entries of a page: two simultaneous tasks of a page,
all that the races need, appear from the second on. In `nominal` and `recovery` no
execution needs more than it allows, so that the bound never blocks a step that
liveness relies on (3 suffices for two attempts and a handoff; a crash with three
attempts needs 7). With one slot per worker three coroutines can still hold tasks of
one page: two slots and a reaper. Symmetry of workers is used in `faults` only, which
has no liveness property. In `subscriber`, MAXLEN 2 is less than the events of two
pages, so trimming and gaps happen, and BATCH 1 puts an await between any two events.
In `ingest` the high mark is less than two maximal jobs, so that the jobs compete and
the trigger trips and recovers. In `expiry` the TTL is the smallest one with room for
a pause and a late sweep. In `throttle` a request costs two ticks of refill at the
lowest rate, so that the bucket goes into debt up to its limit, and the rate moves
between its floor and its ceiling. What
the instances leave out (more pages and workers, `Handoff` off, crashes together with
lapses and errors) the theorems of section 3 cover for the safety properties.

**Fairness.** Lifecycle: weak fairness of each coroutine's next await (commands and
calls have timeouts), of the dispatch loops reading while some slot is free and some
entry undelivered, of scanning and recovering (`_maintenance` loops forever and
swallows errors) and of `enqueue_pages`. Crashes, restarts, ageing and errors are
never forced. Dispatch: passes of the loop, ends of handlers, reclaim of idle entries.
Throttle: callers go on and time passes; that the
endpoint becomes healthy and that no call is lost are premises of `EndpointRecovers`. Subscription: the generator of a connected
client is served. Ingestion: requests go on, work settles, TTLs run out, files age and
the sweeper runs. Mock: an execution ends and a released follower resumes. Expiry: time
passes. Liveness of a page is not claimed with crashes: section 4 shows why it would be
false.

## 3. Proofs

Eight modules hold the theorems. They hold for all values of the constants allowed by
the named assumptions (`PagesAssumption`, `IngestionAssumption` and so on), which ask
for finite sets and sensible ranges, and which TLC evaluates in the runs. Further
hypotheses are part of a theorem's statement. A module's `USE` line names the provers its
leaves are given to; a leaf that needs another order, or more time, names its own.

| Theorem | Property | Hypotheses |
|---|---|---|
| `TypeCorrect`, `BudgetHolds` | `TypeOK`, `RequeueBudget` | |
| `CountIsExact` | `DoneCountExact` | |
| `PublishedOnce`, `CommitsPrecedeEvents` | `AnnouncedOnce`, `EventsFollowCommits` | |
| `ImplementsJobContract` | `JobSpec` (refinement) | |
| `NothingDropped` | `NoDropBeforeLastAttempt` | no lapsing leases, no Redis errors |
| `OneTaskPerPage`, `OneWorkerPerPage` | `OneLiveTask`, `OneClaimant` | the same, no crashes |
| `LayoutAnnouncedOnce`, `LayoutIsNotThrownAway` | `PartialOnce`, `NoFailureAfterLayout` | the same, no crashes |
| `EntriesAreConserved`, `ResidencyIsBounded` | `Conserved`, `ResidentNearlyBounded` | |
| `ActiveJobsAreKept`, `KeysTyped` | `ActiveJobKept`, `ExpiryTypeOK` | |
| `CountsAreConserved` | `NothingCountedTwice` | |
| `LiveWorkersStayVisible` | `LiveWorkersVisible` | 2 * INTERVAL < TTL |
| `BacklogIsBounded` | `DepthBounded` | |
| `NothingLeftBehind`, `RowsPrecedeTasks`, `DocumentKept` | `RefusedLeavesNothing`, `StateBeforeWork`, `DocumentWhileNeeded` | |
| `SheddingExplained`, `RetryAfterIsHonest`, `IngestionTyped` | `TripsExplainShedding`, the operator `RetryAfter`, `IngestionTypeOK` | |
| `NothingLostSilently` | `NoSilentLoss` | `KeepUp` |
| `CompletionsAreTrue`, `SlotsAreExact`, `StreamTyped` | `CompletionIsTrue`, `SlotsExact`, `SubscriptionTypeOK` | |
| `RequestsConform`, `DebtIsBounded` | `SendsConform`, `DebtBounded` | |
| `SlotsAreOwned`, `CallsTyped` | `SlotsHaveOwners`, `CallTypeOK` | |
| `OneFlightPerKey`, `KeysRunOnce` | `SingleFlight`, `RunsOnceWhileRemembered` | |
| `BodiesAreReal`, `EvidenceIsSound`, `RequestsAreAccounted`, `MockTyped` | of the mock's answers and statistics | |

**Lifecycle, any disturbance** (`PageLifecycleProofs`; *Typing* opens
`PageLifecycleTasks`, which it extends). *Typing.* `TypeOK` is not
inductive: a busy coroutine must have an entry, and one about to roll back must have
seen a running state. `TypeInv` adds `Coherent`, which ties the fields of a coroutine
to its control point. *Effects.* `NextEffect` reduces a step to what the store and the
events see of it: nothing (`Quiet`), one page moved along the table (`Shifts`), one
page settled by a coroutine that is then about to announce it (`Settles`), or one event
published by a coroutine that was (`Publishes`). *Events.* Uniqueness needs to know who
may still publish. `FinalInv`: a page with a `page.final`, or with a coroutine about to
publish it, is terminal, and there is at most one such coroutine and only as long as the
event is missing; `CloseInv` says the same of `job.complete`; `LayoutEventInv`: who is
about to publish a partial has a page with a layout, or one that failed since. Their
conjunction `EventInv` is inductive relative to the exact count, which makes the
completion test true for one settlement only. *Refinement.* Each of the four effects is
a step of the contract or a stutter, given `EventInv`. *Budget.* `BudgetInv`: a
coroutine on a requeue path that spends an attempt can afford it.

**Lifecycle, tasks** (`PageLifecycleTasks`). `HoldInv`: a task is in one pair of hands;
a coroutine uses only entries of its own worker's pending list, and no two use the same.
`DropInv`: for every page that is neither terminal nor on its last attempt some entry
*answers*: it is undelivered and its page is not claimed, or it is pending and unused,
or the coroutine that holds it is `Ready`, its next command finding the page as it
expects. A crash turns the third into the second, a scan or a restart the second into
the third, and a requeue passes the answer on to the new entry before the old one goes.
`CalmInv`: without crashes nothing is there to reclaim and a page has one task that is
not being settled. `PartialInv`: that single task knows its page's state (`Knows`), so
its commits are not rejected and a layout is announced once. The hypotheses are needed:
see `lapse_crash`, `fault_stranding`, `crash_final` and `two_claimants` below. TLC
checked `HoldInv` and `DropInv` with two crashes before they were proved.

**Dispatch.** `RoomInv`: what is handled is pending and has a slot, and the plan of a
pass fits (`Fits`): at every point of it the slots taken plus the budgets still to be
used stay within the concurrency. The blocking read is the one place that spends more
than its budget, by one. Conservation counts the pending entries as a set of pairs, so
that a step of one worker changes its cardinality by that worker's difference.

**Expiry.** `Timely`: while the job is under way the last sweep lies at most half a TTL
and the current pause back, and an unstarted page has been renewed since the last sweep,
or by the one before if that sweep still runs. With GAP + DELAY + TTL/2 < TTL, which
`ExpiryAssumption` asks for, no hash reaches its end. (The specification is `KeysSpec`,
so that `RenewalProofs` can extend both Expiry and FleetMetrics.)

**FleetMetrics.** *Counts.* A total over the fleet, or over the outcomes with one result,
is the number of units in a disjoint union, so that a step of one worker changes it by that
worker's difference (`TotalUpdate`). `SyncedOne` says that recording an outcome raises what
the next sync will find by exactly what the outcome counts as; this needs the totals of the
last sync to be no larger than the current ones, which `Typed` adds and `Exit` keeps by
resetting both. `Conserves` then reduces each action to the acting worker. *Visibility.*
`Covered`: after a report, what is left of both ttls is at least the rest of the current
interval plus the ttl, less the intervals begun since (`Late`). A tick takes one from both
sides. With at most one flush that raised, three intervals have begun when the next one
runs, and the last of them has not passed: two intervals below the ttl suffice.

**Ingestion.** `Reserved`: what is in the streams plus what admitted requests may still
add is within the high mark plus one maximal job for each other replica; the last
admitted request counts with its pages, as the script saw them fit, every other one as a
job of maximal size; `Exclusive`, the lock, leaves one per replica. Sums over jobs are
cardinalities of disjoint unions. The other invariants follow a job's request, rows,
entries and document through its stages.

**Subscription.** `ToldInv`: a client was sent, or told it may have missed, everything up
to its cursor and up to where its generator reads; from the replay on also everything
trimmed. It rests on reads returning intervals. `KeepUp` says the stream is not trimmed
past a read in progress; with the default `result_stream_maxlen` of 256 and at most 201
events per job it cannot be.

**ModelCall.** `TypedDebt` gives ranges and the debt bound together, as each needs the
other. `SlotInv` adds to `SlotsHaveOwners` what each transition of the breaker does to the
probes in flight. `MeterInv` is about the limiter alone, where the rate is fixed: with
`Worth`, what the bucket will hold after t ticks together with the reservations then still
unused, it says that the worth is never negative (the bucket is in debt only to sleepers),
that nobody sleeps longer than the debt before it, rounding and jitter explain, and that the
meter, a reference bucket drained by actual sends, covers the bucket and the unused
reservations. TLC checked it on three instances with three callers. With a controller the
rate changes and no such statement is made.

**MockModel.** The in-flight table names the request that executes a key; a follower's
handle is a leader that runs or has released its outcome; runs, cache, evictions and resets
account for each other.

**Only model-checked.** Liveness, which needs ENABLED and fairness, is out of this prover's
reach. So is what the recursive algorithms of the evaluation compute, which takes induction
over data (`TreeEdit`, `TextScore`, `BoxMatch`, `Evaluate`).

## 4. Disagreements with the repository's own words

`fault_stranding` is listed as a run and quoted under `findings`. The other
configurations are kept beside it; each violates the property it lists.

| Configuration | Property | Sentence | What happens |
|---|---|---|---|
| `fault_stranding` | `NoStrandedPage` | `worker/main.py:650-651`, every branch leaves the page terminal or declines it | A Redis error around the layout commit or the VLM claim ends in a rejected FAILED and an ack. |
| `crash_final` | `NoStrandedPage` | a crash inside `requeue` is harmless (`streams.py:469`) | A duplicate task on its final attempt is saturated, rolls back the other task's VLM claim, finds FAILED illegal from LAYOUT_DONE, and acknowledges; the other finds its claim gone and acknowledges. |
| `lapse_crash` | `NoAbandonedPage` | a lapsed lease costs a redundant reclaim (`worker/main.py:291`) | With a crash it costs the page. |
| `two_claimants` | `OneClaimant` | the claim found on resumption is one's own (`pipeline.py:372-373`) | It may be that of a live worker running the replacement task. |
| `complete_early` | `CompleteLast` | `job.complete` must be the last event (`tests/test_pipeline_events.py:221`) | Another worker's `page.final` follows it. |
| `over_read` | `ResidentBounded` | the concurrency is a ceiling (`streams.py:585-590`, `config.py:266-268`) | COUNT is per stream: a blocking read over both lanes with a budget of one returns two pages. |
| `rate_raise` | `CongestionSlowsDown` | a latency breach lowers the rate (`adaptive.py:32`) | Below the latency floor the clamp raises it (`adaptive.py:154-166`). |
| `probe_leak` | `ProbesDecide` | "the outcome of those decides" (`breaker.py:114`) | The probe slot is taken at `client.py:164`; a refusal by the limiter at `client.py:186` reports no outcome. |
| `idle_expiry` | `OnlyInactivityExpires` | a hash "expires after this much INACTIVITY" (`state.py:174`) | A pause of little more than half a TTL expires pages that were not started. |

More was seen while modelling, without a configuration of its own:

- On `two_claimants`, `PartialOnce` fails too: a layout rolled back under a live coroutine is
  committed, and announced, twice, where `config.py:540-542` counts exactly two events per page.
- On `fault_stranding`, an error of the DONE commit fails a page that has a layout, where
  `pipeline.py:618-619` expects only pages without one; and a failed ack leaves an entry idle
  under a live worker's own name, which `streams.py:371-374` takes for a bug in renewal.
- The sweep marker moves in the transition script, before the sweep runs, so that a failed
  sweep is retried only half a TTL later and not by "a later retry of the same sweep"
  (`state.py:453-456`). An expired job hash is recreated without a TTL by the next transition.
- The backlog exceeds the bound stated in `app/main.py` by one entry per requeue in progress.
- A gap is reported although nothing was missed when the cursor is just before the first
  retained event; a response whose generator never starts keeps its slot.
- A torn flush loses its deltas (`worker/main.py:309-310`), a graceful stop never flushes its
  last interval, and a pipeline torn between HSET and EXPIRE leaves a gauge key without TTL
  (`common/metrics.py:17-19`).
- A mock leader that is cancelled makes its followers raise; TTL, eviction and reset allow a
  second execution where `idempotency.py:52-53` says "exactly 1, forever".
- `as_box` raises TypeError for a misshapen box (`iou.py:98-99`), which becomes a 500 although
  `evaluate.py:315-322` promises 422; a chain of five nodes against a root with four leaves has
  a normalised distance of 1.2, where `ted.py:265-270` says at most 1.

## 5. Not modelled

Configuration, connection handling, logging, tracing, middleware, benchmarks and scripts
hold no state the system depends on. Within the modelled parts: recreation of a lost
consumer group; the reaper's branch for an expired page hash; `bump_attempts`, which
nothing calls; payload generation and PDF parsing; rendering and labels of the metrics; a
reset of the mock while a request is in progress; micro averages of the evaluation. Retries
inside the Redis client library are not modelled: a resent compare-and-set that had already
executed would look like a rejection.

Simplifications that a reader should know of. Page contents and payloads carry no control
and are left out. A read error that ends the dispatch loop is a crash, as far as the queue
is concerned; a failed write to the quarantine stream is swallowed by the code and its entry
acknowledged, as in the model. In `Ingestion` the orphan age is longer than an ingestion takes
and a TTL does not run out while entries are queued, as the defaults have it; expiry of the
admission hash while it is not shedding only restarts its counters. In `Expiry` time spent in
the queue counts as a pause. A perfect text score is compared for node texts without newlines.
A scrape reads the metric hashes one after the other, and is not itself a step.
