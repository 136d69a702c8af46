# A TLA+ development of liter-llm

liter-llm is a Rust client for some 140 LLM providers with a stack of tower
middleware (`crates/liter-llm`) and an OpenAI-compatible proxy built on that
stack (`crates/liter-llm-proxy`). What makes it hard is in the middleware: every
layer is a `Clone` service whose clones share atomics, concurrent maps and locks,
every request is a future that may be dropped at any await, and most of the
decisions are made in several steps. This directory holds specifications of that
middleware, their model checking with TLC and their proofs with TLAPS.

Contents

1. Inventory: the components, their state and what makes them correct
2. Plan
3. The modules and the code
4. How scheduling, time and cancellation are modelled
5. The runs: what is checked, with which bounds
6. Fairness
7. What is proved, and how
8. What only TLC shows, and what is not modelled
9. Where the code and its documentation differ

## 1. Inventory

Paths are relative to `src/crates/`. `tower/` stands for
`liter-llm/src/tower/`, `proxy/` for `liter-llm-proxy/src/`. The status of each
component, with the reason where it is not modelled, is in `PROJECT.json`.

### Resilience layers of the client

**Circuit breaker** (`tower/circuit.rs`). *State*: an atomic state (Closed, Open,
HalfOpen), a failure counter, a probe slot (atomic flag), a trip counter and the
time of the last trip under a mutex. *Operations*: `should_allow` with
`maybe_half_open`, `record_success`, `record_failure`, `release_probe_slot`;
`CircuitService::call`, which samples the state, asks for admission at the first
poll, runs the inner service and records the outcome; `ProbeGuard`, which gives
the slot back when a future is dropped. *Hard*: five shared variables changed one
at a time by every request in flight; requests admitted before a trip answer
after it; a lost slot or stamp rejects for ever. *Correct when*: the state moves
along the documented edges, Open lasts its backoff and ends, one failure counts
one trip, the slot is never lost, and a Closed circuit is below its threshold.

**Idempotency** (`tower/idempotency.rs`). *State*: a concurrent map from key to
body hash, optional response and time; a placeholder is an entry without a
response. *Operations*: `get`, `try_insert` with `make_room` (sweep of the
expired, eviction of the oldest finalised), `store_response`, `remove`;
`IdempotencyService::call`; `IdempotencyInFlightGuard`, whose drop spawns the
removal. *Hard*: look up, make room and insert are separate accesses; writers are
cancelled, fail, and may outlive the TTL; eviction must not touch a request in
flight. *Correct when*: one run per key at a time, a stored response answers its
own body, a placeholder never outlives its request, the cap holds.

**Singleflight** (`tower/cache_singleflight.rs`). *State*: a concurrent map from
key to the sender of a broadcast channel. *Operations*: `join` (leader or
follower), `complete` (send, then remove), `LeaderDropGuard`. *Hard*: followers
that join between send and remove; leaders dropped upstream; removal by key.
*Correct when*: one upstream call per key, everyone that waits gets the one
outcome, nobody waits for ever.

**Response cache** (`tower/cache.rs`, `cache_policy.rs`, `cache_opendal.rs`,
`cache_negative.rs`). *State*: a map and a queue of keys under one lock.
*Operations*: `get`, `put` with eviction, `set_ttl`, `remove`, `warm`; the service
reads, calls the inner service and puts; the negative cache peeks and puts errors
into the same store. *Hard*: the gap between miss and put; a TTL set in a second
step; an error put over a success. *Correct when*: map and queue agree, the cap
holds, a hit answers its own body, an error never hides a later success.

**Hedging** (`tower/hedge.rs`). *State*: a set of attempt tasks per request.
*Operations*: spawn the primary, ask the veto and the delay for each further
attempt, first success aborts the rest. *Hard*: late answers, aborts and panics
race. *Correct when*: one answer, no attempt after it, an error only when all
failed, vetoed attempts never run.

**Budget** (`tower/budget.rs`). *State*: per dimension an atomic spend and an
atomic window start; maps of those with a cap; swappable limits. *Operations*:
`check`, `record`, rollover by compare-and-swap, `reset`, `update_limits`,
reclaim of empty entries; layers that check before and record after the call, for
streams from a spawned task. *Hard*: rollover is three accesses; checks and
records of concurrent requests interleave. *Correct when*: no spend is lost or
counted twice, a limit is overshot by the requests in flight at most.

**Rate limit, cooldown, concurrency limit, health** (`tower/rate_limit.rs`,
`cooldown.rs`, `in_flight.rs`, `health.rs`). Fixed windows under a map entry's
lock; a cooldown start under a lock; a semaphore permit held until the answer; a
flag kept by a probe loop with thresholds. *Hard*: answers counted in a later
window than their request, stragglers that extend a cooldown. *Correct when*: a
window admits at most its limit, a cooldown ends, permits are returned on every
path.

**Router, fallback, fallback chain** (`tower/router.rs`, `route_classify.rs`,
`fallback.rs`, `fallback_chain.rs`). *State*: a round-robin counter, latency
averages. *Correct when*: a transient error tries each later deployment once and
in order, a terminal one none.

**Hooks, cost, metrics, tracing, guardrails** (`tower/hooks.rs`, `cost.rs`,
`metrics.rs`, `tracing.rs`, `guardrail.rs`). *State*: the cancellation guard, the
stream observers. *Correct when*: exactly one usage event per admitted request,
stream usage is reported exactly once, nothing follows a blocked chunk.

### The rest of the client

**HTTP and retry** (`liter-llm/src/http/`): a loop with a retry budget, backoff
and Retry-After. **Token providers** (`liter-llm/src/auth/`): a token behind a
read-write lock, checked again under the write lock. **Managed client**
(`client/managed.rs`): a clone of the stack per call. **Batch polling**
(`client/mod.rs`), **catalog refresh** (`cost/refresh.rs`), **vector store**,
**tenants**, **guardrail predicates**, **provider translators**: sequential code
or data conversion.

### The proxy

**Graceful shutdown** (`proxy/shutdown.rs`): phases on a watch channel, a signal
task, drain tasks, a hard deadline. **Credential pool and auto-cycling**
(`proxy/provider/`): credentials that are active or exhausted, a cursor, timers
that reactivate, a service that retries once on the next one. **Tenant limits and
per-key budget** (`proxy/tenant_limit.rs`). **Configuration watcher and key
store** (`proxy/config/`, `proxy/auth/`): a reload in three published steps.
**Service pool** (`proxy/service_pool.rs`): the layers composed, from the inside:
cache, health, cooldown, rate limit, key limit, budget ledger, cost, budget,
guardrail, tracing, hooks. **Secrets** (`proxy/secrets/`): a TTL cache before a
vault. **Realtime relay** (`proxy/routes/realtime.rs`): two pumps and a
cancellation token. Routes and MCP tools forward to the pool.

### How they interact

Layers call inwards and see only `Result`s: an outer layer meets an inner one as
"the inner call ends well, badly or is dropped", which is how the modules treat
it. Shared state crosses layers at four places: the store of cache and negative
cache, the ledger that hedging asks and the budget layer writes, the limits that
the configuration watcher swaps under the running stack, and the credential pool
that the retry layer and its timers change. Three of these are composed in the
modules (`ResponseCache`, `ConfigReload`, `AutoCycle`); for hedging the ledger's
answer is a free choice, and so every one it may give. The process as a whole
adds the shutdown token, on which the realtime sessions hang (`ProxyLifecycle`).

## 2. Plan

Modelled in this order, the most stateful layers first.

| Step | Modules | Composes | Abstract specification |
|---|---|---|---|
| 1, done | `CircuitBreaker` | | the documented state machine, as an action property |
| 2, done | `Idempotency` | | `IdempotentCall`, implemented |
| 3, done | `Singleflight` | | `SharedCall`, implemented |
| 4, done | `CredentialPool`, `AutoCycle` | the pool, its timers and the service that retries | |
| 5, done | `Shutdown`, `RealtimeRelay`, `ProxyLifecycle` | phases, drains, server, and the sessions on its token | |
| 6, done | `BudgetLedger` | window, map and the layer that checks and records | exact count of a window's spend, as an invariant over who is in the middle of what |
| 7, done | `ResponseCache` | cache and negative cache over their one store | |
| 8, done | `ConfigWatch`, `ProxyAdmission`, `ConfigReload` | watcher, provider tasks, and the requests that pass the stores | |
| 9, done | `UpstreamCall`, `ClientCall` | hooks and hedging around rate limit, cooldown, health gate and probe, concurrency limit, token cache, retries | |
| 10 | `FallbackChain` | an attempt per deployment over `UpstreamCall` | the first deployment that answers |
| 11 | `StreamAdapters` | usage-observing and guarded streams | a usage report exactly once, nothing after a block |
| 12 | `SecretCache`, `CatalogRefresh` | | |

A component has one run, or two where one is on a multi-threaded runtime and one
on a single thread. Composed modules get a run of their own and need none of
their parts. Steps 10 to 12 are sequential code over state of their own, so they
come last.

The safety properties of all these modules are proved, invariants and action
properties alike, and both refinements. Liveness is left to TLC.

## 3. The modules and the code

Each component has a module with its variables and one action per step; what is
checked together is composed by a module above, with an `MC` module for TLC. The
theorems about it are in a `Proofs` module (`CacheProofs` holds those of both layers
that answer one request from another's call, `Singleflight` and `ResponseCache`;
hence the names with `Cache` in them in the latter). `PROJECT.json` maps each definition to the
lines it stands for.

### CircuitBreaker

`state`, `consecutive_failures`, `open_age`, `probe_slot` and `open_count` are the
fields of `CircuitInner` and of the policy; `open_age` is the age of the
`open_since` stamp. Per request there is `pc` and what its future keeps:
`is_probe` (sampled in `call`), `over` (the failure reached the threshold),
`read_count` and `seen` (values read and acted on later). Auxiliary are `elected`,
who won the slot, and `stamp`, which says of the stamp whether it was made for the
present trip: an Open circuit must not live on the stamp of an earlier one.

| Code | Actions |
|---|---|
| `call`, before the future is polled | `Call` |
| `should_allow` | `ShouldAllow`, `RejectOpen`, `ClaimSlot`, `RejectHalfOpen` |
| `maybe_half_open` | `ReadBackoff`, `TimerElapsed`, `EnterHalfOpen` |
| `record_success` | `SucceedHalfOpen`, `SucceedClosed`, `SucceedOpen`, `ResetFailures`, `FreeSlot`, `ZeroFailures` |
| `record_failure` | `Fail`, `Judge`, `Tolerate`, `Trip`, `TripLost`, `CountTrip`, `StampTrip`, `ClearSlot` |
| non-transient error, drop | `FailTerminal`, `Cancel`, `DropUnpolled` |

`consecutive_failures` is counted up to the threshold and `open_count` up to the
exponent's bound: beyond those no comparison in the code changes.

### Idempotency and IdempotentCall

`store` is the concurrent map. Two fields of an entry are auxiliary: `owner` names the
request that wrote it, and `unseen` those that had collected their candidates for
eviction before it was written. `key` and `body` belong to the request; `cand` is the
list `make_room` collects.

| Code | Actions |
|---|---|
| `call` up to the lookup | `Arrive` |
| what the lookup finds | `Conflict`, `Replay`, `InFlight`, `Miss` |
| `make_room` | `RoomFree`, `RoomFull`, `Sweep`, `Swept`, `Collect`, `Evict`, `Evicted` |
| `try_insert` and the second lookup | `Insert`, `InsertLost`, `FallThrough` |
| the end of the upstream call | `StoreResponse`, `RemoveEntry` |
| a dropped future and the task it spawns | `Cancel`, `Cleanup` |

A body stands for its hash and for the response it is answered with, so that a
stored response can be compared with the body it is stored under. `Sweep` is
one step. The map's `retain` locks one shard after another; what a request does
between two shards it is taken to do before or after all of them.

`IdempotentCall` is what callers are promised: a key is one slot, which the first
request takes and runs in, from which every other is answered as long as it is
taken, and which only the request that runs finishes or frees. The mapping: a
request is asking until it has answered or inserted and running until it, or the
cleanup after it, has finished; a slot is the entry under its key without its age.
Lookup, making room and insertion are one step there, and the promise is kept where
polls are not interrupted and no entry outlives its TTL.

### Singleflight and SharedCall

`in_flight` is the map; a leader stands for its channel, `chan` is the channel a
follower has subscribed to and `recv` what its receiver holds; `past` is auxiliary,
the followers that subscribed when the value had been sent. `Lead` and `Follow`
are `join`; `Send` and `Remove` are `complete`; `DropLeader` is
`LeaderDropGuard::drop`; `Receive` and `DropFollower` end a follower.

`SharedCall` is what callers are promised: the callers of a key share one call
that ends for all of them at once with one outcome, or is abandoned for all. The
mapping: a request is running while it is upstream, waiting while its receiver
is empty, answered once it holds something. A leader between send and remove has
already ended its call.

### CredentialPool and AutoCycle

`CredentialPool` is one provider's bucket: `size` credentials, the `exhausted`
ones, for each the ticks `left` of its cooldown, the `cursor`, and the timer
tasks under way, counted by the ticks they still sleep. The bucket's mutex makes
every operation one step. `AutoCycle` adds the requests: what they hold
(`handle`), what they may not retry on (`avoid`), how often they have asked.

| Code | Actions |
|---|---|
| `add_credential`, `current` | `AddCredential`, `Current`, `NoCurrent` |
| `mark_exhausted` and the task it spawns | `MarkExhausted`, `Reactivate` |
| `AutoCycleService::call` | `Begin`, `Answer`, `Rotate`, `Retried` |
| `next_credential_for_model` | `Pick`, `Skip`, `Unavailable` |
| a dropped future | `Cancel` |

### Shutdown, RealtimeRelay, ProxyLifecycle

`phase` is the watch channel, `token` the cancellation token, `handler` and `main`
the places of the two tasks, `registered` the subsystems that take part in the
drain (any of them; the command line registers none), `drain` the drain tasks
spawned for them, `server` and `inflight` the server with its graceful shutdown,
which the process awaits after the drain. A session has its two relay
tasks (`pump`), the side each is about to write to (`target`) and the child
token (`child`); a socket's mutex is held by whoever is in `send`.

| Code | Actions |
|---|---|
| `spawn_signal_handler` | `Signal`, `FirstSignal`, `CancelToken`, `SecondSignal`, `WindowOver` |
| `wait_for_drained` | `DrainStarts`, `AlreadyAborted`, `StartDrains`, `AbortSeen`, `HardTimeout`, `DrainFailed`, `DrainFinished`, `SetDrained` |
| a `Drainable` | `DrainEnds` |
| the command line and the server | `Start`, `Accept`, `Answer`, `Close`, `Stop`, `Exit` |
| `handle_session` | `Upgrade`, `Connected`, `ConnectFails`, `SessionEnds` |
| `run_proxy`, one relay task | `Frame`, `Lock`, `Sent`, `SeesCancel`, `Breaks`, `EndPump` |

### BudgetLedger

The global window is two atomics, `spend` and the age of its start, and every
access to them is a step. The spend counter is kept modulo `Modulus` as the code's
is modulo 2^64. `tracked` is the capped map of users, `spent` those of them who
spent anything. Auxiliary are `kept`, what the window has to account for, `seen`,
what was added since a slot's snapshot, `fresh`, the slots whose loaded start is
still the entry's, and `raced`, set when a reset, or another rollover, runs into a
subtraction that is still to come.

| Code | Actions |
|---|---|
| `WindowEntry::spend_usd` | `Load`, `Snapshot`, `SwapWins`, `SwapLoses`, `Subtract`, `SpendUsd` |
| `check` | `Begin`, `Allow`, `Reject` |
| `BudgetLedgerService::call` after the answer | `Answered`, `Unrecorded` |
| `record`, the map of users | `Add`, `Room`, `Reclaim`, `Decline`, `Fits`, `Insert` |
| `reset` | `BeginReset`, `ResetSpend`, `ResetStart`, `ClearMaps` |

### ResponseCache

`cache` and `order` are `InnerCache`'s map and queue; an entry has its body, its
kind (a response, an error of the negative cache, or the placeholder by which
`warm` asks for a slot), its TTL and its age. Every store operation is one step
under the lock, and evicts, purges and queues as the code does.

| Code | Actions |
|---|---|
| `NegativeCacheService::call` and `CacheService::call` up to the upstream | `Begin`, `Hit`, `Miss`, `Similar`, `NoneSimilar` |
| what follows it | `Responds`, `Fails`, `Ends`, `Put`, `SetTtl`, `Kept`, `NotKept`, `PutError` |
| `warm`, `remove` | `WarmMissing`, `WarmPut`, `RemoveKey` |

Keys are hashes: `HashOf` lets two bodies collide. `retain` on the queue is
`Unqueued`: the positions that stay, in ascending order (`Ascending`), and the
elements at them.

### ConfigWatch, ProxyAdmission, ConfigReload

A configuration is its revision. `ConfigWatch` holds the back end (`kind`, what is
`written` in the file or under the configuration's key, whether the file is still
`watched`), the provider's task with the `notices` it has not read, and the bounded
`channel` to the watcher. The file is written in place, or replaced by a rename,
which notify reports as something other than a write; under etcd's prefix the
configuration's key is put, or another one. `missed` is auxiliary: why the last
write need not come into force (section 9). `ProxyAdmission` keeps each store as the
revision it was loaded from, the key store key by key, and the requests that
pass them. `ConfigReload` is the watcher between the two.

| Code | Actions |
|---|---|
| `FileWatchConfigProvider::watch` | `Write`, `Replace`, `TakeNotice`, `ReadFile`, `SendEvent` |
| `etcd_watch_loop` | `Write`, `PutSibling`, `TakePut`, `SendEvent`, `Break`, `Fetch`, `Reopen` |
| `open_watch_stream`, `run_watcher` | `OpenStream`, `OpenWatch`, `Stop` |
| `handle_event` | `MasterKey`, `Retain`, `InsertKeys`, `UpdateKeyLimits`, `UpdateBudgets`, `Publish` |
| `validate_api_key` | `Begin`, `LetIn`, `Unauthorized` |
| `check_and_reserve_rpm_tpm` | `LoadLimit`, `NoLimit`, `Reserve`, `RateLimited`, `WindowOver` |
| the budget ledger, unary and realtime | `WithinBudget`, `BudgetExceeded`, `Answered`, `Upgraded` |

### UpstreamCall and ClientCall

An attempt's place (`at`) runs through the layers in the order
`client/managed.rs` stacks them, with hooks and hedging around them. No constructor of
the repository builds all of it (`HedgeLayer` is for applications that compose their
own stack): it is the most a caller can put together of these layers. The probe of
the health check is an attempt of its own, which enters below the gate and
competes for the same permits and the same token. A hedge that wakes asks whether
the layers are ready, which they are not while the gate is closed. `late` is
auxiliary: the attempts that came to the cooldown's check while it lasted. A call
has `MaxAttempts` places for tasks; aborted tasks of earlier calls keep theirs until
they are dropped, while the next call is under way.

| Code | Actions |
|---|---|
| `ModelRateLimitService::call` | `CountRequest`, `RateLimited`, `WindowElapses` |
| `CooldownService::call` | `ReadCooldown`, `ClearCooldown`, `StartCooldown`, `CooldownElapses` |
| `HealthCheckService::call`, `run_health_probe` | `CheckHealth`, `StartProbe`, `ProbeAnswered`, `ProbeTimesOut`, `RecordHealthy`, `RecordUnhealthy` |
| `InFlightLimitService::call` | `Acquire`, `EndCall` |
| `AzureAdCredentialProvider::resolve` | `ReadToken`, `LockToken`, `Fetched`, `FetchFails`, `TokenExpires` |
| `with_retry_bounded` | `Succeeds`, `Retries`, `GivesUp`, `Refused`, `Resend` |
| `HooksService::call`, `CancellationGuard` | `Begin`, `HookRejects`, `Finish`, `Cancel` |
| `hedge_race` | `Dispatch`, `Wake`, `RaceWon`, `RaceLost`, `AbortAll` |
| an aborted task | `Reap`, `Drop` |

## 4. How scheduling, time and cancellation are modelled

*Interleaving.* Every access to shared state (an atomic, a map entry, a lock's
section) is an action. In the first three modules, where futures can be
interrupted between two accesses depends on the runtime, and is the constant
`Preempt`, the labels besides the awaits at which another request may run. With
`Preempt = {}` a section between two awaits is not interrupted: a
single-threaded runtime with futures polled as they are made. With all labels
every access may interleave: a multi-threaded one. The actions are the same in
both: only `Turn` reads `Preempt`. In all other modules every access may
interleave. Memory is sequentially consistent, a simplification where the code
uses relaxed orderings for counters (`open_count`): a stale read of one of them
is not modelled.

*Time.* A tick advances the age of a stamp or of every entry, or takes one off the
ticks left until an instant, as far as the code's comparisons can tell. Where only
"not yet" and "elapsed" matter (the cooldown, the access token, a window of
requests, the delay of a hedge) elapsing is an action that may come at any time.
A timer may fire late; the second-signal window and the hard deadline count down
together.

*Cancellation.* A request may be dropped whenever it is at an await: the `Cancel`
and `Drop` actions do what the guards do. An aborted task is dropped at its next
await, later than the abort (`Reap`).

*Callers* send one request after another: members of the sets of requests are
reused, so behaviours are unbounded while states stay finite.

*Two-valued variables* stand for a `bool` or a token as a string ("live",
"cancelled"), which the provers treat more evenly than Booleans.

## 5. The runs

| Run | Instance | Shows |
|---|---|---|
| `Circuit_threads` | every access; 3 callers, threshold 1, backoff 1 to 2 | `OpenIsStamped`: Open always has, or is about to get, the stamp of this very trip, which ends it. `OneCountPerTrip`: racing failures count one trip. |
| `Circuit_eager` | awaits only; 3 callers, threshold 2, backoff 1 to 3 | `DocumentedEdges`, `SlotHasProbe`, `ClosedBelowThreshold`, and `BreakerRecovers`: Open and a taken slot end |
| `Idempotency_threads` | every access; 2 callers, 2 keys, 2 bodies, 1 slot, with expiry | `PlaceholderOwned` and `PlaceholderEnds`: no placeholder is stuck. `InFlightNotEvicted`: one is evicted only if written after the candidates were collected. |
| `Idempotency_eager` | awaits only; 3 callers, 3 keys, 2 bodies, 2 slots, within the TTL | `OneWriter`, `CapHolds`, `ImplementsIdempotentCall` |
| `Singleflight_threads` | every access; 3 callers, 2 keys, 2 outcomes | `OneLeader` per key, and `FollowerEnds`: with Closed only as `ClosedOnlyByDrop` allows |
| `Singleflight_eager` | awaits only; 4 callers, 2 keys, 2 outcomes | `ImplementsSharedCall` |
| `Credentials_rotate` | 2 requests, 2 models, 2 credentials (one serves both models), cooldowns of 0 and 2 ticks | `PoolInv`: a parked credential has a timer, a retry goes elsewhere. `EarlyOnlyByOlderTimer`. `CredentialsRecover`. |
| `Lifecycle_drain` | any of 2 subsystems registered, 1 request, 1 session, 2 signals, deadline of 2 ticks | `ResultInv`: what phase and result say is the case, and the process ends with nothing in flight. `PhaseForward`, `TokenOnlyBySignal`, `DrainEndsInTime`, `SessionsEnd`. |
| `Budget_window` | 3 slots, 4 users, cost 1, limit 2, cap 1, 1 reset | `CountsExactly`: no spend lost or counted twice. `BoundedOvershoot`, `MapInv`. |
| `Cache_shared` | 2 callers, 4 bodies on 3 keys, 2 entries | `QueueInv`: queue and map agree, oldest first. `HitsMatch`: no answer but one's own. `LiveEntriesKept`: no eviction without need. |
| `Reload_admission` | 3 writes, in place, by rename or of another key, of which one does not parse, channel of 1, 1 interruption, 1 request, 2 keys | `StoresInv`, `AdmittedAsConfigured`: in any step of a reload. `LastWriteInForce`. |
| `Call_hedged` | 1 caller, 2 attempts and the probe, 1 request per window, 2 permits, 1 retry | `CallInv`: permits conserved, token guarded, nobody left behind. `OneEventPerCall`, `CooldownKept`, `CallsEnd`, `GateReopens`. |

Why the bounds suffice. The races in the code are between two accesses of one
request and one of another; a third caller is there for what follows (a later
round, a follower, a second subtraction), and four are used where a round must
begin while another ends. In the modules with many places per request two callers
meet in all of them. A threshold of 2 separates "a failure" from "the
failure that trips"; a backoff of 1 to 3 ticks with two doublings reaches its
cap. Two slots and three keys make a store full with one entry that may go and
one that may not; one slot makes every insertion evict. A TTL of one tick and
ages up to two give each entry all of fresh, due and expired. Two bodies, models
and outcomes are what "the same" and "another" need. Cooldowns of 0 and
2 ticks let a timer of an earlier parking outlive a later one and the reverse. A
deadline of 2 and a window of 1 end in either order with the drains. Three slots
that race for the last place of the ledger's map can bring it to one user for each
of them, so a fourth user is needed to see a map that grows further. The ledger's
modulus of 16 is more than two windows' spend with three slots, so that a
wrap-around is a subtraction of too much and nothing else; that this suffices is
the premise `NoOverflow` of the proofs. Three writes
give a reload that adds, one that is refused and one that revokes, with a
channel of one full behind it. One caller with two attempts and the probe are
three tasks at the semaphore's two permits; the probe and the attempts also
contend for the token; one request per window makes the second attempt, or the
next call, run into the limit. One failed probe closes the gate and two good ones
open it, so that a failure between them starts the count anew.

Bounds beside the constants, named where they stand:

- `AutoCycle.Begin` takes a new request while the pool is `Quiet`: no credential has
  more than one timer. Requests under way start all the timers they do. The
  proofs do not use this bound.
- `MCBudgetLedger.UntilRaced` explores a race of a reset, or of a second rollover,
  with a pending subtraction, but not what follows it, where `CountsExactly` and
  `BoundedOvershoot` promise nothing (section 9).
- `ClientCall.Begin` waits until one of the caller's places is free: in the code
  every call has tasks of its own, here at most `MaxAttempts` of one caller are alive.
- `Shutdown.MaxSignals`, `ConfigWatch.MaxWrites`, `MaxBreaks`,
  `BudgetLedger.MaxResets` bound what the outside does.
- The breaker counts `consecutive_failures` up to the threshold and `open_count`
  up to the exponent's bound, the health check its runs up to their thresholds:
  beyond those no comparison in the code changes.

Deadlock is checked everywhere but in `Lifecycle_drain`, whose process exits.
Symmetry over callers, keys, users, bodies and outcomes is used where no liveness
property is checked; the abstract specification of `Idempotency_eager` treats them
alike as well.

For each property there is a mutant of the code's step, written in the module in
front of the actions, under which TLC finds the property violated: a forgotten
stamp, a store for a compare-and-swap, a missing guard, a slot that is not freed,
an eviction that takes placeholders, a timer that is not started, a deadline that
is not waited for, a cooldown cleared without a second look, a lock that outlives its task.

## 6. Fairness

`FairSpec` (in `ConfigReload`, `Spec`) is used for liveness only.

- *Tasks that can run are polled.* An await ends well, badly, or is dropped: one
  disjunction, so no particular outcome is assumed. In the first three modules it
  is under strong fairness, because on a single thread a request's turn comes and
  goes with other requests' sections: tokio polls a woken task eventually, it does
  not promise to when the step is enabled without a break.
- *Locks and permits* are handed to their waiters in order by tokio's mutexes,
  read-write locks and semaphores. `Acquire`, `LockToken` and the relay's `Lock`
  are enabled again and again while others come and go, so they are strongly
  fair; a waiting task is not passed over for ever.
- *Upstreams answer*: reqwest's timeout and the health probe's make sure that they
  do or fail. A fetch of an access token has no timeout, so nothing is assumed
  of it, and `CallsEnd` promises nothing while one hangs. Nothing is assumed of the
  drains of subsystems and of requests in flight in `DrainEndsInTime`.
- *Peers of a realtime session* need not act: neither a frame, nor the end of a
  connect or of a send is assumed, since none has a timeout. A relay task that
  waits in a send holds the socket's mutex and looks at no token, so `SessionsEnd`
  promises the end of a session that is asked to end unless a peer leaves a connect
  or a send pending for good (section 9).
- *Time passes*: weak fairness of the ticks, of the timer tasks, and of the
  deadline.
- *Requests arrive* (circuit breaker only): Open is left on the request path, so
  `BreakerRecovers` needs callers who come back.
- *Configuration*: the provider's task, its back end and the watcher go on.
  `LastWriteInForce` exempts a last write that does not parse, one that was made
  while nobody watched or by a rename, one overridden by a put of another key under
  the prefix (all in section 9), and a watcher that has stopped.
- `GateReopens` is about probes: it holds of behaviours in which, from some point
  on, none fails.

No fairness is assumed for cancellation, arrival of followers, signals, writes of
the configuration, or any single outcome of an upstream call.

## 7. What is proved

All theorems hold for every set of callers, keys, bodies, outcomes, subsystems,
sessions and models and every value of the other constants under the modules'
named assumptions: thresholds, backoffs, deadlines and TTLs are natural numbers,
caps and permits are at least one, and the markers (`None`, `Absent`, `Pending`,
`Empty`, `Closed`) are none of the values they stand beside. Theorems about
single-threaded runtimes have `Preempt = {}` as a premise, those within the TTL
`MaxAge <= TTL`; `CounterIsExact` and `OvershootBounded` have the premise
`NoOverflow`, and `CallHolds` a finite set of callers, whose attempts are counted.

| Theorem | For | By |
|---|---|---|
| `OpenStamped` | every runtime | its own induction: an Open circuit has the stamp of its trip, or a request between swap and stamp |
| `TripCountedOnce` | every runtime | type correctness and the step |
| `SlotNeverLost`, `ClosedIsBelowThreshold`, `EdgesAsDocumented` | one thread | `EagerInv` |
| `PlaceholderHasOwner` | every runtime, with expiry and eviction | its own induction |
| `OneWriterPerKey`, `AnswersOwnBody` | one thread, within the TTL | `WriterInv` |
| `PlaceholdersKept` | every runtime, with expiry and eviction | `CollectedFinalised`: what was collected is finalised as long as it has not been written anew |
| `CapOnlyForPlaceholders` | one thread, within the TTL | `RoomInv`, and the cardinality of the store |
| `ActsAsOneSlot` | one thread, within the TTL | `WriterInv`, and the mapping to `IdempotentCall` |
| `OneLeaderPerKey` | every runtime | `RoundInv` |
| `NoSpuriousClose` | every runtime | `RoundInv`: who is subscribed when a value is sent holds it |
| `SharesCalls` | one thread | `RoundInv`, `SentInv` and the mapping to `SharedCall` |
| `PoolHolds`, `EndsEarlyByOlderTimer` | every runtime | `OwnTimer`, `ServiceInv` |
| `PhaseOnlyForward` | every runtime | type correctness and the step |
| `TokenCancelledBySignal` | every runtime | `SignalInv`, and that the phase only moves forward |
| `DrainResultHolds` | any subsystems registered, or none | `DrainInv` |
| `OneEventForEachCall` | every runtime | `EventInv` |
| `CallHolds` | finitely many callers | `RaceInv`, a count of who is in flight, and an induction of `TokenGuarded` |
| `CooldownIsKept` | every runtime | its own induction: who came late is at the gate, and a cooldown is cleared only when it elapsed |
| `CounterIsExact`, `OvershootBounded` | every runtime, two windows' spend below the modulus | `CountInv` and the overshoot itself, together |
| `MapBounded` | every runtime | its own induction, over finite sets |
| `QueueMatchesMap` | every runtime, any collisions | `StoreInv`, with the queue's length by cardinality |
| `HitsAreOwn` | every runtime, any collisions | what `Valid` compares |
| `LiveEntriesStay` | every runtime | `StoreInv`, and that an insertion evicts at most one |
| `StoresInvariance` | every runtime | `DeliveredInOrder`, `LoadedInOrder`, `StoresInStep` |
| `AdmissionAsConfigured` | every runtime | the same, and `RequestsInv` |

*Why the invariants are what they are.* None of the single-threaded properties is
inductive. That a slot always has a probe, for instance, depends on what a request
in the middle of `record_success` believes about the state. `EagerInv` has three
parts: at most one request is inside a section (`Alone`); what that request read
is still true (`SectionInv`); and the slot and the failure count are accounted for
either by a live probe or by the section about to reset them (`SlotInv`,
`CountInv`). `WriterInv` is built alike: the request that runs upstream, or whose
cleanup is pending, owns the placeholder under its key, and whoever is inside
`try_insert` still finds its key absent. `RoundInv` needs no premise: since
leaders are inserted and entries removed through the map's atomic entry, an entry
is in the map exactly as long as its leader runs, and whoever waits does so on
the current entry of its own key. `SentInv` adds that nobody subscribed after the
value was sent, which is exactly what the second thread can break.

`OwnTimer` is sharper than the property it is for: a parked credential has a timer
with exactly as long to go as its cooldown. That is why a cooldown cut short must
have met another timer: its own is still there. `DrainInv` connects the phase
with the result and the result with the drain tasks: Drained is only ever set
together with the result, after all drains of the registered were joined; and a server
that has stopped has nothing in flight. `EventInv` says when the cancellation
guard is armed, which makes the drop of a call and its regular end exclude each
other. `RaceInv` is about aborts: attempts of a running race are not aborted, and
those that are still have a task to be dropped, so that `at` and `aborted` of a
call that is over account for everybody. For the permits, every step of every
attempt is first shown to be a `Moves` step, from one place to another with the
permit taken or given back, and the count is done once for all of them.

`CountInv` states what the counter, the account and the snapshots have to do with
each other at every place of a rollover: before the swap a snapshot that may still
win and what was added since make up the counter, and after it the winner has
exactly the rest to take off. It says nothing of a counter that wraps around, so it
needs a bound on the account, which is `BoundedOvershoot`; and that a request that
passes the check finds the account below the limit needs the counter to be at least
the account, which is `CountInv`. The two are therefore one induction. Its premise
`NoOverflow` is that twice the highest account, `2 * Most`, is below the modulus:
the counter holds a window that is being opened and one that is not yet taken off.
The code counts microcents in 64 bits, so that the premise fails only for a limit in
the order of a hundred thousand million dollars. The attempt to prove `MapInv`
corrected it: it bounded the sum of the users in the map and of the slots about to
insert, which counts a user twice that is inserted by two requests after a reclaim.
Now it bounds the number of users the map will hold, `Fits` being the only action
that adds one, at a moment when the map is below its cap.

For `ConfigReload` the properties speak of four stores, and the invariant of the way
a revision takes to them: a notice of etcd not yet delivered is not older than what was
read, an event in the channel is not older than what is being loaded, and that not
older than what is published. So the stores can be told apart by the step of the
reload alone (`StoresInStep`), and a request that met no reload found them all at
one revision (`RequestsInv`). Ascending sequences stay so under `Append` and `Tail`,
which is all their proofs need of the channel and of the notices.

`PlaceholdersKept` turns on `CollectedFinalised`: whoever has collected a candidate
finds no placeholder under its key but one written since, which names it among its
`unseen`. For the
cap, `RoomInv` follows the request inside `try_insert`: either the store has room,
or everything that could go is gone, and so what is left is in flight.

The cache's `StoreInv` is that the queue has as many places as the map has keys and
names each of them, hence each once, and that ages fall along it. What makes it
long is `retain`: `Unqueued` keeps the positions whose element is another one, and
that such a set of positions can be put in ascending order, in one way that keeps
the order of the queue, has to be shown by induction on its bound. The library's
induction theorems take an operator and cannot be used; `AllNumbers` states
induction for a *set* of numbers instead, and follows from the well-foundedness of
`<` (`WFMin`). From it come `AscendingExists`, `AscendingProperties` and
`UnqueuedProperties`, and everything else uses only the last: without a key that is
there once the queue is one shorter, and what is before another stays so. An
insertion removes its own key first, if it is there, so that only a new key can meet
a full queue; then exactly one entry is evicted (`EvictedIsOne`), the queue's front
and so the oldest.

Each property is also checked by TLC before it is proved, and so is each inductive
invariant. Each proof has one
step per action and ends in a temporal step; type correctness is a lemma of each.

*Refinement.* `SharesCalls` proves that initial states map to initial states and
that each step maps to a step of `SharedCall` or a stutter: `Send` and `DropLeader`
map to `End`, with the outcome or with Closed, `Remove` to a stutter. `ActsAsOneSlot`
does the same for `IdempotentCall`: `Insert` maps to `Start`, `StoreResponse`,
`RemoveEntry` and `Cleanup` to `Finish`, the three answers to a lookup to `Answer`,
`Evict` to `Forget`, and a cancellation, whose slot is still taken, to a stutter like
the other steps of `make_room`. That a stored response answers its own body
(`AnswersOwnBody`) is a consequence of it, which TLC checks as part of it. It is
`WriterInv` that makes them so: whoever inserts finds the slot empty, whoever
finishes finds its own placeholder in it, what is evicted is a response, and nobody
runs upstream without a slot.

## 8. What only TLC shows, and what is not modelled

Only model-checked: the liveness properties (`BreakerRecovers`,
`PlaceholderEnds`, `FollowerEnds`, `CredentialsRecover`, `DrainEndsInTime`,
`SessionsEnd`, `LastWriteInForce`, `CallsEnd`, `GateReopens`), because the prover
has no rules for fairness and ENABLED here. Everything else a passing run checks is
proved.

Left out of the modelled components:

- requests without a key, which pass through the keyed layers, and requests with
  the master key, which pass every check of the proxy;
- a poisoned mutex, which most of the code recovers from and
  `credential_pool_memory.rs` makes a panic of (`expect`): nothing panics while it
  holds one; logging and metrics; the
  `Lagged` answer of a broadcast channel, which needs a second value on a channel
  that gets one;
- idempotency and cache stores other than the in-memory ones, whose atomicity is
  that of an external store; the vector search, which may name any body;
- the limits of tokens beside those of requests, and of models, tenants and users
  beside the global budget: the same test on a counter of the same kind;
  `CostRateLimitLayer`, whose windows are those of the ledger again; `BudgetState`
  of the managed client, the same accounts without windows or a cap;
- that a guardrail's call to a remote service hangs: it is taken to return;
- a write of the file that is seen half done: a write in place is one step, and what
  does not parse is passed over like any broken revision;
- what a guardrail or a translator does to a realtime frame, beyond forward,
  answer or drop.

Not modelled:

- *Fallback, fallback chain, router*: sequential control over a fixed list within
  one future, with a round-robin counter as the only shared state. A module would
  restate the loop. The latency averages and the semantic classification are
  numeric and text heuristics.
- *Stream adapters* of cost tracking and guardrails (`UsageObservingStream`,
  `GuardedChunkStream`): automata polled by one task, planned as `StreamAdapters`.
- *Secrets, catalog refresh, batch polling*: sequential loops around an external
  service.
- *Guardrail predicates, cache keys, provider and realtime translators, stream
  parsing, vector store*: conversions of data, without a protocol.
- *Tracing, metrics, routes, MCP tools, file store, tenants*: no state a request's
  outcome depends on.
- *Language bindings, command line*: most of the repository's Rust lines, and
  generated: wrappers that call the client. They hold none of the behaviour
  described here, so the mapped share of all lines is small although the stateful
  layers are covered.

`PROJECT.json` lists every component with its status, and the hazards of the code
at their lines, with the properties that cover them.

## 9. Where the code and its documentation differ

Met while modelling. Where a property had to be restricted to hold, it says so.

- *Late first poll* (`tower/circuit.rs`). `ProbeGuard` is documented to keep later
  requests from being locked out. A request made while the circuit was Closed and
  first polled when it is HalfOpen takes the slot without a guard; dropped or
  failing with a non-transient error it keeps the slot for good. `SlotHasProbe` and
  `BreakerRecovers` are about futures polled as they are made.
- *Two probes* (`tower/circuit.rs`). "HalfOpen: one probe request is allowed
  through". A request admitted before the trip that ends during HalfOpen is taken
  for the probe and frees the slot of the real one, and after the next half-open
  two are out.
- *First backoff* (`tower/circuit.rs`). `base_backoff` is called the initial delay;
  the trip counter is advanced before the delay is computed, so the first delay is
  twice that.
- *HalfOpen after Closed* (`tower/circuit.rs`). On several threads `maybe_half_open`
  stores HalfOpen after dropping the lock under which it checked the timer, and can
  take a circuit that has been closed meanwhile back to HalfOpen: `DocumentedEdges`
  holds on one thread only.
- *Late writer* (`tower/idempotency.rs`). A writer that finishes after its TTL
  stores its response under the placeholder of a later request, perhaps with
  another body; `ImplementsIdempotentCall`, and the theorem
  `AnswersOwnBody`, are about entries within their TTL.
- *Evicted placeholder* (`tower/idempotency.rs`). `make_room` collects candidates and
  removes them by key later; on several threads the key may hold a new placeholder
  by then, of a request in flight. `InFlightNotEvicted` allows that and no other
  eviction of a placeholder.
- *Late subscriber* (`tower/cache_singleflight.rs`). A follower that joins between
  send and remove does not get the stored value, as one comment says and another
  denies. `ClosedOnlyByDrop` exempts such followers and no others, and
  `ImplementsSharedCall` holds where the two are not interrupted.
- *Parked twice* (`proxy/provider/`). The trait says that marking an exhausted handle
  again has no effect; the in-memory pool writes the new cooldown over the old one
  and starts another timer, and the older timer may end the newer cooldown early.
  `EarlyOnlyByOlderTimer` says that nothing else does.
- *Drained after an abort* (`proxy/shutdown.rs`). An abort between the end of the
  drains and `set_drained` leaves the phase Aborted while `wait_for_drained`
  returns Drained.
- *Drained with requests in flight* (`proxy/shutdown.rs`). "All in-flight requests have
  completed cleanly", says the documentation of `Drained`. It says it of registered
  subsystems only, and `liter-llm api` registers none (`AxumServerDrainable` is
  constructed nowhere): its drain ends as soon as it starts, whatever is in flight.
  That requests are served nevertheless is due to the wait for the server's task
  that follows (`ExitServed`), which neither the hard deadline nor an abort bounds.
- *Stalled peer* (`proxy/routes/realtime.rs`). A relay task that waits in a send, and a
  session that waits for its upstream's connect, look at no cancellation token and
  have no timeout: a peer that does not read, or does not answer, keeps the session
  and the socket's mutex, and the shutdown does not end it. `SessionsEnd` exempts
  these two.
- *Raced windows* (`tower/budget.rs`). A reset, or a thread held up for a window, in
  the middle of a rollover makes the counter wrap around and the ledger reject for
  a window. The code promises nothing of it, and `CountsExactly` ends there.
- *Renewed window* (`tower/cache_negative.rs`). A replay is said never to extend an
  error's window; an error replayed while its entry expires before the peek is put
  again with a new one.
- *Unseen write* (`proxy/config/provider.rs`). What is written between the snapshot
  after an interruption and the new stream, or before the first stream is open, is
  not loaded until the next write.
- *Replaced file* (`proxy/config/provider.rs`). The watch of the file acts on events of
  writes and passes over renames, removals and errors of the watch. A file replaced
  by a rename, as editors and configuration management do it, is not loaded, and the
  watch may be gone with the old file. `LastWriteInForce` is about files written in
  place.
- *Sibling key* (`proxy/config/provider.rs`). The stream is opened for a prefix and the
  key of a put is not looked at: another key that begins with the configuration's is
  taken for the configuration, until the next put or snapshot, which reads the very
  key. `LastWriteInForce` exempts what such a put overrides.
