# TLA+ models of Five API

Five API is a gateway between API keys of tenants and upstream model providers.
It promises its operator that nothing is used that is not paid for: every
request reserves quota before it is sent, and is charged what it used, once,
however workers, connections and upstreams fail. This directory specifies that
machinery, checks it with TLC on small instances, and proves the facts that
matter most for every instance with TLAPS.

- [Inventory](#inventory): the parts of the system, their state, what makes them hard
- [Plan](#plan): the modules written and still to be written, in order
- [How the models correspond to the code](#how-the-models-correspond-to-the-code)
- [What the runs show](#what-the-runs-show), bounds and fairness
- [What is proved](#what-is-proved)
- [Disagreements between code and documentation](#disagreements-between-code-and-documentation)
- [What is not modelled](#what-is-not-modelled)

All paths below are relative to `src/backend/app/`.

## Inventory

Several Uvicorn workers share one MySQL database and one Redis. A worker is one
asyncio process: between two `await`s its code runs alone, at every `await`
anything else may happen. Work that outlives a request runs in loops started by
`main.py` (`lifespan`) in every worker.

| Part | State | Operations | Why it is hard | What makes it correct |
|---|---|---|---|---|
| Settlement ledger, `services/settlements.py` | rows of `settlements`, `quota_used` of tenant and key, `_unsaved` in each worker's memory | reserve, mark dispatched, record usage, apply, release, abandon, note failure, flush, take over orphans, recover | the same row is written by its request, the recovery loops of all workers and operators; statements fail before or after their effect; workers die or are presumed dead | each hold is charged at most once at one price, to key and tenant, or freed; only unsent work is freed without an operator; known usage is not lost; pending work is decided |
| Request lease, `services/quota.py` | flags of a `RequestLease` (reserved, dispatched, closed) | begin_request_budget, before_send, release, finish | every exit of a request must end the lease once | a request is sent only while it holds its reservation |
| Monthly reset, `services/quota.py` | `quota_used`, `quota_last_reset_at`, `quota_reset_day` | quota_reset_loop | runs without the locks of the ledger, perhaps on two workers | no charge is cleared unseen; a reset day resets once |
| Spend windows, `services/spend_windows.py` | hourly counters and one marker per request in Redis, `windows_recorded` | exceeded_window before the reservation, record_windows after the commit | two stores without a transaction; replay after a lost reply | a cost counts once within its window, and is counted in the end |
| Operators, `routers/settlements.py` | settlement rows | retry, resolve | race with recovery and with late usage | a decision is final |
| Administrators, `routers/tenants.py`, `routers/keys.py` | totals, switches, limits | adjust_quota, update_tenant, create/update/revoke key | race with reservations; an adjustment may be sent twice | a total never falls below what is used and held; an operation_id acts once |
| Worker coordination, `services/cluster.py` | heartbeats and claims in Redis | beat, leave, live_owners, claim | a live worker's key may lapse; a claim's owner may die | one worker per period, another takes over |
| Proxy orchestration, `services/proxy.py`, `routers/openai_proxy.py`, `routers/anthropic_proxy.py`, `services/failover.py` | the progress of a request over its candidate channels | execute_with_failover, stream_with_failover, _bill_and_log | exceptions, cancellation and retries at every step | every reservation and lease is ended; a non-repeatable job is not sent twice; what was used is billed |
| Concurrency leases, `services/concurrency.py` | a sorted set of leases per owner in Redis, a keep-alive task per lease | acquire, keep-alive, release | leases expire under running requests | never more than the limit of live leases |
| Token and request rates, `services/rate_limit.py` | a counter per owner and minute | check_rpm, reserve_tpm, adjust_tpm | a correction lands in another minute | a counter stays between 0 and its limit plus overruns |
| Quotes and prices, `services/billing_quotes.py`, `services/pricing.py` | the price snapshot of a request | snapshot_quotes, estimate_quotes, quote_cost | rounding and missing prices | the estimate covers the cost of any usage within the token estimate |
| Channel health, `services/channel_health.py` | failure count, circuit breaker and cool-down per channel | record_success, record_failure, health_check_loop | reports of many requests in any order | a recovered channel is not left disabled |
| Key pool, `services/key_pool.py` | cool-downs of upstream keys | choose, report | several workers choose at once | a cooled-down key rests |
| Routing, `services/routing.py`, `services/sticky_session.py`, `services/downgrade.py` | sticky bindings | plan_route | stale bindings | only allowed, enabled channels are candidates |
| Stream outcomes, `services/stream_outcomes.py` | the terminal event seen in a stream | classify events | incomplete streams | a stream is complete only after its terminal event |
| Model probes, `services/model_monitor.py`, `services/model_checks.py` | probe slots in Redis | probe_slot, model_check_loop | compare-and-delete in two commands | one probe per slot |
| Alerts, `services/alerts.py` | once-only markers in Redis | check_budget, record_outcome | workers notify at once | one alert per event |

The other parts keep less state; they are in the table under
[The other components](#the-other-components) and in `PROJECT.json`.

## Plan

Written, in this order:

1. `Settlements`, the ledger with everything that touches it: requests, leases,
   recovery loops, heartbeats, crashes, operators, administrators; `Ledger`, the
   abstract promise, which `Settlements` implements.
2. `QuotaReset` and `SpendWindows`, which extend `Settlements` with the monthly
   reset and with the spend caps.
3. `RequestFlow`, which composes `Settlements` with the proxy around it: limits,
   leases, attempts, fail-over, the bill; `UpstreamFailures` is its vocabulary.
4. The components a request meets on its way, each a module of its own:
   `RateLimits`, `ChannelHealth`, `UpstreamKeys`, `Routing`, `Pricing`,
   `Endpoints`, `Streams`, `CacheMarks`, `Scanner`, `Excerpts`, `Access`.
5. What runs beside requests: `ModelMonitor`, `Alerts`, `Reviews`, `Usage`,
   `Accounts`, `Administration`, `Catalogue`, `GatewaySettings`, `ConfigCaches`,
   `MasterKeys`, `RowLocks`.
6. Model checking: `MCSettlements`, `MCQuotaReset`, `MCSpendWindows` and
   `MCRequestFlow` fix the instances of the ledger and what extends it;
   `MCParts`, `MCProbes` and `MCServices` put together components that share no
   state, each behaviour following one of them.
7. Proofs: `SumTheorems` (sums and counts over finite sets);
   `SettlementsProofs`, `LedgerProof`, `QuotaResetProofs`, `SpendWindowsProofs`
   and `RequestFlowProofs` about the ledger and what extends it; `PartsProofs`
   about the components of `MCParts`; `ServicesProofs` about those of
   `MCServices`.

Every invariant and every action property of the passing runs is proved; what is
left to TLC is liveness. Next, most valuable first: an abstract lease that
`RateLimits` and `ModelMonitor` implement; two requests at once in a run of
`RequestFlow`, which follows one at a time because the ledger beside it is shared
state enough in `Quota` and `Takeover` (its theorems have no such bound); creation
of a tenant with its first account.

## How the models correspond to the code

### Settlements

One row per request (`row`), the owners' accounts (`total`, `used`, `enabled`),
and per request what its worker holds in memory (`unsaved`, with the order of
the dict in `older`, and the part of a flush not yet written in `todo`).
`phase` is where the coroutine that serves the request is:

```
new --Reserve--> held --BeforeSend--> sent --Bill--> billing --Apply--> closed
 \-Deny/Refuse-> denied  \-RefuseSend-> refused        \-ApplyFails-> noting
                                                        \-> rebill (BillAgain)
```

`gone` is a request whose process ended. `loop` is where the recovery loop of a
worker is: `sleep`, `flush` and `reflush` (flush_unsaved, at the top of the loop and in
recover_once), `orphans`, `release`, `uncertain` (the round trips of
recover_orphans), `recover`, `note`.

| Action | Code |
|---|---|
| `Reserve`, `Deny` | `settlements.reserve`, called by `begin_request_budget` |
| `Refuse` | an earlier check of `begin_request_budget` raises |
| `BeforeSend`, `RefuseSend` | `RequestLease.before_send`, `mark_dispatched` |
| `ReleaseLease`, `Abandon` | `RequestLease.release`; the uncertain branch of `_bill_and_log` |
| `Bill`, `BillAgain` | `_bill_and_log` up to `persist_usage`; its second call from `except Exception` of `execute_with_failover` |
| `ApplyInRequest`, `ApplyFails`, `NoteInRequest` | `apply` and `note_failure` in `_bill_and_log` |
| `CutShort` | the 30-second shield around a stream's cleanup ends |
| `StartLoop`, `FlushOne`, `FlushDone` | `recovery_loop`, `flush_unsaved`, the claim |
| `FindOrphans`, `ReleaseUndispatched`, `HoldDispatched` | `recover_orphans` |
| `RecoverRow`, `NoteInLoop`, `EndLoop` | `recover_once` |
| `Beat`, `Lapse`, `Crash`, `Leave` | `cluster.beat`, expiry of the key, exit of the process, `lifespan` |
| `Retry`, `ResolveRelease`, `ResolveCharge` | `routers/settlements.py` |
| `SetTotal`, `SetEnabled` | `adjust_quota`, `update_tenant`, `update_key` |

**Atomicity.** One SQL statement is a step, and so is one transaction. That is
what the locks give: `reserve`, `apply`, `resolve` and the administrators lock
tenant, then key, then settlement rows, and in MySQL their snapshot is taken
after these locks are held. `note_failure` reads and updates without a lock,
so it is two steps (`noting` remembers what it read); `recover_orphans` reads
owners, then heartbeats, and updates in two statements, so it is three steps
(the heartbeats it read are what matters later: `exited`). `flush_unsaved`
works on a copy of the dict, entry by entry.

**Faults.** Every statement may fail before it takes effect, or take effect and
lose its reply; `Fault` counts them and `MaxFaults` bounds them. The code runs
on as its `try`, `except` and `finally` say: a fault in `release` or `abandon`
is swallowed after the lease is closed; a fault in `note_failure` leaves
`_bill_and_log`, and in a request that is no stream it is billed again.

**Abstractions.** Amounts are naturals, costs and estimates members of small
sets. Money is exact in the code too (decimals of six places). `payload` is
present exactly when usage was recorded and is dropped. Time is not measured: a
reservation may be older than the staleness cutoff, and a back-off may be over,
at any moment; the reservations of one worker get old together. A claim is lost or won freely, so
overlapping recoveries are covered. A worker is the lifetime of a process, for
a restart has a new `OWNER_ID`. `is_revoked` and `is_enabled` are one switch.
A fault between the reservation and the concurrency leases, after which nobody
releases, has the effect of a fault in `ReleaseLease`. `recover_once` reads at
most 100 rows; the model's batch is every pending row, in any order. The
branch of `_bill_and_log` without a lease has no caller in production.
`hist` is history: no action reads it.

### Ledger

`Hold`, `Price`, `Charge`, `Free`. No rows, workers or faults: a hold is
priced once, then charged once, to all its payers, or freed. The refinement
mapping (`Abstract` in `Settlements`) reads the journal entry of a request off
its row: `held` while the cost is unknown, `owed` once it is, `charged`,
`freed`. Everything recovery does to a row maps to one of the four or to a
stutter.

### QuotaReset

EXTENDS `Settlements` with a clock in half-months (even before the reset day,
odd from it on) that begins at `Start`, the passes of every worker, and the reads a pass acts on:
`due` (the owner rows as read), `idle` (the owner whose hold it summed), then
the conditional update. `used` is cleared there, so what balances is `used` plus
`waived`. The reset day of a tenant has no endpoint and is constant; the reset
day of a key is edited by `update_key`. `ResetLedger` is the abstract ledger again,
with `used` plus `waived` for what was used: a reset is a stutter of it.

### SpendWindows

EXTENDS `Settlements`. `ReadHeld` and `CheckWindow` are the check, key first,
then tenant; a request reserves when every cap was cleared. After an `apply`
that debited (`Debited`), the caller, a request's coroutine or a recovery
loop, goes through `Script` (the Redis script, one step) and `Flag`
(`windows_recorded`). `Revisit` is the last loop of `recover_once`. Counters and
markers expire after `BucketTTL` hours. The code has windows of 5, 24 and 168
hours and a life of 192; the model has one window and the assumption
`BucketTTL >= Window`, with equality in the runs, the hardest case.
`record_spend` and `reset_windows` have no caller and are left out. Faults of
`record_windows` have a bound of their own, `MaxMisses`: they are caught there.

### RequestFlow

EXTENDS `Settlements` and `UpstreamFailures`: every step of a request is an
action of the ledger or leaves it alone (theorem `FlowFollowsLedger`). `flow[r].at`
is where the coroutine is:

```
arrive -> keyTokens -> tenantTokens -> reserve -> tenantSlot -> keySlot -> prepare
   -> select -> send -> upstream -> answered | ended -> (settle ->) bill -> apply
            ^       ^      \-> failed: RotateKey, RetryChannel (send), SwitchChannel (select), GiveUp
   -> clear -> (rebill -> apply ->) freeKey -> over          refused -> release -> clear
```

`stranded` is a request that an exception left before anything releases it
(`Strand`), or a cleanup that the 30-second shield cut off (`CutOff`). Prices are one
unit per token. A fault of Redis is a `slip`, but for those at the load counters
(`channel_stats.py`), which nobody is told of. `BeginAttempt` is INCR and then
EXPIRE, each of which may fail; `EndAttempt` is a DECR that may be lost; `LapseLoad`
is the key that expires while attempts go on, from which a late DECR leads below
zero. `misses` counts these, and `strayed` is history: how far they put each counter
off. `MaxUpsets` bounds the faults of the database, the slips and the misses
together. The minute of a token counter does not end here, and neither recovery nor
operators take a step: those are `RateLimits` and `Settlements`. `past` is history:
what was sent and started, what the client was told, whose tokens were corrected.

### GatewaySettings

Names of models are a small set with a function `NameOf` on it, which is what
`_model_name` does to a name: it trims it, makes one space of several, and cuts it
at 64 characters. The cut comes last, so a name that is cut at a space keeps the
space, and loses it the next time: `NamesAssumption` says no more than that twice is
enough. Besides plain names the run has one with a space
too many, one that is cut at a space, and what is left of that with the space and
without it. Entries of an object have an order, the form's or, once stored, that of a
JSON column (`StoreOrder`); of two whose names become one, the last counts.

What `PatchConfig` stores is normalised once, what any worker but the writer reads of
it is normalised again (`AsRead`; the writer serves what it stored from its cache for
two seconds). A name cut at a space makes the two differ, so `SettingsAgree` does not
say that they are equal. It says that both are sound, that they are the same when no
name in the row was cut at a space, that what is read stays as it is however often it
is normalised, and that a patch leaves the fields it does not name as they are read.

### The other components

| Module | Code | State and actions | Left out |
|---|---|---|---|
| `UpstreamFailures` | `failover.py`, `error_detail.py`, statuses of `key_pool.py` | no state: the classes of failures and what follows | bodies of error answers |
| `RateLimits` | `concurrency.py`, `rate_limit.py`, `unbilled_limits.py` | leases with expiry and refreshing tasks, one counter per owner and window, the operations that take both in order; crash, slip, clocks of two workers | the scores of the sorted set beyond whole ticks |
| `ChannelHealth` | `channel_health.py`, claims of `cluster.py` | three Redis keys, written one command at a time; recordings, the probe loop, a forced recovery | names of channels: one channel |
| `UpstreamKeys` | `key_pool.py`, `providers/base.py`, `video_jobs.py` | cool-downs, rotation, the memory of which key made a video, a pool that is edited | |
| `Routing` | `routing.py`, `registry.py`, `sticky_session.py`, `downgrade.py` | a plan built target by target from health that changes meanwhile, then the prices it snapshots | load order among equals |
| `Pricing` | `pricing.py`, `billing_quotes.py` | estimate, hold and bill with both roundings | real prices |
| `Endpoints` | `openai_proxy.py`, `anthropic_proxy.py`, `proxy.py` | what each endpoint holds and bills of a plain answer | wire formats |
| `Streams` | `stream_outcomes.py`, `proxy.py`, `channel_checks.py` | one sequence of events, two readers | a falsy `error` field, data of several lines, `is_final_sse_event` (unused) |
| `CacheMarks` | `auto_cache.py` | the breakpoints added to a body | |
| `Scanner`, `Excerpts` | `content_filter.py`, `audit.py` | the tail kept between pieces; the passes that shorten a body | keyword lists, redaction |
| `Access` | `auth.py`, `pre_checks.py`, `rate_limit.py`, `routers/auth.py` | rows read at three moments while they change; request rates; the counters of failed logins | addresses |
| `ModelMonitor` | `model_monitor.py`, `model_checks.py`, `channel_checks.py` | sweeps, locks, two global leases, checks on demand | what a check sends |
| `Alerts` | `alerts.py`, `budget_usage.py` | counts per minute, claims, cached settings, the masked form | texts and delivery |
| `Reviews` | `ai_audit.py`, `routers/audit.py` | verdicts and their cache, two reviewers | what the model reads |
| `Usage` | `logging_service.py`, `usage_stats.py`, `routers/stats.py`, `logs.py`, `insights.py` | logs, daily rows, cleanup, and every view of counts | latency, throughput |
| `Accounts` | `routers/users.py`, `routers/auth.py`, `auth.py` | rows, tokens with versions, handlers that read before they lock | hashes, signatures |
| `Administration` | `routers/keys.py`, `tenants.py`, `channels.py` | forms in steps: lock, check, write | names, addresses, expiry |
| `Catalogue` | `model_prices.py`, `channels.py`, `models.py`, `billing_quotes.py` | prices and their four readers | token kinds: a price is a number |
| `GatewaySettings`, `ConfigCaches` | `settings_service.py`, `registry.py`, `management_events.py` | rows, normalisation, the token of `/metrics`; caches, loads out of order, rolled back transactions | |
| `MasterKeys` | `utils/secrets.py`, `migrate_secrets.py` | the key file, starts that race, a migration, exits between any two steps | a configuration that sets only one of `SECRET_KEY` and `ENCRYPTION_KEY` |
| `RowLocks` | `settlements.py`, `routers/tenants.py`, `keys.py`, `settlements.py` | the rows each transaction locks, in order | gap locks |

## What the runs show

All passing runs are exhaustive for their bounds. `CHECK_DEADLOCK FALSE`
everywhere: requests are finite, so a system whose workers have exited and
whose requests are decided rightly stops.

| Run | Instance | Shows |
|---|---|---|
| `Quota` | 2 requests, 2 keys, 1 tenant, 1 worker, 1 fault, estimates 1-2, costs 1 or 3 | `LedgerBalanced`, `QuotaBound`: with overruns, changes of total, switches and operators, charges add up and no owner is oversold |
| `Recovery` | 1 request, 2 workers that may crash and lapse, 3 faults, cost 2 or unpriced | `FinalRows` and the refinement `ImplementsLedger`, over the whole life of a row |
| `Takeover` | 2 requests, one a stream, 2 workers | `ReleasedUnsent`, `UsageKept`: the batch updates of a takeover over several rows, racing a live worker and a cut stream |
| `Liveness` | 1 request, 2 workers, 1 crash, lapses, 1 fault, 1 missed call, on `SpendWindows` | `OrphansTakenOver`, `PendingDecided`, `WindowsRecorded` |
| `Reset` | 1 request, 2 workers, 2 months from the reset day of the first (`Start` 1), reset day of the key edited | `ResetOnce` under overlapping passes, and the refinement `ResetImplementsLedger`, from which no debit is lost |
| `Windows` | 2 requests, caps on key and tenant, 1 missed call, 4 hours, window and TTL of 2 hours | `WindowExact`, with sums of several requests and replays after the marker expired |
| `Flow` | a stream, a job, a chat and a request over its rate, one of them at a time; 2 channels, one with 2 keys and a retry; 7 kinds of failure; one upset of any kind | `ForwardedBilled`, `CountersAccounted`, `CallsBounded`, `SentOnce`, and under fairness `RequestConcludes` |
| `Parts` | 8 components, one at a time (`focus`) | `LimitsHold`, `HoldCovers`, `StaleBounded`, `NoDeadlock`, `RouteSound`, `ChecksApart`, `AccountsSound`, `ChangesKept` |
| `Probes` | `ChannelHealth` and `ModelMonitor`, one at a time | under fairness `ChannelRecovers`, `ChecksGoOn` |
| `Services` | 13 components, one at a time; rows and configuration of the settings apart | `StreamsAgree`, `HomeReached`, `CredentialsKept`, `ExcerptKeepsLatest`, `SecretSeen`, `AskedOnce`, `SettingsAgree`, `AccessSound`, `TotalsOutliveLogs`, `CatalogueAgrees`, `BillFounded`, `AlertsFounded`, `MarksBounded` |
| `LostUsage`, `Forgotten` | small | a counterexample to a sentence of the documentation, see below |

The components of `Parts` and of `Services` share no state. `focus` is chosen in
the first state and never changes: the states of such a run are the sum of its
components' states and not their product.

**Why these bounds.** A row interacts with other rows in three ways only: sums
over an owner's rows (two requests, of two keys, are the least that race for
one total), the batch of a takeover (two rows in different states), and the
order of one worker's `_unsaved` (two entries). Everything else is about one
row and the actors around it: its coroutine, the loop of its own worker, the
loop of another, an operator. Two workers give all of those. Three faults let
usage be unsaved, its apply fail, and the note of that failure fail.
`MAX_ATTEMPTS` is 2 for 8: the first failure that is retried, and the last. The
proofs below have no such bounds.

Of a request on its way, one at a time is followed, of four kinds that differ in
what may be repeated and in which limit refuses them; leases that are held by
others make the limits full. Two channels are the least for a switch, two keys
for a rotation, one retry for a retry that runs out. Seven failures are one of
each combination that `UpstreamFailures` tells apart. Elsewhere two actors
contend for one thing, which is enough for the read of one to be overtaken by
the write of the other; three sessions where a circle of three is the question
(`RowLocks`), three operations where a limit of two is (`RateLimits`). Clocks run
to the first tick after everything that expires has expired.

**Fairness** (`Fairness` in `Settlements`) is what the event loop and Redis
owe once faults, which are bounded, end: a coroutine that is billing goes on
(weak fairness); every worker's loop goes on and its heartbeat is renewed
(weak); the key of a dead worker expires (weak, the key has a TTL); among live
workers some worker wins the claim of a period (strong fairness of `FlushDone`
to `orphans` and `recover`: a claim has a TTL and every live worker asks every
two seconds) and its pass visits every row (strong fairness of `RecoverRow`: the
batch is ordered and limited, and rows leave it after `MAX_ATTEMPTS`). In
`SpendWindows` the same holds of its second batch. Clients, upstreams,
operators, crashes and lapses owe nothing. Liveness has one exception, which is
in the properties: a worker with an entry of `_unsaved` that always raises never
recovers anything (`NobodyRecovers`).

`FairFlow`: the coroutine of a request goes on, for `httpx`'s time-outs end every
upstream call, and leases that nobody renews expire; clients need neither come
nor leave. `RequestConcludes` says that whenever requests are under way, a time comes
when none is, and excepts those that were stranded. `FairHealth`
and `FairMonitor`: loops run, recordings that began end, claims and locks expire;
requests, administrators and faults owe nothing.

`HoldMatchesState` and `NoLostDebit` are in no run: the first is a part of the
inductive invariant, the second follows from `ResetImplementsLedger`, and both are
proved below.

Every property of every passing run has a mutant in `PROJECT.json`, a plausible
bug in a modelled function, that violates it in that run: they are the
operators named "Mutant of" in the modules.

## What is proved

For every value of the constants (any number of tenants, keys, workers, faults,
finitely many requests), from the named assumptions on them:

| Theorem | Module | States |
|---|---|---|
| `TypeCorrect` | `SettlementsProofs` | `Spec => []TypeOK` |
| `HoldsMatch` | `SettlementsProofs` | `Spec => []HoldMatchesState` |
| `NothingSentIsReleased` | `SettlementsProofs` | `Spec => []ReleasedUnsent` |
| `FinalRowsStayFinal` | `SettlementsProofs` | `Spec => FinalRows` |
| `SettlementsImplementLedger` | `LedgerProof` | `Spec => ImplementsLedger` |
| `UsedIsWhatIsSettled` | `LedgerProof` | `Spec => []LedgerBalanced` |
| `NeverOversold` | `LedgerProof` | `Spec => []QuotaBound` |
| `UsageStaysKnown` | `LedgerProof` | `Spec => []UsageKept` |
| `ResetLosesNoDebit`, `ResetsHappenOnce` | `QuotaResetProofs` | `SpecReset => []NoLostDebit`, `[]ResetOnce` |
| `ResetsKeepLedger` | `QuotaResetProofs` | `SpecReset => ResetImplementsLedger` |
| `ResetsNeverOversell` | `QuotaResetProofs` | `SpecReset => []QuotaBound` |
| `WindowsRefineSettlements` | `SpendWindowsProofs` | `SpecWindows => Spec`: all that holds of `Spec` holds with windows |
| `WindowsCountExactly` | `SpendWindowsProofs` | `SpecWindows => []WindowExact` |
| `FlowFollowsLedger` | `RequestFlowProofs` | `SpecFlow => FollowsLedger`: the proxy uses the ledger as `Settlements` assumes |
| `FlowReleasesNothingSent` | `RequestFlowProofs` | `SpecFlow => []ReleasedUnsent` |
| `FlowImplementsLedger` | `RequestFlowProofs` | `SpecFlow => ImplementsLedger` |
| `FlowKeepsPromises` | `RequestFlowProofs` | `SpecFlow => [](QuotaBound /\ LedgerBalanced /\ UsageKept)` |
| `NothingSentTwice` | `RequestFlowProofs` | `SpecFlow => SentOnce` |
| `CountersStayAccounted` | `RequestFlowProofs` | `SpecFlow => []CountersAccounted` |
| `ForwardedIsBilled` | `RequestFlowProofs` | `SpecFlow => []ForwardedBilled` |
| `CallsStayBounded` | `RequestFlowProofs` | `SpecFlow => []CallsBounded` |
| `LocksNeverDeadlock` | `PartsProofs` | `SpecLocks => []NoDeadlock` |
| `AccountsStaySound` | `PartsProofs` | `SpecAccounts => AccountsSound` |
| `AdministrationKeepsChanges` | `PartsProofs` | `SpecAdmin => ChangesKept` |
| `CachesStayFresh` | `PartsProofs` | `SpecCaches => []StaleBounded` |
| `HoldsCoverBills` | `PartsProofs` | `SpecPricing => []HoldCovers` |
| `ChecksKeepApart` | `PartsProofs` | `SpecMonitor => ChecksApart` |
| `LimitsAreKept` | `PartsProofs` | `SpecLimits => []LimitsHold` |
| `RoutesAreSound` | `PartsProofs` | `SpecRoute => RouteSound` |
| `CredentialsAreKept` | `ServicesProofs` | `SpecSecrets => []CredentialsKept` |
| `VideosReachHome` | `ServicesProofs` | `SpecKeys => []HomeReached` |
| `StreamsReadAlike` | `ServicesProofs` | `SpecStreams => []StreamsAgree` |
| `BillsAreFounded` | `ServicesProofs` | `SpecEndpoints => []BillFounded` |
| `SecretsAreSeen` | `ServicesProofs` | `SpecScanner => []SecretSeen` |
| `ExcerptsAskedOnce` | `ServicesProofs` | `SpecReviews => []AskedOnce` |
| `AccessStaysSound` | `ServicesProofs` | `SpecAccess => []AccessSound` |
| `AlertsStayFounded` | `ServicesProofs` | `SpecAlerts => AlertsFounded` |
| `MarksStayBounded` | `ServicesProofs` | `SpecMarks => MarksBounded` |
| `ReadersAgree` | `ServicesProofs` | `SpecCatalogue => []CatalogueAgrees` |
| `TotalsStay` | `ServicesProofs` | `SpecUsage => []TotalsOutliveLogs` |
| `ExcerptsKeepLatest` | `ServicesProofs` | `SpecExcerpts => []ExcerptKeepsLatest` |
| `SettingsAgreeAlways` | `ServicesProofs` | `SpecSettings => SettingsAgree` |

### The ledger

`TypeStep` proves the types, one step per action. `StepMoves` then reads off
every action what it may do to a row: leave its entry as it is (`Stays`), mark it
sent (`Sends`), open it, fill in its cost, settle it, or free it. Everything after
is about these six moves and not about the thirty actions. The inductive invariant
is `Inv == TypeInv /\ HoldMatchesState /\ LeaseOK /\ ReleasedUnsent`.
`ReleasedUnsent` alone is not inductive: `TakeOver` frees rows by their column
`dispatched` and `ReleaseLease` by the phase of the request, so `LeaseOK` ties the
three together: a request that reached the upstream has `dispatched` set, and one
whose lease may still be released has not been sent. `TypeInv` adds to the types
that a note in progress belongs to an actor that is noting, without which its
attempts could not be typed. The refinement needs `HoldMatchesState` (an operator
charges a hold of unknown cost at its estimate) and that a settled row has a cost.

Sums are folds over sets of requests. What a fold computes is proved in
`SumTheorems` by well-founded induction on strict subsets: of the finite subsets
of a set for which a fact fails there would be a least (`WFMin` of the library,
which needs no operator as a parameter), and a sum over `S` is an element and the
sum over the rest (`SumRemove`). From there: a sum moves by what one element moves,
a smaller function has a smaller sum, the sum of a sum, the size of a set as the
sum of the sizes of its classes. Induction over numbers (`NumberInduction`,
`LeastNumber`) is had in the same way, and from it that the elements of a finite set
of numbers have ranks (`RankExists`).

- `UsedIsWhatIsSettled`: of the six moves only one settles a row, and the same step
  debits its cost (`Debits`).
- `NeverOversold` is not inductive request by request. What a request takes is its
  `Load`: its cost once settled, what its row holds before. Its `Load` less its
  `Overrun` never rises except in `reserve`, which has just compared the sum with
  the total (`Admits`), and a total is only set to what covers the sum (`SetTotal`).
  So the sum of these differences stays within the total (`BoundStep`).
- `UsageStaysKnown`: `UsageOK` says of every request where its usage is. Before its
  bill it is nowhere; after one bill, the dict, the flush in progress and a decided
  row hold nothing but the usage that was learned, and one of them does unless the
  worker is gone. It also says what the property leaves out: that a leased request
  is not decided unless an operator did it, without which `Bill` could find a
  decided row.
- `ResetLosesNoDebit`, `ResetsHappenOnce`: the conditional update takes off what was
  read only if both columns still are as read. `OnceOK` adds to `ResetOnce` that the
  row's reset time is no earlier than any reset, and `PassOK` that what a pass is to
  reset was read with a reset time before the pass's own.
- `ResetsKeepLedger`, `ResetsNeverOversell`: with resets `used` falls, so neither the
  refinement nor the bound follows from `Settlements`. What is invariant is `used` plus
  `waived`: a pass moves between the two exactly what it read, for it updates only a
  row that is still as it read it. The bound is about what requests were settled at
  and not about `used` (`BoundMoves`), and a reset only lowers what it bounds.
- `WindowsCountExactly`: `BucketOK` says that every counter a window may read is the
  sum over the requests whose marker exists, and `MarkOK` that a marker never
  expires before its counter leaves the window: this is where `BucketTTL >= Window`
  is needed.

### The proxy

`RequestFlowProofs` first shows that each action of the flow is an action of
`Settlements` or leaves its variables alone; what is proved of the ledger's rows
then holds of the flow. `NothingSentTwice` is about the flow itself. Its invariant,
`FlowInv`, has for each request (`Careful`): a stream that is where an attempt
begins has shown nothing; a job that may have started is not where one
begins, and the failure it stopped at is none after which the code rotates,
retries or switches (`Over`). `StartedIsOver` is the heart of it: no failure after
which the work may have started is one `never_reached_upstream` excuses. It needs
`FailureAssumption`: an exception carries a status only if it is an HTTP one.

`CountersStayAccounted`: `CounterInv` follows the tokens of every request from the place
where it takes them to its correction (`TokenInv`), and every attempt from the
channel it occupies to its end (`LanesOK`). Each action is shown to move at most its
own request's share (`Orderly`, `LaneStep`), so a counter, a sum, moves by it. The
load of a channel is not exact, for Redis may lose an update of it or let it expire:
it is the attempts under way plus what these put it off by (`strayed`), which is
nothing as long as there was no miss.

`ForwardedIsBilled`: nothing is forwarded once a request is closing, and a bill is
made there, of the charge of what was forwarded until then (`BillOK`). The theorem
has hypotheses: an upstream that reports usage reports some input and no fewer
output tokens than it sent (`ReportedOutput >= MaxText`), and an estimate is not
zero. The code bills a report as it is, so without them the bill is what the
upstream says. The run satisfies them.

`CallsStayBounded`: the tries and the rotations at a candidate are loops inside one
another, each with a bound of its own. `CallsOK` says what makes them add up: what was
sent is what the earlier candidates may call, plus the tries and rotations so far,
plus the call under way; and a failure that comes before any call, of a pool without
a ready key, is none that is tried again (`Repeats`). So the calls of a request
run out, which is the part of `RequestConcludes` that is safety.

### The parts

`LocksNeverDeadlock`: rows have a rank (tenants, then keys, then settlements by
id), every transaction locks in ascending rank, and among transactions that
wait for one another one would wait for a row above the highest rank waited for.

`AccountsStaySound`: the version of an account never goes back while it exists,
so no token is ahead of its account (`NoneAhead`), and a token that is dead stays
dead; and whoever disables or deletes an administrator holds the lock on all of
them since it counted them.

`AdministrationKeepsChanges`: whoever has checked a change holds the tenant's
lock, a key that is being created is nobody else's, and what was checked still
holds, because a revocation, which takes no lock on the tenant, only removes
keys, and waits for an update of the same key (`Sound`).

`CachesStayFresh`: an entry is stamped when its load begins, so the row it reads has
every change older than the stamp (`Recent`), also while the load is still under way;
a change of the settings holds the row from its read to its commit (`Writing`).

`HoldsCoverBills`: the hold is rounded up of the dearest candidate, the bill rounded
to the nearest of one of them; `PriceInv` keeps that the hold was computed from the
very estimate the bill is compared with. The products are not linear, so the
monotony of multiplication is a lemma of its own (`Products`).

`ChecksKeepApart`: from the acquisition of a lock to the end of its clean-up a check
is the one the lock names (`Locking`): the deletion in two commands is safe because
a check ends before its lock expires. What a sweep listed stays due until it is
recorded (`ListedDue`).

`LimitsAreKept`: `SlotInv` says that a task that serves has a lease with all its
time but one tick, so whoever counts leases counts it; its hypothesis
`Synchronous` says that clocks of two workers differ by less than that. For tokens,
the counter is not what the operations of a window count for: a correction may be
late, and then takes from a window its operation is not of. `Backed` says that the
counter and what late corrections took cover what every operation of the window may
still give back; `Capped`, that what they count for is within the limit and what late
corrections took. Both are sums.

`RoutesAreSound`: what was read of a channel that did not change since is what it is
(`ReadOK`), and only the first target is the primary model (`PrimaryFirst`), for
fallbacks never name their own model.

### The services

| Theorem | Inductive invariant |
|---|---|
| `CredentialsAreKept` | whoever has a key has the one key (`KeyHolders`): the environment's, or the file's, which one process at a time writes and nothing replaces; a migration runs alone |
| `VideosReachHome` | a job in Redis has the key of the video's home, and belongs to its owner (`JobsHome`); a remix keeps that of its source (`RemixesHome`) |
| `StreamsReadAlike` | the meter has what was generated and reported until the relay stopped (`MeterExact`), and the two readers stand at the same place of the stream (`EndsAlike`) |
| `BillsAreFounded` | a bill is the function of the reply and the hold that the endpoint computes (`BillOf`); what was read of a reply is what it says (`ReadIsSaid`) |
| `SecretsAreSeen` | the tail is an ending of the text, no shorter than a secret less a character, and a secret that is complete was a hit (`ScannerInv`) |
| `ExcerptsAskedOnce` | an excerpt without an overlap was answered once if its verdict is cached and never otherwise (`CountedOnce`), and at most one call asks for it (`AskedAlone`) |
| `AccessStaysSound` | what forbade a request all along is nothing that the rows as it read them allow (`Admissible`); a counter that is not zero has an end or an attempt about to set it (`Expiring`) |
| `AlertsStayFounded` | a subject told and not cleared has a claim for its quiet time (`ClaimKept`) |
| `MarksStayBounded` | a request that was marked is one that marking does not change |
| `ReadersAgree` | a row in use has a price, and enabled channels are channels |
| `TotalsStay` | a row of `usage_daily` counts the logged requests of its class (`TotalsExact`), so every view, a sum over some rows, is the number of a set of requests (`RowsTell`); only logs older than the retention go (`SweepsOld`) |
| `ExcerptsKeepLatest` | of every pass of `_fit`, by induction over them: it leaves an ending of the conversation with the last message at no less than the shortest limit, and what it calls whole fits (`LeftOf`, `Tight`); when no pass is enough, the last message alone is no larger than the request's own, clipped |
| `SettingsAgreeAlways` | what is stored is a normal form of something (`ConfigIsRaw`), so it is sound. Its names have been converted once, so a second time turns them into names that stay (`Kept`), and of those every further normalisation is the identity (`NormalizeAgain`), for the targets that stay have ranks and keep them (`RankExists`) and no two entries become one; whoever has a token has the row's or was there before a reset (`TokenGranted`) |

### Assumptions

The theorems assume what the modules declare and TLC evaluates: requests,
operations, channels and calls are finite sets; limits are not negative or are the value
for "none"; `MaxAttempts`, `LeaseTTL`, `LockTTL` and `TTL` are positive; a window is
no longer than the life of its counters; the clock starts within its bound; a fallback never names its own model
(`_normalize_fallbacks`); every video has an id of its own; the tail of the scanner
is at least a secret less one character; the allowance of marks is at least the three
the code adds; mapped names of a channel are names of models; a channel has a key and
a request a candidate; the limits an excerpt is clipped to are none below the last,
and its row holds something; the fallbacks of a form are sequences, and the default
of a setting lies within its bounds; a name that was converted twice stays as it is,
the empty one at once, and no two entries of an object have the same place. The
sweep of `ModelMonitor` has fewer checks that always fail than a batch holds
(`limit=10`): they stay due and come first (`model_monitor.py:89` and `108`), so as
many of them as a batch would be all that is ever checked. `ChecksGoOn` rests on it.

### Only model-checked

- `OrphansTakenOver`, `PendingDecided`, `WindowsRecorded`, `RequestConcludes`,
  `ChannelRecovers`, `ChecksGoOn`: liveness under fairness, and `ENABLED`, are out
  of the prover's reach.
- The types of modules other than `Settlements` are parts of their inductive
  invariants, as far as the proofs need them.

## Disagreements between code and documentation

Two are runs, whose property states the sentence quoted in `PROJECT.json`:

- `LostUsage`: usage that could not be saved is kept in memory and retried,
  says `persist_usage`. When `note_failure` raises as well, the request is billed
  a second time with 0 tokens, and that settles.
- `Forgotten`: requests with an unknown outcome keep their reservation until
  reviewed, says the README. Only the last attempt decides: one that timed out
  upstream is forgotten when the next is refused, and the request settles at 0.

The modules state others beside their properties. TLC violates them in instances
like those of the runs, and no run checks them:

| Property | Sentence it states | What happens instead |
|---|---|---|
| `OverdraftOfOneRequest`, `Settlements` | "slightly negative by at most one request" (README.en.md:43) | concurrent requests are admitted on estimates, and their overruns add up |
| `UnsavedRetried`, `Settlements` | "every worker retries its own" (`settlements.py:160`) | an entry whose row was released raises on every flush, and those behind it are never saved |
| `UnknownMarked`, `Settlements` | unknown results are marked `uncertain` | a fault in `abandon` leaves the row `reserved` while its worker lives |
| `ResetsIdle`, `QuotaReset` | "Do not reset across reservations" (`quota.py:179`) | a reservation between the check and the update is reset across; no debit is lost by it |
| `BurstHeld`, `SpendWindows` | "a burst of concurrent calls cannot all pass" (`spend_windows.py:4`) | the check precedes the reservation and takes no lock |
| `AliasPriced`, `Routing` | the alias wins over the upstream name | two aliases of one upstream name share an entry of the snapshot |
| `BoundKept`, `Administration` | a channel that keys select is not deleted | a key may select it between the check and the deletion |
| `OwnWritesSeen`, `UndoneUnused`, `ConfigCaches` | administrators' writes clear the cache at once; changes are atomic | a load under way, or the commit after the handler, leaves a stale or undone value for one TTL |
| `MaskedKept`, `Alerts` | a masked URL keeps the stored one | the worker that saves may have cached settings without it |
| `OtherKeyTried`, `UpstreamKeys` | a refused key is followed by another | a remix is pinned to its job's key, and sent with it again |
| `VerdictStays`, `Reviews` | a verdict is kept | a review without an answer writes `unavailable` over it |
| `PeakKept`, `Usage` | the peak of a day | is read and written in two commands |
| `MissingEstimated`, `Endpoints` | missing usage is estimated | not for messages, transcriptions and the input of a rerank |

`LocksExpire` in `Access` leaves out a worker that dies between the two commands
of `_record_failure`; the counter it leaves has no expiry. `LimitsHold` claims
nothing of a request whose lease expired because the task that renews it ended at a
fault of Redis (`concurrency.py:76`), and `ForwardedBilled` nothing of an exception
between an answer and its bill (`proxy.py:488`), which bills it at 0.

## What is not modelled

- For good: upstream wire formats and the translation between the two
  protocols, HTTP transport, cryptography, redaction and keyword lists, the texts
  and delivery of alerts, latency and throughput statistics, health and metrics
  endpoints, schema migrations, packaging, the web interface, the scripts under
  `docs/`. They compute without keeping state that another part relies on, or
  are not part of the program.
- For now: creation of a tenant with its first account; names, addresses and
  expiry of keys; the forms of keywords and of model groups beyond what `Access`
  reads of a group.
- MySQL and Redis are taken to do what their commands promise; a loss of Redis
  data, a fail-over of the database and a change of the system's clock are not
  modelled. One SQL statement or transaction, and one Redis command or script,
  is one step.
- Of modelled parts: what the routing makes of the loads it reads (`load_scores`
  takes a counter below zero for zero); the cut of an object at
  `MAX_FALLBACK_RULES` (200) entries; `set_gateway_config`, which has no caller; the
  first 40 items of a list in an excerpt (`audit.py:75`), of which the run has fewer;
  locks of secondary indexes and of gaps, and the rows of `usage_daily` that `apply`
  locks last (`RowLocks` has the rows of tenants, keys and settlements).
- Hazards without a property are in `PROJECT.json` with the reason: three are
  properties above that the code does not have, `recover_once`'s batch of 100
  rows is not bounded in the model, and one is the lease that expires under its
  request.
