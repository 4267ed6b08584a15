# CC-Bridge: models, model checks and proofs

CC-Bridge (`src/src`, Rust, axum) is a gateway in front of an upstream API. It
keeps a pool of upstream accounts in a database, authenticates its own clients
with API tokens, and sends each request to an account it picks: with a sticky
binding of sessions to accounts, limits per account (concurrent requests,
requests per minute, live sessions, daily devices and sessions, cost in five
hours), and reactions to refusals (cooldown, disabling, another account).

This directory holds TLA+ modules of the parts of that program where steps of
several actors meet, TLC configurations that check them on small instances, and
TLAPS proofs for every size of the instance.

| To run | Command, in this directory |
| --- | --- |
| a model check | `tlc -config MCGatewayLoop.cfg MCGatewayLoop.tla` (see PROJECT.json `runs`) |
| the proofs of a module | `tlapm GatewayLoopProofs.tla` |

## 1. Inventory

### State and operations

| Part | State | Operations | Where |
| --- | --- | --- | --- |
| Account pool | table `accounts`: status, `rate_limit_reset_at`, credentials, limits | `list_schedulable`, `create`, `delete`, `disable_account`, `enable_account`, `update`, `update_oauth_tokens`, `update_auth_error` | `store/account_store.rs`, `model/account.rs` |
| Gateway loop | locals of one request: `exclude_ids`, `rpm_rejected`, `type_rejected`, `switch_count`, `same_account_retries`, `rpm_waited`, `last_resp` | `handle_request_inner`, `forward_request` | `service/gateway.rs` |
| Concurrency slots | a counter per account and per limited token | `acquire_slot`, `release_slot`, scope guards | `store/memory.rs`, `store/redis.rs`, `service/gateway.rs` |
| Session admission | live sessions and daily devices/sessions per account, binding per session | `admit_session`, `select_account`, `session_admit`, `account_quota_admit` | `service/account.rs`, `store/memory.rs` |
| OAuth refresh | credentials in the row, a lock in the cache | `resolve_oauth_access_token`, `refresh_oauth_access_token`, `acquire_lock`, `release_lock` | `service/account.rs`, `service/oauth.rs` |
| 429 classification | none | `classify_from_headers`, `is_window_exceeded`, `parse_reset` | `service/account.rs` |
| Requests per minute | a counter per account and minute, with a time to live | `reserve_rpm`, `get_rpm` | `store/memory.rs`, `store/redis.rs` |
| Cost cache | cost of the last five hours per account, kept 60 s | `five_hour_cost`, `invalidate_cost_cache` | `service/account.rs` |
| Usage pipeline | a bounded channel, a batch, two tables | `record`, `writer_loop`, `flush`, `prune_loop` | `service/usage_recorder.rs`, `store/usage_store.rs` |
| Telemetry | a session per account, a stored count | `activate_session`, `telemetry_loop` | `service/telemetry.rs` |
| Warmer | rows of tasks, a map of runners with their flags, active tokens, a semaphore | `start_task`, `stop_task`, `run_task`, `session_worker`, the supervisor | `service/account_warmer.rs`, `store/warmup_store.rs` |
| OAuth login | PKCE sessions | `generate_auth_url`, `exchange_code` | `service/oauth_flow.rs` |
| Session id pool | slots of session ids per account, one mutex for all | `map_session_id` | `service/gateway.rs` |
| Repair of refused bodies | the answer at hand | the cascade of `forward_request`, `transform_for_retry` | `service/gateway.rs`, `service/thinking_repair.rs` |
| Warm-up caps | the schedule that runs, and the one that is saved | `WarmupConfig`, `warm_effective_max`, `update_settings` | `service/account.rs`, `handler/router.rs` |
| Redis cache | the same maps as commands on shared keys | `acquire_slot`, `release_slot`, `session_admit`, `account_quota_admit`, `reserve_rpm` | `store/redis.rs` |
| Rewriting, client guard, probe | none | pure functions over headers and bodies | `service/rewriter.rs`, `client_guard.rs`, `probe.rs` |
| Admin API | the accounts, tokens and settings | CRUD handlers | `handler/router.rs` |

### How they interact

One request is one future: `handle_request_inner` takes a token slot, admits its
session (`admit_session`), then loops: `select_account` reads the pool and the
binding, the loop checks client type, reserves the minute quota, acquires the
account slot, resolves a token (possibly refreshing it under the lock), and
calls the upstream. The answer may write the account's row. The loop gives the
slot back and ends or goes around. The client may disconnect at any await, and
the future is dropped there. Meanwhile other requests do the same over the same
rows and counters, the administrator writes rows, and background tasks (usage
poller, telemetry, warmer) read tokens and write figures.

Shared state is a database without transactions around read-modify-write, and a
cache: maps behind one mutex each (`MemoryStore`) or Redis. Every operation of
`MemoryStore` runs under its mutex without awaiting inside, so it is one step in
the models; anything between two such operations interleaves. What an operation
reads before it has the mutex is a step earlier: the minute of `reserve_rpm` and
the day of `account_quota_admit`.

### What is hard

PROJECT.json `hazards` lists each at its line, with the property that watches it
or the reason none does. In groups:

- **dropped futures**: a slot whose guard was forgotten, an OAuth reply nobody
  stores, a lock nobody releases;
- **stale copies**: the row a request selected and judges an answer by, the row
  an administrator edits, the binding read before a forced admission;
- **late answers**: a 429 after a 403 on the same account;
- **books of the loop**: a count recovered from the lengths of four lists,
  accounts let in again after a wait, the last answer to be kept;
- **fills that race a removal**: a cost summed up before a batch and cached after
  it, a batch that fails after it left the channel, a body emitted twice;
- **limits with exceptions**: forced admissions, failover without admission,
  streams that are not counted, reservations that nobody gives back;
- **commands in the place of a mutex**: Redis keys that expire under their
  holders, tests and additions of two calls in between each other, a command or
  its answer lost;
- **two records of one thing**: the row of a warm-up task and the map of runners,
  the settings that run and those that are saved, the session of telemetry and
  its loop;
- **termination**: the retry loop, the admission queue, the token waiters, the
  tasks of the warmer.

### What makes each part correct

- *Slots*: every counter equals its holders plus releases to come; a call starts
  only below the limit; nothing but the one unguarded await loses a slot.
- *Pool*: an account that was taken out stays out once it is quiet; a quarantine
  ends, however late answers renew it.
- *Loop*: it ends; the token's lists and the client type hold for each account
  tried; work per request is bounded; the client hears the last upstream answer.
- *Admission*: limits are exceeded only by the sessions let in by force, and those
  of a day also where a late call has erased entries; an account that serves a
  session has counted it, with named exceptions; admission ends.
- *OAuth*: the refresh token the authority accepts is never lost but by a named
  fault; callers get good tokens, or what the authority has
  just issued; the lock and the waiters end.
- *Usage and cost*: a response is on record once or lost for good; a cached cost
  leaves a stored response out only for a named reason; records do not stay in
  the writer.
- *Classification and caps*: a cooldown ends when the full window says, or soon;
  the tiers that an administrator saved are the ones that hold.
- *Redis*: the limits hold up to what an expiry, a lost command or a race
  explains, and no lost slot is lost for ever.
- *Requests per minute*: a place of a minute is used or accounted for as wasted.
- *Telemetry*: one session has one loop; each request sent is counted as often
  as the two writers of the count say.
- *Warmer*: a token is driven by one worker; a verdict comes after the workers;
  every task comes to rest.
- *Login*: a session serves one exchange.
- *Session ids*: one account's slots do not take the others down, but for one
  named change of mode.
- *Repair*: what is sent again can be accepted; the client gets one whole answer.

## 2. Modules

| Module | Models | State corresponds to |
| --- | --- | --- |
| `BoundedConcurrency` | the promise of a limit: a set of calls per resource that grows only below the limit | abstract |
| `MemorySlots` | `acquire_slot`/`release_slot`, guards and the explicit release of the loop | `slots` = the map of MemoryStore; `spawned` = release tasks of dropped guards; `pc`, `tok`, `acct` = the guards a future holds |
| `AccountPool` | scheduling columns of the rows and all their writers | `status`, `cool` = `accounts.status`, the kind of `rate_limit_reset_at`, `half` whether half of it has passed; `snap` = the `Account` value a request carries; `edit` = the copy in `update_account` |
| `GatewayLoop` (extends `AccountPool`) | `handle_request_inner` from selection to answer | one variable per local of the loop; `trail` is history |
| `SessionAdmission` | `admit_session` and `select_account` over the three maps of `MemoryStore` | `live` = `acct_sessions`, `devices`, `sessions` = the quota maps, `day` = the window of their entries, `sticky` = bindings; `since` = when a request called `account_quota_admit`, `today` = the clock; `forced`, `counted`, `forcedToday`, `erased`, `strays` are history |
| `OAuthRefresh` | token resolution and refresh of one account | `row`, `life` = credentials and their expiry; `lock`; `reply`, `mine` = locals; `latest`, `issued` = the authority; `overrun`, `faults` are history |
| `UsageCost` | sniffed bodies, the channel, the batching writer, the rows and the cache of five-hour costs | `body`, `kind` = a `SniffStream` and its parser; `channel`, `buf`, `rows` = records on their way; `touched` = accounts `flush` has still to invalidate; `cost` = `COST_CACHE`; `ask` = a call of `five_hour_cost`; `current`, `past` = the rows of the window and whether its stored `resets_at` is over; `lost` and the `how` of a cost are history |
| `RedisSlots` | `acquire_slot`, `release_slot` over Redis: one counter | `key` = the counter with or without its time to live; `at` = the command a caller sends next; `owed` = spawned releases; `stale`, `lost`, `extra`, `torn` are history |
| `RedisAdmission` | `session_admit`, `account_quota_admit` over Redis | `members` = the sorted set of an account and its two sets of the day; `call` = the locals of a call; `unchecked` is history |
| `RpmWindow` | `reserve_rpm` of both stores and its place in the loop | `count` = the counter per minute; `client` = where a request is and the minute and limit it has read; `served`, `wasted` are history |
| `RateLimitHeaders` | `classify_from_headers`, `handle_rate_limit` | `answered` = the headers, `verdict` = class and end of the cooldown |
| `WarmCaps` | `WarmupConfig`, `warm_effective_max`, `update_settings` | `saved`, `running` = the settings in the table and in memory; `update` = an update under way |
| `Warmer` | `account_warmer.rs` and the rows it writes | `status`, `clock` = row; `tasks`, `cancelled` = the map of runners; `runner`, `worker` = the futures; `active` = `active_tokens`; `listed` = the list of the supervisor; `start`, `stop` = requests |
| `Telemetry` | `activate_session`, `telemetry_loop` for one account | `session` = its entry of the map; `loop` = the futures; `stored` = `telemetry_count`; `sent`, `own`, `closed`, `missed` are history |
| `OAuthLogin` | `oauth_flow.rs` | `pending` = the store of PKCE sessions; `exchange` = calls under way |
| `SessionIdPool` | `map_session_id` | `slots` = the pool of an account; `poisoned` = the mutex; `saving`, `shown` = spawned writes and the column |
| `ThinkingRepair` | the repair cascade and its transformations of a body | `sends`, `answers` = what went to the upstream and came back; `headers`, `source`, `code` = the parts of the answer at hand |
| `MC*` | constants for TLC; `MCServices` also puts the nine modules of one key, one account or one request side by side | |
| `*Proofs` | theorems about the module of that name. `GatewayLoopProofs` has those of `AccountPool` too, `RedisProofs` those of `RedisSlots` and `RedisAdmission`, `ServicesProofs` those of `Telemetry`, `OAuthLogin`, `SessionIdPool`, `ThinkingRepair`, `RpmWindow`, `RateLimitHeaders` and `WarmCaps` | |

`GatewayLoop` composes with `AccountPool` by extension: each of its reactions is
a conjunction with the pool's action, and the rest leave the pool alone, by the
shape of the definitions. `MemorySlots` and `SessionAdmission` keep
their own, smaller picture of the loop (a request can always go around again):
what they need of the loop is less than `GatewayLoop` says. `OAuthRefresh`
stands for `resolve_upstream_token` inside a `Forward`, whose failure is
`CallFails`, and `ThinkingRepair` for the sends of one `Forward`. The choices
that `GatewayLoop` leaves open are made by `RpmWindow` (`RpmFull`),
`MemorySlots` or `RedisSlots` (`SlotFull`) and `RateLimitHeaders` (`WindowFull`,
`RetryBurst`, `Answer`). `WarmCaps` gives `SessionAdmission` its `MaxSessions`;
`RedisAdmission` is the other implementation of its `admit` steps.

Definitions marked `Fault:` are not part of any specification. Each is the
mistake that a property is there to catch, kept next to the action it replaces
(PROJECT.json `mutants`): under it, TLC finds the property violated.

Abstractions, by module:

- **MemorySlots**: which account is chosen and why a call fails is open. Spawned
  release tasks run in any order. The 300 s `ttl` argument is ignored by
  `MemoryStore` (not by Redis).
- **AccountPool**: a cooldown passes in two steps (`PassHalf`, `Expire`) that may
  come at any moment, so every order of answers and expiries is possible; one
  that is renewed begins again. A write that fails is a `Finish`. An edit writes
  back the status it has read, "error", or active for any other word (`From<String>`);
  `update` does not write the cooldown. An id is used once (both databases
  count upwards), so a deleted account never comes back as another one; that two
  accounts may get the same e-mail address is left out.
- **GatewayLoop**: ranking and stickiness only choose among `Candidates`, so
  `Pick` takes any. Cost exhaustion only removes candidates, which the loop
  cannot tell from a cooldown. One `Forward` stands for up to three sends of the
  same request to the same account (the thinking-block and tool-block repairs,
  gateway.rs:818-894), all under one quota reservation; a billing refusal that
  comes as the answer of the second or third send is returned as it is
  (`Answer`).
- **SessionAdmission**: the accounts usable at each moment are open. Sessions
  fall out of the live set, bindings expire and midnight comes at any moment,
  `MaxUpsets` times. A call of `account_quota_admit` goes by any day from its
  call to its step (`ClockOf`), as it reads the clock before it waits for the
  mutexes (memory.rs:158-167), and drops every entry of another day: one that
  waits over midnight erases the entries of the new day (`erased`), and their
  places are given away again. Requests without a session id are left out.
- **OAuthRefresh**: one account (locks and rows of different accounts are
  disjoint). Tokens are numbers in the order of issue, with three stages of
  life; a new one may begin in any of them, since its lifetime is what the authority
  says (oauth.rs:112) and counts from the reply. The row has a refresh token
  throughout.
- **UsageCost**: a cost is the set of paid responses it adds up; the properties
  ask what it leaves out, so a sum over too long a window is left out of the
  model. The order of records in the channel makes no difference to them. `buf`
  is cleared by `Insert` and not after the removals that follow, as only the
  writer sees it. A commit whose answer is lost is an `Insert`: `flush` goes on in
  the same way. The channel closes only when the process ends (`Restart`). A
  disabled recorder, which nothing in the source creates, is left out.
- **RedisSlots**, **RedisAdmission**: a command is atomic, and it may run with its
  answer lost or not run. A restart of the gateway forgets the callers and keeps
  the key. One key each, as keys share nothing.
- **RpmWindow**: the counters of past minutes are kept for the property; the code
  lets them expire, and asks for them no more. After its place a request asks for
  the slot and for the token; either may fail and the client may leave at each
  await, before or after the cache has counted (`VanishReserving`).
- **RateLimitHeaders**: headers that do not parse are missing ones; moments are
  past, near or far.
- **WarmCaps**: ages and caps are small numbers. One schedule has two tiers that
  end at the same age, of which the stable sort keeps the first.
- **Warmer**: schedules of phases, messages and the dialogue with the client are
  one step `run`. An edit of a task that is not running changes which of
  `TokenList` the runner finds (any set of them, `Gather`) and how long the task
  lasts (`Expire` comes at any moment). The client may exit at any moment.
  `deadline` tells whether the runner's copy of the start is the row's.
- **Telemetry**: what is sent is a count. Event and evaluation batches are sends
  alike, with their failures.
- **OAuthLogin**: the provider redeems a code once, for the verifier of its own
  challenge.
- **SessionIdPool**: time is the rotation of one slot at any moment; ids are model
  values with a given hash.
- **ThinkingRepair**: a body is one message, a message a sequence of kinds of
  blocks, an answer what the code searches it for. A thinking block with nothing
  in it is dropped whether it has a type or not (`blank`).

## 3. Runs

| Run | Instance | Question |
| --- | --- | --- |
| `slots` | 3 requests, accounts with limits 1 and 2, a token with limit 2 | accounting; the slots implement the abstract limit for accounts and for tokens; counters drain |
| `slots_leak` | 2 requests | finding: a disconnect at the awaited release loses the slot |
| `pool` | 2 requests, 2 ids, an administrator who creates, edits and deletes | the copy a request carries; quiet accounts stay disabled and deleted ones gone; quarantines end |
| `pool_late` | 2 requests, 1 account | finding: a late 429 revives an account that a 403 disabled; the administrator does nothing (`AdminMay` is empty) |
| `pool_escalate` | 2 requests, 1 account | finding: a 403 during a cooldown disables for good |
| `loop` | 1 request, 3 accounts, 3 kinds of token, 1 switch, 1 retry, 1 wait | books, policy, bound on work, last answer, termination, the work left falls |
| `sessions` | 2 requests at a time, 3 in all, 2 sessions on 2 devices, 2 accounts with room for one | limits up to named exceptions, midnight among them; service is counted; what is left of admission falls |
| `oauth` | 2 callers, 2 polls, 2 tokens, 1 edit | lock, credentials, errors, freshness, termination |
| `usage` | 2 responses on 2 accounts, 1 reader, a channel of 1, batches of 2 | records once; what a cached cost leaves out and why; the writer empties |
| `warmer` | 2 tasks that share one of 2 tokens, 1 permit, 2 requests, 1 fault | type; tokens are driven alone; verdicts after workers; tasks end |
| `warmer_stop` | the same | finding: a stop that crosses a start stops nothing |
| `services` | ten small instances, one at a time | see below |

The run `services` starts in one of ten subjects and leaves the others alone, so
its state space is the sum of theirs:

| Subject | Instance | Question |
| --- | --- | --- |
| telemetry | 2 requests, 2 loops, 3 activations, 3 sends, 1 loss | `LoopAlone`, `SendsCounted` |
| login | 2 logins, 2 exchanges | `LoginOnce` |
| pool | 1 account of 3 slots, 2 requests, 3 ids of which 2 share a slot | `PanicExplained` |
| repair | every message of up to 3 blocks | `RepairClean`, `AnswerWhole` |
| rpm | 3 requests at a time, 4 in all, limits 0 to 2, 2 minutes, 1 outage | `RpmExplained` |
| headers | every combination of headers | `ClassifiedRight` |
| caps | 2 updates, 4 schedules, ages and limits up to 3 | `CapsTight` |
| slots | 3 callers of a Redis slot with limit 1, 1 expiry, 2 faults | `SlotsBounded`, `KeyMortal` |
| live, quota | 2 admissions at a time over Redis, 3 sessions on 2 devices, 1 turn of time, 1 lost command | `AdmissionsRaced` |

The type invariants are proved, and were model-checked before the proof; that of
`Warmer` is still in its run, and the other runs leave theirs out.

**Bounds and why they are enough.**

- Slots: three requests against limits of one and two give a full account, a
  full token and a release pending at once. No counter is capped: they are
  bounded by the requests and the pending releases. Leaks are bounded by the
  limits themselves, since each lost slot stays taken.
- Pool: an interference needs one request to write what another read, so two
  requests and one account show each; the second account shows that rows are
  independent. `AdminMay` says what the administrator does besides enabling:
  disable rows, and create, edit and delete them (`pool`). Unbounded in length. It may stop when every account is deleted, so
  deadlock is not checked.
- Loop: one request, because the pool below it changes by itself (`TimePasses`, and
  in the pool run every other writer); the limits are one instead of the code's
  (`MAX_ACCOUNT_SWITCHES`, `MAX_SAME_ACCOUNT_RETRIES`, `RPM_WAIT_MAX` divided by
  `RPM_WAIT_STEP`), with three accounts, so that each limit is reached before
  the accounts run out and the other way around.
- Admission: `MaxArrivals` (3) requests, `MaxRounds` (2) instead of the forty
  rounds of `SESSION_WAIT_ATTEMPTS`, `MaxUpsets` (2) steps of time, so that an
  expiry meets a midnight and two midnights each other. One account has
  a quota of devices, the other of sessions. The run stops when the arrivals are
  used up, so deadlock is not checked.
- OAuth: `MaxIssued` (2) tokens: one refresh that may rotate the token; a second
  caller with the spent one; `MaxEdits` (1); `MaxPolls` (2) instead of
  `OAUTH_WAIT_ATTEMPTS`. The safety properties are proved for every value of
  these bounds.
- Usage: `ChannelCap` (1) so that the channel is full with a record waiting,
  `BatchSize` (2) so that a batch is flushed full or by the ticker and holds two
  accounts. One reader is enough: the cache is only shared with the writer, and a
  second reader could only repeat a fill. Safety is proved for every size.
- Warmer: `MaxOrders` (2) requests, so that a stop meets the start of its task, or
  one task's start another's; `MaxFaults` (1) failed query, dropped request or
  restart; `MaxProcesses` (1) permit, so that a worker waits for it. The end of all
  tasks is a stop of the system, so deadlock is not checked.
- Telemetry: `MaxVisits` (3) let a session end and a second begin while the loop
  of the first still sends; `MaxSends` (3), `MaxLosses` (1).
- Session ids: a pool of three slots met by an account that began with one.
- Repair: `MaxBlocks` (3) put a removed block between two that stay and next to
  one that becomes empty; blocks are looked at one by one.
- Requests per minute: `MaxRequests` (4) against limits of up to two, over
  `LastMinute` (1) and a change of the limit; `MaxOutages` (1).
- Caps: two updates are enough to overlap; ages up to `MaxHours` (3), one beyond the
  default tiers.
- Redis slots: three callers and a limit of one give a holder, one that is about
  to take its increment back, and one that comes between; `MaxExpiries` (1),
  `MaxFaults` (2), so that a lost command meets a restart. Redis admissions: two
  calls race for one place, three sessions so that the bound could be exceeded
  in the live set and in that of the day, `MaxTurns` (1), `MaxMisses` (1). Both are proved for every
  size. The calls, and the clients of `RpmWindow`, are symmetric (the run has no
  liveness).
- `services` ends when its bounds are used up, so deadlock is not checked.

**Fairness.** A spawned task is polled until it ends, so `RunSpawned` is weakly
fair. The future of a request is polled while its client is there, and each of
its awaits has a time limit (connection and read timeouts, sleeps of a fixed
length), so the gateway's own steps are weakly fair as one disjunction
(`Progress`): some step is taken, never a given answer of the
upstream or of the store. Only `MemorySlots` assumes more: strong fairness of
`ReturnResponse`, because there the loop may go around for ever; that it does not
is `RequestsEnd` of `GatewayLoop`. `TimePasses` (the clock reaches the middle, then the
end of a cooldown that stays) and `LockExpires` are weakly fair since clocks
advance. `SessionAdmission` assumes none: that admission ends is stated as a
measure, `AdmissionFalls`. The writer of usage records is a task that never ends
(`Write` is weakly fair as one disjunction). Of the warmer, the supervisor's loop
(`Supervise`) and what the process owes each task (`Progress(t)`: its spawned
runner and workers, its requests, its deadline) are weakly fair; that a client
exits by itself is not assumed, the deadline or the flag end it. Nothing is
assumed of clients, administrators, the upstream, the authority or failures.

## 4. Where code and documentation disagree

Runs that end in a violation, each with the line it contradicts (PROJECT.json
`findings`):

1. `slots_leak`: gateway.rs:645 awaits `release_slot` after the guard was
   forgotten; README says slots are given back when the request ends.
2. `pool_late`: account.rs:796 writes `active` over `disabled`; README says only
   a hand enables an account after a 403.
3. `pool_escalate`: gateway.rs:903 looks at a copy that cannot show a cooldown;
   README says a 403 during a 429 does not disable. `SnapshotNeverLimited` (run
   `pool`, proved) is the reason: the test is never true.
4. `warmer_stop`: account_warmer.rs:136 cancels a runner only if it is in the map,
   and neither a start that is under way nor the runner looks at the status again;
   the comment above it says that it cancels the workers.

Known and without a run, most of them since one line shows them:

- gateway.rs:687 drops the guard when the response is returned, so a body that
  still streams is not counted; README says a limit of requests per account.
- The account of a burst retry is in its 60 s cooldown when the loop goes around
  500 ms later (gateway.rs:715), so the retry goes elsewhere; the comment of the
  constant (gateway.rs:125) says same-account retries. `ForwardsBounded` holds
  all the same.
- account.rs:334 hands a session to another account without counting it; the
  comment of `QUOTA_TTL` (account.rs:23) says no account serves more.
  `ServiceCounted` names this exception.
- memory.rs:164 computes the day before the two mutexes are awaited; a call that
  gets them after midnight takes the new day's entries for old ones and erases them,
  so that day lets in more than its quota. The comment at memory.rs:170 speaks of
  the window before. `DayBounded` and `ServiceCounted` name this exception
  (`erased`).
- gateway.rs:818 looks for a billing refusal in the first answer only; that of a
  repair goes to the client without a quarantine.
- The comment of the cache trait (cache.rs:35) calls admission atomic; over Redis
  it is several commands. `AdmissionsRaced` says what is left of the limit.
- telemetry.rs:175 adds the count of a session again that its sends have added
  already; model/account.rs:186 calls the column the number of requests sent.
  `SendsCounted` has both.
- The comment at model/account.rs:275 gives an account without a session mode a
  pool; the code below it maps no ids then. Neither says what `PanicExplained`
  shows: that a change from one slot to a pool panics at gateway.rs:212 and
  poisons the lock.
- A warm-up schedule without tiers is saved, limits nobody until the restart and
  is the default one then (router.rs:935); the comment there says stored and
  updated while running. `CapsTight` names it.
- README's table takes the reset of a full window from the usage API, the code
  from the headers of the 429 (account.rs:842).
- The comments at account.rs:60 and usage_recorder.rs:83 say that the next
  selection reads the new cost, which a reader that puts its older sum after the
  removal prevents for up to 60 s (`CostExplained` names this case `late`).

## 5. Proofs

Every theorem holds for all values of the constants that satisfy the module's
named assumption (finite sets where cardinalities are taken, special values
outside the sets they stand beside, natural limits).

| Theorem | States | Argument |
| --- | --- | --- |
| `MemorySlotsProofs!TypeCorrect`, `SlotsAccounted` | `TypeOK`, `Accounting` | inductive together: `Accounting` needs that a request inside a call has an account |
| `AccountsLimited`, `TokensLimited` | the refinements `AccountsBounded`, `TokensBounded` | a step that adds a call passed `HasRoom`; by `Accounting` the calls are no more than the counter, so there was room in the abstract limit too |
| `BothLimited` | `LimitsImplemented`, both at once | from the two |
| `GatewayLoopProofs!PoolTypeCorrect`, `SnapshotsUnlimited`, `QuietStays` | `TypeOK`, `SnapshotNeverLimited`, `QuietStaysDisabled` | a copy is taken only of a schedulable row; every other write needs a row, and a request on the account or an edit |
| `LoopTypeCorrect` | `LoopTypeOK` | on top of the pool's type, as each step is one of the pool or leaves it alone (`LoopStepsPool`) |
| `BooksBalance` | `AttemptIsSwitches` | strengthened by `ListsApart`: blocked, out of quota, wrong type are disjoint parts of `excluded`, and the account at hand is in none |
| `PolicyIsRespected` | `PolicyRespected` | from `ListsApart`: `blocked` stays inside `excluded` when a wait lets accounts in; and the account that is checked was a candidate |
| `LastAnswerIsKept` | `LastAnswerKept` | strengthened by `Kept`: a request back at the selection whose trail is not empty has its answer |
| `CallsAreBounded` | `ForwardsBounded` | strengthened by `Tried` (calls of an account are its retries, and one more once it is excluded or being called) and `Counted` (the trail is no longer than switches, retries and the call at hand); the cardinalities move by one per step (`ForwardsOfOne`, `RetriesOfOne`) |
| `WorkIsBounded`, `WorkShrinks` | `WorkFalls`, the safety core of `RequestsEnd` | `WorkLeft`, four times the rounds left plus the place in the round: every `Progress` or `Disconnect` of a request lowers it, no step of others raises it, and it is at most `MostWork`; a wait gives accounts out of quota back but costs more than all of them (`WaitsAreWorth`); `ListsApart` makes each account given up a new one |
| `SessionAdmissionProofs!TypeCorrect`, `LiveLimited` | `TypeOK`, `LiveBounded` | the live set without the forced members grows only with room |
| `DayLimited` | `DayBounded` | strengthened by `DayInv`: the entries of today are the sessions let in today and not erased since, both maps tell of the same sessions, and the entries that were not forced are within the quotas (`RetainToday` for each call, `DayStep`) |
| `ServiceIsCounted` | `ServiceCounted` | strengthened by `ServiceInv` to every place between admission and service, to the bindings, and to requests that may have read yesterday's clock; a call from before midnight moves a session from the entries to `erased` (`AccountedStays`) |
| `AdmissionShrinks` | `AdmissionFalls` | step by step from `TypeOK` and `Listed` (the account at hand is one of the candidates left): a candidate that is given up is one less, and nobody moves another's request (`OthersWait`) |
| `OAuthRefreshProofs!TypeCorrect` | `TypeOK` | |
| `InsideAlone` | `OneInside` | strengthened by `LockHeld` (a caller inside has the lock or is in `overrun`) and `OverrunNoted` (then the fault is on record) |
| `CredentialsSafe` | `CredentialsKept` | strengthened by `DeliveryKept`: while no fault is on record, a pair on its way to the row is the one the authority accepts; `OnlyInside` makes it the only one |
| `ErrorsExplained` | `ErrorExplained` | strengthened by `RefreshNeeded`: while the lock holds, the token of the row is not good when a caller asks for another |
| `FreshAnswers` | `AnswersFresh` | step by step from `TypeOK`; the token of a `Store` is that of the reply |
| `UsageCostProofs!TypeCorrect` | `TypeOK` | |
| `RecordsUnique` | `RecordedOnce` | the parser is taken once, so a record is added once; every later step moves its one copy between the four bags |
| `CostsExplained` | `CostExplained` | strengthened by `SumExplained`: the same holds of a sum that a reader has in hand, so that `Put` keeps it |
| `RedisProofs!SlotsInvariant` | the inductive invariant | type, `CountExplained`, the entitled callers bounded, `KeyMortal` |
| `SlotsLimited`, `KeyIsMortal` | `SlotsBounded`, `KeyMortal` | a caller is granted a count that, by `CountExplained`, has its own increment and those of all earlier holders of this life of the key, less the strays |
| `SlotsImplementLimit` | `SlotsImplemented`, for behaviours without an expiry or a restart | then every increment is one of this life of the key (`OneLife`), so the count is at least the calls that hold a slot, and one that is granted was below the limit; `EntitledBounded` does the same for the caller that waits for its EXPIRE |
| `AdmissionInvariant`, `RacesAreBounded` | `AdmissionsRaced` | members that were tested and ids about to be added stay together below the limit and one for each other call, since a call that counts has not yet added |
| `WarmerProofs!WarmerTypeCorrect` | `TypeOK`: with the map of runners being what runs, and workers only under a runner that joins them | in four parts (rows, runners, workers, requests), each by the kinds of steps |
| `TokensAlone` | `TokenAlone` | as `AllAlone`, pairwise: two workers that hold a token are one, and a token is active while it is held; a step of a worker that holds its token keeps it or gives it back (`TurnAlone`) |
| `CompletedAlone` | `NoStragglers` | from the type invariant: a runner that writes the verdict has joined |
| `ServicesProofs!OneLoop` | `LoopAlone` | strengthened by `DrivenByOne`: a session that is there has one loop that drives it, and one that is not has none |
| `EverySendCounted` | `SendsCounted` | strengthened by `SessionCounts` (the session counts a send just before it is sent, and nothing else) and `CarryFits` (what a loop still owes at each of its places); the debt is split by loop (`OwedSplit`), so that a step moves one summand |
| `LoginsOnce` | `LoginOnce` | strengthened by `OnePlace`: at most one exchange has a session, and none while it is in the store |
| `PanicsExplained` | `PanicExplained` | strengthened by `AskedWithin`: the size that a request has read is one, or the width of its account, whatever has happened to the slots since |
| `RepairInvariant`, `AnswersWhole` | `AnswerWhole` | `RepairShape` (sends and answers of each stage), `LastAdopted`, `FromClient`, `RepairsOfFirst` |
| `RepairsClean` | `RepairClean` | by `RepairsOfFirst` a question about `TransformForRetry` of any message; `AllBlocks` goes through the message block by block, from the smallest index at which it could fail (see below) |
| `RpmInvariant`, `MinutesExplained` | `RpmExplained` | strengthened by `NotYetCounted` and `LimitRead` (the limit a request goes by is one that was set); every way out of a request moves its place to `served` or `wasted`; the requests of a minute are a finite set that gains or loses one per step |
| `HeadersClassified` | `ClassifiedRight` | the verdict is that of the headers (`HeadersInv`), which is right by cases over the windows that are full (`EveryClassRight`) |
| `CapsInvariant`, `CapsObeyed` | `CapsTight` | `Rank` is a bijection of the positions of a schedule, so parsing sorts a schedule and leaves a sorted one alone (`ParseSorts`, `ParseKeeps`); strengthened by `UpdatesApart`, `SavedRuns` and `CopySaved`: during the one update there is, what is saved is its copy but for the fields still to be written |

The proofs of steps are organised by caller or request: one lemma says what the
acting one's step does to the shared state, another that the rest keep their
part, so that no case is a product of the two.

**Induction.** The induction theorems of the library take an operator as a
parameter, which the provers at hand cannot instantiate. Where a proof needs
induction over data (the blocks of a message, the values of the recursive function
inside `FlattenSeq`), it takes the set of the numbers at
which the claim fails and refutes its smallest member (`SmallestThere`, from
well-foundedness of the naturals).

**Assumptions.** None speaks of a state. Besides finite sets, special values that
are none of the others and bounds that are natural numbers: `RefreshAssumption`
(an authority issues a token, a waiter polls), `UsageAssumption` (a channel and a
batch have room for a record), `RpmAssumption` (there is a highest limit),
`PoolAssumption` of `SessionIdPool` (a pool has three or four slots, account.rs:280)
and `CapsAssumption` (a schedule is a sequence of pairs of integers).

**Only model-checked.** Every safety and action property that a passing run checks
is proved. Left to TLC is liveness, which is out of the prover's reach:
`SlotsDrain`, `QuarantineEnds`, `RequestsEnd`, `CallsEnd`,
`RecordsSettle`, `TasksEnd`; and the four findings, whose counterexamples are runs.
Of `RequestsEnd` the part that is safety is proved (`WorkShrinks`: a request that is
given its steps takes at most `MostWork` of them); that it is given them is the
fairness above. Of the end of admission nothing more is stated than `AdmissionFalls`:
the run has more steps of time for it than it could have with a liveness property.

## 6. Not modelled, and the plan

PROJECT.json `components` gives the reason for each part left out:

- the usage poller: a loop that stores figures nobody schedules by, except
  `resets_at`, which `UsageCost` lets change at any moment (`PollUsage`); its
  token requests are callers of `OAuthRefresh`;
- authentication and the token store: a lookup per request, whose result is
  `Policies` of `GatewayLoop`;
- the client guard, the rewriter and the probe: pure text, whose results are
  `accepts` of `Policies`, `Intercept` and the body of a send;
- the change of an account between OAuth and setup token (planned);
- most of the admin API: forms and queries.

The plan:

1. the refinement of an abstract cache of sums by `UsageCost`, and of an abstract
   admission by `SessionAdmission` and `RedisAdmission`, as that of
   `BoundedConcurrency` by both kinds of slots;
2. what the other liveness properties need of safety, as `WorkShrinks` is for
   `RequestsEnd`: the polls left to a caller of `OAuthRefresh`, the requests and the
   deadline left to a task of `Warmer`;
3. the change of the kind of credentials during a refresh, in `OAuthRefresh`.

About two thirds of the lines of the repository are the vendored TLS stack,
and a large part of the rest is text handling and the admin forms: the share of
lines that the models stand for is small, that of the lines where two actors meet
is not.

Left out for good: the web console, scripts and the sidecar (no state of the
gateway), the vendored TLS stack and fingerprints (third-party), the rewriting
of headers and bodies (pure text), start-up and schema.
