# A TLA+ verification of the social API

The service (`src/social_api`) stores likes of users for content items in
Postgres, keeps a counter per item in Redis, validates users and contents at
external services, ranks contents, and streams like events to browsers.  This
directory models the parts of it that share state between concurrent requests,
checks them with TLC and proves the main results with TLAPS.

## The system

| Part (under `social_api/src`) | State | Operations | Talks to |
|---|---|---|---|
| `application/like_service.rs`: like, unlike, count | `flight_locks`, a DashMap from key to `Arc<Mutex>` | `add_like`, `remove_like`, `get_like_count`, `get_like_count_with_fallback` | Postgres, Redis, validator, event publisher |
| same file: batch counts | the same map | `get_likes_count_batch` and the task it spawns | Postgres, Redis |
| same file: leaderboard | none of its own; three Redis keys | `get_top_likes` and the task it spawns | Postgres, Redis |
| same file: statuses, user pages | none | reads | Postgres |
| `infrastructure/postgres` | table `likes`, unique per user and item | insert on conflict do nothing, delete, count, pages | |
| `infrastructure/redis` | connection pointer; keys with TTL | INCR/DECR, GET, SET EX, MGET, canary and lock keys, PUBLISH, `monitor_connection` | |
| `clients/http_external_validator.rs` | `single_flight_lock`, a DashSet; cached results in Redis | `validate_user`, `validate_content` | breaker, Redis, HTTP services |
| `clients/circuit_breaker.rs` | `failures`, `last_failure_time`, `state`, three atomics | `call`, `check_state` | |
| `application/sse.rs`, `api/handlers.rs` | DashMap of broadcast channels | `subscribe`, the pub/sub listener, the stream handler | Redis |
| `api/middleware.rs`, `rate_limit.lua` | one token bucket per key in Redis | `check_limit` | Redis |
| `main.rs` | cancellation token, database pool | start-up, `shutdown_signal` | all |

Every HTTP request is a tokio task; requests run on several threads, and a
handler is dropped at whatever await it is at when its client disconnects.  What
makes the code hard is that one request is a sequence of independent commands (a
statement, a command of Redis, an access to a shared map) with no transaction
around them: other requests, expiring keys, a lost Redis and dropped handlers fall
between any two.  What should be true of each part:

* likes: the answers to concurrent likes and unlikes of a row fit one history;
  counters are right when nothing raced, become right again when something did, and stay right once the writes have ended;
  a stampede on a cold counter reaches the database once; nobody waits for ever
  on a lock entry that was left behind.
* batches: they never wait, ask for an item that another batch is asking for only when a request broke the lock in between, write back what the database said, and leave out of an
  answer only what somebody else is at work on.  The code keeps the last of these only until something fails, expires or is unliked: the entries that
  batches leave in the map are then taken for somebody at work (run `batch_omits`).
* validator: one call per content at a time; only truths are cached (not all of them: a 404 of a user is not); every registered key has somebody who
  will remove it; every request ends.  Breaker: refuses for a reason and lets calls through again.
* leaderboard: one refresh at a time, no older ranking over a newer one, convergence.
* events: a client sees the events of its item in order and none twice, misses none while it
  keeps up, is passed over only when it fell behind by more than its channel holds, and catches up with the newest; the listener routes what reaches it.
* rate limiter: in any stretch of time it admits no more requests than a full bucket and what was refilled, where each second by which
  a replica's clock goes back is refilled once more, and requests that pass because the limiter cannot be reached are not counted;
  the bucket is full at the reset time an answer names (a refusal by a clock that is behind the last update names one too early, and is left out).
* user pages: no row twice and no lasting row skipped, whatever is liked and unliked in between and whatever page sizes are asked for,
  but for the one size whose `limit + 1` wraps to 0.
* shutdown: the process ends, with streams open and requests under way, unless it is stuck in one of two ways that the code does not exclude.

## The modules

* `LikeLedger` – abstract specification of the like API: a request takes effect at
  most once, in one atomic step, and its answer tells whether it changed its row.
* `LikeService` – the core.  A request is a process; `pc` is the await it is at;
  an action is the stretch from one await to the next.  `likes` is the table, `count` the counter
  keys (an absent key is `NoKey`, a negative value is possible and reads as an error,
  as `Option<u64>` does), `flight` the map, `mtx` the mutex a request waits
  for or holds.  `PeekHit`..`Leave` are `get_like_count_with_fallback`, which like (row
  existed), unlike and count share; `AfterCount` says what each does with the
  result.  `Drop` ends a request at any point with its guard released and its map
  entry left.  `clean`, `quiet` and `expired` are history: which counters
  no race or fault has touched, which fetched counts no write has overlapped, and
  whether a key has expired.
* `BatchCounts` – extends it by `get_likes_count_batch`; the spawned task has a
  program counter of its own.  `DashMap::insert` replaces an entry even if the batch does
  not win the key, and the task releases keys in a copy of the map, so
  `TaskRelease` changes nothing.
* `BatchHistory` – puts two history variables beside it: `lost`, the claims of a batch whose entry was
  removed from the map, and `beside`, the items somebody else was at work on (`AtWork`: a single request between entry and leave, a batch
  between claim and write-back) while a batch passed them over.  An entry in the map alone does not count, so one that a finished batch
  has left explains no omission.  The histories are computed from each step (`Recorded`) and constrain none.
* `CircuitBreaker` – one action per access to an atomic.  `failures` stops at the
  threshold and `age` (seconds since the last failure) at the timeout, since the code
  only compares them; this makes the state finite without bounding the run.
  The time is read and stored in one step.
* `ContentValidation` – both validations on top of the breaker.  A cache read may
  always miss and a cache write may always be lost, which covers expiry and a
  Redis that is away.  Users ask again and again; content requests once.
* `Leaderboard` – one window, content type and limit.  A ranking is the number of
  changes behind it, so that older and newer rankings can be told apart.
  `LockLost` sets the lock and spawns nothing (a lost reply, a client that goes); the lock then only expires.
* `SseHub` – `SseManager` and the stream handler of one replica.  `wire` is what Redis has
  delivered to the listener and it has not read, `channels` the DashMap, and an event is the number
  `sent` gave it on its channel.  A stream has a place (`next`) in the ring of its channel, whose last
  `Capacity` events are kept; `Lagged`, `TryRecv` and `Resync` are the resync, during which the
  listener goes on sending.  `Take` holds the DashMap reference until the event is routed
  (`Guarded`), and `RouteNobody` is the call of `channels.remove` with that reference held: the
  listener is `"blocked"` from then on, and so is every `Subscribe` of that shard.
* `EventFeed` – abstract specification of the stream: a client sees ever newer events of its item, and
  an event is passed over only when more than `Capacity` events were sent since the last one it saw.
  `SseHub` implements it (`FeedImplemented`): subscribing, closing and each yielded event are its steps, the
  rest of lagging, draining and listening is stuttering.
* `Shutdown` – extends `SseHub` by the end of `main`: `Signal` cancels the token and closes the pool,
  `StopAccepting` is the end of `shutdown_signal`, and `Exit` the return of `axum::serve` with every
  connection ended and every task at an await.  A request that likes the content first has it validated, as `ContentValidation` has it
  in detail: it may find the result cached, register the key and call the service, or sleep and look again, whatever the token says.  Then it
  acquires a connection of the pool for each of its statements, which may fail; a closed pool refuses it.  `Disconnect` drops it
  anywhere, with the key it registered left in place.  `Beside` puts a step of the hub next to the server.
* `RateLimit` – one token bucket.  Tokens are counted in units of 1/Window, so that the fill
  rate Limit/Window is a whole number and nothing is rounded but `ResetAfter`.  `Clocks` are the times a
  script may have been sent with: the replica reads its clock first and the script runs later.
  `log` and `setback` are history: when requests were admitted, and by how much clocks went back.
* `UserPages` – extends it by `get_user_likes`: a client walks through the likes of a user in
  the order of `(created_at, id)`, here one number per row, while other requests add and remove
  rows; each of them passes the limiter first.  A page size is any `usize`: `SqlLimit` is `limit + 1`, which wraps in the release build,
  cast to `i64`, with `MaxSigned` in place of `i64::MAX`.  LIMIT 0 gives an empty last page, a negative one an error.  `cut` is history: a walk ended by a LIMIT of 0.  `kept` is history: the rows that were there all the time.
* `LikeServiceProofs`, `BatchCountsProofs` (with `BatchHistory`), `SettledProofs`, `ContentValidationProofs`,
  `LeaderboardProofs`, `ShutdownProofs` (with `SseHub`), `EventFeedProofs`, `UserPagesProofs` (with `RateLimit`) – theorems.
* `MC*` – instances for TLC.

Operators marked "Mutant" in a comment are wrong variants of the definition below
them, with a bug one could plausibly write; each property is known to fail when its
variant is put in place.

## The runs

| Run | Instance | What it shows |
|---|---|---|
| `likes_stampede` | 2 writers, 2 users, 1 item, a repeating reader, expiry, 1 fault | `TypeOK`, `SingleFlight`, `EntryInUse`, `ChangesAlternate`, `ChangesAnnounced`, `CleanCounterExact`, `LedgerSafe`: `LikeLedger` is implemented, also when a row goes between `save` and `get_like` |
| `likes_live` | writer, reader, batch, expiry, 1 fault, fairness | `CleanCounterExact`, `RequestsServed`, `BatchesAnswered`, `EventuallyConsistent`, `SettledStays` |
| `batch` | `BatchHistory` with 2 batches over 2 items, 1 writer, expiry | `CleanCounterExact`, `BatchSingleFlight`, `OmittedIfBusy` |
| `validation` | 3 content requests, a content and an unknown type, 1 disconnect | `OneExternalCall`, `BusyHasOwner`, `OnlyTruthCached`, `ContentAnswered` |
| `breaker` | a repeating user and a content request, threshold 2 | `OnlyTruthCached` with users, `OpensForAReason`, `Recovers` |
| `leaderboard` | 2 repeating clients, 2 refreshes, 2 changes, 1 fault | `SingleRefresh`, `NoRollback`, `Converges` |
| `streams` | 1 client of a channel of two slots, 4 events, a lost Redis, a request of up to 2 statements with validation, a validation key that may be left over, disconnects, fairness | `InOrder`, `NothingLost`, `NewestShown`, `FeedImplemented`, `CatchesUp`, `ShutdownEnds` |
| `pages` | places 1 to 3, pages of 0 to 3 and of 7, which stands for `usize::MAX`, 3 requests per 2 s, clocks 1 s apart | `PagesTypeOK`, `RateBounded`, `ResetHonored`, `NoRowTwice`, `NothingSkipped` |
| `write_through` | 1 writer, 1 reader | violated: the counter is wrong after one like on a cold key |
| `batch_omits` | 2 batches, 1 item, no fault | violated: a batch leaves out an item nobody is at work on |
| `orphaned_key` | 2 content requests, 1 disconnect | violated: a waiter retries for ever |
| `stuck_listener` | one client, 3 events and Redis up | violated: the listener blocks itself |

The type invariants are checked as well: `TypeOK` in `likes_stampede`, `BatchTypeOK` in `likes_live`, `ShutdownTypeOK` in
`streams`, and those of the other components in the run named after them.

The four violations are disagreements between the code and the words of the
repository; `PROJECT.json` quotes both.  Two of them stop the service.  A client that
disconnects while its request is the first to validate a content leaves the
content's key in `single_flight_lock`, and every later like of that content hangs; since the retry loop does not look at the token, a request in
it also keeps the process from ending.  The first event
for a channel whose last client has gone makes the listener wait for a shard lock it holds itself:
no event is routed any more, connections to items of that shard hang a thread, and a
process in this state does not end by itself.  `ShutdownEnds` names exactly these two states (`Stuck`): after the signal the process exits or is in one of them for ever.
A batch on a cold counter leaves its entry in the lock map (its task releases keys in a copy, in spite of the comment at
`like_service.rs:307`); once the counter has expired, further batches leave the item out of
their answers until a single request removes the entry, whereas `test_batch_count` expects one element per item.

Seen while modelling, without a run of their own:

* two unlikes can both pass the test for zero and take a counter to -1, which the comment at `like_service.rs:174` means to
  avoid (a negative counter reads as an error and expires);
* a like of a row that exists sends an event, which a comment of the tests (`api_integration.rs:626`) says it should not;
* the Readme says (line 66) that 404s are cached for both users and content; `validate_user` saves successes only (`Usable`), so
  every request of an unknown token asks the profile service;
* the Readme's 30-second drain period (line 88) is not in the code, which closes the database pool before the
  requests under way have ended, so that their next statement fails (`AcquireFails`), and then waits for connections without a limit;
* page sizes of any `usize` are accepted (`SqlLimit`): size 0 panics in the handler (`NoAnswer`), sizes from `i64::MAX` to one
  below `usize::MAX` give a negative LIMIT and a database error (`LimitRefused`), and for `usize::MAX` the sum `limit + 1` wraps
  to 0 in the release build that the Dockerfile makes, so that the answer is empty and without a cursor whatever rows are left (`LastPage`).
  `NothingSkipped` leaves out a walk that ends this way (`cut`).

**Bounds.**  Two requests are enough for a race on a row, three for one on the flight
lock with an entry removed and registered again in between (leaver, waiter on the
old mutex, newcomer); the two writers and the reader of `likes_stampede` give that.
`Mutexes` has more identities than can be referred to at once.
`MaxFaults`, `MaxDrops` bound faults, not requests: one fault at any point meets every
interleaving of the others.  `Tasks` and `MaxChanges` of the leaderboard give two
overlapping refreshes and a ranking that changes between their reads and
writes.  Threshold 2 separates a first failure from the one that opens the breaker.
A channel of two slots lags with the third
unread event, and a fourth is sent while the resync drains it: it is drained as well, read after the resync, or
cuts the resync short; the code's 100 differs only in how many it takes.  (With one slot a client
that missed an event has always missed more than the capacity, and `FeedImplemented` would say nothing.)  `CatchesUp` is about what is left after the last event, so a bound on events does not hide a violation.
Three tokens in a window of two seconds leave fractions of a token after each second; `Ttl` is as
short as the assumption on it allows (the code's 3600 s are far longer than a window), `MaxLog` is two
more than the bucket, and pages of one and two rows out of three give walks of one to four pages.  With `MaxSigned = 3` a `usize` is 0 to 7: size 3
is the first whose LIMIT is negative, 7 the one whose `limit + 1` wraps.
Clients meet each other only by keeping a channel in the map, so one client that leaves and comes back has all that `streams` asks about;
so has one request, whose key may be registered by a dropped request from the start: that requests which wait for each other's validation get it is
the matter of `validation`.
The `batch` run has neither a repeating reader nor a fault, for the size of its state space; `likes_live` has both beside one batch, and the theorems
about its properties cover them for any number.
Symmetry is used only in runs without liveness properties; `LedgerSafe`, an initial condition and an action property, is symmetric itself.  Deadlock checking
is off where requests are finite and the system stops.

**Fairness.**  Weak fairness of each request, batch and task: tokio runs a ready task,
statements and commands answer or time out, and a released `futures_util::lock::Mutex` wakes a waiter.  That mutex is not fair: a newcomer may take it first,
and weak fairness of the waiter says only that it gets a mutex that stays free for it, which is enough here: a filled counter or a removed entry leads newcomers elsewhere.  Weak fairness of expiry:
every counter and canary is written with a TTL; of `RedisUp`: `monitor_connection`
retries every 10 s and an outage is assumed to end; of `Tick`: time
passes.  Of the hub and the server: the listener task and the
stream of a connected client run, so a client reads what it is sent; handlers run, and their sleeps, calls and statements end; `pool.close()` returns
within its timeout of 2 s; the server exits when it can.  A stalled client that
never reads keeps the server from ending, in the code as well.  No fairness of faults, drops, services or changes.  In `LikeService` the validation is
one step that ends; `ContentValidation` shows when it does (`ContentAnswered`) and
when it does not (`orphaned_key`), so the liveness of `likes_live` holds for requests
whose content key is not orphaned.

## The theorems

All hold for any number of users, items, requests, contents, clients and faults,
from the assumptions named in the modules (finite user and request sets for
cardinalities, sentinels that are not values, natural bounds).

* `LikeServiceProofs`.  `TypeCorrect` first.  `MutualExclusion`: two requests in the critical
  section have different mutexes; the invariant adds nothing but the type.
  `StampedeReachesDatabaseOnce`, about behaviours up to their first fault or expiry
  (`CalmBefore`), needs more: a removed entry lets a newcomer hold a second
  mutex of the same item, so `FlightInv` says that a request whose mutex is no
  longer registered (`Orphaned`) finds the counter present and will hit on the second look.
  `NoEntryLeaks` comes from the same invariant.  `OpCorrect` ties program counters to
  operations; with it `ImplementsLedger` maps each step to a step of `LikeLedger` or a stutter.
  `CounterExact` is the deepest: `CounterInv` adds to `CleanCounterExact` that a
  quiet fetched count equals the rows (`QuietInv`) and that requests owe a command
  exactly when their row changed (`OwesInv`); each write moves the row count and the
  set of due commands by one together.
  `AnswersFitOneHistory` counts the inserts and deletes of a row by the requests that were told of them;
  `AnsweredChangesAnnounced` is inductive with the type.
* `BatchCountsProofs`.  Batches change no row, so `BatchesKeepLedger` follows from the steps of the
  ledger proof; `BatchCountersExact` adds to `CounterInv` what a fetch of a batch is worth until its task stores it
  (`FetchedInv`): the rows have not changed and nothing is due, because a request that
  has changed its row never comes to owe a command again (`NoNewDebt`).
  `BatchesKeepAnswers`: the mutual exclusion, the one history of each row and the announced changes of
  `LikeServiceProofs` hold beside batches too, which replace entries of the map but touch no mutex a request has.
  `HistoryErased` says that `HistorySpec` only watches `BatchSpec`.  Both results about batches rest on `EntriesInv`: the entry of an item that
  a batch claimed and nobody removed is still in the map, so the next batch finds it and does not claim (`BatchesAskOnce`, with
  repeating readers, expiry and dropped requests).  `OmissionsExplained` is about behaviours until the first fault, expiry or unlike, and needs
  what an entry is worth there (`PeaceInv`): an entry whose item has no counter belongs to somebody at work on the item (`EntriesMean`), since
  whoever has finished left a counter behind, and one that is there can be read (`ReadableInv`); so an item that a batch passed over because of an entry has
  somebody beside it (`PassedOver`).
* `SettledProofs`.  `CountersStaySettled` is the safety half of `EventuallyConsistent`: once the writes of an item
  have sent their commands, and no fill or task is about to store a wrong count, every step keeps it so.  The rows no longer
  change, so what is fetched from then on is right, and only right counts or nothing reach the key.  It needs that the spawned
  task of a batch starts only at its fetch (`TaskCorrect`).
* `ContentValidationProofs`.  `OneCallPerContent` is inductive with the type, and so is `KeysHaveOwners`, the safety half of
  `ContentAnswered`: whichever way a call ends, its request removes the key, or was dropped; `TruthCached` adds that replies and
  results about to be cached are true (`TruthInv`); `BreakerOpensForAReason` adds that the
  counter never runs ahead of the failures in a row (`StreakInv`), although a check may lose
  counted failures.
* `LeaderboardProofs`.  `OneRefresh`: the lock outlives the refresh unless a fault happened; `RankingInOrder` adds
  that what a refresh has read lies between the cached and the current ranking (`OrderInv`).

* `ShutdownProofs`, over any number of items, clients, events and any capacity.  `StreamInv` says that a receiver's
  place lies after its start and at most one past the newest event, beyond everything its client was
  given and beyond the drained event, which is newer than what the client was given (`Placed`); that a
  client was given events in order (`Ordered`); and that a client within the capacity has been given every event up to its place (`Complete`).
  `EventsInOrder` and `EventsComplete` follow.
* `EventFeedProofs`.  `Seen` adds where a receiver is by what its client has seen: at the next event, or somewhere behind the
  newest one with more than the capacity missed; during a resync just after the event it drained last, if any.
  `NewestIsShown`, the safety half of `CatchesUp`, follows: lagging costs events in between and never the last one.
  `HubImplementsFeed` maps each step of the hub and of the ending process to a step of `EventFeed` or a stutter
  (`FeedStep`): a resync shows the drained event, a read the event at its place, and neither passes over anything a client
  within the capacity has yet to see.
* `UserPagesProofs`.  `BucketBounds` rests on `Charged`: the tokens spent since any
  admitted request, together with those that are left, are at most a full bucket plus the refill since; an expired key is a full bucket because its TTL outlasts
  the window (`Idle`).  `ResetTimesHold` follows from the rounding up.  `PagesDoNotRepeat`: the cursor is a lower bound of all that was
  served (`Ahead`); `PagesDoNotSkip`: a kept row is served or below the cursor.

Only model-checked: everything about fairness (`RequestsServed`, `EventuallyConsistent`,
`BatchesAnswered`, `ContentAnswered`, `Recovers`, `Converges`, `CatchesUp`, `ShutdownEnds`), which is out of the prover's
reach.  Of `EventuallyConsistent`, `ContentAnswered` and `CatchesUp` the safety half is proved (`CountersStaySettled`,
`KeysHaveOwners`, `NewestIsShown`).
That the histories of `BatchHistory` can be added to every behaviour of `BatchCounts` is plain from `Recorded`,
which only assigns them, and not proved: it needs the temporal existential quantifier.
Every invariant and every action property of a passing run is stated by a theorem.

## What is not modelled

Abstractions: one replica (each replica has a map, a set, a breaker and channels of its own, so what is said
of them holds per replica; what replicas share in `RateLimit` is the bucket, with their clocks);
database statements and Redis commands are atomic, as
they are on the servers; a pipeline of SETs to different keys is one step; a
batch keys its cached counts by (type, id), while the code drops the type; a request of more than 100 items is refused
before anything happens; Lua's doubles are
exact numbers, and a limit is at least 1; the order of two events published by different tasks is the order of the
PUBLISH commands, whatever counts they carry; positions in the order of likes may be taken again by a
later like.

Not modelled: the status reads (`get_like_status`, `get_batch_status`), single reads of the table;
heartbeats, routing, headers, error mapping, tracing and metrics, which have no state that a
property could relate; reading the configuration and connecting at the start; the mock services.

What could be added: several replicas sharing table, counters and leaderboard lock;
content ids shared between types in a batch; rankings of different limits under one key.
