# TLA+ verification of the PaladinsCat Discord bot

The bot answers Discord slash commands about the game Paladins. It asks the
PaladinsCat backend for JSON, and for `/match` and `/loadout` it draws a PNG in a
Chromium that it starts and drives itself. The code is Rust under `src/src/`;
everything runs on one multi-threaded Tokio runtime. What is hard in it is not the
formatting but the sharing: one Chromium page, one work queue, one token, a few
process-wide maps, used by tasks that time out, are dropped in the middle and
retry.

Source lines in the modules' comments refer to `src/src/<file>`.

## Inventory

| Component | State | Operations | Hard behaviour | Modelled in |
|---|---|---|---|---|
| Render queue `image/render_queue.rs` | `in_flight_map` (key -> shared result), semaphore, counters and samples | `add` (produce, join, refuse), `wait_for_result`, `snapshot` | deduplication, admission limit, wake-ups without a permit, drop of a producer, two mutexes | `RenderQueue`, `Coalescing`, `QueueLocks` |
| Image service `image/render_service.rs`, `cache.rs` | PNG cache, recovery counters | `render_match`, `render_loadout`, `cached_match`, `recycle`, `warm`, `snapshot` | retry after a recycle, work timeout, recycling under another call | `ImageService`, `Gallery` |
| Match renderer `image/match_renderer.rs` | slots for child, page URL, CDP client and port; `render_lock`; Chromium processes and their ports | `render`, `render_loadout`, `ensure_browser`, `warm`, `recycle` | warm-up outside the lock, recycle in the middle of anything, crashes, poisoned mutex | `BrowserLifecycle` |
| CDP client `image/cdp_client.rs` | request ids, `pending` map, outgoing channel, reader and writer task | `send`, `send_timeout`, `close` | answers out of order, late or never; timeouts; cancellation | `CdpClient` |
| Menus `commands.rs` | `LOADOUT_SESSIONS`, `HISTORY_SESSIONS`, `IMAGE_COOLDOWNS` | opening a menu, component clicks, prune | clone-then-write across awaits, a page stored before it is shown, expiry, double clicks | `Sessions`, `Commands` (ownership) |
| Rate limits `commands.rs` | `USER_RATE_LIMITS`, `GUILD_RATE_LIMITS` | `claim_window`, `claim_command_rate` | time read before the lock, pruning by other keys' claims | `RateLimits` |
| Backend client `api.rs`, `service_auth.rs` | cached bearer token under an async mutex; `response_cache` | `get_json_impl`, `bearer`, `token`, `mint`; 24 methods, each one to five requests | expiry, concurrent refresh, failing identity provider, 429 retries; joined, optional and fallback requests; which failure is tolerated | `ApiClient` (one request), `Endpoints` (the methods) |
| Slash commands `commands.rs` | none of their own; what Discord shows for an interaction | acknowledge, fetch, render or fall back, answer; every command, button and menu | one first response, before the backend is asked; an answer on every path; presses by other users | `Commands` (paths), `ImageService`, `Sessions`, `RateLimits` (the shared parts) |
| Registration `register.rs`, gateway loop `main.rs` | "registration started" flag, attempt counter, voice cache | register, clear overrides, reconnect, Ready, guild lists, voice updates | once per process though Ready repeats, order of the requests, a task per event | `Gateway` |
| Health and preview server `health.rs` | three relaxed atomics | `/`, `/health`, `/matches/:id/image`, `/preview/...` | snapshot under the queue's mutexes, records and reports that overlap, clients that hang up | `HealthServer`, `QueueLocks` (the snapshot), `Endpoints` (what the previews ask) |
| Autocomplete `autocomplete.rs` | none | ranking of names | pure | planned |
| Templates, embeds, asset catalog, configuration | none, or immutable | formatting, lookup | pure text | not modelled |

How they interact: a command claims its rate-limit windows (`RateLimits`), asks the
backend (`ApiClient`), may open a menu (`Sessions`) or go through `ImageService`,
whose producer holds one permit of the queue (`RenderQueue`) while it drives the one
page of Chromium (`BrowserLifecycle`) through the one CDP client (`CdpClient`). Three
things cut across: a command's 22 s timeout and a queue's 20 s timeout drop futures
at their awaits; a recycle by one call hits whatever another one is doing; `/health`
takes the mutexes of the service and of the queue.

What makes each component correct:

- *Render queue*: one producer per key; at most `Concurrency` works run and at most
  `Concurrency + MaxQueued` keys are admitted; callers of one key get one outcome;
  permits, gauge and counters agree with what happened; every call returns.
- *Image service*: what is served was rendered; an interrupted render is followed by a
  recycle; a retry starts on a clean page.
- *Match renderer*: a capture shows the element of the render that takes it; no handle
  to a dead process stays behind; no Chromium outlives its slot; no task panics or finds
  the mutex poisoned unless another one recycled; every render ends.
- *CDP client*: a reply reaches the request of its id; whoever waits can be reached
  and ends; a request that gave up leaves no entry.
- *Menus*: a loadout menu renders once and survives a refusal; a history stays inside
  its pages, and message and session agree.
- *Rate limits*: how many commands a window can let through, and who may be refused.
- *Backend client*: tokens go out fresh, are minted once, and waiting for one is bounded;
  an operation fails exactly when it lost a request it needs, and ends.
- *Commands*: acknowledged first, answered at the end, images paid for once, menus and
  account links obey their owner only.
- *Health server*: a report holds what was recorded before it, once, and of what is
  recorded meanwhile some; no circle of mutexes but one.
- *Gateway and registration*: one registration, no guild without commands in between,
  a truthful report; the voice cache follows Discord.

## Modules

| Module | Its state in the code | Its actions in the code |
|---|---|---|
| `RenderQueue` | `inFlight`: `in_flight_map`; `waitq`, `permits`: the Tokio semaphore; `active`: the `AtomicUsize`; `result`: `SharedResult.result`; `woken`: the `Notified` futures that `notify_waiters` completed; `completed`, `failed`, `deduplicated`, `samples`: `QueueState`; `holder`: the `Arc<SharedResult>` a call keeps; `outcome`: its local `outcome` | `Join`, `Reject`, `Admit` (the section under the map's guard), `RequestPermit`, `StartWork`, `FinishWork`, `RecordDuration`, `CountOutcome`, `Publish`, `NotifyWaiters`, `Release` (the producer, in the order of `add`), `Subscribe`, `CheckResult`, `Wake` (`wait_for_result`), `Drop*` (a future dropped at an await) |
| `Coalescing` | the abstract promise: flights, who follows which, one verdict per flight | `Lead`, `Follow`, `Refuse`, `Settle`, `Answer`, `Abandon` |
| `QueueLocks` | `todo`, `owner`: guards of the three `std::sync::Mutex`es of the service and the queue, by worker thread | a thread takes or gives up a guard, in the order each code path does |
| `BrowserLifecycle` | `slot`, `url`, `client`, `activePort`: the renderer's slots; `lock`: `render_lock`; `poisoned`: `cdp_client`'s mutex; the Chromium processes and their ports | each statement of `ensure_browser`, `render_element`, `recycle` that touches a slot or awaits; `Listen` and `Crash` of Chromium; the drop of a render |
| `CdpClient` | `nextId`, `pending`, each request's oneshot, the bounded channel, reader and writer task, the socket | `send_timeout` from the id to its end, its timeout and its drop; `Write`, `Read`, `Close`; Chromium's answers |
| `ImageService` | extends `RenderQueue`, with one permit as `ImageService::new` asks for; `cache`, `retries`, `recoveries` of the service; `dirty`: an attempt was abandoned on the page | `render_match` around the queue, `render_with_recovery`, the recycle after a work timeout, the store, the command timeout of `render_match_scoreboard` at any await of `render_match` |
| `Gallery` | the abstract promise to a command: a shelf of images, and for what is not on it the flights of `Coalescing`, which it extends | `Find`, `Ask`, `Fly`, `Deliver`, `Deny`, `GiveUp`, `Remove` |
| `Sessions` | the two session stores and `IMAGE_COOLDOWNS`; each click's clone; the page that a menu's message shows, or none | opening a menu, each access of `handle_component` to a store, prune, expiry; each edit of the message, which takes effect or is lost |
| `RateLimits` | both window stores; the time a claim read | `claim_window`, `claim_command_rate` |
| `ApiClient` | the token cache and its async mutex, whose FIFO queue is kept as the waiters before each waiter (`ahead`); each request's attempt and answer | `bearer`/`token`, mint, its failure, `get_json_impl` with its 429 retries; `Switch` drops requests and starts others. It has no specification of its own: a request is made by a method |
| `Endpoints` | extends `ApiClient`; per operation the steps it still has to make (`plan`), what it found that they depend on (`got`) and its requests that brought nothing (`lost`); `roster`: the champion list in `response_cache` | each public method as its plan, the chains of the previews; `Start`, `Refuse` (an empty name), `Proceed` (a step's answers), `Abandon` (its caller goes away) |
| `HealthServer` | extends `QueueLocks`; the three atomics of `AppState`, where each handler is, which atomics it still has to touch | the four routes, `record` (`Count`), the report of `/health` (`Load`), clients that hang up |
| `Commands` | per interaction: where its task is, what Discord shows, whether only the user sees it, what it claimed; the saved players | one step per await of every handler: commands, buttons, menus |
| `Gateway` | the loop's stream and attempt counter, one task per event, `registration_started`, the command sets at Discord, the voice cache; of an event its kind and the voice states in it | read an event, spawn, back off, reconnect; `claim_registration`, the registration requests, the cache update of every event; at Discord: Ready, `GuildCreate`, `GuildDelete`, moves |

The inductive invariants and theorems are in modules of their own: `RenderQueueProofs`,
`ImageServiceProofs` (extends the former), `CdpClientProofs`, `BrowserLifecycleProofs`,
`SessionsProofs`, `RateLimitsProofs`, `HealthServerProofs` (for `QueueLocks` and
`HealthServer`, and, extending `Endpoints` too, for the token of `ApiClient`) and
`CommandsProofs` (for `Commands` and `Gateway`, the two halves of `handle_event`). Modules
that one proof module extends name their `Init`, `Next`, `Spec` and `vars` apart
(`ServiceSpec`, `OpSpec`, `ServerSpec`, `GatewaySpec`).

The `MC*` modules only add the symmetry set of a run; `MCEndpoints` names its operations
and their requests instead. The constants that stand for model-only bounds (`MaxSpawn`,
`MaxCrash`, `MaxClock`, `MaxEvents`, `MaxEnds`, `Simple`) are named so where they are
declared.

How they compose: `ImageService` takes the steps of `RenderQueue` and adds what happens
around the queue and in a producer's work; its specification is `ServiceSpec`, and it
implements the queue's `Spec`. `RenderQueue` implements `Coalescing`, and `ImageService` implements
`Gallery`, which is `Coalescing` with a shelf in front of it.
`Endpoints` runs its operations on the requests of `ApiClient`, and `HealthServer` its
handlers on the threads and mutexes of `QueueLocks`. The others stand at the interfaces of their neighbours: what
`BrowserLifecycle` assumes of the queue is its constant `QueueSlots`; what `Commands`
assumes of the backend, the images, the windows and the stores is any answer.

### Granularity

A step is the code between two points where another task or thread can see shared
state or be seen by it. A critical section of a `std::sync::Mutex` that has no await in
it is one step (in `QueueLocks` it is taken apart); two sections are two steps, also
where no await lies between them, since the runtime has several threads. `Commands`,
whose tasks share nothing but the backend, goes from await to await.

### Abstractions

- Keys, players, guilds and images are model values; an image is named by the call that
  drew it. Texts, embeds, sorting and selection of records are left out.
- Clocks count in the unit of the coarsest deadline a module has; a module whose
  deadlines only race (`RenderQueue`, `BrowserLifecycle`, `CdpClient`) has no clock and
  lets a timeout fire whenever it is armed.
- `RateLimits` gives every command a user and a guild. In the code a direct message
  claims no guild window, which is a shorter path of the same operations.
- `Endpoints` tells requests apart by what is asked of them (`page`, `match`, `facts`),
  and of an answer only whether it brought that. Methods that make the same requests are
  one plan, which its name still leads to. `request_url`, which refuses a bad base URL
  before anything is sent, is left out. The optional parts of `match_info` run in the
  order of the code, the two requests of a `join!` in one task.
- In `HealthServer` what a preview asks of the backend is work of unknown length. The
  atomics are `Relaxed`: a handler may touch its three in any order.
- `Sessions` lets only the owner click; the check of the owner is in `Commands`. An edit
  of the message takes effect before it is answered or not at all: that a request which
  was reported lost arrives later is left out. Texts without a page, a loaded match and an
  error are one (`{}`). Who opens a menu and never gets to see it makes clicks that the
  model allows and Discord does not.
- `ImageService` models calls of a command. The HTTP handler of `health.rs` uses the
  same service without the command timeout and never recycles; a client that
  disconnects there leaves the page as it is, which `InterruptedIsRecycled` therefore
  does not promise for it.
- `Commands` lets any user press any button of any other; every Discord call may be
  refused (`lost`), after which nothing more is expected of the interaction. One slot
  is one interaction.
- `Gateway` leaves out errors among the events (they are logged) and a missing
  `APPLICATION_ID` (nothing is registered then). Of `InMemoryCache`, which is a library,
  it keeps the voice states: an event that carries some overwrites those of its users;
  what happens to the entries of users whom a guild's list does not name, or whose guild
  is taken away, is left open. Events without voice states write nothing that is read.
- `HealthServer` takes any latency, 0 ms too.
- External, and modelled from how the code uses them: Chromium (boots, listens,
  answers in any order, crashes), the socket, the identity provider and the
  backend (any answer, any delay), Discord, the expiry of `moka` cache entries
  (`Evict`), the futures' owners (`Drop*`).

## Runs

| Run | Question | Bounds, and why they are enough |
|---|---|---|
| `queue_calls` | Do `add` and `wait_for_result` deduplicate, bound, share, count and return, under every interleaving and every drop? Does the queue implement `Coalescing`? | Three calls, three keys, one permit, one queued key, a window of two samples, all calls droppable. Three calls give a running producer, a queued one and a refused or a joining one; what is proved holds for all constants. |
| `queue_lost_waiter` | Does a deduplicated caller share a *bounded* result? (violated) | Two calls on one key, the first droppable. |
| `health_calls` | Which circles of threads waiting for mutexes exist, with the HTTP handlers beside the queue's paths? What may a health report say? | Three threads: three mutexes allow no longer circle. Three requests of any route: one that reports, one that records before it and one meanwhile. Latencies of 0 and 1 ms: a count without a sum, and a sum that two make larger. |
| `locks_health` | Can a snapshot and a deduplicated call block each other? (violated) | Two threads, the two paths. |
| `browser_casts` | Are captures own, handles live, panics caused by another's recycle only, processes killed, renders ended? | Two casts: two renders (one droppable) beside a foreign recycle, and a render beside the warm-up. Two processes, one crash. The queue admits one render at a time and the other one overlaps it through its drop and the recycle; `QueueSlots = 2` covers a permit that is free again while its former owner still recycles. |
| `cdp_replies` | Do replies reach their requests, and do waits end? | Three requests, a channel of two (so a third waits for room), one droppable, a socket that reorders, breaks, or sends a frame that ends the reader. |
| `image_commands` | Is what is served rendered, and every interruption recycled before a retry? | Three commands over two keys, two of which may time out at any await: of the cache, of the queue, of the recycle after a work timeout. |
| `sessions_menus` | Is a loadout menu used once and kept by refusals; do page turns agree? | Three clicks of two users on a loadout and a history menu, three clock values around both deadlines, any edit of a message lost. Three turns are an overlapping pair, or a lost one, and the one that heals. |
| `rate_windows` | How large can a burst be; who is refused? | Four commands, limits of one and two, a window of three units that a claim may be one unit late for, a clock up to five: a window fills, expires, is pruned, and is followed by another. |
| `api_calls` | Does an operation fail exactly when it lost what it needs; is the token fresh, minted once, waited for a bounded time; does every operation end? | An operation of any plan, droppable anywhere, beside one that asks for the champion names (`Simple`): together up to three requests share the token's mutex. One lifetime that ends within the five clock values, two delays. |
| `commands_all` | Is every interaction acknowledged, answered, paid and obedient? | Two interactions of any kind by two users, any arguments, any answers. Interactions share only the saved players, and two suffice for one to press what another opened. |
| `gateway_all` | Is the registration one, gapless and truthful; does the voice cache follow? | Four events, one user, two guilds, one channel and "nowhere", one end of a stream. Four events are a guild that is listed, a move that overtakes it, and the event that heals; two Readys and both guilds. Users do not interact. That the backoff stops growing is part of a theorem (`GatewayTypeCorrect`). |

What they show, where it is less than one might hope:

- `EveryCallReturns` holds for calls that do not share the flight of a dropped
  producer; for those, `queue_lost_waiter` shows the opposite.
- `NoStaleHandle` holds until a warm-up runs: a failing warm-up tears down slots that
  a concurrent render has filled.
- `BurstBound` is twice the limit, not the limit: windows are fixed, not sliding, and a
  claim may be applied with an earlier time than the window's. It counts in a stretch
  that no three windows can reach into: `Window` when no claim is late, and
  `Window + 1 - 2 * Delay` units when one may be `Delay` late, because each of two
  windows that follow each other may begin that much too early. A delay beyond half a
  window leaves no such stretch, and the bound is empty then.
- `PagesAgree` excludes a menu while it is `stale`: from two page turns that overlapped,
  since a turn writes the clone it took before its request, or from a PATCH that was lost
  after its page was stored, to the next turn that is shown and met no other.
- `CacheFollows` excludes users while they are `adrift`: from two events that were under
  way at once, say a move and the list of the user's guild, from a move that no session
  told of, or from the removal of the guild, to the next event that names the user and
  meets no other.
- `NoStaleHandle` is about handles of processes that the renderer killed. One of a process
  that crashed stays until the next attempt fails on it.
- `PanicsAreCaused` allows a panic after the recycle of another task, which the code
  does run into.
- `MetricsExact` holds for each number of a report by itself. The numbers need not
  belong to the same moment, so an average made of them belongs to none.
- `OnlySnapshotsBlock` states that the circle of `locks_health` is the only one.

The properties with a mutant each are listed in `PROJECT.json`: for every property of
every passing run there is a plausible change of the code's definition under which
TLC finds it violated.

### Fairness

- `RenderQueue`: weak fairness on each call's own steps (`Produce`, `Await`). Tokio
  polls a woken task again, the semaphore is FIFO, and the work ends because it is
  under `tokio::time::timeout`. Drops are not fair. A `Notified` that nobody notified is
  not polled again: `Wake` is enabled only by `notify_waiters`, so a lost wake-up would
  show.
- `BrowserLifecycle`: weak fairness on each task's poll. The lock of renders is a fair
  async mutex; the start of Chromium is polled a bounded number of times, and CDP requests
  have deadlines. Three waits have none of their own: `reqwest::get` of the page list
  (`match_renderer.rs:748`), `connect_async`, and the place in the CDP channel. That they
  end is an assumption. It is that Chromium, on the same host, answers, refuses or closes;
  for a render in the queue the work timeout stands behind it, for the warm-up nothing.
- `CdpClient`: weak fairness on each request, the reader and its end with the socket. `WaitsEnd` says
  when that is enough: `enqueue` has no timeout, so nothing is promised to a request
  that waits for room behind a writer that is stuck.
- `Endpoints`: weak fairness on each operation's task, which polls both requests of a
  `join!`; mint and backend requests have HTTP timeouts, backoffs end. Operations are not
  started by fairness, and a caller's going away is not fair.
- The other modules state safety only.

## What is proved

Each table names the theorems that state a property of a run, or a fact the others rest
on; each component also has its `Invariance` (`Spec => []IInv`) and `TypeCorrect`.

### The queue (`RenderQueueProofs`)

From `QueueAssumption`: finite sets of calls and keys, a positive concurrency and window,
any queue length, any droppable calls.

| Theorem | What it says |
|---|---|
| `OneProducerPerKey` | a key never has two producers, whatever is dropped |
| `SharedAnswers` | each caller is told the outcome its key's producer ended with |
| `PermitsAreConserved` | free and held permits add up to `Concurrency` |
| `QueueIsBounded` | admitted keys and running works stay within their limits |
| `CountersAreExact` | the counters count what ended that way; the gauge exceeds the running works by the dropped ones at most |
| `RefusalsAreEarned` | who is refused meets as many producers, or dropped ones, as the queue admits |
| `QueueImplementsCoalescing` | the queue refines `Coalescing` (safety) |

`SingleFlight` is not inductive: that two producers do not share a key
follows only from each of them owning the map's entry (`OwnsEntry`), and an entry
whose producer was dropped stays, so `EntryHasProducer` says what an entry may name.
Joining callers hold a `SharedResult` of a producer that may be long gone
(`HolderSharesKey`), hence `AnswersShared` needs that an outcome is final once the work
is over (`OutcomePublished`, `AnswersFinal`). The limits need `PermitsConserved`, that the
atomic gauge covers the running works (`ActiveCovers`), and the admission bound. The step
lemmas (`TypeStep`, `OwnershipStep`, `OutcomeStep`, `CountStep`, `MapStep`) each preserve
one group of conjuncts, action by action; `CountMoves` is the arithmetic of moving one
call between two sets. The counters have an invariant of their own (`CountInv`), whose
key is that an outcome belongs to a producer past its work and is never written twice.
A refusal is counted through the open flights, which are as many as the keys
(`OpenCount`); the refinement maps those keys to the flights of `Coalescing` and each
action to one of its actions or a stutter (`StepImplements`).

### The service (`ImageServiceProofs`)

From `QueueAssumption` and `ImageAssumption`, the one permit of `render_service.rs:85-88`.

| Theorem | What it says |
|---|---|
| `ServiceImplementsQueue` | `ServiceSpec => Spec`: seen from the queue, the service does nothing but the queue's steps |
| `ServiceInvariance` | the queue's `IInv` and `ServiceInv` hold in every state |
| `ServedWhatWasRendered` | who is served, from the cache too, gets a finished image of the key asked for |
| `EveryInterruptionIsRecycled` | while the page is as an interrupted render left it, somebody is on the way to recycle it |
| `RetriesAreClean` | a second attempt meets a clean page, and nobody has a third |
| `ServiceImplementsGallery` | the service refines `Gallery` (safety): what commands see is a shelf and one verdict per flight, and only an image that was delivered is on the shelf; a command may give up at any of its awaits |

The queue's invariant comes for free through the implementation. To it `ServiceInv` adds
that an outcome is written once (`OutcomeOnce`), that nobody is told before `add` returns
(`ToldAtTheEnd`) and that what a call does next fits what it was told, the cache or a recycle
(`ActsOnAnswers`).
`AloneAtWork` turns the one permit into "of two calls at most one is at its work", which
is what keeps a second attempt's page clean (`SecondIsClean`): with two permits it is
false.

The refinement of `Gallery` takes the queue's steps over from `StepImplements`
(`SameFlights`): a step inside the queue is Gallery's `Fly` or a stutter (`InsideShows`),
the command's timeout, in the queue or aside of it, is its `GiveUp`, and each step around the queue is one of its
other actions or, for attempts and recycles, a stutter (`AsideShows`). What it adds to
`ServedWhatWasRendered` is about steps: who is told "ok" gets the image of its own flight,
an error leaves nothing on the shelf, and nobody turns to the queue for what is there. No
run checks `ImplementsGallery`; TLC agreed with it on the instance of `image_commands`.

### The CDP client (`CdpClientProofs`)

From `CdpAssumption`: any requests, a positive channel size, any droppable requests.

| Theorem | What it says |
|---|---|
| `RepliesReachTheirSenders` | a reply reaches only the request it answers |
| `PendingMapIsExact` | who waits can be reached; who gave up has left the map |

Both hang on the ids: the counter equals the number of requests that drew one
(`IdsDistinct`), whatever travels carries its sender's id (`MessagesTrue`), and no request
has both its entry and its reply (`EntryOrReply`).

### The renderer (`BrowserLifecycleProofs`)

From `BrowserAssumption`: any disjoint sets of renders, warm-ups and recyclers, any number
of processes and crashes, any casts, any droppable renders.

| Theorem | What it says |
|---|---|
| `NoOrphanProcesses` | a live Chromium is in the slot or about to be put there |
| `CapturesAreOwn` | a screenshot shows the element of the render that takes it |
| `PanicsHaveCauses` | the mutex is poisoned only after another task's recycle |
| `HandlesAreLive` | at rest, without warm-up, crash and panic, no slot names a dead process |

`Placed` says which part of the code each kind of task is in, and that whoever attempts
has the render lock. `Confirmed` (the marker query found this render's document) makes a
capture one's own; `TakenOrRecycled` (a client that is gone when it is taken was recycled
by another) gives the cause of a panic. The stored handles need one more invariant
(`HandlesInv`): a dead client or page URL has a task that is on its way to clear it.
`FreePort`, which needs a least element of a set of numbers, is what `TypeOK` rests on.

### Menus and limits (`SessionsProofs`, `RateLimitsProofs`)

From `SessionAssumption` (any users, menus, clicks, positive lifetime and cooldown) and
`RateAssumption` (finite commands, positive limits and window, a delay shorter than the
window).

| Theorem | What it says |
|---|---|
| `OneLoadoutPerMenu` | two clicks on a loadout menu never render two images |
| `RefusedClicksKeepMenus` | a loadout menu stays until a choice is accepted or its time is over |
| `SessionsFollowPages` | a page that the message shows is the session's, except from an overlap or a lost PATCH to the next turn that is shown and met no other |
| `BurstsAreBounded` | less than twice the limit in any stretch that no three windows reach into |
| `EveryRefusalIsEarned` | a refused command meets as many granted ones as the limit |

What keeps a loadout menu from being used twice is in `Chosen`: while a click may still be
accepted, the image cooldown of the accepted one runs, since it was claimed before the
menu was removed. `Paged` says where the shown page is while a turn is under way, and that only
a stale menu has turns that met. For the
limits the model keeps in `opened` which window a place was granted in; a place lies at
most `Delay` before its window (`InWindow`), later windows begin at least `Window - Delay`
after earlier ones (`Apart`), and the store counts the places of the present one
(`Counted`, `Over`). The bound then is a matter of which windows a stretch can touch
(`WindowsApart`, `StretchFits`). The attempt to prove it with a stretch of
`Window - Delay`, which the run had found no exception to, showed that three windows can
fall into that when the delay is two units or more; the property and the bounds of the
run are those of the corrected form.

### Interactions and events (`CommandsProofs`)

For any interactions and users, and any events, channels and guilds; the proofs do not use
`GatewayAssumption`.

| Theorem | What it says |
|---|---|
| `EveryoneIsAnswered` | who is not cut off by Discord gets an answer |
| `AcknowledgedFirst` | one first response, before anything slow is asked |
| `EveryImageIsPaid` | an image costs exactly one cooldown, on every path |
| `StrangersAreTurnedAway` | other users' presses change nothing and are answered in private |
| `OwnPlayerOnly` | a saved player is changed by its owner's task only |
| `OneRegistration` | one registration, however many Readys |
| `ReportsAreTrue` | the report says what was left at Discord |
| `TheCacheFollows` | the voice cache is right for whoever's last event met no other, once the tasks ended |
| `NoGuildIsLeftBare` | no step takes a guild's last commands away |

Interactions share only the saved players, so the invariant of `Commands` is one formula
for each of them (`Responding`, `Paying`, `Obeying`: what follows from the place its
task is at), and a step of one leaves the others' alone (`Others`). In `Gateway`, `Claimed`
ties the flag to the one task that found it unset, `Replaced` ties a registration's
progress to the command sets, and `Follows` says that, of a user who is not adrift, an event not yet
handled tells where the user is, and that the cache does or such an event will.

### Mutexes, counters and requests (`HealthServerProofs`)

From `LocksAssumption`; for the counters from `HealthAssumption`: finitely many HTTP
requests, any latencies; for the requests to the backend from `ApiAssumption` and
`EndpointsAssumption`: finitely many of them, at most two at a time for each operation, a
mint's timeout within the margin, and lifetimes beyond it.

| Theorem | What it says |
|---|---|
| `LocksTypeCorrect` | a thread holds only guards that the rest of its path gives up |
| `OnlyThatCircle` | of any number of threads, only a snapshot and a deduplicated call wait for each other |
| `OnlyThatCircleInTheServer` | the same with the HTTP handlers beside them |
| `ReportsAreExact` | each number of a report is that of who recorded before it and of some who do meanwhile |
| `TokensAreFresh` | a token that is sent stays valid for the margin, less the mint's timeout |
| `NoMintIsWasted` | a mint never replaces a token that could still be served |
| `TokenWaitsBounded` | nobody waits longer than all mints may last in turn, also if each of them fails |
| `SomebodyIsNext` | of those who wait one is first, so none waits for another that waits for it |
| `FailuresAreRequired` | an operation fails exactly if it lost a request it needs; the slow pipeline runs on a miss only |
| `ApiTypeCorrect` | types; no more attempts than delays; the mutex is held to mint only |

*Mutexes.* How far a thread is on its path tells which guards it holds (`OnPath`,
`LocksInv`); that every circle of waiting threads is the one of `locks_health` then is a
case split over what two threads hold and want (`CirclesAreSnapshots`).

*Counters.* An atomic is at every moment that of the handlers which have come to it
(`Counted`, `CountsExact`): their number, the sum of their latencies, or the latency of one
after whose record none of them began. What a report has read of an atomic is that of all
handlers that recorded before the report began, and of some of the others that have begun
(`Between`, `ReadsExact`); it stays so while others record. The sum is defined as the size of a set,
so that a handler more adds its latency without an induction (`TotalAdds`).

*The token.* A mint holds the mutex, began when no cached token was usable and is in time
(`MintsAlone`); so the answer was issued after its start (`IssuedSince`), and a cached token
outlives its use (`CachedFresh`).

*The wait for it.* `WaitBounded` says nothing of who is ahead of whom and is not inductive.
`InTime` is: a waiter has waited for the mints of requests other than those still before it
(`Room`, over the complement of `Before`) and for the one under way (`Spent`). Whoever leaves
the mutex or the queue, in whatever way, makes room for one mint more (`RoomGrows`), and
for one that waits, time passes only while a mint is under way. A queue whose members wait for each other
would satisfy the bound by stopping the clock; `InLine`, the order of the queue, excludes
it (`SomebodyIsNext`).

*Operations.* Every plan of `Methods` and `Previews` is a sequence of steps that need all
they ask for, or supplement, but for `match_info` (`PlainPlans`, `MatchInfoGood`). Dropping
the steps that are not due (`Rest`) leaves such a plan, in which the request for the match
still comes after the one to the read model (`AfterBatch`, `RestAfterBatch`). So a running
operation has lost supplements only (`OpInv`), and reaches the step for the match only
when it lost the batch.

### Only model-checked

- Liveness (`EveryCallReturns`, `RendersEnd`, `WaitsEnd`, `OperationsEnd`): out of the
  prover's reach, like ENABLED.

Every other invariant and action property of the runs is stated by a theorem. The
properties of the two violated runs are findings.

## Findings

1. `queue_lost_waiter`: `render_queue.rs:212-213` says a deduplicated caller shares the
   producer's "bounded result". When the producer's future is dropped (the 22 s timeout
   of `commands.rs:2012`, a closed HTTP connection), nothing publishes the result, the
   key stays in the map, and this caller and every later one of the key wait for ever.
2. `locks_health`: `add` counts a deduplication under the guard of `in_flight_map`
   (`render_queue.rs:147-150`) while `snapshot` takes the same mutexes in the other order
   (`:232-233`), against the comment at `:99` that the queue does not block the runtime.

Read while modelling, without a run of their own:

- The gauge `active` is not decremented when a running work is dropped
  (`render_queue.rs:184-187`); `CountersExact` therefore allows for those.
- `connect_client` stores a client that `ensure_browser` reads again and unwraps
  (`match_renderer.rs:433`); a recycle in between panics under the guard and poisons the
  mutex for good: the `.lock().unwrap()` of every later render and recycle panics until the
  bot restarts, although `recycle` promises that "the next render lazily starts a clean
  browser" (`:350-352`).
- The warm-up runs outside `render_lock` and tears down on failure
  (`match_renderer.rs:410-413`, started in `main.rs:61-62`), also what a first render stored.
- A dropped request leaves its entry in `pending` (`cdp_client.rs:171-173`): `PendingExact`
  excludes dropped requests. Recycling the client discards them.
- A producer frees its permit before the caller recycles (`render_service.rs:248-251`), and a
  recycle does not ask who renders now (`:209-218`, `commands.rs:2019-2026`).
- A page turn may insert a session again that a prune removed (`commands.rs:620`, `:221`).
- A page turn stores its page before the PATCH that shows it (`commands.rs:620-632`); when
  that is rejected or fails, which is only logged (`:1936-1945`), the message keeps the old
  page and the next turn starts from one that nobody saw.
- `api.rs:462` speaks of "3 times" with 2 s; the code's array is at `:541`, and
  `:255-261` describes it rightly.
- `RENDER_TIMEOUT` of the commands is 22 s; a comment of `render_service.rs` says 12 s.
- `gap-analysis.md:60` places the image cooldown in `ImageService`; it is in `commands.rs`.
- The health server's `RenderCache` is read and never written.
- A match that cannot be fetched from a history menu loses the "Back to history" control
  (`commands.rs:561-567`; the test at `:2456` expects it on the fetched match).
- The tasks of two voice updates, or of one and a `GuildCreate` with its voice states, may
  run in the wrong order (`commands.rs:134`, `main.rs:158`): an old state then overwrites
  a newer one.
- A close or binary frame ends the CDP reader and leaves the connection open
  (`cdp_client.rs:93`): commands still go out, and each waits for its deadline.
- A work timeout is told by the text " exceeded " in an error (`render_queue.rs:40`), which
  that of a failed render may have too; it only recycles once more.
- `/preview` claims "the same API pipeline" (`health.rs:226-229`), but takes the player
  directly, a limit of 10 and no loadout refresh.
- Discord commands are not counted in `commands_processed`; the previews and the images
  of the HTTP server are.
- The average latency of `/health` is a total by a count that are read and written one by
  one (`health.rs:69-76`).
- A POST, PUT or DELETE that gets a 429 is not retried; only a GET is.
- A failed registration is not retried at the next Ready.

## Not modelled

- `autocomplete.rs`: a pure ranking of names (planned, see below).
- `template.rs`, embeds, the asset catalog, the scripts sent to the page, PNG checks: pure
  text and data, no state.
- Configuration and startup: read once, then immutable.
- The p95 of the queue's samples; the caching of `champion_id` (there is none).
- The legacy Node bot, scripts and packaging.

## Plan

Done, in this order: `RenderQueue` with `Coalescing` and its proofs, `QueueLocks`,
`CdpClient`, `BrowserLifecycle`, `ImageService`, `Sessions`, `RateLimits`, `ApiClient`,
`Commands`, `Gateway`, `Endpoints` (with `match_info`), `HealthServer`, `Gallery`.

Theorems state every invariant and action property of the runs. `ImageService` implements
`Gallery`.

Next: the ranking of `autocomplete.rs` as operators, checked against a definition of the
order it should give.
