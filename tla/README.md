# A TLA+ model of weldr

weldr is an HTTP reverse proxy. One *manager* process keeps the pool of backend
servers, listens for API requests and runs health checks; five *worker*
processes proxy the traffic, each from its own copy of the pool, which the
manager keeps up to date over a Cap'n Proto connection. There are no threads:
every process is one tokio reactor, so a callback runs to its end before the
next one starts. What is hard is what happens *between* callbacks, and between
processes.

## The system and its parts

| Part | Source | State | Operations | What makes it correct |
|---|---|---|---|---|
| Pool | `pool.rs`, `stats.rs`, `server.rs` | a `Vec` of shared mutable backends, a cursor | `request` (choose, then count the answer), `add`, `remove`, `find`, `mark_*` | choosing ends, misses no active backend, rotates fairly, skips what is down; every answer is counted once |
| Worker handlers | `mgmt/worker.rs` | the worker's pool, the subscription it holds | `subscribe`, `add_server`, `mark_server_down`, `mark_server_active` | updates are applied in the order they were published |
| Publisher | `mgmt/manager.rs` | map of subscribers with a count of unanswered calls, next id | `subscribe`, three `publish_*`, their callbacks, drop of a subscription | the count is exact and bounded, dead workers are forgotten, live ones are not |
| Health checker | `mgmt/health.rs` | map from backend to a count of consecutive answers | `run` at every tick, `should_mark_active`, `should_mark_down` | a state changes after exactly the configured number of consecutive answers |
| Event loop | `mgmt/mod.rs` | one stream of connections and ticks | dispatch of API connections and of the timer | neither source starves the other |
| Management API | `mgmt/api.rs` | none of its own | `GET`, `POST`, `DELETE` | what it lists the workers were told of |
| Proxy | `proxy.rs` | client connections, requests on their way | accept, `call` with its header maps, response, failure | what `Connection` names stays on its hop, what is end-to-end passes, the trace in `Via` is kept |
| Start-up | `weldr.rs`, `manager.rs` | processes and the addresses they hold | listen, fork, exec, subscribe, serve | a worker follows the manager that started it |

They interact through calls inside a process (API and health checker on the
manager's pool and on the publisher; proxy and handlers on the worker's pool)
and through one ordered connection per worker between the processes.

The behaviours that are hard to test: marks and additions between the choice of
a backend and its answer; the exit condition of the choosing loop; a backend
that is no longer equal to itself as a map key; publications racing
subscriptions, answers and deaths of workers; the limit on unanswered calls;
health checks that overlap, arrive late or never; two copies of a pool that
apply the same updates to different histories; a flood of API clients next to
the health timer; processes that end, or are started twice, at any point of the
start-up. `PROJECT.json` lists each at
its line.

## The modules

* `PoolOps` is the data structure of `pool.rs` as operators on a record: the
  cells (what the `Rc<RefCell<..>>` handles share), the `Vec` of handles, the
  cursor. A handle is the index of its cell, so identity and (structural)
  equality of backends stay apart, as in the code.
* `Pool` is the pool of one worker. `SendRequest`, `GetStep` and `Respond` are
  `Pool::request`: the loop of `get` is one action per iteration, guarded so
  that nothing else runs meanwhile (the `RefCell` is borrowed), and the answer
  comes any time later. `AddServer`, `MarkServerDown` and `MarkServerActive` are
  the handlers of `worker.rs`. `RemoveServer` is the exported `Pool::remove`,
  which weldr does not call: `Spec` is the worker as weldr runs it, `LibSpec`
  adds `RemoveServer`. `turn` and `ordered_down` are history variables. A client
  that goes away drops its request without an outcome; that is a request that
  stays `sent`.
* `RoundRobin` is what a round-robin pool promises, with no loop: a request
  gets, in one step, the nearest active backend after the last one used.
  Backends are added at the end and change state; none leaves its place, so the
  cursor is the backend used last. That is weldr's pool; it says nothing of
  `remove`.
* `PubSub` is the publisher, the subscription and the connection. The three
  `publish_*` functions are one action, `Publish`, because they differ in the
  method they call only; an update is its number. `Return` and `PromiseError`
  are the two arms of the callback of a publication, `DropSubscription` the
  `Drop` of `SubscriptionImpl`. `Die` (the end of a worker process) and
  `Disconnect` (the end of the RPC system that notices it) are external.
* `Broadcast` is what publication promises: updates are taken in order, none
  twice, none invented. It does not promise that all are taken.
* `BackendHealth` is the manager's pool with `add_server`, the timer and the
  health checks. `Tick` is the start of `health::run`, `CheckBackend` one
  iteration of its loop; nothing else runs in the manager until it is through
  (`Idle`). `CheckPasses` and `CheckFails` are the callback of a check, which
  comes any time later. The map `health_state` is keyed by a backend *and its
  state when the entry was inserted*: that is what a hash map does with a key
  that changes (the entry stays in its bucket, equality looks at the present
  content). A backend thus finds the entry of its present state, possibly that
  of another backend of the same server, and several matches are a
  nondeterministic choice.
* `HealthThreshold` is what health checking promises: a status flips at the
  configured number of consecutive contradicting checks.
* `Weldr` composes `BackendHealth`, `PubSub` and one pool per worker. Its
  actions conjoin theirs: a callback of the manager changes the pool and
  publishes (`Announce`), a handler of a worker answers and applies the update
  to its pool (`ApplyUpdate`). `updates` gives content to PubSub's numbers.
  `Serve` is a whole request of a client (the choice that `Pool` shows `get` to
  implement, and its count), because the counters it leaves decide what a
  worker's `add` does.
* `Startup` is `main` in both roles, for several runs of the binary: a restart,
  or a second one by mistake. `mgr`, `forks` and `accepting` follow a manager
  through listen, `start_workers` and `mgmt::run`; `proc`, `link` and `peer`
  follow each child through exec, its one attempt to subscribe, and serving.
  Fork, exec, bind, accept and set-up of the listener may fail, processes may
  end. 127.0.0.1:4000 and the admin address admit one socket, and a child holds
  the first until its exec; the workers' address admits any number.
* `Mgmt` is the loop of `mgmt::run` and the router of the API. `for_each` takes
  connections and ticks from one `Select` until neither is ready, and the tasks
  of the connections run only then. `flag` is the alternation inside `Select`
  (external, futures 0.1): what was taken yields the next turn to the other
  source, a poll that finds nothing flips it. A POST is two steps, head and
  body. Connections are reused without end, so a flood never has to stop. The
  marks of health checks are free here.
* `Proxy` is the life of client connections in a worker and the header maps. A
  message is its set of fields with the names in `Connection`, the lines of
  `Via` and their entries, the host in `Host` and in the uri. `from` and `to` are
  the message mapped last, before and after. The pool is any server or none. A
  timeout of the connector is one way for a request to fail (`BackendFails`).
* `PoolOpsProofs` holds lemmas about the operations on a pool; `PoolProofs`,
  `PubSubProofs`, `BackendHealthProofs`, `StartupProofs`, `MgmtProofs`,
  `ProxyProofs` and `WeldrProofs` hold the theorems about the modules they are
  named after.
* `MCPool`, `MCPubSub`, `MCBackendHealth`, `MCWeldr`, `MCStartup`, `MCMgmt` and
  `MCProxy` are the modules TLC runs.

Definitions named `Fault...` are seeded faults: plausible mistakes in the
operation defined right after them. Replacing the operation by its fault must
break a property; `PROJECT.json` says which.

## What the runs check

| Run | Question | Result |
|---|---|---|
| `pool` | a worker's pool, three requests against two servers and up to three backends (so a server can be in the pool twice), all interleavings | holds |
| `pubsub` | two workers, limit 2, three updates, safety and liveness | holds |
| `health` | additions, ticks, up to three overlapping checks per backend, the default thresholds 3 and 2, safety and liveness | holds |
| `weldr` | the manager and a worker: two servers (one cannot be checked), four updates, limit 2, subscription at any time, traffic, death | holds |
| `startup` | two managers with two workers each, every failure | holds |
| `mgmt` | the loop and the API with three connections, three backends | holds |
| `proxy` | two connections, three servers (with and without `map_host`, one with a url that panics), every header field and every name in `Connection`, `Via` on one line or two | holds |
| `weldr_down_served` | a worker that missed nothing holds down what the manager holds down | violated |
| `pool_spin` | `get` returns, with `remove` | violated |
| `pubsub_skip` | a live, registered worker is sent every update (the code's limit, 5) | violated |
| `health_hung` | a server whose checks never pass does not stay active | violated |
| `proxy_hop` | no hop-by-hop field passes the proxy, in the responses to plain requests | violated |

What holds, in words:

* The loop of `get` ends after at most one turn, refuses a request only when
  every backend is down, and implements `RoundRobin`; between two changes of the
  pool no backend is used twice before every active one was used once; each
  answer is counted once on the backend that gave it; with one backend per
  server, a server ordered down gets no request.
* `requests_in_flight` equals the number of unanswered calls and stays within
  the limit; a live subscriber stays registered and gets, in order, every update
  since its subscription that the limit did not make the manager skip; a dead
  worker is forgotten for good whichever of its two removals comes first, and a
  subscriber at the limit leaves it.
* With one backend per server and thresholds of at least two, the map with
  mutable keys counts consecutive answers as `HealthThreshold` says; a server
  that stops passing ends up down in all its backends, and conversely.
* All the manager's pool says was announced (`ManagerIsLog`), all a worker's
  pool says follows from the messages it handled (`WorkerIsLog`), whatever its
  traffic did to the counters. A worker that was subscribed before the first
  update and was never at the limit has, once it has read its connection, the
  manager's servers in the same states and the same order of rotation
  (`Agreement`), as long as neither pool holds a server twice; and that needs a
  server to be added twice (`DuplicateNeedsReAdd`).
* Because `main` listens before it forks, a worker of a manager that has not
  failed is never refused or fed by another one, however early it connects
  (`FollowsOwnManager`). Because the admin address is bound exclusively before
  the reactor runs, no two workers are ever fed by different managers, although
  workers outlive their manager and may subscribe to the next one (`OneVoice`).
* `Select` lets at most one connection pass a health timer that is due, so no
  flood of clients stops the health checks; the API lists exactly what was
  published and every listing extends the ones before it.
* Of a request neither `Connection` nor a field of the client that it names
  passes the proxy (`ConnectionStops`), and nothing end-to-end is lost in either
  direction (`EndToEndPasses`). Because `Via` is read before the filter and set
  after it, a `Connection` that names `Via` does not cut the trace, and a server
  with `map_host` reads its own name even when `Connection` names `Host`
  (`TracedAndAddressed`).

What does not hold is recorded under `findings`, with the line that says
otherwise: the duplicate that `InnerPool::add` admits and its consequence for
servers that are down, the loop that never ends after `remove`, updates that are
skipped at the limit, the server that never answers its checks, and the
hop-by-hop fields that the filters let through. For the last, the run shows a
response; its filter does not look at `Connection` at all. The request filter
also lets a `Keep-Alive` pass that `Connection` does not name.

Limits of the code that the properties state as their conditions or exceptions:

* A worker that subscribes after an update was published never hears of it:
  `subscribe` sends nothing of the pool as it is. `FeedComplete` counts from
  the subscription (`since`), `Agreement` asks for `Fed`.
* A subscription that is lost is not renewed: the worker serves on from the pool
  it has. With `FollowsOwnManager`, this happens only when the manager failed
  (or its accept loop, which one failed `accept` ends silently).
* The first answer that contradicts a state stores `Failing(1)` or `Passing(1)`
  without testing it, so a threshold of one, of failures or of passes, acts as
  two. `CountsConsecutive` is about thresholds of two and more, such as the
  defaults.
* `Via` is declared as a header of one string, which hyper parses from a single
  line. Of a request with `Via` on several lines `get::<Via>()` is `None`, and
  `set` then replaces all of them: the trace starts anew at this hop, although
  the comment of `create_via_header` speaks of "a new header based off the
  upstream value". `TracedAndAddressed` is about one line, or none; the model
  has both.
* For a server without `map_host`, a `Host` that `Connection` names is removed
  like any other field. weldr itself only adds servers with `map_host`.
* The timeouts of the proxy bound one connect, read or write each. A backend
  that keeps sending a byte in time holds its request for ever, so `Proxy`
  promises no end of a request.
* After `remove`, `last_used` stays the same index of a shorter `Vec`. Apart
  from the endless loop of `pool_spin`, this shifts the rotation: with [A, B, C]
  and B used last, removing A makes B the next one again, and C is passed over.
  weldr never removes a server; `RoundRobin` and the theorems are about the pool
  without `remove`.
* The API advertises a delete link, and the top-level README a `DELETE` route,
  for each server; both get 404. No route takes a server out of the pool, which
  is why listings only grow.
* While `for_each` keeps finding connections ready, no task of an accepted
  connection runs: an endless flood starves API requests, though not the timer.
  `Mgmt` promises nothing about them.
* `--ip` and `--admin-ip` have no effect: `main` reads `value_of("worker")` for
  both, so the addresses are always the defaults, as `Startup` has them. The
  health interval is 10 s in `config.rs` and 30 s in the top-level README; the
  model does not depend on it.

### Bounds

Two servers and three backends are the smallest instance with a duplicate and a
second server to rotate to; three requests suffice for a full turn and one more
choice. Three updates with a limit of two make a skip and its recovery happen;
the limit itself is 5 in `pubsub_skip`. The counters of health entries reach
their thresholds (3 and 2) several times over; `MaxChecks` only bounds how many
outstanding checks of one backend are told apart: a tick beyond it adds none.

`weldr` needs an addition, a mark, its reversal and one more: four updates, two
servers so that the order of the listing matters, a limit of 2 so that skips
happen, thresholds of 2 so that both flips fit. One worker is enough there:
workers share nothing but the manager, and how the manager treats several at a
time is `pubsub`'s question. `MaxCounted` is 1 because `add` only tells a
counter of zero from another. In `startup`, two managers are a restart, a
collision and an adoption; two workers are the smallest number with a fork that
fails half-way and with two feeds to compare. In `mgmt`, three connections let
two arrive while one is taken, and since they are reused the flood is
unbounded; `Many` saturates the history counter above what the property admits.
In `proxy`, messages have at most one field beside `Connection` and up to two
names in it: the maps treat fields one by one. `proxy_hop` has requests that the
filter leaves alone, so that its trace ends in a response.

`CHECK_DEADLOCK FALSE` is set where the bounds let the model stop (every request
sent, every worker dead, every update published) or the processes have ended.

### Fairness

`Pool`: a running loop is the running thread. `PubSub`: a reactor polls what is
ready, and the kernel reports the end of a process on its connections;
publications and deaths are never forced. `BackendHealth`: the timer keeps
firing, the loop of a run ends, and a check is answered or fails, except by
servers in `Hung`, because nothing in the code bounds their answer; strong
fairness for the answers, because a run of the timer disables them for its
duration and the reactor comes to them between two runs. `Weldr`: a worker
reads its connection; nothing is assumed of the manager. `Startup`: a process
that runs comes to its next step, which may be a failure; starting a manager
and the end of a process are free. `Mgmt`: the thread runs on; clients and the
clock are free. `Proxy`: none; no property of it needs any.

## What is proved

Every safety property of the passing runs, invariant, action property or
refinement, is also a theorem, checked by TLAPS for all sets of servers,
workers, requests and managers, all limits and thresholds and all bounds.

| Module | Theorems | State |
|---|---|---|
| `PoolProofs` | `PoolInvariance`, `CursorSafe`, `GetMakesProgress`, `ExhaustedMeansDown`, `DownServersRest`, `StatsCounted`, `RotationFair`, `RoundRobinImplemented` | `PoolInv`, `CursorInRange`, `GetProgress`, `ExhaustedOnlyWhenAllDown`, `DownNotServed`, `StatsExact`, `FairRotation`, `ImplementsRoundRobin` |
| `PubSubProofs` | `PubSubInvariance`, `InFlightCounts`, `SlotsAccounted`, `FeedsComplete`, `BroadcastImplemented` | `PubSubInv`, `InFlightExact`, `AllAccounted`, `FeedComplete`, `ImplementsBroadcast` |
| `BackendHealthProofs` | `HealthInvariance`, `NoneAtThreshold`, `CountingIsExact` | `HealthInv`, `BelowThreshold`, `CountsConsecutive` |
| `WeldrProofs` | `ManagerFollowsLog`, `WorkersFollowLog`, `ReAddOnly`, `PoolsAgree`, `ComponentsImplemented`, `WeldrInvariance` | `ManagerIsLog`, `WorkerIsLog`, `DuplicateNeedsReAdd`, `Agreement`, that `Weldr` implements its components, `WeldrInv` |
| `StartupProofs` | `StartupInvariance`, `WorkersFollowTheirManager`, `WorkersHearOneVoice` | `StartupInv`, `FollowsOwnManager`, `OneVoice` |
| `MgmtProofs` | `MgmtInvariance`, `TicksOvertakenOnce`, `AnswersAreAnnounced`, `AnswersExtend` | `MgmtInv`, `AtMostOneOvertakes`, `ListedIsAnnounced`, `ListingsExtend` |
| `ProxyProofs` | `RequestConnectionStops`, `EndToEndKept`, `RequestsTraced` | `ConnectionStops`, `EndToEndPasses`, `TracedAndAddressed` |

The assumptions are those of the modules: bounds and thresholds are natural
numbers (`PoolAssumption`, `HealthAssumption`, `MgmtAssumption`,
`WeldrAssumption`), the limit of calls in flight and the number of workers to
start are not zero (`PubSubAssumption`, `StartupAssumption`), the sets of
servers with a property are sets of servers, and the messages of `Proxy` are
messages, in which names are listed only by a `Connection` field and `Via` has
lines if it is there (`ProxyAssumption`). `CountingIsExact` also assumes both thresholds to be at
least two.

### The arguments

`Pool`. `CursorInRange` is not inductive by itself. That `get` sees every
backend needs `VisitedDown`: what the loop passed since `start` is down, the
passed indices being an interval of the ring, so that one more down backend at
`start` closes it. That the loop is alone needs `OneBorrower`; that a count
lands on a backend needs `SentHasTarget`; that a mark takes the only backend of
its server down needs `OrderedAreDown`, stated under "one backend per server"
because it is false otherwise. `StatsExact` is inductive once the requests with
an outcome are finitely many (`StatsInv`). `FairRotation` needs `TurnIsArc`: the
backends chosen since the pool last changed are the active ones of one arc of
the ring that ends at the last choice, so a repeated choice has closed the ring.
For `RoundRobin` the iterations of the loop stutter, the cursor of the abstract
pool staying at the last choice, the choice is the nearest active backend by
`VisitedDown`, and every other step keeps the backends in their places.

`PubSub`. `InFlightExact` rests on `TicketsUnique` (an id is handed out once, so
a removal hits nobody else), `AllAccounted` and `FeedComplete` on what may be on
the two queues of a connection in each state of the worker (`Staged`,
`Unattached`, `AnswersOwed`, `FeedOrdered`). `Broadcast` follows because what is
on its way is ordered and newer than what was taken.

`BackendHealth`. An entry is found by the present content of a key that
mutates. `LeftBehindReset` makes that harmless: an entry that a change of state
left behind counts nothing, so the backend that comes back to it starts anew;
`Grown` gives every cell its place in the `Vec`. The inductive invariant is
`HealthInv` with `BelowThreshold`. With one backend per server a
lookup has one possible result and every callback is a step of
`HealthThreshold`, or none.

`Weldr`. `ManagerStep` and `PubSubStep` show that each step of the composition
is a step of each component or leaves it alone; so their invariants hold of it
and are not proved again. The invariant `LogInv` then says of each pool without
duplicates that its servers, their states and their order are those its log
says: `updates` for the manager, the messages it handled for a worker
(`Logged` shows that an addition, a mark and an ignored mark keep this, and that
a duplicate comes from a repeated addition only; `ServeKeeps` that a request
does). For `PoolsAgree`, a worker that missed nothing has handled 1, 2, ...,
`published`, in increasing order, so its messages *are* the log, and two pools
described by one log list the same. The steps that would be an induction on a
sequence (`AppliedIsAll`, `OneOrder`) take the least counterexample instead.

`Startup`. At most one manager holds the workers' listener for accepting
(`OneListener`) and at most one serves (`OneServing`); a link leads to a manager
that has not ended (`LinkHasPeer`); children are forked after the listener is
there and have no link before exec (`ForksInOrder`, `ChildUnlinked`).

`Mgmt`. A connection that overtakes a due timer leaves `flag` with the timer
(`OvertakerYields`); the answer given last is still current (`AnswerCurrent`).

`Proxy`. The properties are about the message mapped last and are inductive with
the types; the content is in the lemmas on the two header filters.

### What the attempts showed

The hypothesis on the thresholds of `CountsConsecutive` is needed on both sides,
for passes as for failures. `RoundRobin` first left the ring free to change under
the cursor; `remove` then refined it although it moves the backend used last, so
the abstract pool now says that backends keep their places. The entries of `Via`
are a fixed set in `Proxy`, and the ring of `RoundRobin` holds states instead of
truth values, because the provers reason better about them.

### Only model-checked

Liveness under fairness is outside the prover's reach: `GetReturns`,
`DeadForgotten`, `Drains`, `Delivered`, `FailingEndsDown`, `PassingEndsActive`,
`DownArrives`, `EveryWorkerSettles`, `TickComes`. Of `GetReturns` the safety
half is `GetMakesProgress`. The theorems about `Pool` are about `Spec`; what
`LibSpec` adds, `remove`, is only run for `pool_spin`. The five runs with a
violation state what does not hold.

The inductive invariants are checked by TLC as well: `PoolInv`, `PubSubInv` and
`HealthInv` with `BelowThreshold` in the runs, the parts of the others through
the properties they imply.

## Not modelled

The wire formats (HTTP, JSON, Cap'n Proto), the text of urls (the proxy appends
`?` to a path without a query, and a server url with a path keeps its slash),
logging, and the overflow of the 64-bit counters. The bodies of HTTP messages
are streamed by hyper and not looked at. Command-line parsing is left out, the
addresses being the defaults whatever it says. The test server, benches and
build script are not part of the system.

## Plan

Every part of the system is modelled, and every safety property of the passing
runs is proved for the system as weldr runs it. What is left:

1. `LibSpec`: which of the theorems about `Pool` survive `remove`. The exactness
   of the counters should; it would need a characterisation of `PoolRemove` that
   does not go through the filter of a sequence.
2. Consequences of `ComponentsImplemented` for the whole system, such as
   `FeedsComplete` and `CountingIsExact` stated of `Weldr`.
3. `Weldr` with duplicates: what a pool that holds a server twice still
   guarantees.
