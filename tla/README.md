# A TLA+ verification of helix-gateway

These modules model the parts of the gateway in which state is shared, saved or
sent: the circuit breaker, the configuration store and its file, the API keys,
the router, its hot reload and the matching of requests, the load balancers with
the health checker, the rate limiters in Redis, the Kubernetes operator, and the
gateway's process as a whole: what its handlers share (per-route limiter, tracker,
audit log, plugin registry), reloads, the plugin watcher and the shutdown. TLC
checks each on a small instance; TLAPS proves every safety property of the passing
runs for every value of the constants, from assumptions that are named below.

## The system

| Part | State it owns | Operations | Talks to |
|---|---|---|---|
| `plugin/builtin/circuitbreaker.go` | state, failure and probe counters, `openedAt`, under `cb.mu` | `allow`, `record` | every request of a route |
| `store` | maps of routes, upstreams, policies, keys; the JSON file | create, update, delete, toggle, `persist`, `load`, `notify` | admin API, router, health checker |
| `admin/keys.go`, API keys in the store | key objects, hash index | create, delete, toggle, validate | requests with a key |
| `router` | route table behind an atomic pointer | `reload`, `ServeHTTP` | store (listens), balancers, checker |
| `lb` | round-robin counter, connection counts | `Next`, `Done` | requests, checker |
| `health` | verdict per endpoint | probe rounds, `IsHealthy` | store, endpoints |
| `ratelimit` | one hash and one sorted set per client, in Redis | two Lua scripts, `check` | requests of all pods |
| `operator` | finalizers and identifiers in the custom resources (CRs) | three reconcilers | Kubernetes, admin API |
| `plugin/builtin/routelimit.go` | a limiter per client, under `mu` | `getLimiter`, `Allow`, sweeper | every request of a route |
| `metrics` | counters per route | `Track`, `Snapshot` | requests, admin API |
| `audit` | ring of entries | `Record`, `List` | admin API |
| `plugin/loader`, registry | map of factories, without a lock | `Load`, `Watch`, `Register`, `Build` | plugin directory, router's reload, admin API |
| `cmd/main.go` | the servers and one deadline | start, shutdown | all |
| `proxy` | connections | proxying | endpoints |
| other plugins, `auth`, `tls`, `telemetry`, `config` | none shared | per request, or once at start | |

What is hard here: requests of one route share a breaker and a balancer; every
store change starts a reload goroutine that races with the next; objects are
shared between maps after the lock is released; a mutation may fail, or the
process die, between memory and file; Redis scripts get clock readings of
different pods; the operator acts on a cached CR and records what it did in a
separate write; a plugin's file is seen before it is whole; and a shutdown meets
handlers at every point.

## Modules

Each component has a module with its actions and properties. An `MC` module gives
it an instance for TLC; `MCStore` and `MCRouter` have several components that share
no state side by side, and `part` chooses in the initial state which of them moves.
Operators just before a definition whose names vary it
(`CreateRouteUnchecked`, `MarkGivesUp`, ...) are the same definition with a
plausible mistake; `PROJECT.json` says which property each of them breaks.

* **CircuitBreaker.** A request is admitted (`allow`), runs without the lock, and
  records its result (`record`), so a result may arrive in a later state than the
  one that admitted it. `age` counts the time since `openedAt`, and the history
  variable `shut` the time since the breaker last opened, which a late result must
  not set back.
* **Store.** A mutation holds `s.mu` through three steps: change memory, write the
  temporary file, rename it. `phase` says how far it is; a write may fail, and the
  process may die, at each. **DurableConfig** is what the store promises: a
  configuration that a mutation replaces as a whole or not at all. `Store`
  implements it (`ImplementsDurableConfig`, a refinement mapping).
* **KeyStore.** Key objects are heap cells `obj` that the maps `apiKeys` and
  `hashIndex` point to, because the code changes an object both point to.
  `toggleKey` and `ValidateAPIKey` take two steps, as they release the lock.
* **Router.** Extends `Store` with the reload goroutines: each lists the upstreams,
  lists the routes, builds and publishes a table.
* **RouteMatch.** What a request does with the table: `ServeHTTP` loads the pointer
  once, and `match` tries the exact, prefix and regex entries, each list being a
  step, while `Reload` may publish other tables. A listing comes in any order, as
  `ListRoutes` ranges over a map; prefixes are sorted by length. `req` is the
  request under way; requests do not influence each other, so one is enough.
* **HealthChecker** and **LoadBalancer.** The checker probes one endpoint after the
  other; the probe and the record of its result are two steps. `LoadBalancer`
  extends it with requests that choose by round-robin, weighted choice, least-conn
  or traffic split, each health check and counter access being a step. With more
  than 100 endpoints all but the first have weight 0, and if only such endpoints are
  healthy the request leaves with 503 (`Leave`).
* **Clock**, **TokenBucket**, **SlidingWindow**, **RateLimiter.** `real` is the time
  at Redis, a reading may be up to `Skew` behind it. The scripts are atomic;
  `RateLimiter` runs them one after the other for several requests, and lets a call
  fail before or after its script has run. Tokens are counted in refill time, so
  the rate is 1. The sorted set is a table from request ids to scores; the eight
  random bytes of an id are taken to be unique (`reqID`).
* **Operator.** CRs in Kubernetes, the manager's cache of them (`behind` tells where
  it lags), one running reconcile per controller, and the gateway's objects. A
  write of a CR fails if the copy is not the last version. `setCondition` writes the
  status at the end of every reconcile, which makes a new version unless it says what
  it said before (`said`); a repeated failure may come with another message or with
  the same one. `lost` is a history
  variable: an admin call took effect and the write that was to record it did not.
  The upstream, route and policy reconcilers share their actions and differ in
  what `KindOf` says: routes resolve their upstream first, policies need nothing.
* **Handlers** declares the requests that the following modules share.
* **RouteLimit.** One client of `route-rate-limit`. `plugins` has, for each plugin
  that a reload has built, the client's entry in its map; `ask` is what a request
  holds after `getLimiter` has released the lock. A limiter is named by the request
  that made it. `since`, `passed` and `late` observe a stretch of time that may
  begin anywhere.
* **Tracker.** The counter of one route: `getOrCreate` looks under the read lock and
  again under the write lock, each `Add` and `Load` is a step, and a `Snapshot`
  keeps the read lock to its end.
* **AuditLog.** `createKey`, `deleteKey` and `toggleKey` from the call of the store to
  the answer. `Record` reads the clock before it takes the lock. `recorded` and
  `before` are history: all entries ever, and who had been answered when a request
  came.
* **Plugins.** One `.so` file that a user writes, in two steps, in several versions;
  fsnotify's events; `Load` from `plugin.Open` to `Register`. `plugin.Open` is
  external: it fails on a file that is not whole and returns what it has opened
  before under the same path. A write to the registry's map takes from one step to
  the next, and a read in between sees the old or the new map or ends the process.
* **Gateway** composes the last four with `reload()`, which builds a route's plugins,
  with the admin handlers that read, and with `main`. Requests by https or h2c
  (`Undrained`) are on connections that `srv.Shutdown` does not know. A request's
  answer may break off: `ReverseProxy` then panics, and `Track`, which is not
  deferred, is skipped. `mix` chooses which goroutines take part in a behaviour.

## Runs

| Run | Checks |
|---|---|
| `router` | once reloads end the table is the one the store asks for; the table catches up; a request is served by a best route of one configuration, the one published when it came; stripping keeps the rest of the path; a breaker trips only with enough failures, stays open for `Timeout` whatever late results come in, and is then tried again |
| `store` | names stay unique and references resolve in memory, file and rollback; the file can always be loaded; without a failed toggle memory and file agree between operations; `DurableConfig` is implemented; index entries lead to their own keys; keys with a known hash are accepted exactly while active; validation acts at one instant |
| `balancer` | connection counts are exact; weighted choice is proportional; an undisturbed request gets a healthy endpoint; least-conn prefers idle endpoints; failures and recoveries are noticed |
| `rate_limiter` | bucket and window admit no more than they promise, refuse only with cause, and the window caps what passes |
| `operator` | objects and CRs stay linked except where an unrecorded call breaks the link; a CR leaves only after its object; CRs that are not lost are carried over |
| `gateway` | every request is counted once although several race to create the counter; a snapshot is at least as new as its request; an answered change of a key is in the audit log, in an order that agrees with what clients saw; a route's limiter keeps its bound although it forgets idle clients; a plugin version that is installed, and is the first to be opened, is the one in the registry; a shutdown ends, and unless its time runs out cuts nobody off |
| `breaker_recloses` | *violated*: a breaker whose upstream has recovered closes again |
| `breaker_probes` | *violated*: a half-open period admits `ProbeCount` requests |
| `keys_registered` | *violated*: only registered keys are accepted |
| `rate_limiter_failopen` | *violated*: a request is refused only if both Redis calls succeed |
| `operator_gitops` | *violated*: once left alone the gateway follows the CRs |
| `gateway_hotreload` | *violated*: a plugin file that is modified replaces the one in the registry |

### What the violations show

* The breaker closes from half-open only if `failures == 0`, and nothing resets
  `failures` on the way from open: a breaker that tripped once never closes
  (README.md: "auto-open/half-open/close"). `NeverCloses` proves it of the code.
* The request that takes the breaker from open to half-open is admitted and not
  counted, so a half-open period admits `ProbeCount + 1` requests, where
  `circuitbreaker.go` has "Number of requests allowed in half-open state".
  `HalfOpenBound` proves that it is never more.
* `CreateAPIKey` blanks the hash in the object both maps point to. Deleting that
  key in the same process leaves its index entry, so the key is still accepted. The
  blank hash also reaches the file with the next save, and the key is gone after a
  restart.
* The operator records an identifier only after the object exists. If the answer
  or the status write is lost, every later reconcile creates again and is refused;
  a finalizer update lost after a deletion is followed by 404 for ever. It takes no
  outside interference: a route that is reconciled before its upstream has an
  identifier gets a failed condition, whose write outdates the cached copy; if the
  retry starts from that copy once the upstream is there, it creates the route, and
  its own status write then meets the conflict.
* `check` relies on the other limiter if one call fails, as its own comment says, and
  so refuses a request although one call has failed; the comment on `AllowIP` says
  "Returns false only when both Redis checks succeed and either rejects". `HardCap`
  is what the first comment promises.
* A modified plugin file is not loaded again: `plugin.Open` returns what the process
  has opened under that path, the old factory is registered once more, and the log
  says "hot-reloaded". `watcher.go` has "hot-reloads any .so file that is created or
  modified".

Also seen, without a run of its own: round-robin requests share one counter, so
`N` tries of a request need not be `N` endpoints, and it may fall back to an
unhealthy one although another is healthy (`HealthyIfUndisturbed` is what holds);
a toggle whose save fails keeps its change in
memory and does not notify the router (`unheard` in `Router`); routes with the same
prefix, and patterns, have no fixed order, so which of two matching ones serves may
change with every reload; a route without a path mode is filed with the prefixes
and matches nothing; the admin client toggles routes and policies with a
request without a body, which the handlers refuse; two concurrent `toggleKey` calls may cancel
into one; and `check` runs the window's script even if the bucket has refused, so
refused requests fill the window.

Seen in the gateway's process:

* A reload builds every plugin anew, so a store change gives each client of
  `route-rate-limit` a full bucket, and closes a breaker that would have stayed
  open. Sweepers of replaced plugins never stop.
* A plugin file that is there at the start is not loaded; a version without the right
  symbols blocks its successors; and nothing reloads the router afterwards, so routes that
  name the plugin go on without it until the store changes. The image is built
  without cgo, where `Load` always fails.
* The registry's map has no lock: an installation may end the process.
* A snapshot may show an error rate above 100%, from requests counted between its
  two loads. A request whose answer breaks off is not counted.
* The https and challenge servers are not shut down, and h2c connections are not
  waited for; the exit cuts their requests off. A metrics stream can hold the
  shutdown up for the rest of the 30 seconds, but its writes fail once the
  server's `WriteTimeout` of 10 seconds has passed.

### Bounds

Every bound is a constant. The parts of a run that has several are bounded each by
itself. Breaker: three requests, `MaxTotal` and `MaxFailures`
large enough to trip with `MinSamples` results. Store: two routes, two upstreams,
one policy and two names, so that names clash and references can dangle. Router:
one route, two upstreams, and two reload goroutines, so that one can overtake.
Matching: seven configurations of six routes with every mode, equal prefixes and
each kind of condition, and requests that meet and miss each of them. Keys: three identifiers, enough to delete
one and reuse its name. Balancer: two endpoints, two requests; with two
endpoints one request already sees one endpoint twice. Rate limiter: `MaxTime` 4
is the lifetime of both keys, so that they expire and are made anew; two
requests interleave their calls. Operator: an upstream with one specification, and
a route that refers to it and a policy with two each; identifiers nothing refers to are reused, so its
behaviours are not bounded in length. Gateway: eight mixes of goroutines that share
state, each with two or three requests: two race for a counter while a reader reads
it; a third finds a limiter that the sweeper has forgotten (`MaxTime` 3 leaves room
to fill, forget and fill again); a log of two entries and three changes, so that one
is evicted; three versions of a plugin of which the second is broken; shutdowns that
meet requests, changes, streams and installations. Symmetry is used only in runs without
liveness. Deadlock is checked except where behaviours end: a process that has exited,
and a breaker that has admitted all that `MaxTotal` allows.

### Fairness

Breaker: requests keep coming, those in flight finish, and time passes; an open
breaker that nobody asks stays open. Router: a running store operation ends, and
a reload goroutine that can go on does. Health checker: its
goroutine never stops and a probe ends within five seconds. Operator: a running
reconcile goes on, the watch delivers, and the queue serves every CR in it
(strong fairness of `Start`, because the controller is busy in between); the watch
is fair to each CR, as every change of one is delivered in the end. Gateway: the watcher's goroutine and
`main` are scheduled, and the 30 seconds of the shutdown pass; handlers, clients and
upstreams may stall for ever. Users,
failures and restarts are never fair; `Converges` is about behaviours in which
they cease. Requests that a balancer serves are not required to come.

## Proofs

All from the named assumptions on the constants, by an inductive invariant.

* **RequestProofs**, what is decided for a request. The three parts share no state.
  * The route: `MatchTypeCorrect`, `RightlyServed`, `PathKept`. The invariant adds
    which entries a request has passed: among the prefixes no exact route matches it,
    among the patterns neither an exact nor a prefix route does. That the first match
    of a sorted list is a longest one is a lemma of its own. `AnswersAgree` says how
    far the order of a listing can matter.
  * The breaker: `BreakerTypes`, `TripEvidence`, `OpenForTimeout`, `HalfOpenBound`,
    `NeverCloses`. The invariant ties the counters to the state: a breaker that
    is not closed has failures, admissions and probes of a half-open period add
    up, and while the breaker is open `openedAt` is the time it opened.
  * The token bucket: `BucketTypeCorrect`, `BucketBounded`, `RefusalExplained`.
    `Level`, tokens less the time of the last refill, is not changed by refilling,
    lowered by the cap, and lowered by `Cost` with each admission; so what is spent is
    bounded by how far `Level` can fall. Expiry needs `Capacity + Skew <= TTL`: a
    bucket whose hash expires would have been full. `RateLimiter` takes only steps of
    `BucketNext` on the bucket's variables, so its checks keep the bounds
    (`ChecksKeepTheBucket`).
  * The window: `LimiterTypes`, `WindowBounded`, `WindowRefusalExplained`,
    `WindowIsHardCap`, for every window, limit, skew and lifetime. `WindowInv`
    relates the sorted set to the history of admissions both ways: what was admitted
    within the window less the skew is still a member, with a score at most `Skew`
    behind, and a member young enough to be counted was admitted. Hence a script that
    finds room has room for one more admission, and one that finds none has the
    admissions to show for it. That holds although the set expires as a whole,
    because it outlives its newest member's stay in the window.
* **StoreProofs**, what is kept in the store.
  * The keys: `KeyTypeCorrect`, `SoundIndex`, `KnownKeys`, `AtomicValidation`. The
    invariant says that an indexed key that this process did not create still has its
    hash, so that a deletion finds the index entry, and that what a validation holds
    is indexed as long as it is stored.
  * The configuration: type, consistency, a loadable file, memory equal to file when
    nothing failed, and the step simulation of `DurableConfig`; the invariant says for
    every phase how memory, temporary file, file and `undo` relate.
  * On top of it the router: type, exclusion of reloads and convergence. Whoever is
    past the listing holds `reloadMu`, and a change not yet in the table has a
    goroutine that will still list it.
* **BalancerProofs.** `BalancerTypes`, `CountsAreExact`, `SharesAreProportional`,
  `UndisturbedChoicesAreHealthy`, `IdleEndpointsFirst`, for any number of endpoints
  and requests and any configured weights. `LBInv` adds to the exact counts what each
  request knows of the endpoints it has looked at while nothing disturbs it: for
  round-robin that the endpoints the counter has gone past are unhealthy,
  for the weighted choices that the healthy ones are collected, for least-conn that it
  has a healthy one unless it met none and has preferred an idle one, and that the
  mutex is its own. Cumulative
  weights are sums over the endpoints; what is needed of them (that they are defined,
  and never fall) is shown by the least number for which it would fail (`LeastNat`).
  The numbers that lead to an endpoint are then an interval as long as its weight
  (`PickShare`).
* **OperatorProofs**, **OperatorTheorems.** `LinkIsKept`, `RemovalIsClean` and
  `OperatorTypes`, for any number of CRs and identifiers. The link between a CR and
  its object passes through states in which only a running reconcile knows of it, so
  the invariant adds what a reconcile knows of its CR while its copy is the last
  version, what the admin call it has just made left in the gateway, and that no two
  CRs refer to one identifier, stale copies included. Every step but a restart
  concerns one CR; a lemma shows once that such a step disturbs no other.
  OperatorProofs has the preservation by each action, OperatorTheorems the rest.
* **RecordProofs**, **PluginProofs**, **GatewayProofs.** RecordProofs has the
  invariants of the tracker and of the audit log with their preservation,
  PluginProofs those of the per-route limiter and the types of the plugins;
  GatewayProofs shows that the gateway takes only steps of each component on the
  component's variables, and proves what concerns the process as a whole.
  * `RouteBounded`: what a plugin has let pass and what is left in
    the client's bucket are together bounded by burst and elapsed time (`Accounted`);
    at the time of `lastSeen` the passes alone are, so that when the sweeper forgets
    the client the passes leave room for a full bucket. That needs
    `Burst <= Rate * SweepAge`, which the defaults (100 per second, 200, ten minutes)
    meet by far and a rate of 0 does not. Only passes of requests that were held up
    between `getLimiter` and `Allow` escape this and are counted in `late`.
  * `TrackCountsExactly`, `SnapshotsSound`: whoever adds to a counter adds to the one
    in the map, and what a reader has loaded plus what it has missed is what is
    counted now.
  * `AnsweredAudited`, `LogOrdered`: the log is the end of the record, and if a
    request was answered before another came, it has the earlier place and time; the
    times suppose a wall clock that does not go back.
  * `ExitIsClean`: `DrainInv` says that a request has nothing open in the tracker before
    it gets there or once its connection is closed, that once the plain server is shut down in time none of its
    requests is under way, and the same of the admin server a phase later; none of
    this is undone, because a server that is being shut down accepts nobody.
  * `GatewayTypes`: the type of the composition. It needs the invariants of tracker
    and log, whose steps keep their types only together with them.

Model-checked only is liveness, which these provers do not reach: `OpenIsRetried`,
`EventuallyCurrent`, `Detects`, `Readmits`, `Converges`, `InstalledIsRegistered` and
`Exits`. So are the six violations, which are counterexamples.

## Not modelled

`PROJECT.json` lists every part with the reason.

* The WebSocket tunnel cannot be reached: it needs an `http.Hijacker`, and the
  `responseRecorder` wrappers around every handler hide the one there is, so an
  upgrade is answered with 500 (README.md: "TCP hijack-based bidirectional proxy").
* Proxying, TLS, JWT, telemetry and the string handling of the other plugins are
  input and output or concern one request by itself.
* The latencies of the tracker: a ring like the audit log's, and a percentile.
* The export handler, which reads the store's maps without their lock.
* A power loss (no `fsync` in `persist`) would need a model of the file system's
  caches. The breaker's `Window` is not used by the code.
* Overwriting a `.so` file that the process has mapped may disturb its code; the
  model's process goes on with the version it has opened.
