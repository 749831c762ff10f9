# A verification project for the elake API gateway

TLA+ modules, TLC configurations and TLAPS proofs about the gateway in `src/`:
a Go reverse proxy that authenticates, limits and routes HTTP requests, and
balances them over the nodes of a service.  Everything below refers to the code
of `src/`; paths without a prefix are under `src/internal/`.

## 1. The system

A request is a goroutine of `net/http` that passes one chain of middlewares
(`cmd/server/routes.go`):

    Recovery -> TraceID -> HealthCheck -> ConcurrencyLimit -> GetRealIP
      -> GetUserAgent -> GlobalBlacklist -> SecurityFilter -> Router
      -> LoadBalancer -> RateLimit -> RequestLogging -> gateway.Handler
           (per route: HeaderParser, TimeWindow, UniqueNonce, Authenticator,
            Authorizer, IPLimit, CountryLimit, DomainLimit) -> gateway.Proxy

Several gateways share one MariaDB and one Redis; they learn of changes through
one Redis channel.

| component | state it keeps | operations | talks to | hard behaviours |
|---|---|---|---|---|
| concurrency limiter (`service/concurrencyLimiter`, `middleware/concurrencyLimit.go`) | current and maximum concurrency, under a mutex | Acquire, Release (deferred), a periodic recalculation | every request | limit shrinking below the load, release on a panic, a control loop |
| runtime node table (`service/loadBalancer`) | per service a slice of node objects: active requests, weight, cooldown, breaker, availability | getRuntimeNodes, SelectNode, Release, Mark{Failure,Success,MaxConn} | LoadBalancer middleware, Proxy, flusher | the slice leaves the lock and may be replaced; requests hold different versions of the service |
| failover proxy (`gateway/proxy.go`) | one request's locals | snapshot, attempts, retry loop | node table, upstreams | timeouts, partial responses, panics, leaks, clients that stop |
| availability write-behind (`service/loadBalancer/availability.go`) | a map of pending updates | queue, flush once a second | node table, database | the write is outside the lock and may fail, or land late |
| route chain (`gateway/handler.go`) | middlewares per route and flags | build, cached lookup | authentication, limits | a cache without removal |
| two-level caches (`app/get*.go`, `storage/localCache.go`, `repository/redis.go`) | local map with expiry, Redis keys, singleflight groups | Get, Clear, ClearAll | database, Redis, pub/sub | fills racing clears, several gateways, expiry |
| control plane (`service/pubSub`, `controller/publishMessage.go`) | none | publish, handle | caches, configuration, IP database | delivery at most once |
| rate limiting (`middleware/rateLimit.go`) | windows and token buckets in shards, a channel of 65,536 items | checkQPS, checkQPM, clean-up, mirror | Redis | window edges, clocks read before the lock, routes that share records, clean-up |
| authentication (`middleware/{headerParser,timeWindow,uniqueNonce,authenticator,authorizer}.go`) | nonce counters in Redis | checks in that order | caches, Redis, configuration | replays, expiry of the counters, lost replies and repeated calls, reloads in between |
| security filter, blacklists (`middleware/securityFilter.go`, `globalBlacklist.go`, `*Limit.go`) | counters and bans in Redis, a table in the database | count, ban, insert | caches | thresholds, counters that expire |
| health manager (`service/healthManager`, `service/email`) | per checker a status and two counters, as separate atomics | Report, IsHealthy | HealthCheck middleware, checker loops, mail | two counters that must act as one, blocking mail, a probe that hangs, a check that is stale when the request goes on |
| IP database (`storage/ipdb.go`) | the open database, its file, a daily download counter | start, update, trigger | file system, HTTP, control plane | concurrent updates and clean-ups, partial files, a handle closed under a lookup, crashes, midnight |
| configuration (`config`, `cmd/server/main.go`) | one struct behind one pointer | load, merge, set | everything | a reload that overlaps the start, fields read while they are copied |
| routing (`middleware/router.go`, `app/get{Service,Route}.go`) | none of its own | MatchService, MatchRoute | database, caches | database and cache disagree |

What makes each of them correct:

* limiter: permits balance; nothing is admitted at the limit; the limit settles
  and recovers;
* node table and proxy: the counter of a node stands for real requests; a node
  is not given more than `max_conn`; a request is sent only to nodes of its own
  service version and to each at most once; a rebuild loses nothing; every
  request is answered, once, as long as its client takes part;
* write-behind: the database follows the table unless the last write of a node failed;
* caches: after a clear, and once fills under way are over, nobody serves the old value;
* rate limiting: what passes in a span is bounded, a refusal is earned, and what the
  clean-up drops is never a gain;
* authentication: a signed request is accepted only so many times while its time
  stamp is good, and is not refused before that many increments;
* security filter: a ban lasts, and the thresholds are reached in order;
* health: the status changes with as many probes in a row as the threshold says and
  only then; an outage closes the gateway and its end opens it;
* IP database: the served database is open, complete and never older than before; the
  next start finds one; the limit of a day holds;
* configuration: requests see values of the table, never a zero or a half-written start.

`PROJECT.json` lists the hazards of all components line by line, with the
properties that cover them or the reason why none does.

## 2. Modules

| module | contents |
|---|---|
| `ConcurrencyLimiter` | the limiter and its middleware, a specification of its own |
| `LoadBalancer` | the lock regions of the node table as actions; no `Next`: its users compose them |
| `Proxy` | EXTENDS `LoadBalancer`: the middleware, the chain behind it and the failover loop, any number of requests, time |
| `AvailabilityFlusher` | EXTENDS `LoadBalancer`: marks from anywhere, the flusher and the database |
| `CacheLayer` | one key in the local caches, Redis and the database; the fills and the clear messages of several gateways |
| `Hysteresis` | abstract: what a health checker promises |
| `HealthManager` | the checkers, their loops and the mails; implements `Hysteresis` |
| `FrontDoor` | composes `ConcurrencyLimiter` and `HealthManager`: health check, then concurrency limit, in the order of the chain |
| `RateLimiter` | abstract: the window and the bucket of a client, whose records are kept for ever |
| `RateLimit` | EXTENDS `RateLimiter` by the clean-up; implements it |
| `Configuration` | the part of the configuration that is in the database; no specification of its own |
| `Authentication` | EXTENDS `Configuration`: the five middlewares of a signed route, the nonce counter in Redis, reloads |
| `Ipdb` | the IP database: files, handles, the task, the update message, clean-ups, crashes |
| `MC_*` | values of the constants for TLC |
| `*_proofs` | theorems; `FrontDoor_proofs` holds those of `ConcurrencyLimiter` too, and `LoadBalancer_proofs` the lemmas `Proxy_proofs` cites |

Operators whose name ends in `Bug` stand before the operator they are a
plausible mistake of, and no behaviour uses them.  Replacing the operator by its
`Bug` makes TLC report the property the mistake breaks (`PROJECT.json`,
`mutants`): every property of every passing run has been seen to fail that way.

### ConcurrencyLimiter

`current`, `max` are the fields of the struct; `serving` is the set of requests
between `Acquire` and the deferred `Release`.  The methods hold the mutex from
end to end, so that each is one action.  The floating point factors 0.8, 1.2 and
0.3 are exact integer forms.  The floor of 50 per CPU is the constant
`FloorPerCpu`, so that TLC can work with small limits.  `int32` does not
overflow for a configured concurrency below 2^31 / (1.2 * CPUs), and wider
values are not modelled.

### LoadBalancer

`getRuntimeNodes` returns the slice of `runtimeNodes[service.ID]` after
unlocking; `selectNodeByLoad` locks again and works on the objects of that
slice.  In between another request, holding another version of the service
(caches are refreshed at different times), may publish a new slice of new
objects.  Each slice built is therefore a *generation* in `heap`; `table` is the
published one, `slice[r]` the one caller `r` works on; a generation nobody
refers to is collected.  `FetchNodes` / `RebuildNodes` are the two outcomes of
`getRuntimeNodes`, `SelectNode` / `SelectNothing` those of the selection.
Releases and marks look the node up by its id in the table of the moment.

Services share nothing in this package but the mutex, so one service is
modelled.  Nodes keep the order of `service.Nodes` in `pos`: it decides ties, and
a service loaded with its nodes in another order (the query has no ORDER BY) does
not match the table.  Availability is counted in half percents.  `LastError`,
`ConsecutiveFails` and the breaker's type are never read and left out.

### Proxy

`req[r]` holds the locals of a request and its `pc`, which names the next access
to shared state:

| action | code |
|---|---|
| `Arrive`, `ArriveWithoutNodes` | `middleware/loadBalancer.go:17-27` |
| `Fetch`, `Select`, `SelectFails` | `SelectNode`, called at `loadBalancer.go:28` and `proxy.go:95` |
| `GiveUp` | `proxy.go:95-107` when the attempt was not retryable |
| `Reject` | RateLimit or a route middleware answers |
| `EnterProxy`, `Snapshot`, `SnapshotFails` | `proxy.go:35-43`: the body is read (204-232) while the client sends it |
| `TotalTimeout` | `proxy.go:60-70` |
| `BeginAttempt` | `proxy.go:71-82` |
| `AttemptFails` | the round trip fails, after an informational response or after nothing |
| `ResponseBegins`, `AttemptSucceeds`, `AttemptAborts` | the final response goes to the client; its copy ends, or breaks, which panics and ends in `recovery.go` |
| `Release`, `MarkSuccess`, `MarkFailed` | `proxy.go:85`, `86-89`, `90-94` |
| `TimePasses` | cooldown (15 s) and breaker (15 s) run down |

`answer` is what the client has got so far: it is set where something is written
to the client, by an attempt that fails too ("partial": the informational response
it relayed), so that `AnswersOnce` sees every write.  `wrote` is the flag of the
response writer, which the code looks at.  `leaked` is a history variable: the
selections nobody will give back.
`resetBody` cannot fail (`proxy.go:222-231` always returns nil), and `current`
is never nil at `proxy.go:120`; both branches are dead.  A node URL that does not
parse is an `AttemptFails` with nothing written.

### AvailabilityFlusher

The flusher swaps the queue under its lock and writes the batch outside it.  A
write that fails was refused, or timed out while the database is still at it: then
the batch is in `late`, from where `LandsLate` applies it at any time, over the
values of later batches too, or never.  `lost` is a history variable: nodes whose
last UPDATE was one that failed, with no effect or a late one.  The table keeps
its version here; with exchanged versions the property is not claimed (a rebuild
takes the availability of the cached service, see the hazards).

### CacheLayer

API keys, services, routes and blacklists are cached by the same code, key by
key, so one key is modelled; a row is its version number.

| action | code |
|---|---|
| `BeginFill` | a request that missed, and misses again under singleflight: `app/getApiKeyInfo.go:30-39` |
| `GetRedis`, `QueryDB`, `SetEmpty`, `SetRedis`, `SetLocal` | the rest of that function, one shared access per action; errors, and Redis errors that come after the effect, included |
| `ExpireLocal`, `ExpireRedis` | `storage/localCache.go:52-99`, and Redis itself |
| `ChangeRow` | the operator changes the row (outside the gateway) |
| `Publish` | `controller/publishMessage.go`; delivery to any set of gateways, the ones the message names and that are connected |
| `Receive` | `pubSub/handler.go:32-62`, one message after the other (`subscription.go:19`) |
| `ListKeys` | `KEYS` of the four ClearAll functions |
| `DeleteLocal`, `DeleteRedis` | the two deletions of Clear, and of ClearAll per key |

Two history variables make the safety property sharp: `overlap`, in an entry,
says that the fill which made it ran across the change that outdated it or
across its gateway's clear; `missed` says that a gateway's clear was lost,
failed, or skipped a key that Redis did not list.  `OutdatedEntriesAwaitAClear`
says that these are the ONLY ways in which an old row outlives the message that
should clear it; that an entry in Redis needs one clear to succeed anywhere; and
that nothing is old without a message on its way.

Left out: requests that find the local entry or join a fill (they change
nothing); the clear that SecurityFilter makes by itself after it inserted into
the blacklist; messages with no change before them (they only remove more).  A
deletion or a write that takes effect after its call has timed out is left out: the
effect is at the call, whether or not an error comes back.  The
service and its nodes are read by two queries, which the model takes for one.
"EMPTY" is read as a miss, so that it never spares the database a query.

### HealthManager, FrontDoor

`status`, `failCount` and `successCount` are the atomics of a checker.  Each
checker has one loop, which alone calls `Report` for it, and readers see the
status only, so `Report` is one action (`ReportFailure`, `ReportSuccess`).  A
change of status sends a mail in the same loop: `mail[d]` is the number of
attempts left, and while it is above 0 the loop probes nothing
(`email.go:24-40`).  `up` is the environment: a probe succeeds, fails, or, where it
has no timeout (`Untimed`: `db.Ping` at `storage/db.go:45`), hangs, and then its
loop reports nothing.  `Bound` caps the counter that keeps growing once its
threshold is passed; nothing reads it any more.

`FrontDoor` asks for one dependency after the other (`HealthCheck`), while the
loops go on, and then for a permit (`ConcurrencyLimit`, `Leave`).  A dependency
that was never registered is unhealthy.  `Hysteresis` is what the checkers
implement: one count per dependency, of the probes in a row that contradict its
status.  The last probe is part of its state: an outcome, and a turn that every
probe changes, so that no report is a stutter.  A step of `Hysteresis` is a probe
that agrees and sets the count to 0, or one that contradicts and adds to it, and a
checker which does not reset its failures on a success does not implement it.  The
mapping takes the failures of a healthy dependency and the successes of an
unhealthy one for the count; the other counter is what must never matter.

### RateLimiter, RateLimit

One client is modelled: clients share nothing but the locks of shards.  Its
routes do share its records, since the key is made of the address alone; that a
route's limit is applied to records other routes have filled is part of the model.
`RateLimit` stands before the middlewares that look the API key up, so that the
limits of a key are never applied; the branch is left out.

| action | code (`middleware/rateLimit.go`) |
|---|---|
| `Arrive` | 220-268: the route's limits, and the clock of the first check |
| `CheckQPS`, `LimitQPS` | 55-76 under the lock, with the clock read before it |
| `CheckQPM`, `LimitQPM` | 113-145 likewise |
| `CleanUpCounters`, `CleanUpBuckets` | 191-219, the two halves, each under its own lock |

A request reads the clock and then waits for the lock, for at most `MaxStall`
ticks: a reading may be older than the record it is compared with.  Tokens are
counted in `Minute`-ths, so that no rounding is needed; the code has floats.
`keptWindow` and `keptBucket` are the
records without the clean-up, and the refinement mapping into `RateLimiter`.

Left out: the mirror in Redis.  `syncCh` and its worker write counters that no
code reads.

### Configuration, Authentication

`MergeConfig` assigns a struct of many words in place, without a lock, while
requests read: the copy is a step per field, in any order, and two copies may
overlap, main's and that of a reload message, because the subscription is started
before main loads.  A reader sees a mixture.

| action | code |
|---|---|
| `LoadDatabaseConfig`, `MergeField` | `config/loader.go`, from `main` and from `pubSub/handler.go` |
| `TimeWindow` | `middleware/headerParser.go`, `timeWindow.go` |
| `UniqueNonce`, `NonceWindow` | `middleware/uniqueNonce.go`: the expiry is read, and after the call the limit |
| `RunScript`, in `IncrAndExpire` and `ReplyLost` | the script of `repository/redis.go:95` runs, and its reply arrives or does not |
| `ReplyLost` | go-redis sends the script again, up to its default of three times (`storage/redis.go:22-34` leaves `MaxRetries` alone), or the call fails |
| `IncrFails` | Redis is not reached, at first or in a repetition |
| `Authenticator` (within `NonceWindow`) | `middleware/authenticator.go`, `authorizer.go`: accepted, or not |

One nonce of one API key is modelled; each submission carries a time stamp, and
submissions with the same stamp are the same signed request.  Times are ticks; a
window of 0 and a version of the table that changes all three fields are
included.  `reply` is the key right after the increment whose reply arrived (the
count is what the code gets, the life it fell in is history), and `increments`, a
history variable, holds the key after every increment, those nobody got a reply of
included.  A script that is sent again runs after the one before it.
`AuthConstants` states what the properties need of the configured
values: the life of a counter exceeds twice the time window (24 hours against 10
seconds in `mariaDB.sql`).

### Ipdb

A directory is a function from names to files; removing or replacing a name
leaves an open file readable, except where the platform locks files in use
(`windows`, chosen in the initial state).  Extraction truncates a file and
writes it in two steps, so that it can be torn: by an error, a crash, or a
second extraction to the same name.  Files and handles are numbers of the
constants `File` and `Handle`, the least that nothing refers to first; when they
are used up the step that needs one does not happen.

| action | code (`storage/ipdb.go`) |
|---|---|
| `InitIPDB`, `FirstDownload`, `FirstServed` | the start: open the latest file, or download one |
| `TaskWakes`, `TriggerIPDBUpdate` | the task at three o'clock (`shouldIPDBUpdate`), and the update message |
| `Allow` | the loop of `downloadNewIPDBVersion`, and the count of `ipdbAllowDownloadToday` |
| `BeginDownload`, `DownloadFails`, `LimitPage` | the day is read for the name of the file, and the download begins; midnight may have come since it was counted |
| `Extract`, `Copied`, `CopyFails`, `Verify`, `Rename`, `RenameFails` | `downloadAndVerifyOnceIPDB`; the copy may be complete and its close fail, which is only logged (549) |
| `OpenNew`, `OpenFails`, `Swap`, `CloseOld`, `RemoveOld` | `UpdateIPDB` |
| `ListTemp`, `ListData`, `RemoveListed` | the clean-up goroutines, one removal per step |
| `Get`, `GetAll` | `repository/ipdb.go`: take the handle, then read from it |
| `Crash`, `NilWrapper` | the process ends, by itself in the second case |
| `Midnight` | the day changes |

Four variables are history.  `fetched` counts the downloads the process began
today, and `carried` those of them it had counted before midnight.  `newest` is the
day of the newest database served.  `spoilt` holds the files whose extraction met
another one of the same day, or whose close failed.

Assumed of time: an update that began before midnight, and the clean-up of the
start, are over before three o'clock, and the task's own update, and every
clean-up, before midnight.
The retry when a rename reports that the target exists is left out:
`os.Rename` replaces files on both platforms.  What the provider sends and the
checks on the zip make an attempt succeed or fail by choice.

## 3. Runs

| run | question | expected |
|---|---|---|
| `limiter` | permits, admission and control loop of the limiter, behind the health check; hysteresis of the checkers; outages close the gateway and their end opens it | holds |
| `proxy` | the invariants and action properties of the node table and the failover loop; every request is answered, once | holds |
| `flusher` | the database follows the table | holds |
| `cache` | old rows await a clear, entries are not replaced, caches become fresh | holds |
| `auth` | how often a signed request is accepted, and who is refused, across reloads and expiry | holds |
| `ratelimit` | what passes in any span, who is refused, and that the clean-up is invisible | holds |
| `ipdb` | quota, handles, complete files, a database for the next start, never an older one | holds |
| `proxy_maxconn` | never more than `max_conn` attempts on a node | violated |
| `proxy_leak` | an idle node without a cooldown is selectable | violated |
| `proxy_informational` | a failed request is answered with 502 | violated |
| `ratelimit_maximum` | the limit a second is a maximum of every second | violated |
| `cache_clear_all` | a ClearAll handled without an error has removed the local entry | violated |

What the violated ones show:

* **`proxy_maxconn`**: `ReleaseNodeRequest` and then `MarkNodeSuccess` or
  `MarkNodeFailure` decrement the same counter.  With three requests: two on a
  node with `max_conn = 2`, or one after the other through a table that changed,
  the second decrement gives back somebody else's connection.
* **`proxy_leak`**: a request that is rejected behind the load balancer (rate
  limit, authentication), whose body cannot be read, whose total timeout passes
  before the next attempt, or whose copy panics keeps its node's connection for
  ever.  The double decrement hides part of this in practice.
* **`proxy_informational`**: a node that sends a 1xx response and then fails is
  neither retried nor answered; the client gets an empty 200.
* **`cache_clear_all`**: ClearAll walks the keys that Redis lists.  Of several
  gateways that handle the same message, those that come after the first find
  nothing, and keep their local entries until these expire.
* **`ratelimit_maximum`**: the comments speak of a sliding window and of the maximum
  of requests a second, but the window starts with a request and does not slide.
  One request at its start, the rest at its end and a full limit at the start of the
  next one are `2 * limit - 1` within a second.  The clock is never late in this run.

The model also shows a behaviour no line of the code denies: a response cut short
(`AttemptAborts`) is completed by Recovery with the body of a 500, and a client
that goes away counts as a timeout of the node.  The models of this project reach
other behaviours that deserve attention: two updates of the IP database
on one day may tear the file they share, and a file whose close failed is installed
(`InstalledIsWhole` leaves such files out); the task updates on each of its days, because the check of the month
never holds (`ipdb.go:237`); an update message ends a process that started
without a database; a lookup may find its handle closed; and a client that uses
a generous route refills the bucket of its other routes.

What the properties of the newer modules say in terms of the code:

* `ImplementsHysteresis`: the status changes with the threshold-th probe *in a row*
  against it.
* `DoorCloses`, `DoorOpens`: a dependency whose probes keep failing is noticed, and
  then nobody comes in any more; dependencies that stay up open the gateway again.
  Both hold though no mail can be sent, because a loop gives up after
  `MaxRetry + 1` attempts.  A database that *hangs* is not noticed: its probe has no
  timeout, and the door stays as it is.  A request inside may stay for ever, since
  the server has no timeouts.
* `AnswersOnce`: whatever was written to a client, an informational response of an
  attempt that failed included, the failover loop begins no other attempt after it,
  copies no other response and adds no 502.
* `EveryRequestEnds`: every handler returns with an answer, unless its client stops in
  the middle of its body or of the response: the handler waits there without a bound.
* `FreshNonceIsLimited`, `ReusedNonceIsLimited`: `nonce-window` acceptances of a
  signed request whose nonce is its own; a nonce that other requests used
  before may expire in the middle of the request's span, and then the bound is
  `2 * nonce-window - 1`.
* `RefusedOnlyBeyondLimit`: a request is refused as reused after `nonce-window`
  increments in the life of the counter.  They need not be other submissions: a call
  that go-redis repeated counts twice, so that a request may be refused at once.
* `FieldsComeFromTheTable`: once requests are served no field has the zero value of
  the struct.  It allows every mixture of versions, because the copy makes them.
* `QpsBurst` is what the code keeps where `QpsIsAMaximum` fails: `2 * limit - 1` may
  pass within a second, and no more.  `QpmSustained`: over any span, a full
  bucket and what it refills.
* `NeverForgets`: with the clean-up, each request is let through or refused
  exactly as without it.
* `DownloadsWithinQuota`: no more downloads on a calendar day than are allowed, and
  those counted before midnight that begin after it.  The provider's own limit is
  one of 24 hours (`ipdb.go:464`, `487`), which a count per day does not keep.
* `InstalledIsWhole`: a file left behind by a failed copy or a crash is never
  installed; what may be incomplete is a file whose own extraction met another one
  of the day or whose close failed.
* `HandlesAreOwned`: every open handle is the served one or belongs to the one
  update that will close it.  `NextStartHasADatabase`, `NeverOlder`: clean-ups,
  removals and crashes never leave the disk, or the process, with an older one.

### Bounds

* `limiter`: 1 CPU, 5 per CPU, floor 2, so that the three limits (4, 5, 6) differ
  and the floor is below them; 7 requests, more than the largest limit.  One
  dependency with thresholds of 2 (one probe is not enough, and one that
  agrees starts again), whose probe may hang, and 2 attempts for a mail.
* `proxy`: 2 nodes, 2 requests, 3 versions of the service that differ in weight,
  `max_conn` and membership (`both` nodes, one `alone`, `empty`); 3 generations are enough for
  the table and one slice per request; a cooldown of one tick.  Two requests give
  every pair of interleaved lock regions, the ones a stale slice needs included;
  the theorems cover any number.
  The run uses no symmetry, because of its liveness property.
* `proxy_maxconn`: 3 requests (two are needed on the node after the third ended),
  one version, as in the other violated runs of `Proxy`.
* `flusher`: 2 nodes, 5 marks: the availability falls to 0 and both nodes may be
  in the queue and in the batch.  2 UPDATEs that timed out may be under way, so that
  they land in either order, before or after a later batch.
* `cache`: 2 gateways (a clear on one is seen, or not, by the other) and 3
  versions, the second missing: a row that is removed and comes back, fills that
  span one or both changes, and messages of both kinds.
* `cache_clear_all`: one change and ClearAll messages only.
* `auth`: 4 submissions of 2 stamps, `nonce-window` 2 and then 1, a counter that
  lives 4 ticks or 5, stamps of 1 and 4 and a clock that stops at 5: a life begins
  and ends within the span of the second stamp.  The life is the least
  `AuthConstants` allows.  `MaxMishaps` is 1: either one call of the script is
  repeated, of the three times go-redis would, or the table changes.
* `ratelimit`: 4 requests on 2 routes, limits of 1 and 2 a second and 2 a
  minute, both spans of 3 ticks, a clock late by 1; a window is forgotten
  after 4 ticks and a bucket after 5, the least `IdleConstants` allows, and the
  clock reaches 7, so that a request may come after either.
* `ratelimit_maximum`: the same, with a clock that is never late.
* `ipdb`: 2 days, of which the task tries the second, 2 downloads a day, 1
  fault (a crash or a failed close), both kinds of platform.  6 files and 5 handles
  are never used up: at most two names are in `temp` and three in `data`, and a
  removed file may still be open.  The view leaves out whether files that nothing refers to were complete
  or spoilt, how a complete file was spoilt, the quota of a day that is over, the date
  of an attempt that is over, and of `fetched` and `carried` all but their difference;
  no action and no property can tell them apart.

Deadlock is checked in every run but `auth`, `ratelimit` and `ratelimit_maximum`,
whose clocks stop at `MaxTime`; `AllDone` and `Settled` step where nothing is left to
do in the runs of `Proxy` and in `flusher`.

### Fairness

* `limiter`: the tickers of the recalculation and of the probes fire, a probe whose
  dependency is up or down returns, and an attempt to send a mail ends with its
  timeout (`sendWithTimeout`): weak fairness of each.  Nothing is assumed of a probe
  that hangs, nor of requests: none need ever leave, since the server has no read or
  write timeout (`cmd/server/routes.go:65-71`).
* `proxy`: weak fairness of `GatewayStep(r)`: a goroutine that can run does, the
  calls of the chain end with the timeouts of Redis, and a round trip ends because
  `proxy.go:82` bounds it.  Nothing is assumed of the client (`ClientStep`), of
  arrivals or of time, so the result does not need cooldowns to end.
* `flusher`: the ticker fires and the UPDATE returns within its write timeout.
  Nothing is assumed of one that timed out.
* `cache`: calls of Redis and the database have timeouts (`FillStep`), the
  subscriber's goroutine runs (`HandlerStep`), and entries expire, which takes a
  configured expiry above 0 (`localCache.go:38` keeps others for ever).  Nothing
  is assumed of requests, changes or messages: `EventuallyFresh` holds though
  every clear may be lost, and although fills never stop.

## 4. Theorems

For every value of the constants (finite sets of nodes and requests, any versions
and configurations, any limits), proved by TLAPS:

* `Proxy_proofs`: `Structure` is the inductive invariant: every generation in use
  is the table of some version, a request's slice belongs to its own version, its
  node is one of its version, and at stage "proxy" the node is untried.  The
  types, `RetriesUseFreshNodes` and `ServedByOwnVersion` follow.
  `CountersNeverExceedHolders` is inductive on top of it: each action changes
  `active`, the holders of one request and `leaked` by amounts that are compared
  node by node (`CountersFromParts`).  A selection on a replaced generation raises
  a holder and no counter of the table; a rebuild copies counters.  Two action
  properties follow: `AnswersOnce` and `RebuildKeepsNodeState`.  The first rests on
  what `RequestInv` says of a request that has an answer: it is done, its upstream's
  response is on its way through (`Responded`), or its attempt failed after a header
  and the writer still remembers it when the loop looks (`FailedAfterHeader`).
* `AvailabilityFlusher_proofs`: `FlusherInv` says where the latest value of each
  node is: queued; else in the batch; else in the database, or lost, which an UPDATE
  that lands late makes of the nodes it writes.
* `CacheLayer_proofs`: `IInv` adds to the property what holds of rows in flight:
  a fill under way means that its gateway has no local entry
  (`FillsAreExclusive`, which also gives `EntriesAreNotReplaced`), and the row a
  fill carries obeys the rule of the cache it is bound for (`FillsAreAccounted`).
  Without the second part a fill could store what the property forbids.

* `FrontDoor_proofs`, of the limiter: types, balance of permits, the bound on
  requests in service, admission below the limit, settling of the limit.
  `IInv` adds that `max` is one of the configured limits and that
  `current <= Extended`: the bound is not inductive without it, since a
  shrinking limit does not lower `current`.  Of the
  composition: `FrontRunsLimiter` shows that it runs the limiter's own specification, fairness included, so that its theorems carry
  over.  `Checks` adds to the types that a request in service has used its check
  up.  `HealthIsHysteresis` is a refinement: a report, by its outcome, maps to the
  probe that agrees, contradicts or flips, and everything else to a stutter.  It needs
  no more than the types, because each report resets the counter of the other
  outcome, and a flip its own.
* `Authentication_proofs`: `IInv` numbers the increments, those of repeated
  calls and of lost replies too.  An increment has a place in a life of the counter;
  lives do not overlap (`PairInv`), their places are taken from the first on
  (`CounterInv`, `ChainInv`), no two replies have one place (`ReplyInv`), and the
  life an increment fell in meets the span of its stamp (`IncrementInv`).  Since a life exceeds the span, at most two lives meet it, and one only when the
  nonce is fresh; of each, the first `nonce-window` places are accepted.  The
  same numbering gives the increments before a refused request.  `ConfigInv` is what
  holds of a configuration two loaders write at once.
* `RateLimit_proofs`, of the clean-up: `Agreement` says that the records with and
  without it agree, or that the kept one is old enough not to matter: the window
  is over for every reading of the clock that may still come, and the bucket would
  be full.  The second needs `NotTooEmpty`: late readings take back what earlier
  ones filled, so that a bucket may fall below zero, but by no more than
  `MaxStall` refills.  That holds when all routes have one limit a
  minute (`OneQpm`), which `CleanUpIsInvisible` states as its hypothesis; TLC's run
  satisfies it, with different limits a second.

  The bounds are statements about how many requests a span holds, which no
  variable records.  For the limit a second, `Placed` says that the requests that
  were counted can be *placed*: each in a window that starts at some time and at
  a number in it, no two at one place, at most as many of a route as its limit
  allows, windows a second apart, and the first numbers of the present window all
  taken.  A second shorter by the lateness of a reading meets two windows, and the
  request it starts with is one of the places, so that an injection into
  `1 .. 2 * limit - 1` gives `QpsBurst`; a refusal
  means that the numbers up to the limit are taken, which gives
  `QpsRefusalsAreEarned`.  Both hold for routes with different limits.  For the
  limit a minute, `Spending` keeps a balance for every request let through: what
  was spent since, with the tokens that are left, is at most a full bucket, what was
  filled in, and `MaxStall` refills more.  The tokens may be negative, but
  `NotTooEmpty` bounds by how much, which gives `QpmSustained`; it is claimed, and
  proved, for routes with one limit a minute.
* `Ipdb_proofs`: every safety property of `Ipdb`, on both platforms, for any
  calendar, quota, number of faults, files and handles.  `Counted` is the
  quota: what the process began today, or is about to begin (`Waiting`), the counter
  knows of, but for what midnight carried over.  `Stages` says
  what an updater holds at each place of its code, and `Owners` extends
  `HandlesAreOwned` to the start and to the process that is down.  `Files` says
  what is true of an extraction under way: its file is in `temp` under one name and in
  no other directory, and its writer is the updater or the file is spoilt
  (`Extracted`); what is verified, renamed or served is complete or spoilt (`Sound`).

  `NeverOlder` and `NextStartHasADatabase` are not inductive and need each other:
  a restart serves the latest file of the directory, so that it goes back unless
  the newest one is still there (`Kept`), and a clean-up removes all but the
  latest it listed, so that the newest stays only while updates bring
  databases of later days in their order (`Calendar`).  `Kept` differs by
  platform.  Where files in use are locked, the served file stays in its place
  (`Locked`), and an update that meets it installs its file under a stamped
  name.  Where they are not, nothing protects a file but its name: names
  have no stamps, and some name (`Top`) is as new as everything that was served
  or is being installed and later than all that any clean-up has listed
  (`Unstamped`).  `Listings` is where the assumptions on time enter: the
  clean-up after an update is over before the task begins its next one.  That the latest of a set
  of names exists comes from the well-foundedness of the finite subsets of a set
  (`LastExists`).

The assumptions are those of the modules (`LimiterConstants`,
`LoadBalancerConstants`, `ProxyConstants`, `FlusherConstants`, `CacheConstants`,
`HealthConstants`, `FrontConstants`, `RateConstants`, `IdleConstants`,
`ConfigurationConstants`, `AuthConstants`, `IpdbConstants`), which TLC evaluates
in the runs.
`IdleConstants` holds of the code (ten seconds against one, five minutes against
one) as long as no request waits nine seconds for a lock.

Every safety property of a passing run is the statement of a theorem.  Only
model-checked: the liveness properties (`IdleRecoversLimit`, `EveryRequestEnds`,
`EventuallyPersisted`, `EventuallyFresh`, `DoorCloses`, `DoorOpens`; the prover has
neither fairness nor ENABLED) and the violations.

## 5. Plan

Modelled: what every request passes and what several goroutines share (health
check, limiter, node table, proxy, write-behind, rate limits), the caches and the
configuration all of them read, the chain of a signed route, and the updater of
the IP database.  Next, in this order:

1. `SecurityFilter`: the hourly and the daily counter with their expiry, the ban
   that outlives the hourly one, the insert into the blacklist, and the clear of
   the inserting gateway's caches alone, composed with `CacheLayer`.
2. `Routing`: the match in the database against the cached service.
3. `AvailabilityFlusher` composed with rebuilds and with the cached service.

## 6. Not modelled

* The security filter and the address, country and domain limits: the filter is
  the next module of the plan; the limits compare a request with a cached row and
  change nothing.
* Routing: lookups change no state but the caches.
* The mirror of the rate limits in Redis, which nothing reads.
* The cache of middleware chains per route (`gateway/handler.go`): a chain is a
  function of the flags in its key, so that an old one is as good as a new one.
* Logging, request ids, header rewriting, parsing and formatting of requests, the
  settings of the HTTP transport, the gateway's own API: data of one request.
* Cryptography: a signature verifies or does not.
* The shutdown of the server, and `Stop` of the limiter, which is never called.
