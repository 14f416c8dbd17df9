# A TLA+ model of go_web

go_web is a small HTTP framework in Go: a routing tree, groups of routes with
middlewares, a cache with LRU and LFU eviction and a singleflight loader, and
sessions kept in memory or in Redis.  This directory holds TLA+ modules that
model its core, TLC configurations that check them on small instances, and
proofs that TLAPS checks for every value of the constants.

    tlc -config MCRouteSearch.cfg MCRouteSearch     # model-check a run
    tlc -config Sessions.cfg Sessions
    tlapm RouterProofs.tla                          # check a proof module

`PROJECT.json` lists the runs, the source lines of every definition, the
theorems, the hazards the properties are aimed at, and for every property a
mutant of a definition that breaks it.  A definition whose comment begins with
"Mutant:" is such a plausible bug and no part of the specification.

## 1. The system

| component | source | state | operations |
|---|---|---|---|
| route registration | `web/router.go` | one tree of nodes per HTTP method | `Route`, which creates nodes segment by segment and panics on a conflict |
| route lookup | `web/router.go`, `web/server.go` | reads the trees; `matchInfo` of one request | `findRouter`, `BackSearchChild`, `serve` |
| groups, middleware chain | `web/group.go`, `web/server.go` | `Groups` with prefix, parent and middlewares; `Mdls` of the engine | `NewGroup`, `Use`, `Route`; `ServeHTTP` picks and nests the middlewares |
| request execution | `web/server.go`, `web/context.go` | one `Context` per request | the chain in, `serve`, the chain out, `flashResp` |
| middlewares | `middlewares/*` | the limiter's buckets, prometheus' goroutines; otherwise the request's `Context` | accesslog, errhandle, recover, limiter, prometheus, opentelemetry |
| LRU cache | `cache/LRU.go` | list, map, byte count | `Get`, `Set`, `Del`, `RemoveOldest` |
| LFU cache | `cache/LFU.go` | a list per use count, map, `minFreq`, byte count | the same |
| cache lock | `cache/Cache.go` | an `RWMutex` and one of the two caches | `Get` under the read lock, `Set` under the write lock |
| cache group, singleflight | `cache/Group.go`, `cache/singleflight.go` | the calls under way, a cache, an external data source | `Get`: look up, join or start a load, fill, return |
| group registry | `cache/Group.go` | map of groups, `RWMutex` | `NewGroup`, `GetGroup` |
| sessions | `session/*` | sessions in a store, the id in a cookie, a session in the `Context` | `InitSession`, `GetSession`, `RefreshSession`, `RemoveSession` over `Generate`, `Get`, `Refresh`, `Remove`, `Inject`, `Extract` |
| context input and output, files, templates | `web/context.go`, `web/file.go`, `web/template.go` | one request's; a cache that stays empty | sequential I/O and conversions |

**How they interact.**  `ServerEngine.ServeHTTP` runs in a goroutine per
request.  It makes a `Context`, collects the groups whose prefix the path has,
wraps their middlewares around `serve` and the engine's around those, runs the
chain, and writes the response in `flashResp`.  `serve` calls `findRouter`,
puts the handler's parameters into the `Context` and calls the handler.  Routes
and middlewares are registered before the server is started; nothing locks the
trees or the groups.  Handlers may use a cache group or the session manager,
which are shared by all requests: a group's `Get` goes to the locked cache, then
to `SingleFlightGroup.Do`, whose function calls the data source and fills the
cache.

**What is hard in it.**
- Registration fails half-way: `Route` panics on the n-th segment of a pattern
  after creating the nodes before it, and callers that recover go on with them.
- The search backtracks over four kinds of children, binding and unbinding
  parameters as it goes, and tries regexps in the random order of a Go map.
- Which middlewares run, and in which order, depends on string prefixes and an
  unstable sort.
- A panic runs only the deferred parts of the middlewares it passes.
- Goroutines interleave in the cache group between the lookup, the registration
  of a call, the load, the fill, `wg.Done` and the delete; a getter may fail or
  panic in the middle.
- `Cache.Get` changes the LRU list under a *read* lock.
- Each cache keeps two or three structures that have to agree after every
  sequence of calls, one of which (LFU's eviction) can panic half-way.
- prometheus reports from a goroutine that reads the request's `Context` later;
  `AddBuckets` may change the limiter's map while requests read it.
- A session lives in a store, in `UserValues` and in the client's cookie, and
  requests of one client run at once: a login, a refresh and a logout of them
  interleave, and a command may fail, or a response be lost, half-way.
- The memory store checks under one lock and writes under another; the Redis
  store does in several commands what should be one.

**What makes each component correct** is said by the properties of its module
(section 3).  `PROJECT.json` has the hazards, each with its line and its
properties.

## 2. The modules

    Router ---- RouteSearch ---- MCRouteSearch      BoundedCache (abstract)
                   \---- RouterProofs                 |  refined by
    Groups ---- MCGroups                            LRU ---- MCLRU
       \---- GroupsProofs                           | \---- LRUProofs
    Server ---- MCServer                            LFU ---- MCLFU
       \---- ServerProofs                             \---- LFUProofs
    CacheGroup ---- MCCacheGroup                    CacheLock ---- MCCacheLock
       \---- CacheGroupProofs                         \---- CacheLockProofs
    Sessions ---- SessionsProofs

A module states the component's parameters as CONSTANTS with named
assumptions, one action per operation or per step between two points where
another goroutine can run, and its properties at its end.  The MC modules only
give values; Sessions needs none, its configuration does.

### Router: registration

`trees[m]` is the tree of method m, a function from positions to nodes.  A
position is the sequence of child slots followed from the root; a slot says in
which field of its parent (`children[path]`, `regexpChild[expr]`, `paramChild`,
`starChild`) a node hangs.  A segment of a pattern comes already parsed, with its
kind, expression and parameter name; what kinds of text there are is the
business of `SegsAssumption`, that only `*` is a wildcard and that a text is
parsed in one way.  `registered`, a history variable, has the calls that
returned.

One action is one call of `Route`: refused at once (`Malformed`), refused at
segment i with the nodes before it created and their `route` written, refused at the end because the
node has a handler, or accepted.  A nil handler is not registered: `Route`
accepts one and the node stays without a handler.

### RouteSearch: lookup

EXTENDS Router with `findRouter`, `BackSearchChild` and `serve` as operators that
return the *set* of outcomes, one for each order in which the regexps of the
nodes on the way may be tried.  `BackSearchChild` is the body of one call, given the
outcomes of the calls it makes, and `Searches`, a recursive function over the nodes,
ties the knot.  The calls of a search share one `matchInfo` and never read it, so an
outcome has only its writes to it, by name; `Absent` is what `RemoveValue` writes.
`RemoveValue` forgets a name whatever it was bound to before: if a branch binds a name
at two levels and the deeper use fails, the outer binding is lost with it.
`Best` says what the search should find, without searching.

### Groups: groups and the chain

`groups` is the engine's `Groups` and `mdls` its `Mdls`.  `Chains(path)` is the set
of chains `ServeHTTP` may assemble, one per order the unstable `sort.Slice`
may leave: `Wrapped` puts the groups around serve one after the other, and the engine's
middlewares go around them all.  Paths are sequences of texts, and `HasPrefix` compares them as
`strings.HasPrefix` compares the joined strings: the last text of the prefix need
only be a prefix of the path's.  A middleware is used once in the program, so that
its place in a chain identifies its use.  `Ancestor` is nesting to any depth.

### Server: requests

A request goes into its chain (`going = "in"`), reaches serve, and comes out
returning or panicking.  `at[r]` is the middleware that runs next, `status` and
`data` the fields of its `Context`, `wire` what the client got.  Each
middleware has an action for what it does on the way in, on the way out and
in a panic, so `Log` and `EndSpan` run in both, and `ShowPage` and `StartReport`
only when their next returned.
`recover`'s LogFunc is the application's and may panic itself: "recover, then
panic" is that one.  `FlashFails` is the `log.Fatalln` of `flashResp`.

`StartReport` is prometheus' `go report(...)`.  `Report`, that goroutine, reads the
status at any later time, while outer middlewares run or after the answer.
opentelemetry is the number of spans a request has open.

A request comes with the limiter's key (its URI without the query), and
limiters in a chain look up the key's bucket in one shared map.  `AddBuckets` adds
buckets while requests run.  It writes the map without a lock: if a request is at
its limiter then, the Go runtime may notice and end the process
(`AddBucketsRaces`), or the write is over before or after the read.  `juju/ratelimit`
fills the buckets.

### CacheGroup: Get, Do and the loader

One action per step of `Get` between two points where another goroutine can run:
the lookup (`Hit`, `Miss`), the critical section of `Do` (`Join`, `Register`),
the return of `GetData` (`Load`), `populateCache` (`Populate`), the result and
`wg.Done` (`Done`), the delete and return (`Delete`), the return of `wg.Wait`
(`Wait`).  Data is abstracted to version numbers of the source, which other
programs may write (`Write`) without telling the cache.  Eviction is any subset of
`Evictable`, which covers what LRU or LFU of any size may drop; with the cache's own
locking it is one atomic step.  A panicking getter unwinds through `Do` and
`Get`: the goroutine is recovered by its caller, and the call stays registered
(`Orphaned`).

### BoundedCache, LRU and LFU

BoundedCache is the promise of both: `Get` returns what was last set or nothing,
and a key is only ever lost together with a report to `OnEvicted`.  LRU has the
list with its front first, the key set of the map and `nbytes`; elements
are named by their key.  LFU has a list per use count and `minFreq`.  Each
operation is one step, because both caches run under the write lock of Cache.go
or in one goroutine; the exception is the read lock, which CacheLock is about.
Sizes are computed as the code does (key, value, and 8 bytes of the count in LFU).
What the bytes of the entries add up to is said by `Bytes`, the set of pairs of an
entry and the number of one of its bytes, so that a sum is a cardinality.
The refinement mapping of both reads the contents off the map.  The two caches
differ in one point the abstraction has to allow: LFU's `Set` may panic after
evicting some entries (`SetFails`).

### CacheLock: the RWMutex over container/list

The assignments of `list.move`, one step each, under the read lock of `Get`; and
`Set` under the write lock, with one step per eviction.  Of a data race's
outcomes these are the interleavings of whole assignments, a subset of what the
Go memory model permits: what is found here happens, and what holds here is
shown only for those.  Entries have size 1.  The other race of Cache.go, two Gets that create
the strategy at once, is left out: both store an equal empty cache.

### Sessions: the Manager, its stores and the cookie

One client whose requests run at once.  Each handler calls `GetSession`,
`InitSession`, `RefreshSession`, `RemoveSession` and a session's `Set` in any order
and any number of times.  `left[id]` is the time the store keeps a session, `ctx[r]` the
session in the request's `UserValues`, `cookie[r]` the cookie it came with, `sent[r]`
what its `Set-Cookie` headers amount to, of which a client obeys the last, and
`jar` the client's cookie.  `held[r]` are the sessions that `GetSession`, `InitSession` and
`RefreshSession` returned to the handler: `RemoveSession` takes a session out of
`UserValues` and not out of the handler's hands, so `Set` writes any of them until the
handler returns, removed ones too.  Handlers leave none to goroutines that outlive them.
The history `removed[r]` has the sessions that r removed.  `kind` says whether the store is memory or Redis, `ages`
whether the propagator's `cookieOpt` sets an age.

A method is one step up to its next access to shared state.  `RefreshSession` and
`RemoveSession` first fetch the session (`Fetch`).  A memory `Refresh` is then two
steps: it gets the session under the read lock (`MemoryRefresh`) and stores it again
under the write lock (`MemoryRestore`).  A Redis command may fail, with or without
having been done (`Fails`); `Generate`'s two commands are one step, because `Expire`
names another key than the hash and changes nothing of it.  A response may be lost
and a handler panic (`Lose`).  Every login has a fresh id, as in session_test.go.

What the stores do, and the properties have to allow:
- A Redis session has no expiry until its first `Refresh` (`Forever`,
  store_noLua.go:47).
- Redis' `Get` finds any id, since `Exists` is never below 0 (:92), and `Set` makes a
  removed hash again, since 0 is true in Lua (:116): `sess := InitSession; RemoveSession;
  sess.Set` leaves a session that nobody can tell of and that never expires.
- If `cookieOpt` sets an age, the logout's cookie is not deleted but empty
  (propagator.go:54-57), and Redis finds a session for the empty id.

The login check in session_test.go calls the store's `Refresh` directly.  It does to
the store what `RefreshSession` does and leaves the cookie as it is; it has no action of
its own.

## 3. The runs

| run | instance | what it checks |
|---|---|---|
| `router` | MCRouteSearch.cfg | registration of fifteen patterns (eight compatible, seven malformed, in conflict or with an expression that does not compile) in every order, and every request in every tree on the way |
| `route_tail` | MCRouteSearchTail.cfg | fails: a route's `/*` does not answer what an inner node hides |
| `cache_group` | MCCacheGroup.cfg | two goroutines on two keys, one of which is never evicted: exclusion, waiters, monotonic reads, no second load, every Get returns |
| `lru` | MCLRU.cfg | LRU and its refinement of BoundedCache |
| `lfu` | MCLFU.cfg | LFU and its refinement of BoundedCache |
| `lfu_room` | MCLFURoom.cfg | fails: LFU's `Set` panics though the entry fits |
| `cache_lock` | MCCacheLock.cfg | what the read lock still guarantees with two readers and a writer |
| `cache_lock_two` | MCCacheLockTwo.cfg | fails: two Gets leave a broken list |
| `groups` | MCGroups.cfg | which middlewares run, in which order |
| `groups_param` | MCGroupsParam.cfg | fails: a group with a parameter in its prefix |
| `server` | MCServer.cfg | two requests and two keys of the limiter through six chains, with panics, failing writes, reports and AddBuckets meanwhile |
| `sessions` | Sessions.cfg | two concurrent requests of one client, two logins, either store, lost responses and failing commands |

**Routes.**  `RouteSpellsPath`, `HandlersExact`, `AcceptedCompatible` and
`NodesStay` say that, through accepted and refused calls in any order, a
node's route is the text of the way to it, exactly the accepted calls' handlers
are in the tree, no two accepted routes contradict each other, and no
call changes what another registered.  `FindIsBest` compares the backtracking with
its specification (the first node in the order static, regexp, parameter, star;
a longer match before a star's tail).  `ParamsLastWins` is about the bindings that are
left after it: none of another branch, none older than the last, and none missing
unless a branch through the same node binds the name again (`BoundAgain`).  `ServedAsRegistered`
is the whole way from registration to the handler.
`TailStarServes`, from README.md:18 of the repository, does not hold: an inner
node without a handler ends the search.

**Groups.**  `ChainIsLayered` and `ParentsComeFirst` hold for every order of
the sort, groups with equal prefixes excepted; `RoutesRunTheirMiddlewares` holds
while prefixes are plain text and fails for `/:id`.

**Server.**  `PagesShown`, `PanicsContained`, `LoggedOnce`: what each middleware promises
in any place in the chain, whatever is inside or outside.  `LimiterHolds` over
concurrent requests, buckets added while they run included.  `ReportIsFinal`: whenever
its goroutine runs, prometheus reports the status the client gets.

**Sessions.**  `OwnSession`: a request works with the session it came with or the one
its response tells the client of, and in memory with none that it removed itself and
nobody stored again.  In Redis it may: `GetSession` after `RemoveSession` finds the
session of the cookie, which is not there.  `ClientKnows`: a client that does
one request at a time has no cookie of a removed session left, in whatever order
the handlers called the methods; failed Redis commands are excepted.  `GoneForGood`: a
session once gone stays gone.  The code does bring some back, and the property says which:
in memory one of which a `Refresh` is between its two locks, and no other, whoever names
it; in Redis one that a request, a response or the client names or a handler holds.
`ForgottenExpires`, the liveness property, excepts a Redis session without expiry: one
that never had a `Refresh`, or that a `Set` made again.

**Cache group.**  `OneLeaderPerKey` and `WaitersHaveALeader` are the exclusion and
no-lost-wakeup of `Do`.  `MonotonicReads`: no Get returns an older version than one
that returned before it began, although stale reads, repeated loads and evictions
are allowed.  The code does allow a second load right after the first, between
a `Miss` and `Do`; `FilledIsNotLoaded` says how far the protection goes.
`EveryGetReturns` is the liveness property.

**Caches.**  `ListMatchesMap`/`ListsMatchMap`, `SizeIsExact` and `MinFreqIsLeast` say
that the structures agree; `DropsOldest` and `DropsLeastUsed`
compare the eviction with a history of uses; `SetMakesRoom` is about the bound.  LRU's is
restricted to new keys: replacing a value by a larger one leaves the cache over
`maxBytes` until the next new key (LRU.go:53-56).

**Cache lock.**  Even when Gets overlap, `MapHoldsLastSet` and `NeverNil` hold: a
Get returns the value last set for its key, and no assignment dereferences
nil.  `RingWhole` says the list is intact until two moves overlap;
`ConcurrentGetsAreSafe` is the same without that condition and fails.

### Bounds, and why they are enough

- `router`: segments, patterns and paths are finite sets.  The patterns have each kind of
  child beside each other at one node, the backtracking from each kind to
  the next, two expressions that match one text, a name bound twice with a branch that
  fails below, and each reason to refuse, first and last in a pattern; paths have up to three segments over all the
  texts the patterns tell apart.  One method, since trees are independent; two
  handlers, so that one can be mistaken for another.
- `cache_group`: two goroutines are a leader and a waiter, or leaders of two keys; a
  waiter that returns can come again, as the one that arrives later.  `Calls` has
  four elements: a call is in use while a goroutine refers to it or, after a panic,
  its key does, so Threads + Keys never run out, and the call taken is a fixed free
  one, since the specification only compares them.  `MaxVersion = 2` gives an old and a
  new version.  The proofs cover more goroutines, keys and versions.
- `lru`, `lfu`: three keys of two sizes and values of two sizes, so that one Set
  evicts none, one or several entries, or itself; capacities with no bound
  (0), with one entry above it and with none above it.  `MaxFreq = 3` gives three lists, enough for
  `minFreq` to be behind, at and between lists.
- `cache_lock`: three keys in two entries (middle, end and evicted elements).
  `MaxSets = 6` bounds the Sets, and so the elements; `MaxRacySets = 3` bounds them in behaviours
  in which Gets overlap, where the states multiply.  A third reader
  adds no new kind of overlap, and the finding needs two.
- `groups`: the engine's group and two more, in every nesting; three middlewares.
- `server`: `Capacity = MaxFills = 1`, two requests: one too many for the bucket, and
  one more token; two keys, so that one may have a bucket and the other not.  The
  chains have each middleware outside and inside those it interacts with, and two limiters.
- `sessions`: two requests, for one to remove what the other refreshes; two ids, for
  an old and a new login; `Expiration = 2`, so that a refresh can prolong.  Requests
  are reused, so the client may make any number of them.

Symmetry is used over handlers, keys of CacheLock, middlewares, and the requests and
keys of Server, which the specifications only compare; never in a run with a
liveness property (`cache_group`, `sessions`).

### Fairness and deadlock

`FairSpec` of CacheGroup has weak fairness on each goroutine's steps inside `Get`:
the Go scheduler runs a goroutine that can run, `sync.Mutex` does not
starve a waiter, and `GetData` is assumed to return, fail or panic.  Nothing is
assumed of `Get` being called or of the source being written.

`FairSpec` of Sessions has weak fairness on `Tick` alone: time passes for go-cache and
Redis.  Nothing is assumed of the client, of a handler going on or of a
request ending; a session they hold may be refreshed for ever.  The other modules
state no fairness: their properties are safety.

Deadlock is checked except in two runs.  In `cache_group`, all
goroutines may be waiting for keys whose getter panicked, which is what the code does (the
hazard at singleflight.go:32).  In `server` every request comes to its end,
or the process does.

## 4. What is proved

| module | theorems | assumptions |
|---|---|---|
| RouterProofs | `TypeCorrect`, `RouteSpells`, `HandlersAreRegistered`, `ConflictsRefused`, `NodesAreKept`; `FindsTheBest`, `ParametersAreTheLast`, `AnswersAsRegistered` | those of Router and RouteSearch: any methods, segments, patterns, handlers, requests and expressions |
| CacheGroupProofs | `TypeCorrect`, `LeaderIsUnique`, `WaitersAreServed`, `ReadsAreMonotonic`, `CacheIsMonotonic`, `FilledIsFound` | those of CacheGroup: any goroutines, keys, versions, getter outcomes and evictions |
| LRUProofs | `ListAndMapAgree`, `ImplementsBoundedCache`, `OldestAreDropped`, `CountIsExact`, `RoomForTheNew` | those of LRU: any keys, values, sizes and capacities |
| LFUProofs | `TypeCorrect`, `ListsAndMapAgree`, `MinFreqNeverPasses`, `ImplementsBoundedCache`, `LeastUsedAreDropped`, `CountIsExact` | those of LFU, likewise, and any bound on the use counts |
| CacheLockProofs | `NoMoveMeetsNil`, `GetReturnsLastSet`, `LoneGetsAreSafe` | those of CacheLock: any goroutines, keys, capacity and bounds on the Sets |
| GroupsProofs | `TypeCorrect`, `MiddlewaresAreLayered`, `ParentsAreOutside`; `RoutesAreGuarded` for prefixes and paths of plain segments | those of Groups: any texts, prefixes, patterns, paths and middlewares, any number of groups |
| ServerProofs | `TypeCorrect`, `PanicsStayInside`, `PagesAreShown`, `ReportsAreFinal`, `BucketsHold`, `LogIsComplete` | those of Server: any requests, keys, chains of the middlewares, handlers, pages and bucket sizes |
| SessionsProofs | `TypeCorrect`, `RequestsKeepTheirSession`, `LogoutIsKnown`, `GoneStaysGone` | those of Sessions: any requests, ids and expiration, both stores |

Each proof module has its inductive invariant `IInv` and the theorem
`InvariantHolds == Spec => []IInv` or its like, from which the listed ones follow.

**Router.**  `RouteSpellsPath` is not inductive: that a walk writes into an old node the
route it already has needs that its text is the segment's.  For a regexp or
parameter the conflict check says so; for a static or star child only
the slot does.  So `TreeInv` adds `TextFitsSlot`, and `IInv` adds
`HandlersExact`.  `WalkMeetsItsTexts` and `WalkMeetsItsRoute` are the argument
just given, `WalkKeeps` that a walk keeps `TreeInv` and the old nodes, and each
way a call may end is a step lemma on top.  `ConflictsRefused` is a consequence of `IInv` alone:
two accepted routes both lie in the tree, where a position has one text and one
handler.

**Lookup.**  Its theorems are consequences of `IInv`, of which they need that a tree is finite
and that a parameter or star slot has no key (`OneOfAKind`), so that a node has one child of
these kinds.  `OrdersFacts`: every order of the loop has each child that accepts the
text once, better kinds first, and each child is the first of its kind in some order.  `SearchesDef`
and `TryChildrenDef` show that the recursive functions exist, by induction over the set of the
depths, or turns, up to which they do (`UpTo`).  `Settles` is what a call
returns: outcomes that end at the best of the nodes behind it, each such node, or nothing if there
is none; with writes that fit (`WritesFit`).  It is proved from the deepest nodes up
(`SearchSettles`), for one call from those it makes (`NodeSettles`), along the loop
(`LoopOutcomes`, `LoopReaches`).  `KindDecides` is why the loop may stop at the first child
that finds something: behind a child of no better kind there is no better node.
`FoundBehind` and `NothingBehind` are the bookkeeping of the parameters.

**Cache group.**  `Flight` is the exclusion argument: a leader's call is the one
registered for its key, two leaders have two calls, and a waiter's unfinished call
is registered.  It does not depend on the data.  `KeyData` and `ThreadData`
order the versions around a key: what has been returned <= what was last put
in the cache <= what the source holds, and a leader about to fill holds at least
what was put in last, since no other leader of that key ran meanwhile.
`MonotonicReads` cannot be read off the code at one point: it needs
that a waiter's call cannot have finished before its Get began, which is the
last conjunct of `ThreadData`.

**LRU.**  `IInv` is `ListMatchesMap` and that `ll` is a sequence of entries; the
lemmas say what `Without`, `MovedToFront` and the prefix kept by an
eviction do to the keys of a list without duplicates.  For the refinement,
`DroppedFacts` says what of the contents an eviction leaves, and `StepIsAbstract` maps
each operation to the one of BoundedCache.  Two invariants beside it: `Aged`, that the
list is in the order of the history of uses, which makes the dropped tail the oldest
entries, and `Sized`, that `nbytes` is `Cardinality(Bytes(ll))`, from which `SetMakesRoom`
follows: the entries of the kept prefix alone are within `maxBytes`, as is an entry
below the bound with nothing beside it.

**LFU.**  All that matters of the lists is which keys each holds: `HeldAt(lists, f)`.  An
operation changes these sets as it changes the counts of the map (`Match`), however
many lists it makes or drops.  `Least`, that `minFreq` is at most the count of every
list, is what `MinFreqIsLeast` needs besides: a list that `minFreq` names is then
the least.  It does not say that the list exists, because after an eviction it may not; that is
the panic of `lfu_room`, and the reason why BoundedCache has `SetFails`.  `Aged` and `Sized`
are as in LRU, the first for each list.

**Cache lock.**  `NeverNil` and `MapHoldsLastSet` need `Guarded`, that no writer runs beside
a reader, and nothing of the list's order: what a move under way holds is an element of
the list, and elements leave it under the write lock only.  `RingWhole` is about the links.
`Rung`: they are those of a ring through the listed elements, after the assignments
that a lone move has made so far.  In a ring no proper part of the nodes has the root and
is closed under `next`; said in this way it needs no induction along the list.

**Groups.**  `IInv` has three facts of the program: no middleware is used twice (`UsedOnce`),
a group's prefix begins with its parent's (`Parents`), and a routed pattern with its
group's (`RoutedOK`).  The rest is about one state: `WrappedDef` that the recursive function `Wrapped`
exists, by induction over the set of the n up to which it does (`UpTo`), `WrappedFacts` which
middlewares it has and in which order.  A prefix that begins with another one is behind it in
every order the sort may leave, which gives `ParentsAreOutside`.  `RoutesAreGuarded` has two
assumptions, `PlainPrefixes` and `PlainPaths`: prefixes have no parameters and no empty
segments but the first, and requests none but the first and last.  The run `groups` satisfies them, and `groups_param`
shows a program that does not satisfy the first, for which the conclusion is false.

**Server.**  `Movements` sorts the actions by what they do to a request's place, so that
each conjunct is proved for the moves and not for every middleware.  `Contained`: a
panic inside a recover with no panicking one outside of it is still inside of it.
`Reported`: prometheus starts a report only on the way out, and from there on nothing panics
and nothing sets the status.  `Paged`: past an errhandle
with nothing outside of it that sets a status, a request has the page of its status.  `Counted`: the lines of the log are the accesslogs at the places
already left.  `Limits`: tokens and the requests let through add up to at most the capacity
and what was put in.  `Placed`, `Closed` (no span is open outside its
middleware) and `Typed` are what these need.

**Sessions.**  `OwnSession` is inductive with the types and `Lost`: memory does not have a
removed session until somebody stores it again.  `ClientKnows` speaks of the
client at rest; `Known` extends it to its one request under way, whose response says
the last word if it removed what is in the jar.  `GoneForGood` follows for one step from
`Named`: whoever names or holds an id got it from a login, so a fresh login never
brings an old session back.

**Only model-checked.**
- Liveness (`EveryGetReturns`, `ForgottenExpires`): the prover does not do fairness.
- What fails (`TailStarServes`, LFU's `SetMakesRoom`, `ConcurrentGetsAreSafe`) is shown by
  counterexamples.

## 5. Disagreements found

1. `route_tail`: README.md:18 says a final `*` matches several segments.  With
   `/*` and `/:id/k1/:name` registered, `/k2/k1` ends at the inner node
   `/:id/k1`, and is answered 404 (router.go:163-164, 207; server.go `serve`).
2. `lfu_room`: `RemoveOldest` leaves `minFreq` alone when it empties that list, so the second
   eviction of one `Set` dereferences a nil list (LFU.go:134-139).
3. `cache_lock_two`: `Get` moves list elements under a read lock (Cache.go:43,
   LRU.go:47).
4. `groups_param`: a group is selected by its literal prefix, so middlewares
   of a group `/:id` run for no request its routes answer (server.go:92).

One has no run of its own.  Of parameters with one name the last value is to be kept
(router.go:321), but with `/:id/:id/k1` and `/:id/*` registered, `/k2/k2/k3` reaches the
second route without an `id`: the first bound it twice, and `RemoveValue` forgot both (:325).
`ParamsLastWins` excepts such names, as `BoundAgain`.

## 6. What is not modelled

- **Parsing of patterns and regular expressions**: a segment's kind, expression
  and name are given with it, and `MatchString` is a relation between
  expressions and texts.
- **`Childof`** (router.go), an earlier search nobody calls, and
  `handler_based_on_map.go`, an earlier router.
- **A nil handler** given to `Route`.
- **ByteView** (immutable), **templates**, **context input and output** (conversions
  of one request), **main.go**.
- **Upload, download and static files**: sequential I/O of one request.  The static
  handler has a library's cache, but only files below `maxFileSize` go in, nothing sets
  that field (file.go:131, 216), and so the cache stays empty.
- **The group registry**: `GetGroup` calls `RLocker`, which locks nothing, and then
  `RUnlock`, a fatal error on the first call (Group.go:53); nothing in the repository calls
  it.  `NewGroup` alone is an assignment to a map that nothing else reads.
- **The fields of a session**, and the data race on the map they are in
  (memory/store.go:92-103): concurrent Sets end the process or tear the map, and
  nothing holds of the fields then.  Of `Set` the model has what it does to a
  session that is gone.
- **What metrics and spans say**: labels, durations, attributes and the registries they
  go to.
- **Processes that go on after a fatal error**: `log.Fatalln` and the map race of
  `AddBuckets` end the model's process too, and nothing promises that it survives.

## 7. The plan

Order: the modules whose bugs are hardest to test come first.

1. *Modelled.*  Router, RouteSearch, CacheGroup, LRU, LFU, CacheLock, Groups, Server
   with all six middlewares, Sessions.
2. *Proved.*  All the safety properties of Router, RouteSearch, CacheGroup, LRU, LFU, CacheLock, Groups,
   Server and Sessions, and that LRU and LFU implement BoundedCache.
3. *Left to model.*  Groups composed with Server and RouteSearch, for the chain that is
   assembled to be the chain that runs; the caches below CacheGroup instead of
   any eviction, which by the refinements gives no new behaviour.
4. *Left to prove.*  Every safety property a run checks and finds true is a theorem;
   the compositions of item 3 would bring the next ones.
