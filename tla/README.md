# Dynamic Proxy: specifications, model checking and proofs

TLA+ specifications of the dynamic proxy, a TCP/UDP forwarder in Rust on tokio
with pluggable routing, health checking and configuration reload. Paths like
`src/router/manager.rs` are relative to the repository's root.

Sections 1 and 2 are the inventory and the plan, 3 relates the modules to the
code, 4 gives the runs and their bounds, 5 the fairness, 6 the proofs, 7 what
the code was found to do against its documentation, 8 what is left out.

## 1. The system

`main` reads and validates a configuration, initializes the router manager,
fills the health checker and starts the proxy server. Everything then happens
in tokio tasks that share a few maps, each behind an `RwLock` of its own.

| Component | State it keeps | Operations | Called by |
|---|---|---|---|
| RouterManager (`router/manager.rs`) | `rules`, `routers`, `backends_cache`, three RwLocks | `initialize`, `route`, `update_backend_health`, `update_backend_connections`, `get_router_stats`, `get_all_stats`, `reload_config`, `shutdown` | every TCP connection and UDP session (`route`), the health checker (`update_backend_health`), main and the server |
| Router plugins (`router/plugins/*.rs`) | options, a counter (round robin), statistics, a list of backends nobody fills | `initialize`, `select_backend`, `on_backend_health_changed`, `shutdown` | RouterManager, under its locks |
| HealthChecker (`health.rs`) | `running`, `backend_states` | `start`, `stop`, `add_backend`, `remove_backend`; a loop; one task per check | ProxyServer, main; calls RouterManager |
| UdpProxy (`proxy/udp.rs`) | `running`, `active_sessions`, the sockets | `start`, `stop`; the receive loop, a task per datagram, a listener per backend socket, a cleaner | ProxyServer; calls RouterManager |
| TcpProxy (`proxy/tcp.rs`) | `running`, `active_connections`, the listener | `start`, `stop`; the accept loop, a task per connection | ProxyServer; calls RouterManager, MetricsCollector |
| ProxyServer (`proxy/mod.rs`) | `running` | `start`, `stop`, `graceful_shutdown`, `reload_config`, status | main |
| MetricsCollector (`metrics.rs`) | counters, gauges, histograms | record, set, export | the TCP proxy |
| ConfigManager (`config.rs`) | a configuration | `load`, `reload`, `update_router`, `update_rule`, `remove_rule`, `get` | main, once; nobody calls the others |

How they interact: by calls that await locks (RouterManager), by flags that
loops look at from time to time (`running` of the checker and both proxies),
and by tables that tasks read, copy, and write back later (`backend_states`,
`active_sessions`). There are no channels and nothing is persisted: a crash
loses everything, and the process starts from `Init`.

What is hard, and what would make each component correct:

* **RouterManager.** Methods hold up to three locks and take them in different
  orders; a request lets one lock go before it asks for the next. Correct means:
  calls return; rules, routers and cache belong to one configuration whenever
  no load is under way; a request in progress keeps the router it found; the
  first matching rule decides and only available backends are chosen.
* **HealthChecker.** Checks work on copies without a lock, tell the router
  before they write back, and may run in two loops after a restart; reload
  rewrites the flags under them. Correct means: the router's flag follows the
  checker's opinion, dead backends leave, living ones return, and a backend
  that was never down stays.
* **UdpProxy.** Four kinds of tasks write to one table from stale copies, and
  removal goes by the client's address whichever socket it names. Correct means:
  one open socket per client, every session in the table has a listener at work,
  sessions and sockets go away, and the table does not claim traffic that did not
  happen. A socket is open as long as anything holds its `Arc`: its listener, the
  table, a handler's copy.
* **TcpProxy and ProxyServer.** A start can fail at either port with the flags
  set; a stop does not interrupt a loop that waits; connections end in many
  ways. Correct means: what start and stop report is so, connections leave
  nothing behind, stop waits for what it found and yet returns.
* **Plugins.** Selections overlap, on several cores and for several rules of a
  router; the list they are given changes; a counter wraps; u32 sums of weights
  overflow. Correct means: a choice is one the manager counts on, round robin
  takes turns, weights are proportions, every answer is counted once, and an
  overflow is the only reason to answer nobody.
* **ConfigManager and main.** The file is read twice at the start and may be
  written in between; loads overlap. Correct means: what is served was
  validated, older content never replaces newer without a race, a change by
  name changes nothing else.
* **MetricsCollector.** A connection moves a gauge, a counter and a histogram at
  different moments and by different ways out. Correct means: they add up.

`PROJECT.json` lists these behaviours line by line (`hazards`).

## 2. The plan

In order of weight, what is done marked with an x:

- [x] `Routing`: matching, the cache, availability, the plugins' choices.
- [x] `RouterManager` on top of it: locks, all methods, reload.
- [x] `HealthChecker`, with the router's flags.
- [x] `UdpProxy`.
- [x] `TcpProxy` with its metrics, composed into `ProxyServer`.
- [x] `RoutingTable`, a table without locks on which loads and reports are one
  step, and `RouterRefinement`, which shows that RouterManager implements it:
  checked and proved.
- [x] `RouterPlugin`: the five plugins under overlapping selections, on top of
  `WeightedDraw`, the weighted draw in u32; `WeightSums`, the sum it has in common
  with Routing.
- [x] `ConfigManager`, with the start of the program in main.
- [ ] An abstract session table for UdpProxy (a map from clients to sockets with
  open, use and close), as a property of `udp_sessions`.
- [x] Proofs of every safety property the passing runs check.
- [x] Under which conditions the claims hold that the runs of section 7 refute, where
  a condition on the configurations is enough (7.2, 7.3).

## 3. The modules

| Module | Models | Remarks |
|---|---|---|
| `WeightSums` | the sum of weights in `weighted.rs` | operators; a u32 has `U32` values |
| `Routing` | the pure part of `router/` | operators, no variables; extends WeightSums |
| `RouterManager` | `router/manager.rs` | extends Routing |
| `RoutingTable` | what the manager promises | abstract: no locks; extends Routing |
| `RouterRefinement` | | RouterManager with the auxiliary variables that map it to RoutingTable |
| `WeightedDraw` | the draw of `router/plugins/weighted.rs` | extends WeightSums: u32 arithmetic in both build profiles |
| `RouterPlugin` | `router/plugins/*.rs` | extends Routing and WeightedDraw |
| `HealthChecker` | `health.rs` | includes the reset of the flags by a reload |
| `UdpProxy` | `proxy/udp.rs` | |
| `TcpProxy` | `proxy/tcp.rs`, what it uses of `metrics.rs` | the steps of start and stop are called by ProxyServer |
| `ProxyServer` | `proxy/mod.rs` | extends TcpProxy; flags of the other parts |
| `ConfigManager` | `config.rs`, the start in `main.rs` | extends Routing |
| `MC...` | | instances for TLC; `MCRouterManager` (an instance of RouterRefinement), `MCRouterPlugin` and `MCConfigManager` hold the configurations |
| `...Proofs` | | theorems, checked by TLAPS |

Operators marked `MUTANT` in the modules are changed versions of the operator
below them: with one in place the run named in `PROJECT.json` fails, which
shows that the property depends on the line.

**Where actions are cut.** tokio may switch tasks at an `await` and threads
may interleave between locks, so a handler is one action per stretch under a
lock. In RouterManager entering a lock, the code under it and the request for
the next lock while it is held are one action: nothing another task does in
between is visible under the lock. Where a lock is let go first there are two
(`RouteFindRule`, `RouteAskRouters`).

**Routing.** `Choices` gives the positions a plugin may answer with, `Replies` what
`route` may answer then. For the weighted plugin the choices are those of the u32
sum: where it wraps, the backends whose turn comes within what is left, and none
where nothing is left (`NoBackend`). A sum that overflows also has the reply
`Panicked`, that of a dev build. `RouterPlugin` shows the selections themselves to
stay within `Choices` (`PicksAreChoices`).

**RouterManager.** `awaits`, `held` and `queue` are the RwLocks of tokio:
waiters enter in order of arrival, readers together, and a waiting writer holds
later readers back. A task in a call is at one point of its method, given by
the lock it waits for. A configuration gives `rules` and `routers`; only those
that `Config::validate` accepts are passed in, since main validates; a plugin
name that is not registered is accepted by it and is therefore possible. The
order in which a `HashMap` of routers is walked is arbitrary: a load that fails
has inserted any subset of those that can be created. The locks inside the
plugins are taken last and held for a few assignments, and are left out here. Of a
backend the cache keeps id, enabled, weight, healthy and connections;
`max_connections` is None in all entries the code makes.

**RoutingTable and RouterRefinement.** In the abstract table a request has two
looks, one for its rule and one for the router and the backends, and everything
else is one step: a load replaces or extends all three maps at once, a report
changes one flag. The step a load is mapped to is its return. Until then it
holds for writing each map that it has changed, so nobody can see what it wrote;
the auxiliary variables `seen_rules`, `seen_routers` and `seen_cache` keep, per
map, the value that others can see (`Hidden`, `Show`). They restrict no step.

**RouterPlugin and WeightedDraw.** One router with one plugin, used by the rules
of `Rules`. A selection is one action up to its await (`Select`, which for round
robin contains the `fetch_add`), and one for the statistics behind their lock
(`Count`), so selections of several tasks overlap. For the weighted plugin the
first part is the draw: `SelectWeighted` starts it with the weights of the list
(`Begin`), `DrawOn` takes the steps of WeightedDraw (`Sum`, `Draw`, `Scan`: one
weight per step, in u32, which panics on overflow in the dev profile and wraps in
the release profile), and `Drawn` or `Panic` ends it. There is no await in the
draw and it touches nothing shared, so one draw at a time shows all of its
outcomes. Other than selections, `Initialize` (options), `OnBackendHealthChanged`
and `Relist` (the list the manager passes) happen under the manager's write lock,
hence between selections (`Exclusive`). `taken`, `jumps`, `requests` and
`panics` only record.

**HealthChecker.** A backend stands for one `rule:backend` key. A check is
probe (`Retries` attempts, which may be none: `validate` accepts `retries = 0`, and
the check then counts as failed), notify (only when its opinion changed), insert.
`Notify` is the call of `update_backend_health`, which changes the router's flag
when it returns; it may never return (7.1).
The environment's `Flip` takes a backend down and up at any moment. Counts
saturate at `CountBound`, at least both thresholds, above which the code does
not tell them apart; the wrap of u32 after 2^32 checks is not reached.

**UdpProxy.** A session is a record of socket, counts and age, copied as the
code copies it. A socket is `Listening` while its
listener is at work, and open while its listener, the table or a handler's copy
holds it (`HeldFor` gives the open sockets of a client). `Age` lets the five minutes
pass; it does so only for a session without a listener at work, for a listener
either hears within thirty seconds (and refreshes the session) or ends. The receive
loop looks at `running` after a datagram (`ReceiveCheck`) and after an error
(`ReceiveError`, which need not come). `Stop` clears the table also when the proxy is
not running. A start that finds its address in use
fails with `running` set, as in the code. Calls of start and stop do not
overlap, as the server makes them.

**TcpProxy and ProxyServer.** `caller` is the point the server's call has
reached. A call ends with Ok or Err; the Ok of a start that finds `running` set and
does nothing (`proxy/mod.rs:56-58`) is the same Ok. `failed` records which protocol a
start that failed could not bind, until a stop. The port is free when the earlier loop has dropped its listener; a
bind may fail for other reasons too. A connection's copying ends per direction
when the end it reads from has left, or when it writes to one that has; nobody
passes the end on to the other side. A connection raises the gauge and the
total when it enters the table, and at its end leaves the
table, lowers the gauge and observes its duration; each is a step of its own, for
others may look in between. `graceful_shutdown` waits for a count that
is always zero (`get_active_connections_count` returns 0), so it goes straight
to stop.

**ConfigManager.** `main` goes through `from_file`, `validate`, `load`,
`initialize` and `start`, each of which may fail. `load` is cut at its await:
`ReadFile` takes what the file holds and `Store` writes it under the lock, so
loads of several tasks overlap and the administrator's `Edit` comes in between;
content that does not parse is `Unreadable`. After the start `update_router`,
`update_rule`, `remove_rule` and further loads come in any order, as a user of
the manager could call them; in this program nobody does.

## 4. The runs

| Run | Question | Instance | Result |
|---|---|---|---|
| `router_forward` | do calls return? | 3 tasks, methods that take the locks in one order, a configuration whose weights overflow and one with an unknown plugin | holds |
| `router_reload` | are rules, routers and cache consistent, which methods deadlock, and do loads look like one step? | 4 tasks, 2 configurations that share a rule and differ in routers and backends, 5 methods | holds |
| `router_deadlock` | do a request and a health report block each other? | 2 tasks | yes (7.1) |
| `router_torn_read` | does a reload refuse requests? | 2 tasks | yes (7.2) |
| `router_plugin_change` | does a reload change a router's plugin? | 3 configurations | no (7.3) |
| `plugin_selection` | do the plugins choose as they should while selections overlap? | 5 plugins, 2 tasks, 2 clients, 2 rules, 4 lists, u32 of 3 bits, both profiles, 5 selections | holds |
| `health_checks` | does routing follow the backends, and is a dead one taken out over restarts, edits and two loops, as long as the manager answers? | 1 backend, 2 loops, 1 reload, all operations, retries and thresholds 2 | holds |
| `health_reload` | is a dead backend taken out for good over a reload? | 1 backend, 1 loop, 1 reload | no (7.4) |
| `udp_sessions` | are the sessions right while tasks interleave, do listeners end, and do sockets and sessions go away under a cleaner? | 1 client, 2 handlers, 2 sockets, 2 starts, 3 datagrams, 1 answer each | holds |
| `udp_zombie` | is a session gone when its listener has ended? | 1 client, 1 handler, 1 socket, 1 start, 2 datagrams | no (7.5) |
| `server_lifecycle` | do start and stop do what they report, and do connections end and add up? | 2 connections, 2 accept loops, stop looks 2 times | holds |
| `config_loads` | is what is served valid, and do loads and changes keep the rest? | main and 2 callers, 4 files, 2 edits, 3 rules | holds |

What the properties say is stated at each of them in the modules.

**Why the bounds are enough.** In the router each hazard is between two calls,
the chain of waits that `StuckOnlyByInversion` excludes needs a third and a
queue with a writer before a reader a fourth; two configurations suffice for
one load to undo another (in `router_reload` both can be built; a reload that fails
half way is part of the theorems, which hold for any configurations), and the theorems of section 6 do not depend on the
bounds. In the plugins two selections overlap, and two rules with lists of
different lengths share the counter; five selections take it past its wrap
(`CounterSize` is 3, no multiple of two backends); the lists hold three backends,
one without weight, and two whose weights overflow a u32 of three bits (`U32` is
8), one of them to zero; in the router `U32` is 4, and the weights of one rule of
`router_forward` overflow it. Two loops and one backend show
every interference between checks,
because checks of different backends share nothing but the flag `running`. In the UDP proxy clients
share nothing in the table but the cleaner's list, so one client is enough for
everything said per client; two handlers cross, and two sockets let one
listener remove another's entry. Two accept loops are one from before a restart
and one after it, and two looks of stop are one that finds a connection and one
that does not. Two edits let the file be written between the two reads of main,
and again between two loads; two callers overlap.

`CountBound`, `ReloadBound` (health), `HandlerBound`, `SocketBound`, `StartBound`,
`DatagramBound`, `AnswerBound` (UDP), `ConnectionBound`, `StartBound`, `Attempts`
(server), `MaxRequests` (plugins) and `EditBound` (configuration) are the only
bounds, besides the sets of tasks, loops and callers; each stands in the guard of the
action it stops. `Attempts` and `CounterSize` stand for numbers of the code (the
looks of stop, the values of usize) and are small in the runs.

Deadlock checking is off where the system may really stop: the router runs with
methods that block each other; `plugin_selection` and `config_loads`, where the
bounded selections are used up or the start has failed; and `udp_zombie`, where a
stop has ended everything. `Symmetry` (of tasks) is used for `router_reload`,
`CallerSymmetry` for `config_loads` and `MCSymmetry` (of tasks and of rules) for
`plugin_selection`: they check safety only, and treat tasks and rules alike.

## 5. Fairness

* RouterManager (`RFairSpec`): `WF` of the steps of a call. tokio wakes a task
  that has got its lock; new calls (`Begin`) are not fair.
* HealthChecker: `WF` of ticks, round ends, probes and inserts: the interval ticks,
  spawned tasks are run and a probe ends by its timeout. `Notify` is not fair, since
  `update_backend_health` can wait for ever (7.1), and the round, which joins its
  checks, with it. The liveness properties therefore have the hypothesis
  `ManagerAnswers`: no call to the manager stays open for ever. Nothing is
  assumed of `Flip`, nor that anybody calls start or stop.
* UdpProxy: `WF` of the tasks' steps, of `StopClear`, of `Age` (time passes) and of the receive loop's look
  at the flag: every wait in them is a lock or a timeout. Datagrams need not
  arrive, backends need not answer and receiving need not fail.
* ProxyServer: `WF` of the steps of a stop, which therefore returns though
  connections hang. For `LeftConnectionsEnd`, which says that a connection ends
  once both of its ends have left, `WF` of what a connection's task does on
  its own when both have left: reads and writes of closed sockets return.
* ConfigManager: `WF` of main's steps and of the end of a load that has begun; no
  liveness property rests on it.
* WeightedDraw and RouterPlugin state none: every property of them is about safety.

No strong fairness is used.

## 6. The proofs

Proved for every value of the constants, under the assumptions the modules state
(`ConfigsAssumption`: configurations have the types of `Config` and pass
`validate`; `ListsAssumption`: what the manager hands a plugin is available and not
empty; `FilesAssumption`: a file that parses has a list of rules; a u32 has values;
finitely many tasks; `Retries`, thresholds and bounds are naturals), which TLC evaluates in the runs. A
theorem with further hypotheses names them in its statement.

* **RouterManager.** `LocksAreExclusive`: every task is at one of the points of
  its method (`Points` lists method, lock awaited and locks held), and two tasks
  hold a lock together only as readers. `Typing`. `CacheAlwaysFollowsRules`: the
  property says nothing while a load stands between its two writes, so the
  invariant adds that the rules are those of the load's configuration then
  (`LoadsItsRules`), by the exclusion of the writers. `RulesAlwaysHaveRouters`,
  for configurations whose plugins exist and without shutdown.
  `RouterInUseAlwaysStays`.
  `DeadlocksAreInversions`: the queues list exactly the waiters (`QueueInv`), so in a
  deadlock every lock that is awaited has a holder (`HolderOfAwaited`), who waits
  for another lock. Followed from holder to holder through the few points of
  `Points` at which a task waits with a lock in its hands, this leads within three
  steps to two tasks that wait for each other (`MeetAtRouters`, `MeetAtCache`,
  `StuckIsInverted`); the order of the queues and longer chains make no deadlock.
  `UninvertedMethodsNeverStuck` and, for methods by name, `OrderedMethodsNeverStuck`
  follow: it takes `update_backend_health` or `reload_config` to block the manager,
  and 7.1 shows that it can happen.
  `SameRoutersDisturbNoRequest` and `SamePluginsTakeEffect` say when the
  violations of 7.2 and 7.3 cannot happen: in the first the routers only grow
  (`RoutersOnlyGrow`), so a rule found has a router until it is looked up; in the
  second every router runs what each configuration that knows it says.
* **RouterRefinement.** `ManagerImplementsTable`, for any tasks and configurations
  and in spite of the deadlocks. The invariant says of each map that what is seen
  of it is what it holds unless a load hides it, and what a load at each of its
  points has written so far; who reads or reports holds a lock that no load hides,
  by `LocksAreExclusive`. Then every action maps to one step of the table or to
  none, action by action; the returns of the loads carry the weight.
* **Routing.** `FirstMatchIsFirst`. `ChoicesExist`: every plugin has a choice among
  available backends, unless it is the weighted one and the sum of the weights is
  zero as a u32 holds it, after a wrap too (the first place at which the sums
  pass it is a choice otherwise). Lemmas on the cache. Two facts stand in for induction here, which the prover cannot
  instantiate: a set of naturals has a least element (`LeastNatural`), taken of
  the places where a claim fails, and a function given by its first value and its
  steps exists (`PrimitiveRecursion`, by a least place where it stops).
* **WeightedDraw, RouterPlugin.** The sum of weights is described by a function
  of the list (`SumsInv`), the total of a draw is that sum unless it overflowed
  (`TotalInv`), and at each step of the walk the rest of the number drawn is
  what is left after the weights passed (`ScanInv`). From these follow
  `AlwaysDrawsInProportion`, `FallbackIsNeverNeeded` and
  `DrawsFailOnlyByOverflow` for the draw by itself. `PluginDraws` shows
  that the router's specification implies the draw's (each step of the router is
  a step of the draw or leaves it alone), which carries the three over to the
  router: `RouterDrawsInProportion`, `RouterNeverFallsBack`,
  `RouterFailsOnlyByOverflow`. Beyond the draws: `RouterTyping`;
  `AnswersAreAlwaysCounted`, by counting the set of busy tasks step by step;
  `TurnsStayEven`, by ordering the positions of a list by when their turn comes
  (`Rank`): one that comes sooner was not picked oftener, but for the jumps (`Even`),
  whatever the length of the list and wherever the counter wraps; and `PicksAreAlwaysChoices`: what
  the walk has passed and what is left of the number drawn place the pick within the
  sum, wrapped or not, and where a draw ends with None, that sum is zero
  (`TotalIsSum`).
* **HealthChecker.** `Typing`. `NeverDownStaysIn`, which its property states for checks
  that make an attempt (with `retries = 0` it is false), by the invariant that neither
  the table nor any copy holds anything against a backend that was never down
  (`Unblemished`). `RouterAlwaysAgrees`, for a backend that one loop alone has
  checked and nobody edited or reloaded, whatever happens to the others: the copy of
  a check is the table's until it concludes (`AllInStep`) and rounds do not
  overlap (`RoundsEnd`). With a reload it is false (7.4), with two loops not
  claimed.
* **UdpProxy.** `Typing`. `NeverOvercountsHolds`, by `HonestCopies`: no copy, of a
  handler or a listener, claims more than passed its socket, but for the one
  datagram a handler is about to send. `OneSocketAtATime` and
  `SessionsKeepTheirSocket`, by `OrderInv`: for a client whose handlers did not cross,
  one handler is at work; while a socket is held by its listener, the table or a
  handler, the others hold no other; a handler that opens one found no session; what a
  cleaner is about to remove is not the session of a socket with a listener; and
  there is one cleaner until a stop.
* **ProxyServer.** `Typing`. `AtMostOneIsLate` (`LateInv`: a loop in accept has
  taken none since the stop). `StartedAlwaysServes` and `StoppedAlwaysStops`
  (`FlagInv`: the flags at each point of a call; a server that is idle and not
  running has all of its parts off, whatever failed before). An Ok of start, a
  second one's too, means that everything is served but for what `failed` names:
  after a start that failed, the next one reports Ok and what could not be bound
  stays unserved until a stop (7).
  `NothingEverLeaks` and `StopAlwaysWaits` (`TableInv`: table and gauge are the
  connections at certain phases; what stop found is not inserted again).
  `MetricsAlwaysAddUp`: each metric is the number of connections at certain
  phases, and a connection that changes its phase changes these numbers by one
  (`AtStays`, `AtGains`, `AtLoses`).
* **ConfigManager.** `ConfigTyping`. `ServedRulesHaveRouters`: the copy that passed
  `validate` and from which routers were built is the one served.
  `LoadsStoreInOrder`: a load in progress that nobody overtook has a version at
  least as new as the one stored. `CopiesAlwaysAgree`: as long as the file is at
  version zero, whatever was read from it is what it holds.
  `ChangesAlwaysStayLocal`: what `retain` leaves is an increasing selection of the
  positions there were (`WithoutSelects`, which rests on `PrimitiveRecursion`), so
  order and uniqueness carry over; a replaced rule keeps its place and its name, and
  a rule is added only under a name the list does not have.

Only model-checked are the liveness properties (`EveryCallReturns`, `RoutingFollows`,
`DeadIsTakenOut`, `StopEndsChecking`, `ListenersEnd`, `SessionsAreReclaimed`, `StopReturns`,
`LeftConnectionsEnd`), for the prover does not treat liveness under fairness.

## 7. Where the code and its documentation part

1. `router_deadlock`. `update_backend_health` holds the cache and waits for the
   routers (`src/router/manager.rs:288`), `route` holds the routers and waits for the
   cache (`:178`). The two block each other, then everybody.
2. `router_torn_read`. A request that found its rule before a reload fails with
   "Router not found" (`manager.rs:173`), though reload is to work without
   downtime (`README.md:9`). It takes a reload that removes a router
   (`SameRoutersDisturbNoRequest`).
3. `router_plugin_change`. A reload keeps the plugin of a router it knows
   (`manager.rs:387`); other reloads take effect (`SamePluginsTakeEffect`).
4. `health_reload`. A reload declares every backend healthy and the checker, whose
   opinion did not change, never corrects it (`src/proxy/mod.rs:191`).
5. `udp_zombie`. A listener that ends removes its client's entry, "清理会话" (clean up
   the session, `src/proxy/udp.rs:402`), and logs that the session has ended
   (`:408-411`). When it ends before `create_new_session`, which has spawned it, gets to
   its insert (`:340`), the session that ended is in the table afterwards. One
   datagram is enough: its answer cannot be sent on to the client, or receiving fails.
   The insert of `handle_packet` (`:229`) does the same to a later datagram's copy. The
   client's next datagrams go out over a socket nobody reads, until the
   cleaner finds the session idle.

Other sentences of the documentation are contradicted by the code in one place and
at once; no interleaving is needed to see it, and no run is spent on them:

* `README.md:29` and `src/router/plugins/hash.rs:11` promise consistent hashing
  (一致性哈希). The hash is taken modulo the number of available backends, so when
  one of them fails, clients of the others move too.
* `README.md:30`: least connections takes the backend with the fewest current
  connections. Nobody reports connections to the router: all counts stay 0, and
  the first available backend is chosen always.
* `README.md:80-81`: `max_connections` and `connection_timeout` are read and not used.
* `README.md:138`: requests are never recorded. Both proxies record one only when the
  connection or session has a `rule_name` (`src/proxy/tcp.rs:200`,
  `src/proxy/udp.rs:254`), and nobody sets it.
* `README.md:19`: the ConfigManager validates. `from_file` and `load` parse only; main
  validates the first copy it reads, serves it, and gives the manager a second one. A
  reload of the manager validates nothing and tells nobody.

Of the following no line of the documentation says otherwise; the properties are
stated so that they show it:

* With `retries = 0`, which `validate` accepts, a check makes no attempt and counts as
  failed: every backend is taken out. `NeverDownNeverOut` asks for `Retries > 0`.
* A start that failed to bind leaves `running` set, and the next start reports Ok and
  does nothing (`src/proxy/mod.rs:56-58`). `StartedServes` says what such an Ok is worth.
* A handler that inserts its session after a stop has cleared the table leaves it
  there, with its socket open and no cleaner, until the next start's cleaner finds it.
  `SessionsAreReclaimed` asks for a cleaner at work.
* The round robin counter belongs to the router: when two rules use one router,
  each of them may see only some of its backends. `RotatesEvenly` allows for the
  turns the counter takes for another rule.
* Weights that add up beyond u32 panic in a dev build; in a release build the sum
  wraps, and where it wraps to zero nobody is chosen (`FailsOnlyByOverflow`).
* Options of a plugin that a reload leaves out keep their old value.
* Two check loops, as a quick stop and start leaves them, can make router and
  checker disagree; `RouterAgrees` excludes that case. A backend that is dead for good
  is taken out all the same (`DeadIsTakenOut`), one that comes back need not return.
* A TCP connection enters the table after it was accepted, in its own task: a stop
  counts those it finds there, and another may go on after it
  (`StopWaitsForRegistered`).

## 8. What is not modelled

* Addresses, payloads, byte counts, logging, formatting and the metrics'
  export. SNI patterns are the sets of names they accept; no context built by
  the proxies carries an SNI.
* `smooth_weighted` of the weighted plugin: the option is stored, and the choice
  is the same random draw with or without it.
* Operations nobody calls: `update_backends` of the plugins, `MetricsRecorder`, the
  record methods other than those for connections. The `shutdown` of a plugin is
  followed at once by the removal of its router.
* Methods that only read: `get_status`, `get_stats`, `list_...`, `ConfigManager::get`.
  `watch_file` is a stub.
* Limits the code reads and does not enforce: `max_connections`,
  `connection_timeout`.
* Signals, the command line, the build script, containers. SIGHUP shuts the
  process down like the other signals; reload on SIGHUP is announced as planned
  (`README.md:157`), and the timer for automatic reload does nothing.
* A panic inside a task other than that of the weighted draw (the task of a TCP
  connection that panics leaves it in the table), and
  `health_check.interval = 0`, at which tokio's interval panics.
