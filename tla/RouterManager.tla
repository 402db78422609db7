---------------------------- MODULE RouterManager ----------------------------
(***************************************************************************)
(* src/router/manager.rs: the RouterManager that every connection task,    *)
(* every UDP datagram task, the health checker and the administrative      *)
(* calls share.  Its state is three maps, each behind a tokio RwLock of    *)
(* its own.  A method is cut where it awaits one of these locks: entering  *)
(* a lock, the code that runs under it and asking for the next lock while  *)
(* holding it are one action, for nothing another task does in between can *)
(* be seen under the lock.  Where a lock is let go before the next one is  *)
(* asked for (route, after find_matching_rule) there are two actions.      *)
(*                                                                         *)
(* The RwLock is the library's: waiters are served in the order in which   *)
(* they came, readers together, and a waiting writer keeps later readers   *)
(* out.  The locks inside the plugins are taken last, around a few         *)
(* assignments, and are not modelled.                                      *)
(***************************************************************************)
EXTENDS Routing

CONSTANTS
  Tasks,            \* the tokio tasks that call the manager
  Ops,              \* the methods they call
  Configs,          \* the configurations given to initialize and reload_config
  Contexts,         \* the routing contexts of the requests
  Reports,          \* the health reports [rule, id, healthy]
  Loads             \* the connection counts reported [rule, id, connections]

Methods ==
  {"initialize", "route", "update_backend_health", "update_backend_connections",
   "get_stats", "reload_config", "shutdown"}

AllRules == UNION {{c.rules[i] : i \in DOMAIN c.rules} : c \in Configs}
Names == {r.name : r \in AllRules}
Ids == UNION {{r.backends[k].id : k \in DOMAIN r.backends} : r \in AllRules}
RouterNames == UNION {DOMAIN c.routers : c \in Configs}

(* What the types of Config say of the parts the manager works with. *)
WellTyped(c) ==
  /\ c.rules \in Seq(AllRules)
  /\ \A i \in DOMAIN c.rules :
       c.rules[i].backends \in Seq([id : Ids, enabled : BOOLEAN, weight : Nat])
  /\ c.routers \in [DOMAIN c.routers -> STRING]

(* What Config::validate promises: every rule has backends and its router. *)
Valid(c) ==
  \A i \in DOMAIN c.rules : /\ c.rules[i].backends # <<>>
                            /\ c.rules[i].router \in DOMAIN c.routers

ASSUME OpsAssumption == Ops \subseteq Methods
ASSUME ConfigsAssumption == \A c \in Configs : WellTyped(c) /\ Valid(c)
ASSUME LoadsAssumption == \A r \in Loads : r.connections \in Nat
ASSUME ReportsAssumption == \A r \in Reports : r.healthy \in BOOLEAN

VARIABLES
  rules,            \* rules: the ordered routing rules
  routers,          \* routers: from router names to the plugin they run
  backends_cache,   \* backends_cache: from rule names to backends
  call,             \* the method each task is in, with its arguments
  awaits,           \* the lock each task waits for
  queue,            \* the waiters of each lock, in order of arrival
  held,             \* the locks each task holds across its await
  rule,             \* route: the copy of the matching rule
  answer            \* route: what it returned

data == <<rules, routers, backends_cache>>
vars == <<data, call, awaits, queue, held, rule, answer>>

Locks == {"rules", "routers", "backends_cache"}
NoLock == "no lock"
Idle == [op |-> "idle"]
NoRule == [name |-> "no rule"]

Calls ==
  {c \in [op : {"route"}, context : Contexts]
           \cup [op : {"update_backend_health"}, report : Reports]
           \cup [op : {"update_backend_connections"}, load : Loads]
           \cup [op : {"initialize", "reload_config"}, config : Configs]
           \cup [op : {"get_stats", "shutdown"}]
     : c.op \in Ops}

-----------------------------------------------------------------------------
(* The locks. *)

(* The lock each method takes first. *)
FirstLock(op) ==
  CASE op \in {"route", "reload_config"} -> "rules"
    [] op \in {"initialize", "get_stats", "shutdown"} -> "routers"
    [] OTHER -> "backends_cache"

(* A method takes a lock always in the same mode: these are its reads. *)
Reads(op, l) == \/ op \in {"route", "get_stats"}
                \/ op = "update_backend_health" /\ l = "rules"

Compatible(t, u, l) == Reads(call[t].op, l) /\ Reads(call[u].op, l)

(* t, i-th in the queue, may enter: it shares the lock with those who hold *)
(* it and with those who came before.                                      *)
MayEnter(l, i) ==
  LET t == queue[l][i]
  IN  /\ \A u \in Tasks : l \in held[u] => Compatible(t, u, l)
      /\ \A j \in 1 .. i - 1 : Compatible(t, queue[l][j], l)

Granted(t, l) == /\ awaits[t] = l
                 /\ \E i \in DOMAIN queue[l] : queue[l][i] = t /\ MayEnter(l, i)

(* A queue without the one place t has in it. *)
Without(q, t) ==
  LET at == CHOOSE i \in DOMAIN q : q[i] = t
  IN  [i \in 1 .. Len(q) - 1 |-> IF i < at THEN q[i] ELSE q[i + 1]]

(* t, having entered k, keeps it and goes on to wait for l. *)
AwaitNext(t, k, l) ==
  /\ awaits' = [awaits EXCEPT ![t] = l]
  /\ queue' = [queue EXCEPT ![k] = Without(@, t), ![l] = Append(@, t)]
  /\ held' = [held EXCEPT ![t] = @ \cup {k}]
  /\ UNCHANGED call

(* t, having entered k, lets it go and stays in its call. *)
Release(t, k) ==
  /\ awaits' = [awaits EXCEPT ![t] = NoLock]
  /\ queue' = [queue EXCEPT ![k] = Without(@, t)]
  /\ UNCHANGED <<call, held>>

(* t, having entered k, returns: every guard it holds is dropped. *)
Return(t, k) ==
  /\ awaits' = [awaits EXCEPT ![t] = NoLock]
  /\ queue' = [queue EXCEPT ![k] = Without(@, t)]
  /\ held' = [held EXCEPT ![t] = {}]
  /\ call' = [call EXCEPT ![t] = Idle]

In(t, op, l) == call[t].op = op /\ Granted(t, l)

Begin(t) ==
  /\ call[t] = Idle
  /\ \E c \in Calls :
       /\ call' = [call EXCEPT ![t] = c]
       /\ awaits' = [awaits EXCEPT ![t] = FirstLock(c.op)]
       /\ queue' = [queue EXCEPT ![FirstLock(c.op)] = Append(@, t)]
  /\ answer' = [answer EXCEPT ![t] = NoAnswer]
  /\ UNCHANGED <<data, held, rule>>

-----------------------------------------------------------------------------
(* route *)

Answer(t, k, a) ==
  /\ Return(t, k)
  /\ answer' = [answer EXCEPT ![t] = a]
  /\ rule' = [rule EXCEPT ![t] = NoRule]

(* MUTANT: the guard of find_matching_rule lives until route returns. *)
RouteKeepsRules(t) ==
  /\ In(t, "route", "rules")
  /\ IF MatchingRules(rules, call[t].context) # {}
       THEN /\ AwaitNext(t, "rules", "routers")
            /\ rule' = [rule EXCEPT ![t] = FirstMatch(rules, call[t].context)]
            /\ UNCHANGED answer
       ELSE Answer(t, "rules", NoBackend)
  /\ UNCHANGED data

(* find_matching_rule clones the rule and lets the lock go. *)
RouteFindRule(t) ==
  /\ In(t, "route", "rules")
  /\ LET ctx == call[t].context
         found == MatchingRules(rules, ctx) # {}
         match == FirstMatch(rules, ctx)
     IN  IF found /\ match.enabled
           THEN /\ Release(t, "rules")
                /\ rule' = [rule EXCEPT ![t] = match]
                /\ UNCHANGED answer
           ELSE Answer(t, "rules", NoBackend)
  /\ UNCHANGED data

(* Holding no lock, with a rule that may be gone when the lock is asked.   *)
RouteAskRouters(t) ==
  /\ call[t].op = "route" /\ awaits[t] = NoLock
  /\ awaits' = [awaits EXCEPT ![t] = "routers"]
  /\ queue' = [queue EXCEPT !["routers"] = Append(@, t)]
  /\ UNCHANGED <<data, call, held, rule, answer>>

(* MUTANT: the guard on the routers is dropped once the router is found. *)
RouteDropsRouters(t) ==
  /\ In(t, "route", "routers")
  /\ IF rule[t].router \in DOMAIN routers
       THEN /\ awaits' = [awaits EXCEPT ![t] = "backends_cache"]
            /\ queue' = [queue EXCEPT !["routers"] = Without(@, t),
                                      !["backends_cache"] = Append(@, t)]
            /\ UNCHANGED <<call, held, rule, answer>>
       ELSE Answer(t, "routers", RouterNotFound)
  /\ UNCHANGED data

(* MUTANT: a request whose router is gone looks for it again. *)
RouteLooksAgain(t) ==
  /\ In(t, "route", "routers")
  /\ IF rule[t].router \in DOMAIN routers
       THEN AwaitNext(t, "routers", "backends_cache")
       ELSE Release(t, "routers")
  /\ UNCHANGED <<data, rule, answer>>

RouteFindRouter(t) ==
  /\ In(t, "route", "routers")
  /\ IF rule[t].router \in DOMAIN routers
       THEN AwaitNext(t, "routers", "backends_cache") /\ UNCHANGED <<rule, answer>>
       ELSE Answer(t, "routers", RouterNotFound)
  /\ UNCHANGED data

RouteSelect(t) ==
  /\ In(t, "route", "backends_cache")
  /\ LET n == rule[t].name
         bs == IF n \in DOMAIN backends_cache THEN backends_cache[n] ELSE <<>>
     IN  \E a \in Replies(routers[rule[t].router], bs) : Answer(t, "backends_cache", a)
  /\ UNCHANGED data

-----------------------------------------------------------------------------
(* update_backend_health and update_backend_connections *)

UpdateHealthMark(t) ==
  /\ In(t, "update_backend_health", "backends_cache")
  /\ LET r == call[t].report
     IN  backends_cache' =
           [n \in DOMAIN backends_cache |->
              IF n = r.rule THEN SetHealthy(backends_cache[n], r.id, r.healthy)
                            ELSE backends_cache[n]]
  /\ AwaitNext(t, "backends_cache", "rules")
  /\ UNCHANGED <<rules, routers, rule, answer>>

UpdateHealthFindRule(t) ==
  /\ In(t, "update_backend_health", "rules")
  /\ IF call[t].report.rule \in RuleNames(rules)
       THEN AwaitNext(t, "rules", "routers")
       ELSE Return(t, "rules")
  /\ UNCHANGED <<data, rule, answer>>

(* on_backend_health_changed looks the backend up in the plugin's own list *)
(* of backends, which the manager never fills: nothing changes.            *)
UpdateHealthNotify(t) ==
  /\ In(t, "update_backend_health", "routers")
  /\ Return(t, "routers")
  /\ UNCHANGED <<data, rule, answer>>

UpdateConnections(t) ==
  /\ In(t, "update_backend_connections", "backends_cache")
  /\ LET r == call[t].load
     IN  backends_cache' =
           [n \in DOMAIN backends_cache |->
              IF n = r.rule THEN SetConnections(backends_cache[n], r.id, r.connections)
                            ELSE backends_cache[n]]
  /\ Return(t, "backends_cache")
  /\ UNCHANGED <<rules, routers, rule, answer>>

(* get_router_stats and get_all_stats *)
GetStats(t) ==
  /\ In(t, "get_stats", "routers")
  /\ Return(t, "routers")
  /\ UNCHANGED <<data, rule, answer>>

-----------------------------------------------------------------------------
(* initialize and reload_config.  The routers of a configuration are in a  *)
(* HashMap: when one of them cannot be created the call fails having       *)
(* inserted any of the others.                                             *)

(* New routers over the ones there are. *)
Insert(new, plugins) ==
  [n \in DOMAIN routers \cup new |-> IF n \in new THEN plugins[n] ELSE routers[n]]

(* MUTANT: a plugin nobody registered is no error. *)
InitializeAnyRouter(t) ==
  /\ In(t, "initialize", "routers")
  /\ routers' = Insert(DOMAIN call[t].config.routers, call[t].config.routers)
  /\ AwaitNext(t, "routers", "rules")
  /\ UNCHANGED <<rules, backends_cache, rule, answer>>

InitializeRouters(t) ==
  /\ In(t, "initialize", "routers")
  /\ LET c == call[t].config
     IN  \/ /\ Buildable(c)
            /\ routers' = Insert(DOMAIN c.routers, c.routers)
            /\ AwaitNext(t, "routers", "rules")
         \/ /\ ~Buildable(c)
            /\ \E some \in SUBSET Creatable(c) : routers' = Insert(some, c.routers)
            /\ Return(t, "routers")
  /\ UNCHANGED <<rules, backends_cache, rule, answer>>

InitializeRules(t) ==
  /\ In(t, "initialize", "rules")
  /\ rules' = call[t].config.rules
  /\ AwaitNext(t, "rules", "backends_cache")
  /\ UNCHANGED <<routers, backends_cache, rule, answer>>

(* initialize inserts over the entries there are *)
InitializeCache(t) ==
  /\ In(t, "initialize", "backends_cache")
  /\ LET fresh == FreshCache(call[t].config.rules)
     IN  backends_cache' =
           [n \in DOMAIN backends_cache \cup DOMAIN fresh |->
              IF n \in DOMAIN fresh THEN fresh[n] ELSE backends_cache[n]]
  /\ Return(t, "backends_cache")
  /\ UNCHANGED <<rules, routers, rule, answer>>

(* MUTANT: the rules are unlocked before the cache is rebuilt. *)
ReloadUnlocksRules(t) ==
  /\ In(t, "reload_config", "rules")
  /\ rules' = call[t].config.rules
  /\ awaits' = [awaits EXCEPT ![t] = "backends_cache"]
  /\ queue' = [queue EXCEPT !["rules"] = Without(@, t), !["backends_cache"] = Append(@, t)]
  /\ UNCHANGED <<routers, backends_cache, call, held, rule, answer>>

ReloadRules(t) ==
  /\ In(t, "reload_config", "rules")
  /\ rules' = call[t].config.rules
  /\ AwaitNext(t, "rules", "backends_cache")
  /\ UNCHANGED <<routers, backends_cache, rule, answer>>

(* reload_config clears the cache first *)
ReloadCache(t) ==
  /\ In(t, "reload_config", "backends_cache")
  /\ backends_cache' = FreshCache(call[t].config.rules)
  /\ AwaitNext(t, "backends_cache", "routers")
  /\ UNCHANGED <<rules, routers, rule, answer>>

(* MUTANT: routers of the new configuration are not created. *)
ReloadCreatesNone(t) ==
  /\ In(t, "reload_config", "routers")
  /\ routers' = [n \in DOMAIN call[t].config.routers \cap DOMAIN routers |-> routers[n]]
  /\ Return(t, "routers")
  /\ UNCHANGED <<rules, backends_cache, rule, answer>>

(* A router of a known name is initialized again and keeps its plugin.     *)
ReloadRouters(t) ==
  /\ In(t, "reload_config", "routers")
  /\ LET c == call[t].config
         new == DOMAIN c.routers \ DOMAIN routers
     IN  \/ /\ new \subseteq Creatable(c)
            /\ routers' = [n \in DOMAIN c.routers |->
                             IF n \in new THEN c.routers[n] ELSE routers[n]]
         \/ /\ ~(new \subseteq Creatable(c))
            /\ \E some \in SUBSET (new \cap Creatable(c)) :
                 routers' = Insert(some, c.routers)
  /\ Return(t, "routers")
  /\ UNCHANGED <<rules, backends_cache, rule, answer>>

Shutdown(t) ==
  /\ In(t, "shutdown", "routers")
  /\ routers' = <<>>
  /\ Return(t, "routers")
  /\ UNCHANGED <<rules, backends_cache, rule, answer>>

-----------------------------------------------------------------------------
(* main initializes the manager before it shares it; RouterManager::new    *)
(* alone leaves it empty.                                                  *)
Init ==
  /\ \E c \in {EmptyConfig} \cup {k \in Configs : Buildable(k)} :
       /\ rules = c.rules
       /\ routers = c.routers
       /\ backends_cache = FreshCache(c.rules)
  /\ call = [t \in Tasks |-> Idle]
  /\ awaits = [t \in Tasks |-> NoLock]
  /\ queue = [l \in Locks |-> <<>>]
  /\ held = [t \in Tasks |-> {}]
  /\ rule = [t \in Tasks |-> NoRule]
  /\ answer = [t \in Tasks |-> NoAnswer]

Continue(t) ==
  \/ RouteFindRule(t) \/ RouteAskRouters(t) \/ RouteFindRouter(t) \/ RouteSelect(t)
  \/ UpdateHealthMark(t) \/ UpdateHealthFindRule(t) \/ UpdateHealthNotify(t)
  \/ UpdateConnections(t) \/ GetStats(t)
  \/ InitializeRouters(t) \/ InitializeRules(t) \/ InitializeCache(t)
  \/ ReloadRules(t) \/ ReloadCache(t) \/ ReloadRouters(t)
  \/ Shutdown(t)

Next == \E t \in Tasks : Begin(t) \/ Continue(t)

Spec == Init /\ [][Next]_vars

(* tokio polls a task again once the lock it awaits is its own. *)
FairSpec == Spec /\ \A t \in Tasks : WF_vars(Continue(t))

-----------------------------------------------------------------------------
(* Properties *)

RuleTable == {c.rules : c \in Configs} \cup {<<>>}
Answers == Ids \cup {NoAnswer, NoBackend, Panicked, RouterNotFound}
Backends == [id : Ids, enabled : BOOLEAN, weight : Nat,
             healthy : BOOLEAN, connections : Nat]

(* Every variable has its type; a router never runs an unknown plugin. *)
TypeOK ==
  /\ rules \in RuleTable
  /\ DOMAIN routers \subseteq RouterNames
  /\ routers \in [DOMAIN routers -> Plugins]
  /\ DOMAIN backends_cache \subseteq Names
  /\ backends_cache \in [DOMAIN backends_cache -> Seq(Backends)]
  /\ call \in [Tasks -> Calls \cup {Idle}]
  /\ awaits \in [Tasks -> Locks \cup {NoLock}]
  /\ queue \in [Locks -> Seq(Tasks)]
  /\ held \in [Tasks -> SUBSET Locks]
  /\ rule \in [Tasks -> AllRules \cup {NoRule}]
  /\ answer \in [Tasks -> Answers]

(* t has assigned the rules of its configuration and holds them. *)
Loading(t) == /\ call[t].op \in {"initialize", "reload_config"}
              /\ "rules" \in held[t]

(* What a configuration fixes of a backend: not its health, not its load.  *)
Configured(bs) ==
  [k \in DOMAIN bs |-> <<bs[k].id, bs[k].enabled, bs[k].weight>>]

(***************************************************************************)
(* The cache agrees with the rules, although each is behind a lock of its  *)
(* own and a reload writes one, waits, and writes the other while health   *)
(* and connection reports keep writing to the cache: whenever no load      *)
(* stands between its two writes, the entry of every rule lists that       *)
(* rule's backends, in order, as they are configured.                      *)
(***************************************************************************)
CacheFollowsRules ==
  (\A t \in Tasks : Loading(t) => awaits[t] # "backends_cache") =>
    \A n \in RuleNames(rules) :
      /\ n \in DOMAIN backends_cache
      /\ Configured(backends_cache[n]) = Configured(FreshCache(rules)[n])

(***************************************************************************)
(* Outside of a load every rule in the table has its router: reload_config *)
(* removes and creates routers last, after a wait with the new rules       *)
(* already in place.  (For configurations whose plugins all exist, and     *)
(* until a shutdown.)                                                      *)
(***************************************************************************)
RulesHaveRouters ==
  (\A t \in Tasks : ~Loading(t)) =>
    \A i \in DOMAIN rules : rules[i].router \in DOMAIN routers

(***************************************************************************)
(* The router a request found is still there when its backend is selected, *)
(* whatever reloads and shutdowns run meanwhile.                           *)
(***************************************************************************)
RouterInUseStays ==
  \A t \in Tasks :
    call[t].op = "route" /\ awaits[t] = "backends_cache" =>
      rule[t].router \in DOMAIN routers

(* A reload disturbs no request: none is refused for a router that is gone. *)
ReloadDisturbsNoRequest == \A t \in Tasks : answer[t] # RouterNotFound

(* After a load the manager runs the configuration it was given. *)
ConfigurationTakesEffect ==
  (\A t \in Tasks : ~Loading(t)) =>
    \E c \in Configs \cup {EmptyConfig} : rules = c.rules /\ routers = c.routers

(* Every task that is in a call waits for a lock it cannot have. *)
Active == {t \in Tasks : call[t] # Idle}
Blocked(t) == awaits[t] # NoLock /\ \A l \in Locks : ~Granted(t, l)
Stuck == Active # {} /\ \A t \in Active : Blocked(t)

(* The methods never block each other for good. *)
NeverStuck == ~Stuck

WaitsOn(t, u) == \E l \in held[u] : awaits[t] = l /\ ~Compatible(t, u, l)

(* The pairs of methods that take two locks in opposite orders. *)
Inversions ==
  {{"route", "update_backend_health"}, {"route", "reload_config"},
   {"update_backend_health", "reload_config"},
   {"update_backend_health", "initialize"}, {"reload_config", "initialize"}}

(***************************************************************************)
(* When the calls in progress do block each other for good, two of them    *)
(* hold what the other one waits for, and are one of the five pairs above: *)
(* neither the order of the queues nor a chain of three calls adds a       *)
(* deadlock of its own.                                                    *)
(***************************************************************************)
StuckOnlyByInversion ==
  Stuck => \E t, u \in Active :
             /\ WaitsOn(t, u) /\ WaitsOn(u, t)
             /\ {call[t].op, call[u].op} \in Inversions

(* Every call returns: no request or report waits for ever. *)
EveryCallReturns == \A t \in Tasks : call[t] # Idle ~> call[t] = Idle

=============================================================================
