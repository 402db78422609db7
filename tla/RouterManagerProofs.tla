------------------------- MODULE RouterManagerProofs -------------------------
(***************************************************************************)
(* Proofs about RouterManager, for any number of tasks, any configurations *)
(* that Config::validate accepts and any set of methods called.            *)
(***************************************************************************)
EXTENDS RouterManager, RoutingProofs

-----------------------------------------------------------------------------
(* Where a task can stand: its method, the lock it awaits, those it holds. *)
Points ==
  {<<"idle", NoLock, {}>>,
   <<"route", "rules", {}>>, <<"route", NoLock, {}>>, <<"route", "routers", {}>>,
   <<"route", "backends_cache", {"routers"}>>,
   <<"update_backend_health", "backends_cache", {}>>,
   <<"update_backend_health", "rules", {"backends_cache"}>>,
   <<"update_backend_health", "routers", {"backends_cache", "rules"}>>,
   <<"update_backend_connections", "backends_cache", {}>>,
   <<"get_stats", "routers", {}>>, <<"shutdown", "routers", {}>>,
   <<"initialize", "routers", {}>>, <<"initialize", "rules", {"routers"}>>,
   <<"initialize", "backends_cache", {"routers", "rules"}>>,
   <<"reload_config", "rules", {}>>, <<"reload_config", "backends_cache", {"rules"}>>,
   <<"reload_config", "routers", {"rules", "backends_cache"}>>}

LockTypes ==
  /\ call \in [Tasks -> Calls \cup {Idle}]
  /\ awaits \in [Tasks -> Locks \cup {NoLock}]
  /\ held \in [Tasks -> SUBSET Locks]

AtAPoint == \A t \in Tasks : <<call[t].op, awaits[t], held[t]>> \in Points

(* Two tasks hold a lock together only when both read. *)
Exclusive ==
  \A t, u \in Tasks : \A l \in Locks :
    t # u /\ l \in held[t] /\ l \in held[u] => Compatible(t, u, l)

LockInv == LockTypes /\ AtAPoint /\ Exclusive

(* A call is of one of the methods; Idle is of none. *)
LEMMA CallOps == /\ \A c \in Calls : c.op \in Ops /\ c.op \in Methods /\ c # Idle
                 /\ Idle.op = "idle"
BY OpsAssumption DEF Calls, Idle, Methods

(* What the arguments of a call are. *)
LEMMA CallArguments ==
  \A c \in Calls :
    /\ c.op = "update_backend_health" => c.report \in Reports
    /\ c.op = "update_backend_connections" => c.load \in Loads
    /\ c.op \in {"initialize", "reload_config"} => c.config \in Configs
BY DEF Calls

(* One who enters a lock shares it with all who hold it. *)
LEMMA EntryIsCompatible ==
  ASSUME NEW t \in Tasks, NEW l \in Locks, Granted(t, l), NEW u \in Tasks, l \in held[u]
  PROVE  Compatible(t, u, l)
BY DEF Granted, MayEnter

(* The four ways a step moves a task, each from the point it stands at. *)
LEMMA BeginKeepsLockInv ==
  ASSUME LockInv, NEW t \in Tasks, Begin(t)
  PROVE  LockInv'
<1>1. PICK c \in Calls : /\ call' = [call EXCEPT ![t] = c]
                         /\ awaits' = [awaits EXCEPT ![t] = FirstLock(c.op)]
  BY DEF Begin
<1>2. held' = held /\ held[t] = {}
  BY CallOps DEF Begin, LockInv, AtAPoint, Points
<1>3. c.op \in Methods /\ FirstLock(c.op) \in Locks
  BY CallOps DEF FirstLock, Locks
<1>4. LockTypes'
  BY <1>1, <1>2, <1>3 DEF LockInv, LockTypes
<1>5. AtAPoint'
  <2>1. <<c.op, FirstLock(c.op), {}>> \in Points
    BY <1>3 DEF Methods, FirstLock, Points
  <2> QED
    BY <1>1, <1>2, <2>1 DEF LockInv, LockTypes, AtAPoint
<1>6. Exclusive'
  BY <1>1, <1>2 DEF LockInv, LockTypes, Exclusive, Compatible
<1> QED
  BY <1>4, <1>5, <1>6 DEF LockInv

LEMMA ReturnKeepsLockInv ==
  ASSUME LockInv, NEW t \in Tasks, NEW k \in Locks, Return(t, k)
  PROVE  LockInv'
<1>1. LockTypes'
  BY DEF LockInv, LockTypes, Return, Idle
<1>2. AtAPoint'
  BY CallOps DEF LockInv, LockTypes, AtAPoint, Return, Points
<1>3. Exclusive'
  BY DEF LockInv, LockTypes, Exclusive, Compatible, Return
<1> QED
  BY <1>1, <1>2, <1>3 DEF LockInv

LEMMA AwaitNextKeepsLockInv ==
  ASSUME LockInv, NEW t \in Tasks, NEW k \in Locks, NEW l \in Locks,
         Granted(t, k), AwaitNext(t, k, l),
         <<call[t].op, l, held[t] \cup {k}>> \in Points
  PROVE  LockInv'
<1>1. LockTypes'
  BY DEF LockInv, LockTypes, AwaitNext
<1>2. AtAPoint'
  BY DEF LockInv, LockTypes, AtAPoint, AwaitNext
<1>3. ASSUME NEW v \in Tasks, NEW u \in Tasks, NEW m \in Locks,
             v # u, m \in held'[v], m \in held'[u]
      PROVE  Compatible(v, u, m)'
  <2>1. \A w \in Tasks : w # t => held'[w] = held[w]
    BY DEF LockInv, LockTypes, AwaitNext
  <2>2. held'[t] = held[t] \cup {k}
    BY DEF LockInv, LockTypes, AwaitNext
  <2>3. call' = call
    BY DEF AwaitNext
  <2>4. Compatible(v, u, m)
    <3>1. CASE m # k \/ (v # t /\ u # t)
      BY <1>3, <2>1, <2>2, <3>1 DEF LockInv, Exclusive
    <3>2. CASE m = k /\ v = t
      BY <1>3, <2>1, <3>2, EntryIsCompatible
    <3>3. CASE m = k /\ u = t
      <4>1. Compatible(t, v, k)
        BY <1>3, <2>1, <3>3, EntryIsCompatible
      <4> QED
        BY <4>1, <3>3 DEF Compatible
    <3> QED
      BY <3>1, <3>2, <3>3
  <2> QED
    BY <2>3, <2>4 DEF Compatible
<1> QED
  BY <1>1, <1>2, <1>3 DEF LockInv, Exclusive

LEMMA LockInvStep == LockInv /\ [Next]_vars => LockInv'
<1> SUFFICES ASSUME LockInv, [Next]_vars PROVE LockInv'
  OBVIOUS
<1>1. CASE UNCHANGED vars
  BY <1>1 DEF LockInv, LockTypes, AtAPoint, Exclusive, Compatible, vars
<1>2. ASSUME NEW t \in Tasks, Begin(t) PROVE LockInv'
  BY <1>2, BeginKeepsLockInv
<1>3. ASSUME NEW t \in Tasks, Continue(t) PROVE LockInv'
  <2> USE <1>3
  <2> "rules" \in Locks /\ "routers" \in Locks /\ "backends_cache" \in Locks
    BY DEF Locks
  <2>0. \A op, l : In(t, op, l) => /\ call[t].op = op /\ awaits[t] = l
                                   /\ Granted(t, l)
                                   /\ <<op, l, held[t]>> \in Points
    BY DEF In, Granted, LockInv, AtAPoint
  <2>1. ASSUME NEW k \in Locks, Return(t, k) PROVE LockInv'
    BY <2>1, ReturnKeepsLockInv
  <2>2. ASSUME NEW op, NEW k \in Locks, NEW l \in Locks, In(t, op, k), AwaitNext(t, k, l),
               <<op, k, l>> \in {<<"route", "routers", "backends_cache">>,
                                 <<"update_backend_health", "backends_cache", "rules">>,
                                 <<"update_backend_health", "rules", "routers">>,
                                 <<"initialize", "routers", "rules">>,
                                 <<"initialize", "rules", "backends_cache">>,
                                 <<"reload_config", "rules", "backends_cache">>,
                                 <<"reload_config", "backends_cache", "routers">>}
        PROVE  LockInv'
    <3>1. <<op, l, held[t] \cup {k}>> \in Points
      BY <2>0, <2>2 DEF Points
    <3> QED
      BY <2>0, <2>2, <3>1, AwaitNextKeepsLockInv
  <2>3. CASE RouteFindRule(t)
    <3>1. CASE Return(t, "rules")
      BY <2>1, <3>1
    <3>2. CASE Release(t, "rules")
      <4>1. call[t].op = "route" /\ held[t] = {}
        BY <2>0, <2>3 DEF RouteFindRule, Points
      <4> QED
        BY <3>2, <4>1 DEF Release, LockInv, LockTypes, AtAPoint, Exclusive, Compatible, Points
    <3> QED
      BY <2>3, <3>1, <3>2 DEF RouteFindRule, Answer
  <2>4. CASE RouteAskRouters(t)
    <3>1. call[t].op = "route" /\ held[t] = {}
      BY <2>4 DEF RouteAskRouters, LockInv, AtAPoint, Points, NoLock
    <3> QED
      BY <2>4, <3>1 DEF RouteAskRouters, LockInv, LockTypes, AtAPoint, Exclusive, Compatible, Points
  <2>5. CASE RouteFindRouter(t)
    BY <2>1, <2>2, <2>5 DEF RouteFindRouter, Answer
  <2>6. CASE RouteSelect(t)
    BY <2>1, <2>6 DEF RouteSelect, Answer
  <2>7. CASE UpdateHealthMark(t)
    BY <2>2, <2>7 DEF UpdateHealthMark
  <2>8. CASE UpdateHealthFindRule(t)
    BY <2>1, <2>2, <2>8 DEF UpdateHealthFindRule
  <2>9. CASE UpdateHealthNotify(t) \/ UpdateConnections(t) \/ GetStats(t) \/ Shutdown(t)
             \/ InitializeCache(t) \/ ReloadRouters(t)
    BY <2>1, <2>9 DEF UpdateHealthNotify, UpdateConnections, GetStats, Shutdown,
                      InitializeCache, ReloadRouters
  <2>10. CASE InitializeRouters(t)
    BY <2>1, <2>2, <2>10 DEF InitializeRouters
  <2>11. CASE InitializeRules(t)
    BY <2>2, <2>11 DEF InitializeRules
  <2>12. CASE ReloadRules(t)
    BY <2>2, <2>12 DEF ReloadRules
  <2>13. CASE ReloadCache(t)
    BY <2>2, <2>13 DEF ReloadCache
  <2> QED
    BY <1>3, <2>3, <2>4, <2>5, <2>6, <2>7, <2>8, <2>9, <2>10, <2>11, <2>12, <2>13
       DEF Continue
<1> QED
  BY <1>1, <1>2, <1>3 DEF Next

(* The locks do what RwLocks do, and every guard is dropped when its call   *)
(* returns: no path through the methods leaks one.                         *)
THEOREM LocksAreExclusive == Spec => []LockInv
<1>1. Init => LockInv
  BY CallOps DEF Init, LockInv, LockTypes, AtAPoint, Exclusive, Points
<1> QED
  BY <1>1, LockInvStep, PTL DEF Spec

-----------------------------------------------------------------------------
(* Leaving a queue takes one place out of it. *)
LEMMA WithoutIsShorter ==
  ASSUME NEW S, NEW q \in Seq(S), NEW t, \E i \in DOMAIN q : q[i] = t
  PROVE  /\ Without(q, t) \in Seq(S)
         /\ Len(Without(q, t)) = Len(q) - 1
         /\ \E at \in DOMAIN q :
              /\ q[at] = t
              /\ Without(q, t) = [i \in 1 .. Len(q) - 1 |-> IF i < at THEN q[i] ELSE q[i + 1]]
<1> DEFINE at == CHOOSE i \in DOMAIN q : q[i] = t
           w == [i \in 1 .. Len(q) - 1 |-> IF i < at THEN q[i] ELSE q[i + 1]]
<1>1. at \in DOMAIN q /\ q[at] = t
  OBVIOUS
<1>2. Without(q, t) = w
  BY DEF Without
<1> HIDE DEF at
<1>3. DOMAIN q = 1 .. Len(q) /\ Len(q) \in Nat
  OBVIOUS
<1>4. \A i \in 1 .. Len(q) - 1 : w[i] \in S
  BY <1>3
<1>5. Len(q) - 1 \in Nat
  BY <1>1, <1>3
<1>6. w \in Seq(S) /\ Len(w) = Len(q) - 1
  BY <1>4, <1>5
<1> QED
  BY <1>1, <1>2, <1>6

LEMMA ConfigTypes ==
  ASSUME NEW c \in Configs
  PROVE  /\ c.rules \in RuleTable
         /\ \A i \in DOMAIN c.rules : c.rules[i] \in AllRules
         /\ RuleNames(c.rules) \subseteq Names
         /\ DOMAIN FreshCache(c.rules) = RuleNames(c.rules)
         /\ FreshCache(c.rules) \in [RuleNames(c.rules) -> Seq(Backends)]
         /\ DOMAIN c.routers \subseteq RouterNames
<1>1. WellTyped(c)
  BY ConfigsAssumption
<1>2. Backends = Entries(Ids)
  BY DEF Backends, Entries
<1>3. /\ DOMAIN FreshCache(c.rules) = RuleNames(c.rules)
      /\ FreshCache(c.rules) \in [RuleNames(c.rules) -> Seq(Backends)]
  BY <1>1, <1>2, FreshCacheType DEF WellTyped, BackendConfigs
<1>4. \A i \in DOMAIN c.rules : c.rules[i] \in AllRules
  BY DEF AllRules
<1> QED
  BY <1>3, <1>4 DEF RuleTable, RuleNames, Names, RouterNames

LEMMA EmptyTypes ==
  /\ FreshCache(<<>>) \in [{} -> Seq(Backends)]
  /\ DOMAIN FreshCache(<<>>) = {}
  /\ DOMAIN EmptyConfig.routers = {}
  /\ EmptyConfig.routers \in [{} -> Plugins]
  /\ RuleNames(<<>>) = {}
<1>1. DOMAIN <<>> = {} /\ RuleNames(<<>>) = {}
  BY DEF RuleNames
<1> QED
  BY <1>1 DEF FreshCache, EmptyConfig

(* The parts of the type that are about the data. *)
DataTypes ==
  /\ rules \in RuleTable
  /\ DOMAIN routers \subseteq RouterNames
  /\ routers \in [DOMAIN routers -> Plugins]
  /\ DOMAIN backends_cache \subseteq Names
  /\ backends_cache \in [DOMAIN backends_cache -> Seq(Backends)]

LEMMA DataTypesInit == Init => DataTypes
<1> SUFFICES ASSUME Init PROVE DataTypes
  OBVIOUS
<1>1. PICK c \in {EmptyConfig} \cup {k \in Configs : Buildable(k)} :
        /\ rules = c.rules
        /\ routers = c.routers
        /\ backends_cache = FreshCache(c.rules)
  BY DEF Init
<1>2. CASE c = EmptyConfig
  <2>1. rules = <<>>
    BY <1>1, <1>2 DEF EmptyConfig
  <2> QED
    BY <1>1, <1>2, <2>1, EmptyTypes DEF DataTypes, RuleTable
<1>3. CASE c \in Configs /\ Buildable(c)
  <2>1. WellTyped(c)
    BY <1>3, ConfigsAssumption
  <2>2. routers \in [DOMAIN routers -> Plugins]
    BY <1>1, <1>3, <2>1 DEF WellTyped, Buildable, Creatable
  <2> QED
    BY <1>1, <1>3, <2>2, ConfigTypes DEF DataTypes
<1> QED
  BY <1>1, <1>2, <1>3

LEMMA InsertTypes ==
  ASSUME DataTypes, NEW c \in Configs, NEW some, some \subseteq Creatable(c)
  PROVE  /\ DOMAIN Insert(some, c.routers) = DOMAIN routers \cup some
         /\ DOMAIN Insert(some, c.routers) \subseteq RouterNames
         /\ Insert(some, c.routers) \in [DOMAIN Insert(some, c.routers) -> Plugins]
<1>1. some \subseteq DOMAIN c.routers /\ \A n \in some : c.routers[n] \in Plugins
  BY DEF Creatable
<1> QED
  BY <1>1, ConfigTypes DEF Insert, DataTypes

LEMMA DataTypesStep ==
  ASSUME LockInv, DataTypes, [Next]_vars
  PROVE  DataTypes'
<1>1. CASE UNCHANGED data
  BY <1>1 DEF DataTypes, data
<1>2. ASSUME NEW t \in Tasks, Continue(t) PROVE DataTypes'
  <2> USE <1>2
  <2>0. call[t] \in Calls \/ call[t] = Idle
    BY DEF LockInv, LockTypes
  <2>a. ASSUME call[t].op \in {"initialize", "reload_config"}
        PROVE  call[t].config \in Configs
    BY <2>0, <2>a, CallOps, CallArguments
  <2>1. CASE UpdateHealthMark(t)
    <3>1. call[t].report \in Reports
      BY <2>0, <2>1, CallOps, CallArguments DEF UpdateHealthMark, In
    <3>2. \A bs \in Seq(Backends) :
            SetHealthy(bs, call[t].report.id, call[t].report.healthy) \in Seq(Backends)
      BY <3>1, ReportsKeepEntries, ReportsAssumption DEF Backends, Entries
    <3> QED
      BY <2>1, <3>2 DEF UpdateHealthMark, DataTypes
  <2>2. CASE UpdateConnections(t)
    <3>1. call[t].load \in Loads
      BY <2>0, <2>2, CallOps, CallArguments DEF UpdateConnections, In
    <3>2. \A bs \in Seq(Backends) :
            SetConnections(bs, call[t].load.id, call[t].load.connections) \in Seq(Backends)
      BY <3>1, ReportsKeepEntries, LoadsAssumption DEF Backends, Entries
    <3> QED
      BY <2>2, <3>2 DEF UpdateConnections, DataTypes
  <2>3. CASE InitializeRouters(t)
    <3>1. call[t].config \in Configs
      BY <2>3, <2>a DEF InitializeRouters, In
    <3>2. PICK some \in SUBSET Creatable(call[t].config) :
                 routers' = Insert(some, call[t].config.routers)
      BY <2>3 DEF InitializeRouters, Buildable
    <3> QED
      BY <2>3, <3>1, <3>2, InsertTypes DEF InitializeRouters, DataTypes
  <2>4. CASE InitializeRules(t) \/ ReloadRules(t)
    <3>1. call[t].config \in Configs
      BY <2>4, <2>a DEF InitializeRules, ReloadRules, In
    <3> QED
      BY <2>4, <3>1, ConfigTypes DEF InitializeRules, ReloadRules, DataTypes
  <2>5. CASE InitializeCache(t) \/ ReloadCache(t)
    <3>1. call[t].config \in Configs
      BY <2>5, <2>a DEF InitializeCache, ReloadCache, In
    <3>2. CASE InitializeCache(t)
      BY <3>1, <3>2, ConfigTypes DEF InitializeCache, DataTypes
    <3>3. CASE ReloadCache(t)
      BY <3>1, <3>3, ConfigTypes DEF ReloadCache, DataTypes
    <3> QED
      BY <2>5, <3>2, <3>3
  <2>6. CASE ReloadRouters(t)
    <3> DEFINE c == call[t].config
               new == DOMAIN c.routers \ DOMAIN routers
    <3>1. c \in Configs
      BY <2>6, <2>a DEF ReloadRouters, In
    <3> HIDE DEF c
    <3>2. CASE /\ new \subseteq Creatable(c)
               /\ routers' = [n \in DOMAIN c.routers |->
                               IF n \in new THEN c.routers[n] ELSE routers[n]]
      <4>1. \A n \in DOMAIN c.routers : routers'[n] \in Plugins
        BY <3>2 DEF Creatable, DataTypes
      <4>2. routers' \in [DOMAIN routers' -> Plugins] /\ DOMAIN routers' \subseteq RouterNames
        BY <3>1, <3>2, <4>1, ConfigTypes
      <4> QED
        BY <2>6, <4>2 DEF ReloadRouters, DataTypes
    <3>3. CASE \E some \in SUBSET (new \cap Creatable(c)) : routers' = Insert(some, c.routers)
      BY <2>6, <3>1, <3>3, InsertTypes DEF ReloadRouters, DataTypes
    <3> QED
      BY <2>6, <3>2, <3>3 DEF ReloadRouters, c
  <2>7. CASE Shutdown(t)
    <3>1. routers' = EmptyConfig.routers
      BY <2>7 DEF Shutdown, EmptyConfig
    <3> QED
      BY <2>7, <3>1, EmptyTypes DEF Shutdown, DataTypes
  <2>8. CASE UNCHANGED data
    BY <2>8 DEF DataTypes, data
  <2> QED
    BY <1>2, <2>1, <2>2, <2>3, <2>4, <2>5, <2>6, <2>7, <2>8
       DEF Continue, RouteFindRule, RouteAskRouters, RouteFindRouter, RouteSelect,
           UpdateHealthFindRule, UpdateHealthNotify, GetStats
<1>3. ASSUME NEW t \in Tasks, Begin(t) PROVE DataTypes'
  BY <1>1, <1>3 DEF Begin
<1> QED
  BY <1>1, <1>2, <1>3 DEF Next, vars

-----------------------------------------------------------------------------
(* The queues, the rule a route works with and its answer. *)
CallDataTypes ==
  /\ queue \in [Locks -> Seq(Tasks)]
  /\ rule \in [Tasks -> AllRules \cup {NoRule}]
  /\ answer \in [Tasks -> Answers]

LEMMA QueueMoves ==
  ASSUME queue \in [Locks -> Seq(Tasks)], NEW t \in Tasks, NEW k \in Locks, Granted(t, k)
  PROVE  /\ Without(queue[k], t) \in Seq(Tasks)
         /\ Return(t, k) \/ Release(t, k) => queue' \in [Locks -> Seq(Tasks)]
         /\ \A l \in Locks : AwaitNext(t, k, l) => queue' \in [Locks -> Seq(Tasks)]
<1>1. Without(queue[k], t) \in Seq(Tasks)
  BY WithoutIsShorter DEF Granted
<1>2. \A q \in Seq(Tasks) : Append(q, t) \in Seq(Tasks)
  OBVIOUS
<1>3. Return(t, k) \/ Release(t, k) => queue' \in [Locks -> Seq(Tasks)]
  BY <1>1 DEF Return, Release
<1>4. ASSUME NEW l \in Locks, AwaitNext(t, k, l)
      PROVE  queue' \in [Locks -> Seq(Tasks)]
  <2>1. Append(queue[l], t) \in Seq(Tasks)
    BY <1>2
  <2> QED
    BY <1>1, <1>4, <2>1 DEF AwaitNext
<1> QED
  BY <1>1, <1>3, <1>4

LEMMA RouteSelectAnswers ==
  ASSUME DataTypes, NEW t \in Tasks, RouteSelect(t)
  PROVE  \E a \in Ids \cup {NoBackend, Panicked} : Answer(t, "backends_cache", a)
<1> DEFINE n == rule[t].name
           bs == IF n \in DOMAIN backends_cache THEN backends_cache[n] ELSE <<>>
<1>1. bs \in Seq(Entries(Ids))
  <2>1. Backends = Entries(Ids)
    BY DEF Backends, Entries
  <2> QED
    BY <2>1 DEF DataTypes
<1>2. PICK a \in Replies(routers[rule[t].router], bs) : Answer(t, "backends_cache", a)
  BY DEF RouteSelect
<1> HIDE DEF bs
<1>3. a \in Ids \cup {NoBackend, Panicked}
  BY <1>1, RepliesAreIds
<1> QED
  BY <1>2, <1>3

LEMMA CallDataTypesStep ==
  ASSUME LockInv, DataTypes, CallDataTypes, [Next]_vars
  PROVE  CallDataTypes'
<1>1. CASE UNCHANGED vars
  BY <1>1 DEF CallDataTypes, vars
<1>2. ASSUME NEW t \in Tasks, Begin(t) PROVE CallDataTypes'
  <2>1. PICK c \in Calls : queue' = [queue EXCEPT ![FirstLock(c.op)] = Append(@, t)]
    BY <1>2 DEF Begin
  <2>2. \A q \in Seq(Tasks) : Append(q, t) \in Seq(Tasks)
    OBVIOUS
  <2> QED
    BY <1>2, <2>1, <2>2 DEF Begin, CallDataTypes, Answers
<1>3. ASSUME NEW t \in Tasks, Continue(t) PROVE CallDataTypes'
  <2> USE <1>3
  <2> "rules" \in Locks /\ "routers" \in Locks /\ "backends_cache" \in Locks
    BY DEF Locks
  <2>1. \A op, k : In(t, op, k) => Granted(t, k)
    BY DEF In
  <2>2. CASE RouteFindRule(t)
    <3>1. queue' \in [Locks -> Seq(Tasks)]
      BY <2>1, <2>2, QueueMoves DEF RouteFindRule, Answer, CallDataTypes
    <3>2. MatchingRules(rules, call[t].context) # {} =>
            FirstMatch(rules, call[t].context) \in AllRules
      <4>1. rules \in Seq(AllRules)
        <5>1. \A c \in Configs : c.rules \in Seq(AllRules)
          BY ConfigsAssumption DEF WellTyped
        <5>2. <<>> \in Seq(AllRules)
          OBVIOUS
        <5> QED
          BY <5>1, <5>2 DEF DataTypes, RuleTable
      <4> QED
        BY <4>1, FirstMatchIsFirst
    <3> QED
      BY <2>2, <3>1, <3>2 DEF RouteFindRule, Answer, CallDataTypes, Answers
  <2>3. CASE RouteAskRouters(t)
    <3>1. \A q \in Seq(Tasks) : Append(q, t) \in Seq(Tasks)
      OBVIOUS
    <3> QED
      BY <2>3, <3>1 DEF RouteAskRouters, CallDataTypes
  <2>4. CASE RouteFindRouter(t)
    BY <2>1, <2>4, QueueMoves DEF RouteFindRouter, Answer, CallDataTypes, Answers
  <2>5. CASE RouteSelect(t)
    <3>1. answer' \in [Tasks -> Answers]
      BY <2>5, RouteSelectAnswers DEF CallDataTypes, Answer, Answers
    <3> QED
      BY <2>1, <2>5, <3>1, QueueMoves DEF RouteSelect, Answer, CallDataTypes
  <2>6. ASSUME NEW k \in Locks, Granted(t, k), UNCHANGED <<rule, answer>>,
               Return(t, k) \/ \E l \in Locks : AwaitNext(t, k, l)
        PROVE  CallDataTypes'
    BY <2>6, QueueMoves DEF CallDataTypes
  <2>7. CASE UpdateHealthMark(t) \/ UpdateHealthFindRule(t) \/ UpdateHealthNotify(t)
             \/ UpdateConnections(t) \/ GetStats(t) \/ Shutdown(t)
    BY <2>1, <2>6, <2>7 DEF UpdateHealthMark, UpdateHealthFindRule, UpdateHealthNotify,
       UpdateConnections, GetStats, Shutdown
  <2>8. CASE InitializeRouters(t) \/ InitializeRules(t) \/ InitializeCache(t)
    BY <2>1, <2>6, <2>8 DEF InitializeRouters, InitializeRules, InitializeCache
  <2>9. CASE ReloadRules(t) \/ ReloadCache(t) \/ ReloadRouters(t)
    BY <2>1, <2>6, <2>9 DEF ReloadRules, ReloadCache, ReloadRouters
  <2> QED
    BY <1>3, <2>2, <2>3, <2>4, <2>5, <2>7, <2>8, <2>9 DEF Continue
<1> QED
  BY <1>1, <1>2, <1>3 DEF Next

(* Type correctness, for every step of every method. *)
THEOREM Typing == Spec => []TypeOK
<1>1. Init => LockInv /\ DataTypes /\ CallDataTypes
  <2>1. Init => LockInv
    BY CallOps DEF Init, LockInv, LockTypes, AtAPoint, Exclusive, Points
  <2>2. Init => CallDataTypes
    BY DEF Init, CallDataTypes, Answers
  <2> QED
    BY <2>1, <2>2, DataTypesInit
<1>2. LockInv /\ DataTypes /\ CallDataTypes /\ [Next]_vars
        => (LockInv /\ DataTypes /\ CallDataTypes)'
  BY LockInvStep, DataTypesStep, CallDataTypesStep
<1>3. LockInv /\ DataTypes /\ CallDataTypes => TypeOK
  BY DEF LockInv, LockTypes, DataTypes, CallDataTypes, TypeOK
<1> QED
  BY <1>1, <1>2, <1>3, PTL DEF Spec

-----------------------------------------------------------------------------
(***************************************************************************)
(* CacheFollowsRules is not inductive: it says nothing while a load stands *)
(* between its two writes, and the second write must restore it.  What is  *)
(* missing is that the rules are still those of the load's configuration   *)
(* then, which the write lock it keeps guarantees.                         *)
(***************************************************************************)
LoadsItsRules == \A t \in Tasks : Loading(t) => rules = call[t].config.rules

LoadInv == LockInv /\ DataTypes /\ LoadsItsRules

(* A task that may write the rules finds nobody else in a load. *)
LEMMA OneLoader ==
  ASSUME LockInv, NEW t \in Tasks, call[t].op \in {"initialize", "reload_config"},
         Granted(t, "rules") \/ Loading(t)
  PROVE  \A u \in Tasks : "rules" \in held[u] => u = t
<1> "rules" \in Locks
  BY DEF Locks
<1>1. \A u : ~Compatible(t, u, "rules")
  BY DEF Compatible, Reads
<1> QED
  BY <1>1, EntryIsCompatible DEF LockInv, Exclusive, Loading

(* How a step of t changes who is loading. *)
LEMMA LoadersMove ==
  ASSUME LockInv, NEW t \in Tasks, Begin(t) \/ Continue(t)
  PROVE  /\ \A u \in Tasks : u # t => /\ call'[u] = call[u]
                                      /\ awaits'[u] = awaits[u]
                                      /\ held'[u] = held[u]
         /\ ~(InitializeRules(t) \/ ReloadRules(t)) =>
               /\ Loading(t)' => Loading(t) /\ call'[t] = call[t]
               /\ Loading(t) /\ awaits[t] = "backends_cache" =>
                    \/ InitializeCache(t) \/ ReloadCache(t)
<1>1. ASSUME NEW k \in Locks, Return(t, k) \/ Release(t, k) \/ \E l \in Locks : AwaitNext(t, k, l)
      PROVE  \A u \in Tasks : u # t => /\ call'[u] = call[u]
                                      /\ awaits'[u] = awaits[u]
                                      /\ held'[u] = held[u]
  BY <1>1 DEF LockInv, LockTypes, Return, Release, AwaitNext
<1> "rules" \in Locks /\ "routers" \in Locks /\ "backends_cache" \in Locks
  BY DEF Locks
<1>2. <<call[t].op, awaits[t], held[t]>> \in Points
  BY DEF LockInv, AtAPoint
<1>3. CASE Begin(t)
  BY <1>2, <1>3, CallOps DEF Begin, LockInv, LockTypes, Loading, Points
<1>4. CASE RouteFindRule(t) \/ RouteFindRouter(t) \/ RouteSelect(t)
  BY <1>1, <1>4, CallOps DEF RouteFindRule, RouteFindRouter, RouteSelect, In, Answer,
     Return, Release, AwaitNext, Loading, LockInv, LockTypes
<1>5. CASE RouteAskRouters(t)
  BY <1>5 DEF RouteAskRouters, Loading, LockInv, LockTypes
<1>6. CASE UpdateHealthMark(t) \/ UpdateHealthFindRule(t) \/ UpdateHealthNotify(t)
           \/ UpdateConnections(t) \/ GetStats(t) \/ Shutdown(t)
  BY <1>1, <1>6, CallOps DEF UpdateHealthMark, UpdateHealthFindRule, UpdateHealthNotify,
     UpdateConnections, GetStats, Shutdown, In, Return, AwaitNext, Loading, LockInv, LockTypes
<1>7. CASE InitializeRouters(t)
  <2>1. call[t].op = "initialize" /\ held[t] = {} /\ awaits[t] = "routers"
    BY <1>2, <1>7 DEF InitializeRouters, In, Granted, Points
  <2> QED
    BY <1>1, <1>7, <2>1, CallOps DEF InitializeRouters, Return, AwaitNext, Loading,
       LockInv, LockTypes
<1>8. CASE InitializeRules(t) \/ ReloadRules(t)
  BY <1>1, <1>8 DEF InitializeRules, ReloadRules
<1>9. CASE InitializeCache(t) \/ ReloadCache(t)
  BY <1>1, <1>9, CallOps DEF InitializeCache, ReloadCache, Return, AwaitNext, Loading,
     LockInv, LockTypes, In, Granted
<1>10. CASE ReloadRouters(t)
  <2>1. awaits[t] = "routers"
    BY <1>10 DEF ReloadRouters, In, Granted
  <2> QED
    BY <1>1, <1>10, <2>1, CallOps DEF ReloadRouters, Return, Loading, LockInv, LockTypes
<1> QED
  BY <1>3, <1>4, <1>5, <1>6, <1>7, <1>8, <1>9, <1>10 DEF Continue

LEMMA LoadInvStep == LoadInv /\ [Next]_vars => LoadInv'
<1> SUFFICES ASSUME LoadInv, [Next]_vars PROVE LoadsItsRules'
  BY LockInvStep, DataTypesStep DEF LoadInv
<1>1. CASE UNCHANGED vars
  BY <1>1 DEF LoadInv, LoadsItsRules, Loading, vars, data
<1>2. ASSUME NEW t \in Tasks, Begin(t) \/ Continue(t) PROVE LoadsItsRules'
  <2>1. CASE InitializeRules(t) \/ ReloadRules(t)
    <3>1. \A u \in Tasks : Loading(u)' => u = t
      BY <1>2, <2>1, OneLoader, LoadersMove
         DEF InitializeRules, ReloadRules, In, LoadInv, Loading
    <3>2. rules' = call[t].config.rules /\ call' = call
      BY <2>1 DEF InitializeRules, ReloadRules, AwaitNext
    <3> QED
      BY <3>1, <3>2 DEF LoadsItsRules
  <2>2. CASE ~(InitializeRules(t) \/ ReloadRules(t))
    <3>1. rules' = rules
      BY <1>2, <2>2 DEF Begin, Continue, RouteFindRule, RouteAskRouters, RouteFindRouter,
         RouteSelect, UpdateHealthMark, UpdateHealthFindRule, UpdateHealthNotify,
         UpdateConnections, GetStats, Shutdown, InitializeRouters, InitializeCache,
         ReloadCache, ReloadRouters, data
    <3>2. \A u \in Tasks : Loading(u)' => Loading(u) /\ call'[u] = call[u]
      BY <1>2, <2>2, LoadersMove DEF LoadInv, Loading
    <3> QED
      BY <3>1, <3>2 DEF LoadInv, LoadsItsRules
  <2> QED
    BY <2>1, <2>2
<1> QED
  BY <1>1, <1>2 DEF Next

(* The cache agrees with the rules rs. *)
Agrees(c, rs) == \A n \in RuleNames(rs) :
                   n \in DOMAIN c /\ Configured(c[n]) = Configured(FreshCache(rs)[n])

LEMMA ReportsKeepConfigured ==
  ASSUME NEW bs \in Seq(Backends), NEW id, NEW flag \in BOOLEAN, NEW n \in Nat
  PROVE  /\ Configured(SetHealthy(bs, id, flag)) = Configured(bs)
         /\ Configured(SetConnections(bs, id, n)) = Configured(bs)
<1>1. Backends = Entries(Ids)
  BY DEF Backends, Entries
<1> DEFINE h == SetHealthy(bs, id, flag)
           g == SetConnections(bs, id, n)
<1>2. /\ DOMAIN h = DOMAIN bs /\ DOMAIN g = DOMAIN bs
      /\ \A k \in DOMAIN bs : /\ h[k].id = bs[k].id /\ g[k].id = bs[k].id
                              /\ h[k].enabled = bs[k].enabled /\ g[k].enabled = bs[k].enabled
                              /\ h[k].weight = bs[k].weight /\ g[k].weight = bs[k].weight
  BY <1>1, ReportsKeepEntries
<1> HIDE DEF h, g
<1> QED
  BY <1>2 DEF Configured, h, g

LEMMA ReportsKeepAgreement ==
  ASSUME LockInv, DataTypes, Agrees(backends_cache, rules), NEW t \in Tasks,
         UpdateHealthMark(t) \/ UpdateConnections(t)
  PROVE  Agrees(backends_cache', rules)
<1>0. call[t] \in Calls \/ call[t] = Idle
  BY DEF LockInv, LockTypes
<1>1. \A n \in DOMAIN backends_cache : backends_cache[n] \in Seq(Backends)
  BY DEF DataTypes
<1>2. CASE UpdateHealthMark(t)
  <2>1. call[t].report.healthy \in BOOLEAN
    BY <1>0, <1>2, CallOps, CallArguments, ReportsAssumption DEF UpdateHealthMark, In
  <2>2. /\ DOMAIN backends_cache' = DOMAIN backends_cache
        /\ \A n \in DOMAIN backends_cache :
             Configured(backends_cache'[n]) = Configured(backends_cache[n])
    BY <1>1, <1>2, <2>1, ReportsKeepConfigured DEF UpdateHealthMark
  <2> QED
    BY <2>2 DEF Agrees
<1>3. CASE UpdateConnections(t)
  <2>1. call[t].load.connections \in Nat
    BY <1>0, <1>3, CallOps, CallArguments, LoadsAssumption DEF UpdateConnections, In
  <2>2. /\ DOMAIN backends_cache' = DOMAIN backends_cache
        /\ \A n \in DOMAIN backends_cache :
             Configured(backends_cache'[n]) = Configured(backends_cache[n])
    BY <1>1, <1>3, <2>1, ReportsKeepConfigured DEF UpdateConnections
  <2> QED
    BY <2>2 DEF Agrees
<1> QED
  BY <1>2, <1>3

LEMMA CacheFollowsRulesStep ==
  LoadInv /\ CacheFollowsRules /\ [Next]_vars => CacheFollowsRules'
<1> SUFFICES ASSUME LoadInv, CacheFollowsRules, [Next]_vars PROVE CacheFollowsRules'
  OBVIOUS
<1> DEFINE Between == \E u \in Tasks : Loading(u) /\ awaits[u] = "backends_cache"
<1>0. /\ CacheFollowsRules <=> (~Between => Agrees(backends_cache, rules))
      /\ CacheFollowsRules' <=> (~Between' => Agrees(backends_cache, rules)')
  BY DEF CacheFollowsRules, Agrees
<1>1. CASE UNCHANGED vars
  BY <1>1 DEF CacheFollowsRules, Loading, vars, data
<1>2. ASSUME NEW t \in Tasks, Begin(t) \/ Continue(t) PROVE CacheFollowsRules'
  <2>1. CASE InitializeRules(t) \/ ReloadRules(t)
    <3>1. Loading(t)' /\ awaits'[t] = "backends_cache"
      BY <2>1 DEF InitializeRules, ReloadRules, In, AwaitNext, Loading, LoadInv,
         LockInv, LockTypes
    <3> QED
      BY <1>0, <3>1
  <2>2. CASE InitializeCache(t) \/ ReloadCache(t)
    <3>1. Loading(t)
      BY <2>2 DEF InitializeCache, ReloadCache, In, Granted, Loading, LoadInv, LockInv,
         AtAPoint, Points
    <3>2. rules' = rules /\ rules = call[t].config.rules /\ call[t].config \in Configs
      BY <2>2, <3>1, CallArguments, CallOps
         DEF InitializeCache, ReloadCache, LoadInv, LoadsItsRules, Loading, LockInv, LockTypes
    <3>3. DOMAIN FreshCache(rules) = RuleNames(rules)
      BY <3>2, ConfigTypes
    <3>4. \A n \in RuleNames(rules) :
            n \in DOMAIN backends_cache' /\ backends_cache'[n] = FreshCache(rules)[n]
      BY <2>2, <3>2, <3>3 DEF InitializeCache, ReloadCache
    <3>5. Agrees(backends_cache', rules')
      BY <3>2, <3>4 DEF Agrees
    <3> QED
      BY <1>0, <3>5
  <2>3. CASE ~(InitializeRules(t) \/ ReloadRules(t) \/ InitializeCache(t) \/ ReloadCache(t))
    <3>1. Between => Between'
      BY <1>2, <2>3, LoadersMove DEF LoadInv, Loading
    <3>2. rules' = rules
      BY <1>2, <2>3 DEF Begin, Continue, RouteFindRule, RouteAskRouters, RouteFindRouter,
         RouteSelect, UpdateHealthMark, UpdateHealthFindRule, UpdateHealthNotify,
         UpdateConnections, GetStats, Shutdown, InitializeRouters, ReloadRouters, data
    <3>3. CASE UpdateHealthMark(t) \/ UpdateConnections(t)
      BY <1>0, <3>1, <3>2, <3>3, ReportsKeepAgreement DEF LoadInv
    <3>4. CASE ~(UpdateHealthMark(t) \/ UpdateConnections(t))
      <4>1. backends_cache' = backends_cache
        BY <1>2, <2>3, <3>4 DEF Begin, Continue, RouteFindRule, RouteAskRouters,
           RouteFindRouter, RouteSelect, UpdateHealthFindRule, UpdateHealthNotify,
           GetStats, Shutdown, InitializeRouters, ReloadRouters, data
      <4> QED
        BY <1>0, <3>1, <3>2, <4>1 DEF Agrees
    <3> QED
      BY <3>3, <3>4
  <2> QED
    BY <2>1, <2>2, <2>3
<1> QED
  BY <1>1, <1>2 DEF Next

LEMMA LoadInvInit == Init => LoadInv /\ CacheFollowsRules
<1> SUFFICES ASSUME Init PROVE LoadInv /\ CacheFollowsRules
  OBVIOUS
<1>1. LockInv
  BY CallOps DEF Init, LockInv, LockTypes, AtAPoint, Exclusive, Points
<1>2. \A t \in Tasks : ~Loading(t)
  BY DEF Init, Loading
<1>3. Agrees(backends_cache, rules)
  <2>1. backends_cache = FreshCache(rules)
    BY DEF Init
  <2>2. DOMAIN FreshCache(rules) = RuleNames(rules)
    BY DEF FreshCache
  <2> QED
    BY <2>1, <2>2 DEF Agrees
<1> QED
  BY <1>1, <1>2, <1>3, DataTypesInit DEF LoadInv, LoadsItsRules, CacheFollowsRules, Agrees

(* Cache and rules agree, whatever loads and reports run concurrently.     *)
THEOREM CacheAlwaysFollowsRules == Spec => []CacheFollowsRules
<1>1. LoadInv /\ CacheFollowsRules /\ [Next]_vars => (LoadInv /\ CacheFollowsRules)'
  BY LoadInvStep, CacheFollowsRulesStep
<1> QED
  BY <1>1, LoadInvInit, PTL DEF Spec

-----------------------------------------------------------------------------
(***************************************************************************)
(* Every rule keeps a router.  While an initialize waits for the rules it  *)
(* already counts on the routers it put there: the write lock on them,     *)
(* which it keeps, is what stops a reload from removing them.              *)
(***************************************************************************)
InitializeKeepsRouters ==
  \A t \in Tasks : call[t].op = "initialize" /\ "routers" \in held[t] =>
                     DOMAIN call[t].config.routers \subseteq DOMAIN routers

Covered == \A i \in DOMAIN rules : rules[i].router \in DOMAIN routers

LEMMA RoutersStep ==
  ASSUME \A c \in Configs : Buildable(c), "shutdown" \notin Ops,
         LoadInv, RulesHaveRouters, InitializeKeepsRouters, [Next]_vars
  PROVE  RulesHaveRouters' /\ InitializeKeepsRouters'
<1> DEFINE Quiet == \A u \in Tasks : ~Loading(u)
<1>0. /\ RulesHaveRouters <=> (Quiet => Covered)
      /\ RulesHaveRouters' <=> (Quiet' => Covered')
  BY DEF RulesHaveRouters, Covered
<1>1. CASE UNCHANGED vars
  BY <1>1 DEF RulesHaveRouters, InitializeKeepsRouters, Loading, vars, data
<1>2. ASSUME NEW t \in Tasks, Begin(t) \/ Continue(t)
      PROVE  RulesHaveRouters' /\ InitializeKeepsRouters'
  <2> "rules" \in Locks /\ "routers" \in Locks /\ "backends_cache" \in Locks
    BY DEF Locks
  <2>0. /\ <<call[t].op, awaits[t], held[t]>> \in Points
        /\ call[t] \in Calls \/ call[t] = Idle
        /\ call[t].op # "shutdown"
    BY CallOps DEF LoadInv, LockInv, LockTypes, AtAPoint
  <2>1. \A u \in Tasks : u # t => /\ call'[u] = call[u]
                                 /\ awaits'[u] = awaits[u]
                                 /\ held'[u] = held[u]
    BY <1>2, LoadersMove DEF LoadInv
  <2>2. ASSUME call[t].op \in {"initialize", "reload_config"}
        PROVE  call[t].config \in Configs
    BY <2>0, <2>2, CallOps, CallArguments
  <2>3. CASE InitializeRouters(t)
    <3> DEFINE c == call[t].config
    <3>1. /\ c \in Configs /\ Buildable(c)
          /\ routers' = Insert(DOMAIN c.routers, c.routers)
          /\ rules' = rules /\ call' = call
      BY <2>2, <2>3 DEF InitializeRouters, In, AwaitNext
    <3>2. DOMAIN routers' = DOMAIN routers \cup DOMAIN c.routers
      BY <3>1 DEF Insert
    <3>3. Quiet' => Quiet
      <4>1. held[t] = {}
        BY <2>0, <2>3 DEF InitializeRouters, In, Granted, Points
      <4> QED
        BY <2>1, <4>1 DEF Loading
    <3>4. RulesHaveRouters'
      BY <1>0, <3>1, <3>2, <3>3 DEF Covered
    <3>5. InitializeKeepsRouters'
      BY <2>1, <3>1, <3>2 DEF InitializeKeepsRouters
    <3> QED
      BY <3>4, <3>5
  <2>4. CASE InitializeRules(t) \/ ReloadRules(t)
    <3>1. Loading(t)'
      BY <2>4 DEF InitializeRules, ReloadRules, In, AwaitNext, Loading, LoadInv,
         LockInv, LockTypes
    <3>2. call' = call /\ routers' = routers /\ held' = [held EXCEPT ![t] = @ \cup {"rules"}]
      BY <2>4 DEF InitializeRules, ReloadRules, AwaitNext
    <3> QED
      BY <1>0, <3>1, <3>2 DEF InitializeKeepsRouters, LoadInv, LockInv, LockTypes
  <2>5. CASE InitializeCache(t)
    <3> DEFINE c == call[t].config
    <3>1. "routers" \in held[t] /\ Loading(t) /\ c \in Configs
      BY <2>0, <2>2, <2>5 DEF InitializeCache, In, Granted, Points, Loading
    <3>2. rules = c.rules /\ DOMAIN c.routers \subseteq DOMAIN routers /\ Valid(c)
      BY <2>5, <3>1, ConfigsAssumption
         DEF LoadInv, LoadsItsRules, InitializeKeepsRouters, InitializeCache, In
    <3>3. Covered'
      BY <2>5, <3>2 DEF Covered, Valid, InitializeCache
    <3>4. InitializeKeepsRouters'
      BY <2>1, <2>5, CallOps DEF InitializeKeepsRouters, InitializeCache, Return,
         LoadInv, LockInv, LockTypes
    <3> QED
      BY <1>0, <3>3, <3>4
  <2>6. CASE ReloadCache(t)
    <3>1. Loading(t)' /\ call' = call /\ call[t].op = "reload_config" /\ routers' = routers
      BY <2>0, <2>6 DEF ReloadCache, In, Granted, Points, AwaitNext, Loading, LoadInv,
         LockInv, LockTypes
    <3> QED
      BY <1>0, <2>1, <3>1 DEF InitializeKeepsRouters
  <2>7. CASE ReloadRouters(t)
    <3> DEFINE c == call[t].config
    <3>1. Loading(t) /\ c \in Configs
      BY <2>0, <2>2, <2>7 DEF ReloadRouters, In, Granted, Points, Loading
    <3>2. rules' = rules /\ rules = c.rules /\ Valid(c) /\ Buildable(c)
      BY <2>7, <3>1, ConfigsAssumption DEF LoadInv, LoadsItsRules, ReloadRouters
    <3>3. DOMAIN routers' = DOMAIN c.routers
      <4>1. DOMAIN c.routers \ DOMAIN routers \subseteq Creatable(c)
        BY <3>2 DEF Buildable
      <4>2. routers' = [n \in DOMAIN c.routers |->
                          IF n \in DOMAIN c.routers \ DOMAIN routers
                            THEN c.routers[n] ELSE routers[n]]
        BY <2>7, <4>1 DEF ReloadRouters
      <4> QED
        BY <4>2
    <3>4. Covered'
      BY <3>2, <3>3 DEF Covered, Valid
    <3>5. \A u \in Tasks : u # t => ~("routers" \in held[u])
      BY <2>7, EntryIsCompatible DEF ReloadRouters, In, Compatible, Reads
    <3>6. InitializeKeepsRouters'
      BY <2>1, <2>7, <3>5, CallOps DEF InitializeKeepsRouters, ReloadRouters, Return,
         LoadInv, LockInv, LockTypes
    <3> QED
      BY <1>0, <3>4, <3>6
  <2>8. CASE ~(\/ InitializeRouters(t) \/ InitializeRules(t) \/ ReloadRules(t)
               \/ InitializeCache(t) \/ ReloadCache(t) \/ ReloadRouters(t))
    <3>1. ~Shutdown(t)
      BY <2>0 DEF Shutdown, In
    <3>2. rules' = rules /\ routers' = routers
      BY <1>2, <2>8, <3>1 DEF Begin, Continue, RouteFindRule, RouteAskRouters,
         RouteFindRouter, RouteSelect, UpdateHealthMark, UpdateHealthFindRule,
         UpdateHealthNotify, UpdateConnections, GetStats, data
    <3>3. ~Loading(t) /\ (call'[t].op = "initialize" => ~("routers" \in held'[t]))
      <4>1. CASE Begin(t)
        BY <2>0, <4>1, CallOps DEF Begin, Loading, Points
      <4>2. CASE Continue(t)
        <5>1. call[t].op \notin {"initialize", "reload_config"}
          BY <2>8, <3>1, <4>2 DEF Continue, RouteFindRule, RouteAskRouters, RouteFindRouter,
             RouteSelect, UpdateHealthMark, UpdateHealthFindRule, UpdateHealthNotify,
             UpdateConnections, GetStats, In
        <5>2. call'[t] = call[t] \/ call'[t] = Idle
          BY <2>8, <3>1, <4>2 DEF Continue, RouteFindRule, RouteAskRouters, RouteFindRouter,
             RouteSelect, UpdateHealthMark, UpdateHealthFindRule, UpdateHealthNotify,
             UpdateConnections, GetStats, Answer, Return, Release, AwaitNext,
             LoadInv, LockInv, LockTypes
        <5> QED
          BY <5>1, <5>2, CallOps DEF Loading
      <4> QED
        BY <1>2, <4>1, <4>2
    <3>4. Quiet' => Quiet
      BY <2>1, <3>3 DEF Loading
    <3> QED
      BY <1>0, <2>1, <3>2, <3>3, <3>4 DEF Covered, InitializeKeepsRouters
  <2> QED
    BY <2>3, <2>4, <2>5, <2>6, <2>7, <2>8
<1> QED
  BY <1>1, <1>2 DEF Next

(* No rule outlives its router, as long as the plugins exist and nothing    *)
(* shuts the manager down.                                                 *)
THEOREM RulesAlwaysHaveRouters ==
  ASSUME \A c \in Configs : Buildable(c), "shutdown" \notin Ops
  PROVE  Spec => []RulesHaveRouters
<1>1. Init => RulesHaveRouters /\ InitializeKeepsRouters
  <2> SUFFICES ASSUME Init PROVE RulesHaveRouters /\ InitializeKeepsRouters
    OBVIOUS
  <2>1. PICK c \in {EmptyConfig} \cup Configs : rules = c.rules /\ routers = c.routers
    BY DEF Init
  <2>2. Covered
    <3>1. CASE c = EmptyConfig
      BY <2>1, <3>1 DEF EmptyConfig, Covered
    <3>2. CASE c \in Configs
      BY <2>1, <3>2, ConfigsAssumption DEF Valid, Covered
    <3> QED
      BY <3>1, <3>2
  <2> QED
    BY <2>2 DEF Init, RulesHaveRouters, InitializeKeepsRouters, Covered
<1>2. /\ LoadInv /\ RulesHaveRouters /\ InitializeKeepsRouters
      /\ [Next]_vars
      => (LoadInv /\ RulesHaveRouters /\ InitializeKeepsRouters)'
  BY LoadInvStep, RoutersStep
<1>3. Init => LoadInv
  BY LoadInvInit
<1> QED
  BY <1>1, <1>2, <1>3, PTL DEF Spec

-----------------------------------------------------------------------------
(* The plugin a route selects with cannot be taken away while it waits for *)
(* the cache: it reads the routers until it returns.                       *)
THEOREM RouterInUseAlwaysStays == Spec => []RouterInUseStays
<1>1. Init => RouterInUseStays
  BY DEF Init, RouterInUseStays, Idle
<1>2. LoadInv /\ CallDataTypes /\ RouterInUseStays /\ [Next]_vars => RouterInUseStays'
  <2> SUFFICES ASSUME LoadInv, CallDataTypes, RouterInUseStays, [Next]_vars,
                      NEW u \in Tasks, call'[u].op = "route", awaits'[u] = "backends_cache"
               PROVE  rule'[u].router \in DOMAIN routers'
    BY DEF RouterInUseStays
  <2>1. CASE UNCHANGED vars
    BY <2>1 DEF RouterInUseStays, vars, data
  <2>2. ASSUME NEW t \in Tasks, Begin(t) \/ Continue(t)
        PROVE  rule'[u].router \in DOMAIN routers'
    <3> "routers" \in Locks
      BY DEF Locks
    <3>1. CASE u = t
      <4>1. CASE Begin(t)
        BY <3>1, <4>1, CallOps DEF Begin, FirstLock, LoadInv, LockInv, LockTypes
      <4>2. CASE Continue(t) /\ ~RouteFindRouter(t)
        <5>1. call'[t] = Idle \/ call[t].op # "route" \/ awaits'[t] # "backends_cache"
          BY <4>2 DEF Continue, RouteFindRule, RouteAskRouters, RouteSelect, UpdateHealthMark,
             UpdateHealthFindRule, UpdateHealthNotify, UpdateConnections, GetStats, Shutdown,
             InitializeRouters, InitializeRules, InitializeCache, ReloadRules, ReloadCache,
             ReloadRouters, In, Answer, Return, Release, LoadInv, LockInv, LockTypes, NoLock
        <5>2. call'[t] = Idle \/ call'[t] = call[t]
          BY <4>2 DEF Continue, RouteFindRule, RouteAskRouters, RouteSelect, UpdateHealthMark,
             UpdateHealthFindRule, UpdateHealthNotify, UpdateConnections, GetStats, Shutdown,
             InitializeRouters, InitializeRules, InitializeCache, ReloadRules, ReloadCache,
             ReloadRouters, Answer, Return, Release, AwaitNext, LoadInv, LockInv, LockTypes
        <5> QED
          BY <3>1, <5>1, <5>2, CallOps
      <4>3. CASE RouteFindRouter(t)
        BY <3>1, <4>3, CallOps DEF RouteFindRouter, Answer, Return, data, LoadInv, LockInv,
           LockTypes
      <4> QED
        BY <2>2, <4>1, <4>2, <4>3
    <3>2. CASE u # t
      <4>1. call[u].op = "route" /\ awaits[u] = "backends_cache"
        BY <2>2, <3>2, LoadersMove DEF LoadInv
      <4>2. rule[u].router \in DOMAIN routers /\ "routers" \in held[u]
        <5>1. <<call[u].op, awaits[u], held[u]>> \in Points
          BY DEF LoadInv, LockInv, AtAPoint
        <5>2. "routers" \in held[u]
          BY <4>1, <5>1 DEF Points, NoLock
        <5> QED
          BY <4>1, <5>2 DEF RouterInUseStays
      <4>3. rule'[u] = rule[u]
        BY <2>2, <3>2 DEF Begin, Continue, RouteFindRule, RouteAskRouters, RouteFindRouter,
           RouteSelect, UpdateHealthMark, UpdateHealthFindRule, UpdateHealthNotify,
           UpdateConnections, GetStats, Shutdown, InitializeRouters, InitializeRules,
           InitializeCache, ReloadRules, ReloadCache, ReloadRouters, Answer, CallDataTypes
      <4>4. ~ReloadRouters(t) /\ ~Shutdown(t)
        BY <4>2, EntryIsCompatible DEF ReloadRouters, Shutdown, In, Compatible, Reads
      <4>5. DOMAIN routers \subseteq DOMAIN routers'
        <5>1. CASE InitializeRouters(t)
          BY <5>1 DEF InitializeRouters, Insert
        <5>2. CASE ~InitializeRouters(t)
          BY <2>2, <4>4, <5>2 DEF Begin, Continue, RouteFindRule, RouteAskRouters,
             RouteFindRouter, RouteSelect, UpdateHealthMark, UpdateHealthFindRule,
             UpdateHealthNotify, UpdateConnections, GetStats, InitializeRules,
             InitializeCache, ReloadRules, ReloadCache, data
        <5> QED
          BY <5>1, <5>2
      <4> QED
        BY <4>2, <4>3, <4>5
    <3> QED
      BY <3>1, <3>2
  <2> QED
    BY <2>1, <2>2 DEF Next
<1>3. LoadInv /\ CallDataTypes /\ [Next]_vars => LoadInv' /\ CallDataTypes'
  BY LoadInvStep, CallDataTypesStep DEF LoadInv
<1>4. Init => LoadInv /\ CallDataTypes
  BY LoadInvInit DEF Init, CallDataTypes, Answers
<1> QED
  BY <1>1, <1>2, <1>3, <1>4, PTL DEF Spec

-----------------------------------------------------------------------------
(* Every queue lists exactly the tasks that await its lock, once each, so  *)
(* that somebody is first.                                                 *)
Lists(q, S) == /\ q \in Seq(Tasks)
               /\ \A i \in DOMAIN q : q[i] \in S
               /\ \A t \in S : \E i \in DOMAIN q : q[i] = t
               /\ \A i, j \in DOMAIN q : q[i] = q[j] => i = j

QueueInv == \A l \in Locks : Lists(queue[l], {t \in Tasks : awaits[t] = l})

LEMMA AppendLists ==
  ASSUME NEW q, NEW S, Lists(q, S), NEW t \in Tasks, t \notin S
  PROVE  Lists(Append(q, t), S \cup {t})
<1> DEFINE a == Append(q, t)
<1>1. /\ a \in Seq(Tasks) /\ Len(a) = Len(q) + 1 /\ Len(q) \in Nat
      /\ DOMAIN q = 1 .. Len(q) /\ DOMAIN a = 1 .. Len(q) + 1
      /\ \A i \in 1 .. Len(q) : a[i] = q[i]
      /\ a[Len(q) + 1] = t
  BY DEF Lists
<1> HIDE DEF a
<1>2. \A i \in DOMAIN a : a[i] \in S \cup {t}
  BY <1>1 DEF Lists
<1>3. \A u \in S \cup {t} : \E i \in DOMAIN a : a[i] = u
  BY <1>1 DEF Lists
<1>4. \A i, j \in DOMAIN a : a[i] = a[j] => i = j
  <2> SUFFICES ASSUME NEW i \in DOMAIN a, NEW j \in DOMAIN a, a[i] = a[j] PROVE i = j
    OBVIOUS
  <2>1. CASE i \in 1 .. Len(q) /\ j \in 1 .. Len(q)
    BY <1>1, <2>1 DEF Lists
  <2>2. CASE i = Len(q) + 1 \/ j = Len(q) + 1
    BY <1>1, <2>2 DEF Lists
  <2> QED
    BY <1>1, <2>1, <2>2
<1> QED
  BY <1>1, <1>2, <1>3, <1>4 DEF Lists, a

LEMMA WithoutLists ==
  ASSUME NEW q, NEW S, Lists(q, S), NEW t \in S
  PROVE  Lists(Without(q, t), S \ {t})
<1>1. q \in Seq(Tasks) /\ Len(q) \in Nat /\ DOMAIN q = 1 .. Len(q)
  BY DEF Lists
<1>2. /\ \A i \in DOMAIN q : q[i] \in S
      /\ \A u \in S : \E i \in DOMAIN q : q[i] = u
      /\ \A i, j \in DOMAIN q : q[i] = q[j] => i = j
  BY DEF Lists
<1>3. /\ Without(q, t) \in Seq(Tasks)
      /\ \E at \in DOMAIN q :
           /\ q[at] = t
           /\ Without(q, t) = [i \in 1 .. Len(q) - 1 |-> IF i < at THEN q[i] ELSE q[i + 1]]
  BY <1>1, <1>2, WithoutIsShorter
<1>4. PICK w : w = Without(q, t)
  OBVIOUS
<1>5. PICK at \in DOMAIN q :
        /\ q[at] = t
        /\ w = [i \in 1 .. Len(q) - 1 |-> IF i < at THEN q[i] ELSE q[i + 1]]
  BY <1>3, <1>4
<1>6. DOMAIN w = 1 .. Len(q) - 1
  BY <1>5
<1>7. \A i \in DOMAIN w : /\ i \in Nat /\ i \in DOMAIN q /\ i + 1 \in DOMAIN q
                          /\ i < at => w[i] = q[i]
                          /\ ~(i < at) => w[i] = q[i + 1]
  BY <1>1, <1>5, <1>6
<1>8. at \in Nat
  BY <1>1
<1>9. \A i \in DOMAIN w : w[i] \in S \ {t}
  <2> SUFFICES ASSUME NEW i \in DOMAIN w PROVE w[i] \in S /\ w[i] # t
    OBVIOUS
  <2>1. CASE i < at
    BY <1>2, <1>5, <1>7, <1>8, <2>1
  <2>2. CASE ~(i < at)
    BY <1>2, <1>5, <1>7, <1>8, <2>2
  <2> QED
    BY <2>1, <2>2
<1>10. ASSUME NEW u \in S \ {t} PROVE \E i \in DOMAIN w : w[i] = u
  <2>1. PICK j \in DOMAIN q : q[j] = u
    BY <1>2
  <2>2. CASE j < at
    <3>1. j \in DOMAIN w
      BY <1>1, <1>6, <2>2
    <3> QED
      BY <1>7, <2>1, <2>2, <3>1
  <2>3. CASE j > at
    <3>1. j - 1 \in DOMAIN w /\ ~(j - 1 < at) /\ (j - 1) + 1 = j
      BY <1>1, <1>6, <2>3
    <3> QED
      BY <1>7, <2>1, <3>1
  <2> QED
    BY <1>1, <1>5, <2>1, <2>2, <2>3
<1>11. \A i, j \in DOMAIN w : w[i] = w[j] => i = j
  <2> SUFFICES ASSUME NEW i \in DOMAIN w, NEW j \in DOMAIN w, w[i] = w[j] PROVE i = j
    OBVIOUS
  <2>1. /\ i \in Nat /\ i \in DOMAIN q /\ i + 1 \in DOMAIN q
        /\ j \in Nat /\ j \in DOMAIN q /\ j + 1 \in DOMAIN q
    BY <1>7
  <2>2. CASE i < at /\ j < at
    BY <1>2, <1>7, <2>1, <2>2
  <2>3. CASE ~(i < at) /\ ~(j < at)
    <3>1. i + 1 = j + 1
      BY <1>2, <1>7, <2>1, <2>3
    <3> QED
      BY <2>1, <3>1
  <2>4. CASE i < at /\ ~(j < at)
    <3>1. i = j + 1
      BY <1>2, <1>7, <2>1, <2>4
    <3> QED
      BY <1>8, <2>1, <2>4, <3>1
  <2>5. CASE ~(i < at) /\ j < at
    <3>1. i + 1 = j
      BY <1>2, <1>7, <2>1, <2>5
    <3> QED
      BY <1>8, <2>1, <2>5, <3>1
  <2> QED
    BY <2>2, <2>3, <2>4, <2>5
<1> QED
  BY <1>3, <1>4, <1>9, <1>10, <1>11 DEF Lists

(* The three ways a step changes the queues. *)
LEMMA EnterQueue ==
  ASSUME LockTypes, CallDataTypes, QueueInv, NEW t \in Tasks, NEW l \in Locks,
         awaits[t] = NoLock, awaits' = [awaits EXCEPT ![t] = l],
         queue' = [queue EXCEPT ![l] = Append(@, t)]
  PROVE  QueueInv'
<1> DEFINE S(m) == {u \in Tasks : awaits[u] = m}
<1>1. NoLock \notin Locks
  BY DEF NoLock, Locks
<1>2. ASSUME NEW m \in Locks PROVE Lists(queue[m], S(m))
  BY DEF QueueInv
<1>3. Lists(queue'[l], {u \in Tasks : awaits'[u] = l})
  <2>1. Lists(Append(queue[l], t), S(l) \cup {t})
    BY <1>1, <1>2, AppendLists
  <2>2. queue'[l] = Append(queue[l], t)
    BY DEF CallDataTypes
  <2>3. {u \in Tasks : awaits'[u] = l} = S(l) \cup {t}
    BY DEF LockTypes
  <2> QED
    BY <2>1, <2>2, <2>3
<1>4. ASSUME NEW m \in Locks, m # l
      PROVE  Lists(queue'[m], {u \in Tasks : awaits'[u] = m})
  <2>1. queue'[m] = queue[m]
    BY <1>4 DEF CallDataTypes
  <2>2. {u \in Tasks : awaits'[u] = m} = S(m)
    BY <1>1, <1>4 DEF LockTypes
  <2> QED
    BY <1>2, <2>1, <2>2
<1> QED
  BY <1>3, <1>4 DEF QueueInv

LEMMA LeaveQueue ==
  ASSUME LockTypes, CallDataTypes, QueueInv, NEW t \in Tasks, NEW k \in Locks,
         awaits[t] = k, awaits' = [awaits EXCEPT ![t] = NoLock],
         queue' = [queue EXCEPT ![k] = Without(@, t)]
  PROVE  QueueInv'
<1> DEFINE S(m) == {u \in Tasks : awaits[u] = m}
<1>1. NoLock \notin Locks
  BY DEF NoLock, Locks
<1>2. ASSUME NEW m \in Locks PROVE Lists(queue[m], S(m))
  BY DEF QueueInv
<1>3. Lists(queue'[k], {u \in Tasks : awaits'[u] = k})
  <2>1. Lists(Without(queue[k], t), S(k) \ {t})
    BY <1>2, WithoutLists
  <2>2. queue'[k] = Without(queue[k], t)
    BY DEF CallDataTypes
  <2>3. {u \in Tasks : awaits'[u] = k} = S(k) \ {t}
    BY <1>1 DEF LockTypes
  <2> QED
    BY <2>1, <2>2, <2>3
<1>4. ASSUME NEW m \in Locks, m # k
      PROVE  Lists(queue'[m], {u \in Tasks : awaits'[u] = m})
  <2>1. queue'[m] = queue[m]
    BY <1>4 DEF CallDataTypes
  <2>2. {u \in Tasks : awaits'[u] = m} = S(m)
    BY <1>1, <1>4 DEF LockTypes
  <2> QED
    BY <1>2, <2>1, <2>2
<1> QED
  BY <1>3, <1>4 DEF QueueInv

LEMMA ChangeQueue ==
  ASSUME LockTypes, CallDataTypes, QueueInv, NEW t \in Tasks, NEW k \in Locks,
         NEW l \in Locks, k # l, awaits[t] = k, AwaitNext(t, k, l)
  PROVE  QueueInv'
<1> DEFINE S(m) == {u \in Tasks : awaits[u] = m}
<1>1. awaits' = [awaits EXCEPT ![t] = l]
  BY DEF AwaitNext
<1>2. ASSUME NEW m \in Locks PROVE Lists(queue[m], S(m))
  BY DEF QueueInv
<1>3. /\ queue'[k] = Without(queue[k], t)
      /\ queue'[l] = Append(queue[l], t)
      /\ \A m \in Locks : m # k /\ m # l => queue'[m] = queue[m]
  BY DEF CallDataTypes, AwaitNext
<1>4. Lists(queue'[k], {u \in Tasks : awaits'[u] = k})
  <2>1. Lists(Without(queue[k], t), S(k) \ {t})
    BY <1>2, WithoutLists
  <2>2. {u \in Tasks : awaits'[u] = k} = S(k) \ {t}
    BY <1>1 DEF LockTypes
  <2> QED
    BY <1>3, <2>1, <2>2
<1>5. Lists(queue'[l], {u \in Tasks : awaits'[u] = l})
  <2>1. Lists(Append(queue[l], t), S(l) \cup {t})
    BY <1>2, AppendLists
  <2>2. {u \in Tasks : awaits'[u] = l} = S(l) \cup {t}
    BY <1>1 DEF LockTypes
  <2> QED
    BY <1>3, <2>1, <2>2
<1>6. ASSUME NEW m \in Locks, m # k, m # l
      PROVE  Lists(queue'[m], {u \in Tasks : awaits'[u] = m})
  <2>1. {u \in Tasks : awaits'[u] = m} = S(m)
    BY <1>1, <1>6 DEF LockTypes
  <2> QED
    BY <1>2, <1>3, <1>6, <2>1
<1> QED
  BY <1>4, <1>5, <1>6 DEF QueueInv

LEMMA QueueInvStep ==
  ASSUME LockInv, CallDataTypes, QueueInv, [Next]_vars
  PROVE  QueueInv'
<1>1. CASE UNCHANGED vars
  BY <1>1 DEF QueueInv, vars
<1> LockTypes /\ "rules" \in Locks /\ "routers" \in Locks /\ "backends_cache" \in Locks
  BY DEF LockInv, Locks
<1>2. ASSUME NEW t \in Tasks, Begin(t) PROVE QueueInv'
  <2>1. awaits[t] = NoLock
    BY <1>2, CallOps DEF Begin, LockInv, AtAPoint, Points
  <2>2. PICK c \in Calls : /\ awaits' = [awaits EXCEPT ![t] = FirstLock(c.op)]
                           /\ queue' = [queue EXCEPT ![FirstLock(c.op)] = Append(@, t)]
    BY <1>2 DEF Begin
  <2>3. FirstLock(c.op) \in Locks
    BY CallOps DEF FirstLock, Locks
  <2> QED
    BY <2>1, <2>2, <2>3, EnterQueue
<1>3. ASSUME NEW t \in Tasks, Continue(t) PROVE QueueInv'
  <2>1. ASSUME NEW op, NEW k \in Locks, In(t, op, k), Return(t, k) \/ Release(t, k)
        PROVE  QueueInv'
    <3>1. awaits[t] = k
      BY <2>1 DEF In, Granted
    <3>2. /\ awaits' = [awaits EXCEPT ![t] = NoLock]
          /\ queue' = [queue EXCEPT ![k] = Without(@, t)]
      BY <2>1 DEF Return, Release
    <3> QED
      BY <3>1, <3>2, LeaveQueue
  <2>2. ASSUME NEW op, NEW k \in Locks, NEW l \in Locks, k # l, In(t, op, k),
               AwaitNext(t, k, l)
        PROVE  QueueInv'
    BY <2>2, ChangeQueue DEF In, Granted
  <2>3. CASE RouteFindRule(t) \/ RouteFindRouter(t) \/ RouteSelect(t)
    BY <2>1, <2>2, <2>3 DEF RouteFindRule, RouteFindRouter, RouteSelect, Answer
  <2>4. CASE RouteAskRouters(t)
    BY <2>4, EnterQueue DEF RouteAskRouters
  <2>5. CASE UpdateHealthMark(t) \/ UpdateHealthFindRule(t) \/ UpdateHealthNotify(t)
    BY <2>1, <2>2, <2>5 DEF UpdateHealthMark, UpdateHealthFindRule, UpdateHealthNotify
  <2>6. CASE UpdateConnections(t) \/ GetStats(t) \/ Shutdown(t)
    BY <2>1, <2>6 DEF UpdateConnections, GetStats, Shutdown
  <2>7. CASE InitializeRouters(t) \/ InitializeRules(t) \/ InitializeCache(t)
    BY <2>1, <2>2, <2>7 DEF InitializeRouters, InitializeRules, InitializeCache
  <2>8. CASE ReloadRules(t) \/ ReloadCache(t) \/ ReloadRouters(t)
    BY <2>1, <2>2, <2>8 DEF ReloadRules, ReloadCache, ReloadRouters
  <2> QED
    BY <1>3, <2>3, <2>4, <2>5, <2>6, <2>7, <2>8 DEF Continue
<1> QED
  BY <1>1, <1>2, <1>3 DEF Next

(* The first waiter of a lock that nobody holds may enter it. *)
LEMMA FirstWaiterEnters ==
  ASSUME LockInv, QueueInv, NEW l \in Locks, NEW t \in Tasks, awaits[t] = l,
         \A u \in Tasks : l \notin held[u]
  PROVE  \E h \in Active : ~Blocked(h)
<1>1. Lists(queue[l], {u \in Tasks : awaits[u] = l})
  BY DEF QueueInv
<1>2. 1 \in DOMAIN queue[l] /\ queue[l][1] \in Tasks /\ awaits[queue[l][1]] = l
  <2>1. PICK i \in DOMAIN queue[l] : queue[l][i] = t
    BY <1>1 DEF Lists
  <2>2. 1 \in DOMAIN queue[l]
    BY <1>1, <2>1 DEF Lists
  <2> QED
    BY <1>1, <2>2 DEF Lists
<1>3. PICK h \in Tasks : h = queue[l][1]
  BY <1>2
<1>4. MayEnter(l, 1)
  BY DEF MayEnter
<1>5. Granted(h, l)
  BY <1>2, <1>3, <1>4 DEF Granted
<1>6. call[h] # Idle
  <2>1. awaits[h] # NoLock
    BY <1>2, <1>3 DEF NoLock, Locks
  <2> QED
    BY <2>1, CallOps DEF LockInv, AtAPoint, Points
<1> QED
  BY <1>5, <1>6 DEF Active, Blocked

-----------------------------------------------------------------------------
(***************************************************************************)
(* What a deadlock looks like.  A waiter of a lock means a holder of it    *)
(* that waits for another lock; following the holders through the points   *)
(* at which a method waits with a lock in its hands leads, within three    *)
(* steps, to two tasks that wait for each other.                           *)
(***************************************************************************)
Inverted(t, u) ==
  /\ t \in Active /\ u \in Active
  /\ WaitsOn(t, u) /\ WaitsOn(u, t)
  /\ {call[t].op, call[u].op} \in Inversions

(* The holder of a lock that is awaited. *)
LEMMA HolderOfAwaited ==
  ASSUME LockInv, QueueInv, Stuck, NEW l \in Locks, NEW t \in Tasks, awaits[t] = l
  PROVE  \E u \in Tasks : l \in held[u]
BY FirstWaiterEnters DEF Stuck

(* Two tasks each of which awaits a lock the other one holds. *)
LEMMA FaceToFace ==
  ASSUME LockInv, NEW t \in Tasks, NEW u \in Tasks, NEW k \in Locks, NEW l \in Locks,
         awaits[t] = k, k \in held[u], awaits[u] = l, l \in held[t],
         ~(Reads(call[t].op, k) /\ Reads(call[u].op, k)),
         ~(Reads(call[t].op, l) /\ Reads(call[u].op, l)),
         {call[t].op, call[u].op} \in Inversions
  PROVE  Inverted(t, u)
<1>1. /\ <<call[t].op, awaits[t], held[t]>> \in Points
      /\ <<call[u].op, awaits[u], held[u]>> \in Points
  BY DEF LockInv, AtAPoint
<1>2. call[t] # Idle /\ call[u] # Idle
  BY <1>1, CallOps DEF Points, Locks, NoLock
<1>3. WaitsOn(t, u) /\ WaitsOn(u, t)
  BY DEF WaitsOn, Compatible
<1> QED
  BY <1>2, <1>3 DEF Inverted, Active

(* A task that waits for the routers with the rules and the cache in its   *)
(* hands meets the holder of the routers.                                  *)
LEMMA MeetAtRouters ==
  ASSUME LockInv, QueueInv, Stuck, NEW x \in Tasks, awaits[x] = "routers",
         held[x] = {"rules", "backends_cache"},
         call[x].op \in {"update_backend_health", "reload_config"}
  PROVE  \E t, u \in Tasks : Inverted(t, u)
<1> "rules" \in Locks /\ "routers" \in Locks /\ "backends_cache" \in Locks
  BY DEF Locks
<1>1. PICK y \in Tasks : "routers" \in held[y]
  BY HolderOfAwaited
<1>2. <<call[y].op, awaits[y], held[y]>> \in Points
  BY DEF LockInv, AtAPoint
<1>3. y # x
  BY <1>1
<1>4. CASE call[y].op = "route" /\ awaits[y] = "backends_cache"
  BY <1>1, <1>4, FaceToFace DEF Inversions, Reads
<1>5. CASE call[y].op = "initialize" /\ awaits[y] = "rules"
  BY <1>1, <1>5, FaceToFace DEF Inversions, Reads
<1>6. ~("rules" \in held[y] /\ call[y].op = "initialize")
  BY <1>3 DEF LockInv, Exclusive, Compatible, Reads
<1> QED
  BY <1>1, <1>2, <1>4, <1>5, <1>6 DEF Points

(* A task that waits for the cache meets one who holds it. *)
LEMMA MeetAtCache ==
  ASSUME LockInv, QueueInv, Stuck, NEW w \in Tasks, awaits[w] = "backends_cache"
  PROVE  \E t, u \in Tasks : Inverted(t, u)
<1> "rules" \in Locks /\ "routers" \in Locks /\ "backends_cache" \in Locks
  BY DEF Locks
<1>1. PICK x \in Tasks : "backends_cache" \in held[x]
  BY HolderOfAwaited
<1>2. \A y \in Tasks : <<call[y].op, awaits[y], held[y]>> \in Points
  BY DEF LockInv, AtAPoint
<1>3. CASE awaits[x] = "routers"
  BY <1>1, <1>2, <1>3, MeetAtRouters DEF Points
<1>4. CASE awaits[x] = "rules"
  <2>1. call[x].op = "update_backend_health"
    BY <1>1, <1>2, <1>4 DEF Points
  <2>2. PICK y \in Tasks : "rules" \in held[y]
    BY <1>4, HolderOfAwaited
  <2>3. y # x
    BY <1>2, <1>4, <2>1, <2>2 DEF Points
  <2>4. "backends_cache" \notin held[y]
    BY <1>1, <2>1, <2>3 DEF LockInv, Exclusive, Compatible, Reads
  <2>5. awaits[y] = "backends_cache" /\ call[y].op \in {"initialize", "reload_config"}
    BY <1>2, <2>2, <2>4 DEF Points
  <2> QED
    BY <1>1, <1>4, <2>1, <2>2, <2>5, FaceToFace DEF Inversions, Reads
<1> QED
  BY <1>1, <1>2, <1>3, <1>4 DEF Points

LEMMA StuckIsInverted ==
  ASSUME LockInv, QueueInv, Stuck
  PROVE  \E t, u \in Tasks : Inverted(t, u)
<1> "rules" \in Locks /\ "routers" \in Locks /\ "backends_cache" \in Locks
  BY DEF Locks
<1>1. \A y \in Tasks : <<call[y].op, awaits[y], held[y]>> \in Points
  BY DEF LockInv, AtAPoint
<1>2. PICK w \in Tasks : awaits[w] \in Locks
  BY DEF Stuck, Active, Blocked, LockInv, LockTypes
<1>3. CASE \E y \in Tasks : awaits[y] = "backends_cache"
  BY <1>3, MeetAtCache
<1>4. CASE /\ \A y \in Tasks : awaits[y] # "backends_cache"
           /\ awaits[w] = "rules"
  <2>1. PICK x \in Tasks : "rules" \in held[x]
    BY <1>4, HolderOfAwaited
  <2> QED
    BY <1>1, <1>4, <2>1, MeetAtRouters DEF Points
<1>5. CASE /\ \A y \in Tasks : awaits[y] # "backends_cache"
           /\ awaits[w] = "routers"
  <2>1. PICK z \in Tasks : "routers" \in held[z]
    BY <1>5, HolderOfAwaited
  <2>2. awaits[z] = "rules"
    BY <1>1, <1>5, <2>1 DEF Points
  <2>3. PICK x \in Tasks : "rules" \in held[x]
    BY <2>2, HolderOfAwaited
  <2> QED
    BY <1>1, <1>5, <2>3, MeetAtRouters DEF Points
<1> QED
  BY <1>2, <1>3, <1>4, <1>5 DEF Locks

(* The queues are what they should be in every state. *)
LEMMA QueuesListWaiters == Spec => [](LockInv /\ QueueInv)
<1>1. Init => LoadInv /\ CallDataTypes /\ QueueInv
  <2>1. Init => QueueInv
    <3>1. Lists(<<>>, {})
      BY DEF Lists
    <3>2. NoLock \notin Locks
      BY DEF NoLock, Locks
    <3>3. ASSUME Init, NEW l \in Locks
          PROVE  queue[l] = <<>> /\ {t \in Tasks : awaits[t] = l} = {}
      BY <3>2, <3>3 DEF Init
    <3> QED
      BY <3>1, <3>3 DEF QueueInv
  <2> QED
    BY <2>1, LoadInvInit DEF Init, CallDataTypes, Answers
<1>2. LoadInv /\ CallDataTypes /\ QueueInv /\ [Next]_vars
      => LoadInv' /\ CallDataTypes' /\ QueueInv'
  <2> SUFFICES ASSUME LoadInv, CallDataTypes, QueueInv, [Next]_vars
               PROVE  LoadInv' /\ CallDataTypes' /\ QueueInv'
    OBVIOUS
  <2>1. LoadInv'
    BY LoadInvStep
  <2>2. CallDataTypes'
    BY CallDataTypesStep DEF LoadInv
  <2>3. QueueInv'
    BY QueueInvStep DEF LoadInv
  <2> QED
    BY <2>1, <2>2, <2>3
<1>3. LoadInv => LockInv
  BY DEF LoadInv
<1> QED
  BY <1>1, <1>2, <1>3, PTL DEF Spec

(* When the calls in progress block each other for good, two of them wait  *)
(* for each other and are one of five pairs of methods: the fairness of    *)
(* the queues, which lets a waiting writer keep readers out, makes no      *)
(* deadlock of its own, nor does any longer chain of calls.                *)
THEOREM DeadlocksAreInversions == Spec => []StuckOnlyByInversion
<1>1. LockInv /\ QueueInv => StuckOnlyByInversion
  BY StuckIsInverted DEF StuckOnlyByInversion, Inverted
<1> QED
  BY <1>1, QueuesListWaiters, PTL

(* Methods no two of which are one of those pairs never block each other   *)
(* for good, however many tasks call them: requests, loads by initialize   *)
(* and shutdowns together, health reports among themselves, and reloads    *)
(* among themselves.                                                       *)
THEOREM UninvertedMethodsNeverStuck ==
  ASSUME \A p \in Inversions : ~(p \subseteq Ops)
  PROVE  Spec => []NeverStuck
<1>1. LockInv /\ QueueInv => NeverStuck
  <2> SUFFICES ASSUME LockInv, QueueInv, Stuck PROVE FALSE
    BY DEF NeverStuck
  <2>1. PICK t \in Tasks, u \in Tasks : Inverted(t, u)
    BY StuckIsInverted
  <2>2. call[t].op \in Ops /\ call[u].op \in Ops
    BY <2>1, CallOps DEF Inverted, Active, LockInv, LockTypes
  <2> QED
    BY <2>1, <2>2 DEF Inverted
<1> QED
  BY <1>1, QueuesListWaiters, PTL

(* The methods that take the locks in the order routers, rules, cache: it  *)
(* takes update_backend_health or reload_config to stop the router.        *)
THEOREM OrderedMethodsNeverStuck ==
  ASSUME Ops \subseteq {"initialize", "route", "update_backend_connections",
                        "get_stats", "shutdown"}
  PROVE  Spec => []NeverStuck
<1>1. \A p \in Inversions : ~(p \subseteq Ops)
  BY DEF Inversions
<1> QED
  BY <1>1, UninvertedMethodsNeverStuck

-----------------------------------------------------------------------------
(***************************************************************************)
(* A reload may refuse a request that found its rule before it             *)
(* (ReloadDisturbsNoRequest is violated by a run), but only if it takes a  *)
(* router away: configurations that name the same routers never do.        *)
(***************************************************************************)
SameRouters == \A c, d \in Configs : DOMAIN c.routers = DOMAIN d.routers

LEMMA RoutersOnlyGrow ==
  ASSUME \A c \in Configs : Buildable(c), "shutdown" \notin Ops, SameRouters,
         LockInv, DataTypes, NEW t \in Tasks, Begin(t) \/ Continue(t)
  PROVE  DOMAIN routers \subseteq DOMAIN routers'
<1>1. call[t] \in Calls \/ call[t] = Idle
  BY DEF LockInv, LockTypes
<1>2. call[t].op # "shutdown"
  BY <1>1, CallOps
<1>3. call[t].op \in {"initialize", "reload_config"} => call[t].config \in Configs
  BY <1>1, CallOps, CallArguments
<1>4. CASE InitializeRouters(t)
  <2>1. \E new : routers' = Insert(new, call[t].config.routers)
    BY <1>4 DEF InitializeRouters
  <2> QED
    BY <2>1 DEF Insert
<1>5. CASE ReloadRouters(t)
  <2> DEFINE c == call[t].config
  <2>1. c \in Configs /\ Buildable(c)
    BY <1>3, <1>5 DEF ReloadRouters, In
  <2>2. DOMAIN routers' = DOMAIN c.routers
    <3>1. DOMAIN c.routers \ DOMAIN routers \subseteq Creatable(c)
      BY <2>1 DEF Buildable
    <3>2. routers' = [n \in DOMAIN c.routers |->
                        IF n \in DOMAIN c.routers \ DOMAIN routers
                          THEN c.routers[n] ELSE routers[n]]
      BY <1>5, <3>1 DEF ReloadRouters
    <3> QED
      BY <3>2
  <2>3. RouterNames \subseteq DOMAIN c.routers
    BY <2>1 DEF RouterNames, SameRouters
  <2> QED
    BY <2>2, <2>3 DEF DataTypes
<1>6. CASE ~(InitializeRouters(t) \/ ReloadRouters(t))
  <2>1. ~Shutdown(t)
    BY <1>2 DEF Shutdown, In
  <2>2. routers' = routers
    BY <1>6, <2>1 DEF Begin, Continue, RouteFindRule, RouteAskRouters, RouteFindRouter,
       RouteSelect, UpdateHealthMark, UpdateHealthFindRule, UpdateHealthNotify,
       UpdateConnections, GetStats, InitializeRules, InitializeCache, ReloadRules,
       ReloadCache, data
  <2> QED
    BY <2>2
<1> QED
  BY <1>4, <1>5, <1>6

(* The rule a request has found, and has not looked up a router for, has one. *)
FoundHasRouter ==
  \A t \in Tasks : call[t].op = "route" /\ awaits[t] \in {"routers", NoLock} =>
                     rule[t].router \in DOMAIN routers

RefusedInv ==
  /\ answer \in [Tasks -> Ids \cup {NoAnswer, NoBackend, Panicked}]
  /\ rule \in [Tasks -> AllRules \cup {NoRule}]
  /\ FoundHasRouter

LEMMA RefusedStep ==
  ASSUME \A c \in Configs : Buildable(c), "shutdown" \notin Ops, SameRouters,
         LoadInv, RulesHaveRouters, RefusedInv, [Next]_vars
  PROVE  RefusedInv'
<1>1. CASE UNCHANGED vars
  BY <1>1 DEF RefusedInv, FoundHasRouter, vars, data
<1>2. ASSUME NEW t \in Tasks, Begin(t) \/ Continue(t) PROVE RefusedInv'
  <2> "rules" \in Locks /\ "routers" \in Locks /\ "backends_cache" \in Locks
    BY DEF Locks
  <2>1. \A u \in Tasks : u # t => call'[u] = call[u] /\ awaits'[u] = awaits[u]
    BY <1>2, LoadersMove DEF LoadInv
  <2>2. DOMAIN routers \subseteq DOMAIN routers'
    BY <1>2, RoutersOnlyGrow DEF LoadInv
  <2>3. ASSUME rule' \in [Tasks -> AllRules \cup {NoRule}],
               \A u \in Tasks : u # t => rule'[u] = rule[u],
               answer' \in [Tasks -> Ids \cup {NoAnswer, NoBackend, Panicked}],
               call'[t].op = "route" /\ awaits'[t] \in {"routers", NoLock} =>
                 rule'[t].router \in DOMAIN routers'
        PROVE  RefusedInv'
    <3> SUFFICES ASSUME NEW u \in Tasks, call'[u].op = "route",
                        awaits'[u] \in {"routers", NoLock}
                 PROVE  rule'[u].router \in DOMAIN routers'
      BY <2>3 DEF RefusedInv, FoundHasRouter
    <3>1. CASE u = t
      BY <2>3, <3>1
    <3>2. CASE u # t
      BY <2>1, <2>2, <2>3, <3>2 DEF RefusedInv, FoundHasRouter
    <3> QED
      BY <3>1, <3>2
  <2>4. <<call[t].op, awaits[t], held[t]>> \in Points
    BY DEF LoadInv, LockInv, AtAPoint
  <2>5. CASE Begin(t)
    <3>1. PICK c \in Calls : /\ call' = [call EXCEPT ![t] = c]
                             /\ awaits' = [awaits EXCEPT ![t] = FirstLock(c.op)]
      BY <2>5 DEF Begin
    <3>2. call'[t].op = "route" => awaits'[t] = "rules"
      BY <3>1 DEF FirstLock, LoadInv, LockInv, LockTypes
    <3> QED
      BY <2>3, <2>5, <3>2 DEF Begin, RefusedInv, NoLock
  <2>6. ASSUME NEW k, NEW a \in Ids \cup {NoBackend, Panicked}, Answer(t, k, a) PROVE RefusedInv'
    <3>1. call'[t].op # "route"
      BY <2>6, CallOps DEF Answer, Return, LoadInv, LockInv, LockTypes
    <3> QED
      BY <2>3, <2>6, <3>1 DEF Answer, RefusedInv
  <2>7. CASE RouteFindRule(t)
    <3> DEFINE ctx == call[t].context
               match == FirstMatch(rules, ctx)
    <3>1. CASE Answer(t, "rules", NoBackend)
      BY <2>6, <3>1
    <3>2. CASE ~Answer(t, "rules", NoBackend)
      <4>1. MatchingRules(rules, ctx) # {} /\ rule' = [rule EXCEPT ![t] = match]
            /\ UNCHANGED <<answer, routers>>
        BY <2>7, <3>2 DEF RouteFindRule, data
      <4>2. rules \in Seq(AllRules)
        <5>1. \A c \in Configs : c.rules \in Seq(AllRules)
          BY ConfigsAssumption DEF WellTyped
        <5>2. <<>> \in Seq(AllRules)
          OBVIOUS
        <5> QED
          BY <5>1, <5>2 DEF LoadInv, DataTypes, RuleTable
      <4>3. PICK i \in DOMAIN rules : match = rules[i]
        BY <4>1, <4>2, FirstMatchIsFirst
      <4>4. match \in AllRules
        BY <4>2, <4>3
      <4>5. \A u \in Tasks : ~Loading(u)
        BY <2>7, EntryIsCompatible DEF RouteFindRule, In, Loading, Compatible, Reads
      <4>6. match.router \in DOMAIN routers
        BY <4>3, <4>5 DEF RulesHaveRouters
      <4> HIDE DEF match
      <4>7. /\ rule' \in [Tasks -> AllRules \cup {NoRule}]
            /\ rule'[t] = match /\ \A u \in Tasks : u # t => rule'[u] = rule[u]
        BY <4>1, <4>4 DEF RefusedInv
      <4> QED
        BY <2>3, <4>1, <4>6, <4>7 DEF RefusedInv
    <3> QED
      BY <3>1, <3>2
  <2>8. CASE RouteAskRouters(t)
    <3>1. rule[t].router \in DOMAIN routers
      BY <2>8 DEF RouteAskRouters, RefusedInv, FoundHasRouter
    <3> QED
      BY <2>3, <2>8, <3>1 DEF RouteAskRouters, RefusedInv, data
  <2>9. CASE RouteFindRouter(t)
    <3>1. rule[t].router \in DOMAIN routers
      BY <2>9 DEF RouteFindRouter, In, Granted, RefusedInv, FoundHasRouter
    <3>2. AwaitNext(t, "routers", "backends_cache") /\ UNCHANGED <<rule, answer>>
      BY <2>9, <3>1 DEF RouteFindRouter
    <3>3. awaits'[t] = "backends_cache"
      BY <3>2 DEF AwaitNext, LoadInv, LockInv, LockTypes
    <3> QED
      BY <2>3, <3>2, <3>3 DEF RefusedInv, NoLock
  <2>10. CASE RouteSelect(t)
    <3>1. \E a \in Ids \cup {NoBackend, Panicked} : Answer(t, "backends_cache", a)
      BY <2>10, RouteSelectAnswers DEF LoadInv
    <3> QED
      BY <2>6, <3>1
  <2>11. CASE ~(Begin(t) \/ RouteFindRule(t) \/ RouteAskRouters(t) \/ RouteFindRouter(t)
               \/ RouteSelect(t))
    <3>1. UNCHANGED <<rule, answer>> /\ (call'[t] = call[t] \/ call'[t] = Idle)
          /\ call[t].op # "route"
      BY <1>2, <2>11 DEF Continue, UpdateHealthMark, UpdateHealthFindRule,
         UpdateHealthNotify, UpdateConnections, GetStats, InitializeRouters,
         InitializeRules, InitializeCache, ReloadRules, ReloadCache, ReloadRouters,
         Shutdown, In, Return, AwaitNext, LoadInv, LockInv, LockTypes
    <3> QED
      BY <2>3, <3>1, CallOps DEF RefusedInv
  <2> QED
    BY <1>2, <2>5, <2>7, <2>8, <2>9, <2>10, <2>11
<1> QED
  BY <1>1, <1>2 DEF Next

(* Reloads refuse no request as long as the configurations name the same   *)
(* routers, of plugins that exist, and shutdown is not called.             *)
THEOREM SameRoutersDisturbNoRequest ==
  ASSUME \A c \in Configs : Buildable(c), "shutdown" \notin Ops, SameRouters,
         RouterNotFound \notin Ids
  PROVE  Spec => []ReloadDisturbsNoRequest
<1>1. Init => RefusedInv
  BY CallOps DEF Init, RefusedInv, FoundHasRouter
<1>2. LoadInv /\ RulesHaveRouters /\ RefusedInv /\ [Next]_vars => RefusedInv'
  BY RefusedStep
<1>3. RefusedInv => ReloadDisturbsNoRequest
  <2> SUFFICES ASSUME RefusedInv, NEW t \in Tasks PROVE answer[t] # RouterNotFound
    BY DEF ReloadDisturbsNoRequest
  <2>1. answer[t] \in Ids \cup {NoAnswer, NoBackend, Panicked}
    BY DEF RefusedInv
  <2> QED
    BY <2>1 DEF NoAnswer, NoBackend, Panicked, RouterNotFound
<1>4. Spec => []LoadInv
  BY LoadInvInit, LoadInvStep, PTL DEF Spec
<1> QED
  BY <1>1, <1>2, <1>3, <1>4, RulesAlwaysHaveRouters, PTL DEF Spec

-----------------------------------------------------------------------------
(***************************************************************************)
(* A reload does not always put its configuration into effect              *)
(* (ConfigurationTakesEffect is violated by a run): a router keeps its     *)
(* plugin.  Where a name stands for the same plugin in all configurations, *)
(* what runs between loads is one configuration and nothing of another.    *)
(***************************************************************************)
SamePlugins == \A c, d \in Configs : \A n \in DOMAIN c.routers \cap DOMAIN d.routers :
                 c.routers[n] = d.routers[n]

RunsAsConfigured ==
  \A c \in Configs : \A n \in DOMAIN routers \cap DOMAIN c.routers : routers[n] = c.routers[n]

LEMMA EffectStep ==
  ASSUME \A c \in Configs : Buildable(c), Ops \cap {"initialize", "shutdown"} = {}, SamePlugins,
         LoadInv, RunsAsConfigured, ConfigurationTakesEffect, [Next]_vars
  PROVE  RunsAsConfigured' /\ ConfigurationTakesEffect'
<1> DEFINE InEffect == \E c \in Configs \cup {EmptyConfig} : rules = c.rules /\ routers = c.routers
           Quiet == \A u \in Tasks : ~Loading(u)
<1>0. /\ ConfigurationTakesEffect <=> (Quiet => InEffect)
      /\ ConfigurationTakesEffect' <=> (Quiet' => InEffect')
  BY DEF ConfigurationTakesEffect
<1>1. CASE UNCHANGED vars
  BY <1>1 DEF RunsAsConfigured, ConfigurationTakesEffect, Loading, vars, data
<1>2. ASSUME NEW t \in Tasks, Begin(t) \/ Continue(t)
      PROVE  RunsAsConfigured' /\ ConfigurationTakesEffect'
  <2> "rules" \in Locks /\ "routers" \in Locks /\ "backends_cache" \in Locks
    BY DEF Locks
  <2>1. /\ <<call[t].op, awaits[t], held[t]>> \in Points
        /\ call[t] \in Calls \/ call[t] = Idle
        /\ call[t].op \notin {"initialize", "shutdown"}
    BY CallOps DEF LoadInv, LockInv, LockTypes, AtAPoint
  <2>2. \A u \in Tasks : u # t => call'[u] = call[u] /\ held'[u] = held[u]
    BY <1>2, LoadersMove DEF LoadInv
  <2>3. CASE ReloadRouters(t)
    <3> DEFINE c == call[t].config
               new == DOMAIN c.routers \ DOMAIN routers
    <3>1. Loading(t) /\ c \in Configs /\ Buildable(c)
      BY <2>1, <2>3, CallOps, CallArguments
         DEF ReloadRouters, In, Granted, Points, Loading
    <3>2. rules' = c.rules
      BY <2>3, <3>1 DEF ReloadRouters, LoadInv, LoadsItsRules
    <3>3. routers' = [n \in DOMAIN c.routers |-> IF n \in new THEN c.routers[n] ELSE routers[n]]
      <4>1. new \subseteq Creatable(c)
        BY <3>1 DEF Buildable
      <4> QED
        BY <2>3, <4>1 DEF ReloadRouters
    <3>4. \A n \in DOMAIN c.routers : n \notin new => routers[n] = c.routers[n]
      BY <3>1 DEF RunsAsConfigured
    <3>5. c.routers = [n \in DOMAIN c.routers |-> c.routers[n]]
      BY <3>1, ConfigsAssumption DEF WellTyped
    <3>6. routers' = c.routers
      BY <3>3, <3>4, <3>5
    <3>7. RunsAsConfigured'
      BY <3>1, <3>6 DEF RunsAsConfigured, SamePlugins
    <3> QED
      BY <1>0, <3>1, <3>2, <3>6, <3>7
  <2>4. CASE ReloadRules(t)
    <3>1. Loading(t)' /\ routers' = routers
      BY <2>4 DEF ReloadRules, In, AwaitNext, Loading, LoadInv, LockInv, LockTypes
    <3> QED
      BY <1>0, <3>1 DEF RunsAsConfigured
  <2>5. CASE ReloadCache(t)
    <3>1. Loading(t)' /\ routers' = routers
      BY <2>1, <2>5 DEF ReloadCache, In, Granted, Points, AwaitNext, Loading, LoadInv,
         LockInv, LockTypes
    <3> QED
      BY <1>0, <3>1 DEF RunsAsConfigured
  <2>6. CASE ~(ReloadRules(t) \/ ReloadCache(t) \/ ReloadRouters(t))
    <3>1. ~(InitializeRouters(t) \/ InitializeRules(t) \/ InitializeCache(t) \/ Shutdown(t))
      BY <2>1 DEF InitializeRouters, InitializeRules, InitializeCache, Shutdown, In
    <3>2. rules' = rules /\ routers' = routers
      BY <1>2, <2>6, <3>1 DEF Begin, Continue, RouteFindRule, RouteAskRouters,
         RouteFindRouter, RouteSelect, UpdateHealthMark, UpdateHealthFindRule,
         UpdateHealthNotify, UpdateConnections, GetStats, data
    <3>3. ~Loading(t)
      <4>1. CASE Begin(t)
        BY <4>1, CallOps DEF Begin, Loading
      <4>2. CASE Continue(t)
        BY <2>1, <2>6, <3>1, <4>2 DEF Continue, RouteFindRule, RouteAskRouters,
           RouteFindRouter, RouteSelect, UpdateHealthMark, UpdateHealthFindRule,
           UpdateHealthNotify, UpdateConnections, GetStats, In, Loading
      <4> QED
        BY <1>2, <4>1, <4>2
    <3>4. Quiet' => Quiet
      BY <2>2, <3>3 DEF Loading
    <3> QED
      BY <1>0, <3>2, <3>4 DEF RunsAsConfigured
  <2> QED
    BY <2>3, <2>4, <2>5, <2>6
<1> QED
  BY <1>1, <1>2 DEF Next

(* Whatever reloads, requests and reports overlap, the rules and routers   *)
(* in place between loads are those of one configuration.                  *)
THEOREM SamePluginsTakeEffect ==
  ASSUME \A c \in Configs : Buildable(c), Ops \cap {"initialize", "shutdown"} = {}, SamePlugins
  PROVE  Spec => []ConfigurationTakesEffect
<1>1. Init => RunsAsConfigured /\ ConfigurationTakesEffect
  <2> SUFFICES ASSUME Init PROVE RunsAsConfigured /\ ConfigurationTakesEffect
    OBVIOUS
  <2>1. PICK c \in {EmptyConfig} \cup Configs : rules = c.rules /\ routers = c.routers
    BY DEF Init
  <2>2. CASE c = EmptyConfig
    BY <2>1, <2>2, EmptyTypes DEF RunsAsConfigured, ConfigurationTakesEffect
  <2>3. CASE c \in Configs
    BY <2>1, <2>3 DEF RunsAsConfigured, ConfigurationTakesEffect, SamePlugins
  <2> QED
    BY <2>2, <2>3
<1>2. LoadInv /\ RunsAsConfigured /\ ConfigurationTakesEffect /\ [Next]_vars
        => (RunsAsConfigured /\ ConfigurationTakesEffect)'
  BY EffectStep
<1>3. Spec => []LoadInv
  BY LoadInvInit, LoadInvStep, PTL DEF Spec
<1> QED
  BY <1>1, <1>2, <1>3, PTL DEF Spec

=============================================================================
