----------------------- MODULE RouterRefinementProofs ------------------------
(***************************************************************************)
(* RouterManager implements RoutingTable for any number of tasks and any   *)
(* configurations that Config::validate accepts.                           *)
(***************************************************************************)
EXTENDS RouterRefinement, RouterManagerProofs

Requests == [t \in Tasks |-> Stage(t)]

Loader(t) == call[t].op \in {"initialize", "reload_config"}

(* What is known of RouterManager in every reachable state. *)
Base == LoadInv /\ CallDataTypes /\ RouterInUseStays

(* A map no load has changed is seen as it is; initialize has laid its     *)
(* routers over the ones still seen, and reload_config has put the cache   *)
(* of its configuration.                                                   *)
SeenInv ==
  /\ ~Hidden("rules") => seen_rules = rules
  /\ ~Hidden("routers") => seen_routers = routers
  /\ ~Hidden("backends_cache") => seen_cache = backends_cache
  /\ \A t \in Tasks : call[t].op = "initialize" /\ "routers" \in held[t] =>
       LET c == call[t].config
       IN  Buildable(c) /\ routers = Table!Inserted(DOMAIN c.routers, c.routers)
  /\ \A t \in Tasks : call[t].op = "reload_config" /\ "backends_cache" \in held[t] =>
       backends_cache = FreshCache(call[t].config.rules)

-----------------------------------------------------------------------------
(* Nobody enters a lock under which a load has left its changes. *)
LEMMA EntrySees ==
  ASSUME LockInv, NEW t \in Tasks, NEW l \in Locks, Granted(t, l)
  PROVE  ~Hidden(l)
<1> SUFFICES ASSUME NEW u \in Tasks, Loader(u), l \in held[u] PROVE FALSE
  BY DEF Hidden, Loader
<1>1. Compatible(t, u, l)
  BY EntryIsCompatible
<1> QED
  BY <1>1 DEF Compatible, Reads, Loader

(* A step is one task's and leaves where the others stand. *)
LEMMA OthersStay ==
  ASSUME Base, NEW t \in Tasks, Begin(t) \/ Continue(t), NEW u \in Tasks, u # t
  PROVE  /\ call'[u] = call[u] /\ awaits'[u] = awaits[u] /\ held'[u] = held[u]
         /\ rule'[u] = rule[u]
<1>1. rule'[u] = rule[u]
  BY DEF Begin, Continue, RouteFindRule, RouteAskRouters, RouteFindRouter,
     RouteSelect, UpdateHealthMark, UpdateHealthFindRule, UpdateHealthNotify,
     UpdateConnections, GetStats, Shutdown, InitializeRouters, InitializeRules,
     InitializeCache, ReloadRules, ReloadCache, ReloadRouters, Answer, Base, CallDataTypes
<1> QED
  BY <1>1, LoadersMove DEF Base, LoadInv

(* How the call of the task that steps may change. *)
LEMMA CallMoves ==
  ASSUME LockInv, NEW t \in Tasks, Continue(t)
  PROVE  call'[t] = call[t] \/ call'[t] = Idle
BY DEF Continue, RouteFindRule, RouteAskRouters, RouteSelect, RouteFindRouter,
   UpdateHealthMark, UpdateHealthFindRule, UpdateHealthNotify, UpdateConnections,
   GetStats, Shutdown, InitializeRouters, InitializeRules, InitializeCache,
   ReloadRules, ReloadCache, ReloadRouters, Answer, Return, Release, AwaitNext,
   LockInv, LockTypes

(* A step of a task that is not in a load hides and shows nothing. *)
LEMMA HiddenStays ==
  ASSUME Base, NEW t \in Tasks, Begin(t) \/ (Continue(t) /\ ~Loader(t)), NEW l
  PROVE  Hidden(l)' <=> Hidden(l)
<1>1. \A u \in Tasks : u # t => call'[u] = call[u] /\ held'[u] = held[u]
  BY OthersStay
<1>2. ~(Loader(t) /\ l \in held[t])
  BY CallOps DEF Begin, Loader, Base, LoadInv, LockInv, AtAPoint, Points
<1>3. ~(Loader(t)' /\ l \in held'[t])
  <2>1. CASE Begin(t)
    BY <2>1, CallOps DEF Begin, Base, LoadInv, LockInv, AtAPoint, Points
  <2>2. CASE Continue(t) /\ ~Loader(t)
    BY <2>2, CallMoves, CallOps DEF Loader, Base, LoadInv
  <2> QED
    BY <2>1, <2>2
<1> QED
  BY <1>1, <1>2, <1>3 DEF Hidden, Loader

(* What stays as it is and as hidden as it is, is seen as before. *)
LEMMA SeenStays ==
  ASSUME SeenInv, Show
  PROVE  /\ rules' = rules /\ (Hidden("rules")' <=> Hidden("rules"))
              => seen_rules' = seen_rules
         /\ routers' = routers /\ (Hidden("routers")' <=> Hidden("routers"))
              => seen_routers' = seen_routers
         /\ backends_cache' = backends_cache
              /\ (Hidden("backends_cache")' <=> Hidden("backends_cache"))
              => seen_cache' = seen_cache
BY DEF SeenInv, Show

LEMMA RequestMoves ==
  ASSUME Base, NEW t \in Tasks, Begin(t) \/ Continue(t)
  PROVE  Requests' = [Requests EXCEPT ![t] = Stage(t)']
<1>1. \A u \in Tasks : u # t => Stage(u)' = Stage(u)
  BY OthersStay DEF Stage
<1> QED
  BY <1>1 DEF Requests

(* Outside of a request nothing of it moves. *)
LEMMA NoRequestMoves ==
  ASSUME Base, NEW t \in Tasks, Continue(t), call[t].op # "route"
  PROVE  Requests' = Requests
<1>1. call'[t].op # "route"
  BY CallMoves, CallOps DEF Base, LoadInv
<1>2. Stage(t)' = Stage(t)
  BY <1>1 DEF Stage
<1> QED
  BY <1>2, RequestMoves DEF Requests

-----------------------------------------------------------------------------
(* SeenInv is inductive *)

LEMMA LockNames == "rules" \in Locks /\ "routers" \in Locks /\ "backends_cache" \in Locks
BY DEF Locks

(* Who holds the routers or the cache for writing is the only one to write. *)
LEMMA OnlyHolderWrites ==
  ASSUME Base, NEW t \in Tasks, Begin(t) \/ Continue(t), NEW u \in Tasks, u # t, Loader(u)
  PROVE  /\ "routers" \in held[u] => routers' = routers
         /\ "backends_cache" \in held[u] => backends_cache' = backends_cache
<1>1. \A l \in Locks : l \in held[u] => ~Granted(t, l)
  BY EntrySees DEF Hidden, Loader, Base, LoadInv
<1>2. "routers" \in held[u] =>
         ~InitializeRouters(t) /\ ~ReloadRouters(t) /\ ~Shutdown(t)
  BY <1>1, LockNames DEF InitializeRouters, ReloadRouters, Shutdown, In
<1>3. "backends_cache" \in held[u] =>
         ~UpdateHealthMark(t) /\ ~UpdateConnections(t) /\ ~InitializeCache(t) /\ ~ReloadCache(t)
  BY <1>1, LockNames DEF UpdateHealthMark, UpdateConnections, InitializeCache, ReloadCache, In
<1>4. routers' = routers \/ InitializeRouters(t) \/ ReloadRouters(t) \/ Shutdown(t)
  BY DEF Begin, Continue, RouteFindRule, RouteAskRouters, RouteFindRouter, RouteSelect,
     UpdateHealthMark, UpdateHealthFindRule, UpdateHealthNotify, UpdateConnections,
     GetStats, InitializeRules, InitializeCache, ReloadRules, ReloadCache, data
<1>5. \/ backends_cache' = backends_cache \/ UpdateHealthMark(t) \/ UpdateConnections(t)
      \/ InitializeCache(t) \/ ReloadCache(t)
  BY DEF Begin, Continue, RouteFindRule, RouteAskRouters, RouteFindRouter, RouteSelect,
     UpdateHealthFindRule, UpdateHealthNotify, GetStats, InitializeRouters,
     InitializeRules, ReloadRules, ReloadRouters, Shutdown, data
<1> QED
  BY <1>2, <1>3, <1>4, <1>5

LEMMA SeenInvStep ==
  ASSUME Base, SeenInv, [Next /\ Show]_<<vars, seen>>
  PROVE  SeenInv'
<1>1. CASE UNCHANGED <<vars, seen>>
  BY <1>1 DEF SeenInv, vars, data, seen, Hidden, Table!Inserted
<1>2. ASSUME NEW t \in Tasks, Begin(t) \/ Continue(t), Show PROVE SeenInv'
  <2>1. /\ ~Hidden("rules")' => seen_rules' = rules'
        /\ ~Hidden("routers")' => seen_routers' = routers'
        /\ ~Hidden("backends_cache")' => seen_cache' = backends_cache'
        /\ Hidden("routers")' => seen_routers' = seen_routers
    BY <1>2 DEF Show
  <2>2. ASSUME NEW u \in Tasks, call'[u].op = "initialize", "routers" \in held'[u]
        PROVE  LET c == call'[u].config
               IN  /\ Buildable(c)
                   /\ routers' = [n \in DOMAIN seen_routers' \cup DOMAIN c.routers |->
                                    IF n \in DOMAIN c.routers THEN c.routers[n]
                                                              ELSE seen_routers'[n]]
    <3>1. seen_routers' = seen_routers
      BY <2>1, <2>2 DEF Hidden
    <3>2. CASE u # t
      <4>1. call'[u] = call[u] /\ held'[u] = held[u]
        BY <1>2, <3>2, OthersStay
      <4>2. routers' = routers
        BY <1>2, <2>2, <3>2, <4>1, OnlyHolderWrites DEF Loader
      <4> QED
        BY <2>2, <3>1, <4>1, <4>2 DEF SeenInv, Table!Inserted
    <3>3. CASE u = t /\ "routers" \in held[t]
      <4>1. InitializeRules(t) \/ InitializeCache(t)
        <5>1. Continue(t) /\ call[t].op = "initialize"
          BY <1>2, <2>2, <3>3, CallMoves, CallOps
             DEF Begin, Base, LoadInv, LockInv, AtAPoint, Points
        <5>2. awaits[t] # "routers"
          BY <3>3 DEF Base, LoadInv, LockInv, AtAPoint, Points, NoLock
        <5> QED
          BY <5>1, <5>2 DEF Continue, In, Granted, RouteFindRule, RouteAskRouters,
             RouteFindRouter, RouteSelect, UpdateHealthMark, UpdateHealthFindRule,
             UpdateHealthNotify, UpdateConnections, GetStats, InitializeRouters,
             ReloadRules, ReloadCache, ReloadRouters, Shutdown
      <4>2. routers' = routers /\ call'[t] = call[t]
        BY <2>2, <3>3, <4>1, CallOps DEF InitializeRules, InitializeCache, AwaitNext, Return,
           Base, LoadInv, LockInv, LockTypes
      <4> QED
        BY <2>2, <3>1, <3>3, <4>2 DEF SeenInv, Table!Inserted
    <3>4. CASE u = t /\ "routers" \notin held[t]
      <4>1. InitializeRouters(t) /\ call'[t] = call[t] /\ Buildable(call[t].config)
            /\ routers' = Insert(DOMAIN call[t].config.routers, call[t].config.routers)
        <5>1. Continue(t) /\ call[t].op = "initialize" /\ call'[t] = call[t]
          BY <1>2, <2>2, <3>4, CallMoves, CallOps
             DEF Begin, Base, LoadInv, LockInv, AtAPoint, Points
        <5>2. awaits[t] = "routers"
          BY <3>4, <5>1 DEF Base, LoadInv, LockInv, AtAPoint, Points
        <5>3. InitializeRouters(t)
          BY <5>1, <5>2 DEF Continue, In, Granted, RouteFindRule, RouteAskRouters,
             RouteFindRouter, RouteSelect, UpdateHealthMark, UpdateHealthFindRule,
             UpdateHealthNotify, UpdateConnections, GetStats, InitializeRules,
             InitializeCache, ReloadRules, ReloadCache, ReloadRouters, Shutdown
        <5>4. ~Return(t, "routers")
          BY <2>2, <3>4, <5>1, CallOps DEF Return, Base, LoadInv, LockInv, LockTypes
        <5> QED
          BY <5>1, <5>3, <5>4 DEF InitializeRouters
      <4>2. seen_routers = routers
        BY <4>1, EntrySees, LockNames DEF InitializeRouters, In, Base, LoadInv, SeenInv
      <4> QED
        BY <3>1, <3>4, <4>1, <4>2 DEF Insert
    <3> QED
      BY <3>2, <3>3, <3>4
  <2>3. ASSUME NEW u \in Tasks, call'[u].op = "reload_config", "backends_cache" \in held'[u]
        PROVE  backends_cache' = FreshCache(call'[u].config.rules)
    <3>1. CASE u # t
      <4>1. call'[u] = call[u] /\ held'[u] = held[u]
        BY <1>2, <3>1, OthersStay
      <4> QED
        BY <1>2, <2>3, <3>1, <4>1, OnlyHolderWrites DEF Loader, SeenInv
    <3>2. CASE u = t
      <4>1. Continue(t) /\ call[t].op = "reload_config" /\ call'[t] = call[t]
        BY <1>2, <2>3, <3>2, CallMoves, CallOps
           DEF Begin, Base, LoadInv, LockInv, AtAPoint, Points
      <4>2. ReloadRules(t) \/ ReloadCache(t) \/ ReloadRouters(t)
        BY <4>1 DEF Continue, In, RouteFindRule, RouteAskRouters, RouteFindRouter,
           RouteSelect, UpdateHealthMark, UpdateHealthFindRule, UpdateHealthNotify,
           UpdateConnections, GetStats, InitializeRouters, InitializeRules,
           InitializeCache, Shutdown
      <4>3. CASE ReloadRules(t)
        <5>1. held'[t] = held[t] \cup {"rules"} /\ awaits[t] = "rules"
          BY <4>3 DEF ReloadRules, In, Granted, AwaitNext, Base, LoadInv, LockInv, LockTypes
        <5>2. "backends_cache" \notin held[t]
          BY <4>1, <5>1 DEF Base, LoadInv, LockInv, AtAPoint, Points
        <5> QED
          BY <2>3, <3>2, <5>1, <5>2
      <4>4. CASE ReloadCache(t)
        BY <3>2, <4>1, <4>4 DEF ReloadCache
      <4>5. CASE ReloadRouters(t)
        BY <4>1, <4>5, CallOps DEF ReloadRouters, Return, Base, LoadInv, LockInv, LockTypes
      <4> QED
        BY <4>2, <4>3, <4>4, <4>5
    <3> QED
      BY <3>1, <3>2
  <2> QED
    BY <2>1, <2>2, <2>3 DEF SeenInv, Table!Inserted
<1> QED
  BY <1>1, <1>2 DEF Next

-----------------------------------------------------------------------------
(* Every step is a step of the table, or none *)

(* The two specifications use one Routing. *)
LEMMA OneMatching ==
  \A rs, ctx : /\ Table!MatchingRules(rs, ctx) = MatchingRules(rs, ctx)
              /\ Table!FirstMatch(rs, ctx) = FirstMatch(rs, ctx)
<1>1. \A r, ctx : Table!RuleMatches(r, ctx) <=> RuleMatches(r, ctx)
  BY DEF Table!RuleMatches, RuleMatches
<1>2. \A rs, ctx : Table!MatchingRules(rs, ctx) = MatchingRules(rs, ctx)
  BY <1>1 DEF Table!MatchingRules, MatchingRules
<1>3. \A rs, ctx : Table!FirstMatch(rs, ctx) = FirstMatch(rs, ctx)
  BY <1>2 DEF Table!FirstMatch, FirstMatch
<1> QED
  BY <1>2, <1>3

LEMMA OneChoice == \A p, bs : Table!Replies(p, bs) = Replies(p, bs)
<1>1. \A bs : Table!Available(bs) = Available(bs)
  BY DEF Table!Available, Available, Table!CanAccept, CanAccept
<1>2. \A ws : Table!Sums(ws) = Sums(ws)
  BY DEF Table!Sums, Sums
<1>3. \A ws : Table!Total(ws) = Total(ws) /\ (Table!Overflows(ws) <=> Overflows(ws))
  BY <1>2 DEF Table!Total, Total, Table!Overflows, Overflows
<1>4. \A avail, bs : Table!Offered(avail, bs) = Offered(avail, bs)
  BY DEF Table!Offered, Offered
<1>5. \A avail, bs : Table!Weighted(avail, bs) = Weighted(avail, bs)
  BY <1>2, <1>3, <1>4 DEF Table!Weighted, Weighted
<1>6. \A p, bs : Table!Choices(p, bs) = Choices(p, bs)
  BY <1>1, <1>5 DEF Table!Choices, Choices, Table!LeastConnections, LeastConnections
<1> QED
  BY <1>1, <1>3, <1>4, <1>6 DEF Table!Replies, Replies, Table!NoBackend, NoBackend,
     Table!Panicked, Panicked

LEMMA OneCache == \A rs : Table!FreshCache(rs) = FreshCache(rs)
<1>1. \A rs, n : Table!LastNamed(rs, n) = LastNamed(rs, n)
  BY DEF Table!LastNamed, LastNamed
<1>2. \A b : Table!NewBackend(b) = NewBackend(b)
  BY DEF Table!NewBackend, NewBackend
<1>3. \A rs : Table!RuleNames(rs) = RuleNames(rs)
  BY DEF Table!RuleNames, RuleNames
<1> QED
  BY <1>1, <1>2, <1>3 DEF Table!FreshCache, FreshCache

LEMMA OneReport ==
  \A bs, id, x : /\ Table!SetHealthy(bs, id, x) = SetHealthy(bs, id, x)
                /\ Table!SetConnections(bs, id, x) = SetConnections(bs, id, x)
<1>1. \A bs, id, k : Table!FirstWithId(bs, id, k) <=> FirstWithId(bs, id, k)
  BY DEF Table!FirstWithId, FirstWithId
<1> QED
  BY <1>1 DEF Table!SetHealthy, SetHealthy, Table!SetConnections, SetConnections

LEMMA OneVocabulary ==
  /\ Table!NoAnswer = NoAnswer /\ Table!NoBackend = NoBackend
  /\ Table!RouterNotFound = RouterNotFound /\ Table!EmptyConfig = EmptyConfig
BY DEF Table!NoAnswer, NoAnswer, Table!NoBackend, NoBackend, Table!RouterNotFound,
   RouterNotFound, Table!EmptyConfig, EmptyConfig

(* A step that changes neither what is seen nor a request is none. *)
LEMMA Stutters ==
  ASSUME seen' = seen, Requests' = Requests, answer' = answer
  PROVE  UNCHANGED Table!vars
BY DEF seen, Requests, Table!vars, Table!table

(* The steps of a request: both looks are under the locks they need. *)
LEMMA RequestStep ==
  ASSUME Base, SeenInv, Show, NEW t \in Tasks,
         RouteFindRule(t) \/ RouteAskRouters(t) \/ RouteFindRouter(t) \/ RouteSelect(t)
  PROVE  Table!Next \/ UNCHANGED Table!vars
<1> USE LockNames, OneMatching, OneChoice, OneVocabulary
<1>1. Continue(t) /\ call[t].op = "route"
  BY DEF Continue, RouteFindRule, RouteAskRouters, RouteFindRouter, RouteSelect, In
<1>2. data' = data
  BY DEF RouteFindRule, RouteAskRouters, RouteFindRouter, RouteSelect
<1>3. seen' = seen
  <2>1. \A l : Hidden(l)' <=> Hidden(l)
    BY <1>1, HiddenStays DEF Loader
  <2> QED
    BY <1>2, <2>1, SeenStays DEF data, seen
<1>4. Requests' = [Requests EXCEPT ![t] = Stage(t)'] /\ Requests[t] = Stage(t)
  BY <1>1, RequestMoves DEF Requests
<1>5. ASSUME NEW k, NEW a, Answer(t, k, a)
      PROVE  Table!Reply(t, a)
  <2>1. Stage(t)' = Table!Nothing
    BY <1>5, CallOps DEF Answer, Return, Stage, Table!Nothing, Base, LoadInv, LockInv, LockTypes
  <2> QED
    BY <1>3, <1>4, <1>5, <2>1 DEF Answer, Table!Reply, Table!table, Requests, seen
<1>6. CASE RouteFindRule(t)
  <2>1. rules = seen_rules
    BY <1>6, EntrySees DEF RouteFindRule, In, SeenInv, Base, LoadInv
  <2>2. Requests[t] = Table!Asked(call[t].context)
    BY <1>1, <1>4, <1>6 DEF RouteFindRule, In, Granted, Stage, Table!Asked
  <2> DEFINE ctx == call[t].context
             match == FirstMatch(rules, ctx)
  <2>3. CASE MatchingRules(rules, ctx) # {} /\ match.enabled
    <3>1. Release(t, "rules") /\ rule' = [rule EXCEPT ![t] = match] /\ answer' = answer
      BY <1>6, <2>3 DEF RouteFindRule
    <3>2. Stage(t)' = Table!Found(match)
      BY <1>1, <3>1 DEF Release, Stage, Table!Found, NoLock, Base, LoadInv, LockInv, LockTypes,
         CallDataTypes
    <3>3. Requests' = [Requests EXCEPT ![t] = Table!Found(match)]
      BY <1>4, <3>2
    <3>4. UNCHANGED <<Table!table, answer>>
      BY <1>3, <3>1 DEF Table!table, seen
    <3> HIDE DEF match
    <3>5. match = Table!FirstMatch(seen_rules, ctx)
      BY <2>1 DEF match
    <3>6. Table!FindRule(t)
      <4>1. Requests[t].at = "asked" /\ Requests[t].context = ctx
        BY <2>2 DEF Table!Asked
      <4>2. MatchingRules(seen_rules, ctx) # {} /\ match.enabled
        BY <2>1, <2>3
      <4> HIDE DEF ctx
      <4> QED
        BY <3>3, <3>4, <3>5, <4>1, <4>2 DEF Table!FindRule, Requests
    <3> QED
      BY <3>6 DEF Table!Next
  <2>4. CASE ~(MatchingRules(rules, ctx) # {} /\ match.enabled)
    <3>1. Table!Reply(t, NoBackend)
      BY <1>5, <1>6, <2>4 DEF RouteFindRule
    <3>2. Table!FindRule(t)
      BY <2>1, <2>2, <2>4, <3>1 DEF Table!FindRule, Table!Asked, Requests
    <3> QED
      BY <3>2 DEF Table!Next
  <2> QED
    BY <2>3, <2>4
<1>7. CASE RouteAskRouters(t)
  <2>1. Stage(t)' = Stage(t)
    BY <1>1, <1>7 DEF RouteAskRouters, Stage, NoLock, Base, LoadInv, LockInv, LockTypes
  <2> QED
    BY <1>3, <1>4, <1>7, <2>1, Stutters DEF RouteAskRouters, Requests
<1>8. CASE RouteFindRouter(t)
  <2>1. routers = seen_routers
    BY <1>8, EntrySees DEF RouteFindRouter, In, SeenInv, Base, LoadInv
  <2>2. Requests[t] = Table!Found(rule[t])
    BY <1>1, <1>4, <1>8 DEF RouteFindRouter, In, Granted, Stage, Table!Found
  <2>3. CASE rule[t].router \in DOMAIN routers
    <3>1. AwaitNext(t, "routers", "backends_cache") /\ rule' = rule /\ answer' = answer
      BY <1>8, <2>3 DEF RouteFindRouter
    <3>2. Stage(t)' = Stage(t)
      BY <1>1, <1>8, <3>1 DEF RouteFindRouter, In, Granted, AwaitNext, Stage, Base, LoadInv,
         LockInv, LockTypes
    <3> QED
      BY <1>3, <1>4, <3>1, <3>2, Stutters DEF Requests
  <2>4. CASE rule[t].router \notin DOMAIN routers
    <3>1. Table!Reply(t, RouterNotFound)
      BY <1>5, <1>8, <2>4 DEF RouteFindRouter
    <3>2. Table!Choose(t)
      BY <2>1, <2>2, <2>4, <3>1 DEF Table!Choose, Table!Found, Requests
    <3> QED
      BY <3>2 DEF Table!Next
  <2> QED
    BY <2>3, <2>4
<1>9. CASE RouteSelect(t)
  <2>1. awaits[t] = "backends_cache"
    BY <1>9 DEF RouteSelect, In, Granted
  <2>2. backends_cache = seen_cache
    BY <1>9, EntrySees DEF RouteSelect, In, SeenInv, Base, LoadInv
  <2>3. routers = seen_routers
    <3>1. "routers" \in held[t]
      BY <1>1, <2>1 DEF Base, LoadInv, LockInv, AtAPoint, Points, NoLock
    <3>2. ~Hidden("routers")
      BY <1>1, <3>1 DEF Hidden, Base, LoadInv, LockInv, Exclusive, Compatible, Reads
    <3> QED
      BY <3>2 DEF SeenInv
  <2>4. rule[t].router \in DOMAIN routers
    BY <1>1, <2>1 DEF Base, RouterInUseStays
  <2>5. Requests[t] = Table!Found(rule[t])
    BY <1>1, <1>4, <2>1 DEF Stage, Table!Found
  <2> DEFINE n == rule[t].name
             bs == IF n \in DOMAIN backends_cache THEN backends_cache[n] ELSE <<>>
  <2>6. \E a \in Replies(routers[rule[t].router], bs) : Table!Reply(t, a)
    BY <1>5, <1>9 DEF RouteSelect
  <2>7. Table!Choose(t)
    BY <2>2, <2>3, <2>4, <2>5, <2>6 DEF Table!Choose, Table!Found, Requests
  <2> QED
    BY <2>7 DEF Table!Next
<1> QED
  BY <1>6, <1>7, <1>8, <1>9

(* The steps of a load: each changes its map behind a lock it keeps, and   *)
(* its return shows the three changes at once.                             *)
LEMMA LoadStep ==
  ASSUME Base, SeenInv, Show, NEW t \in Tasks,
         \/ InitializeRouters(t) \/ InitializeRules(t) \/ InitializeCache(t)
         \/ ReloadRules(t) \/ ReloadCache(t) \/ ReloadRouters(t)
  PROVE  Table!Next \/ UNCHANGED Table!vars
<1> USE LockNames
<1> DEFINE c == call[t].config
<1>1. Continue(t) /\ Loader(t)
  BY DEF Continue, InitializeRouters, InitializeRules, InitializeCache,
     ReloadRules, ReloadCache, ReloadRouters, In, Loader
<1>2. c \in Configs
  BY <1>1, CallArguments, CallOps DEF Loader, Base, LoadInv, LockInv, LockTypes
<1>3. Table!Creatable(c) = Creatable(c) /\ (Table!Buildable(c) <=> Buildable(c))
  BY DEF Table!Creatable, Creatable, Table!Buildable, Buildable, Table!Plugins, Plugins
<1>4. Requests' = Requests /\ answer' = answer
  BY <1>1, NoRequestMoves DEF Loader, InitializeRouters, InitializeRules, InitializeCache,
     ReloadRules, ReloadCache, ReloadRouters
<1>5. \A u \in Tasks : u # t => call'[u] = call[u] /\ held'[u] = held[u]
  BY <1>1, OthersStay
<1>6. ASSUME NEW l \in Locks, held'[t] = held[t] \cup {l}, call' = call
      PROVE  Hidden(l)' /\ \A k : k # l => (Hidden(k)' <=> Hidden(k))
  BY <1>1, <1>5, <1>6 DEF Hidden, Loader
<1>7. ASSUME NEW l \in Locks, Return(t, l), l \in held[t] \/ Granted(t, l),
             NEW k \in Locks
      PROVE  Hidden(k)' <=> \E u \in Tasks : u # t /\ Loader(u) /\ k \in held[u]
  BY <1>5, <1>7 DEF Hidden, Loader, Return, Base, LoadInv, LockInv, LockTypes
<1>8. CASE InitializeRules(t) \/ ReloadRules(t)
  <2>1. AwaitNext(t, "rules", "backends_cache") /\ UNCHANGED <<routers, backends_cache>>
    BY <1>8 DEF InitializeRules, ReloadRules
  <2>2. held'[t] = held[t] \cup {"rules"} /\ call' = call
    BY <2>1 DEF AwaitNext, Base, LoadInv, LockInv, LockTypes
  <2>3. /\ Hidden("rules")' /\ (Hidden("routers")' <=> Hidden("routers"))
        /\ (Hidden("backends_cache")' <=> Hidden("backends_cache"))
    BY <1>6, <2>2
  <2>4. seen' = seen
    BY <2>1, <2>3, SeenStays DEF Show, seen
  <2> QED
    BY <1>4, <2>4, Stutters
<1>9. CASE ReloadCache(t)
  <2>1. held'[t] = held[t] \cup {"backends_cache"} /\ call' = call
    BY <1>9 DEF ReloadCache, AwaitNext, Base, LoadInv, LockInv, LockTypes
  <2>2. /\ Hidden("backends_cache")' /\ (Hidden("routers")' <=> Hidden("routers"))
        /\ (Hidden("rules")' <=> Hidden("rules"))
    BY <1>6, <2>1
  <2>3. seen' = seen
    BY <1>9, <2>2, SeenStays DEF Show, seen, ReloadCache
  <2> QED
    BY <1>4, <2>3, Stutters
<1>10. CASE InitializeRouters(t)
  <2>1. Granted(t, "routers") /\ held[t] = {} /\ call[t].op = "initialize"
    BY <1>10 DEF InitializeRouters, In, Granted, Base, LoadInv, LockInv, AtAPoint, Points
  <2>2. routers = seen_routers
    BY <2>1, EntrySees DEF SeenInv, Base, LoadInv
  <2>3. UNCHANGED <<rules, backends_cache>>
    BY <1>10 DEF InitializeRouters
  <2>4. CASE AwaitNext(t, "routers", "rules")
    <3>1. held'[t] = held[t] \cup {"routers"} /\ call' = call
      BY <2>4 DEF AwaitNext, Base, LoadInv, LockInv, LockTypes
    <3>2. /\ Hidden("routers")' /\ (Hidden("rules")' <=> Hidden("rules"))
          /\ (Hidden("backends_cache")' <=> Hidden("backends_cache"))
      BY <1>6, <3>1
    <3>3. seen' = seen
      BY <2>3, <3>2, SeenStays DEF Show, seen
    <3> QED
      BY <1>4, <3>3, Stutters
  <2>5. CASE ~AwaitNext(t, "routers", "rules")
    <3>1. PICK some \in SUBSET Creatable(c) :
            routers' = Insert(some, c.routers) /\ Return(t, "routers") /\ ~Buildable(c)
      BY <1>10, <2>5 DEF InitializeRouters
    <3>2. \A k \in Locks : Hidden(k)' <=> Hidden(k)
      BY <1>7, <2>1, <3>1 DEF Hidden, Loader
    <3>3. UNCHANGED <<seen_rules, seen_cache>>
      BY <2>3, <3>2, SeenStays
    <3>4. seen_routers' = routers'
      BY <2>1, <3>2, EntrySees DEF Show, Base, LoadInv
    <3>5. seen_routers' = Table!Inserted(some, c.routers)
      BY <2>2, <3>1, <3>4 DEF Insert, Table!Inserted
    <3>6. some \in SUBSET Table!Creatable(c) /\ ~Table!Buildable(c)
      BY <1>3, <3>1
    <3> HIDE DEF c
    <3>7. Table!Initialize(c)
      <4>1. \E sm \in SUBSET Table!Creatable(c) : seen_routers' = Table!Inserted(sm, c.routers)
        BY <3>5, <3>6
      <4> QED
        BY <1>4, <3>3, <3>6, <4>1 DEF Table!Initialize, Requests
    <3> QED
      BY <1>2, <3>7 DEF Table!Next
  <2> QED
    BY <2>4, <2>5
<1>11. ASSUME NEW l \in Locks, Granted(t, l), Return(t, l), held[t] \cup {l} = Locks
       PROVE  seen_rules' = rules' /\ seen_routers' = routers' /\ seen_cache' = backends_cache'
  <2>1. \A k \in Locks : \A u \in Tasks : u # t /\ Loader(u) => k \notin held[u]
    <3> SUFFICES ASSUME NEW k \in Locks, NEW u \in Tasks, u # t, Loader(u), k \in held[u]
                 PROVE  FALSE
      OBVIOUS
    <3>1. CASE k = l
      BY <1>11, <3>1, EntrySees DEF Hidden, Loader, Base, LoadInv
    <3>2. CASE k \in held[t]
      BY <1>1, <3>2 DEF Base, LoadInv, LockInv, Exclusive, Compatible, Reads, Loader
    <3> QED
      BY <1>11, <3>1, <3>2
  <2>2. \A k \in Locks : ~Hidden(k)'
    BY <1>7, <1>11, <2>1
  <2> QED
    BY <2>2 DEF Show
<1>12. CASE InitializeCache(t)
  <2>1. /\ Granted(t, "backends_cache") /\ held[t] = {"routers", "rules"}
        /\ call[t].op = "initialize" /\ Return(t, "backends_cache")
    BY <1>12 DEF InitializeCache, In, Granted, Base, LoadInv, LockInv, AtAPoint, Points
  <2>2. seen_rules' = rules' /\ seen_routers' = routers' /\ seen_cache' = backends_cache'
    BY <1>11, <2>1 DEF Locks
  <2>3. seen_cache = backends_cache
    BY <2>1, EntrySees DEF SeenInv, Base, LoadInv
  <2>4. rules' = c.rules
    BY <1>12, <2>1 DEF InitializeCache, Base, LoadInv, LoadsItsRules, Loading
  <2>5. Table!Buildable(c) /\ routers' = Table!Inserted(DOMAIN c.routers, c.routers)
    BY <1>12, <1>3, <2>1 DEF InitializeCache, SeenInv
  <2>6. backends_cache' = LET fresh == Table!FreshCache(c.rules)
                          IN  [n \in DOMAIN seen_cache \cup DOMAIN fresh |->
                                 IF n \in DOMAIN fresh THEN fresh[n] ELSE seen_cache[n]]
    BY <1>12, <2>3, OneCache DEF InitializeCache
  <2>7. Table!Initialize(c)
    BY <1>4, <2>2, <2>4, <2>5, <2>6 DEF Table!Initialize, Requests
  <2> QED
    BY <1>2, <2>7 DEF Table!Next
<1>13. CASE ReloadRouters(t)
  <2>1. /\ Granted(t, "routers") /\ held[t] = {"rules", "backends_cache"}
        /\ call[t].op = "reload_config" /\ Return(t, "routers")
    BY <1>13 DEF ReloadRouters, In, Granted, Base, LoadInv, LockInv, AtAPoint, Points
  <2>2. seen_rules' = rules' /\ seen_routers' = routers' /\ seen_cache' = backends_cache'
    BY <1>11, <2>1 DEF Locks
  <2>3. seen_routers = routers
    BY <2>1, EntrySees DEF SeenInv, Base, LoadInv
  <2>4. rules' = c.rules
    BY <1>13, <2>1 DEF ReloadRouters, Base, LoadInv, LoadsItsRules, Loading
  <2>5. backends_cache' = Table!FreshCache(c.rules)
    BY <1>13, <2>1, OneCache DEF ReloadRouters, SeenInv
  <2> DEFINE new == DOMAIN c.routers \ DOMAIN routers
  <2>6. \/ /\ new \subseteq Table!Creatable(c)
           /\ routers' = [n \in DOMAIN c.routers |->
                             IF n \in new THEN c.routers[n] ELSE routers[n]]
        \/ /\ ~(new \subseteq Table!Creatable(c))
           /\ \E some \in SUBSET (new \cap Table!Creatable(c)) :
                routers' = Insert(some, c.routers)
    BY <1>13, <1>3 DEF ReloadRouters
  <2> HIDE DEF c
  <2>7. Table!Reload(c)
    <3>1. UNCHANGED <<[u \in Tasks |-> Stage(u)], answer>>
      BY <1>4 DEF Requests
    <3>2. \A some : Insert(some, c.routers) = Table!Inserted(some, c.routers)
      BY <2>3 DEF Insert, Table!Inserted
    <3> QED
      BY <2>2, <2>3, <2>4, <2>5, <2>6, <3>1, <3>2 DEF Table!Reload
  <2> QED
    BY <1>2, <2>7 DEF Table!Next
<1> QED
  BY <1>8, <1>9, <1>10, <1>12, <1>13

(* The steps of the other methods. *)
LEMMA OtherStep ==
  ASSUME Base, SeenInv, Show, NEW t \in Tasks,
         \/ Begin(t) \/ UpdateHealthMark(t) \/ UpdateHealthFindRule(t)
         \/ UpdateHealthNotify(t) \/ UpdateConnections(t) \/ GetStats(t) \/ Shutdown(t)
  PROVE  Table!Next \/ UNCHANGED Table!vars
<1> USE LockNames
<1>1. \A l : Hidden(l)' <=> Hidden(l)
  <2>1. Begin(t) \/ (Continue(t) /\ ~Loader(t))
    BY DEF Continue, UpdateHealthMark, UpdateHealthFindRule, UpdateHealthNotify,
       UpdateConnections, GetStats, Shutdown, In, Loader
  <2> QED
    BY <2>1, HiddenStays
<1>2. CASE Begin(t)
  <2>1. seen' = seen
    BY <1>1, <1>2, SeenStays DEF Begin, data, seen
  <2>2. PICK m \in Calls : /\ call' = [call EXCEPT ![t] = m]
                           /\ awaits' = [awaits EXCEPT ![t] = FirstLock(m.op)]
    BY <1>2 DEF Begin
  <2>3. Requests[t] = Table!Nothing
    BY <1>2, CallOps DEF Begin, Requests, Stage, Table!Nothing
  <2>4. \E r \in {Table!Nothing} \cup {Table!Asked(ctx) : ctx \in Contexts} : Stage(t)' = r
    <3>1. call'[t] = m /\ awaits'[t] = FirstLock(m.op)
      BY <2>2 DEF Base, LoadInv, LockInv, LockTypes
    <3>2. m.op = "route" => m.context \in Contexts /\ FirstLock(m.op) = "rules"
      BY DEF Calls, FirstLock
    <3> QED
      BY <3>1, <3>2 DEF Stage, Table!Nothing, Table!Asked
  <2>5. Requests' = [Requests EXCEPT ![t] = Stage(t)']
    BY <1>2, RequestMoves
  <2>6. answer' = [answer EXCEPT ![t] = Table!NoAnswer]
    BY <1>2, OneVocabulary DEF Begin
  <2>7. UNCHANGED Table!table
    BY <2>1 DEF Table!table, seen
  <2>8. Table!Ask(t)
    BY <2>3, <2>4, <2>5, <2>6, <2>7 DEF Table!Ask, Requests
  <2> QED
    BY <2>8 DEF Table!Next
<1>3. ASSUME Continue(t), call[t].op # "route" PROVE Requests' = Requests
  BY <1>3, NoRequestMoves
<1>4. CASE UpdateHealthFindRule(t) \/ UpdateHealthNotify(t) \/ GetStats(t)
  <2>1. Requests' = Requests /\ answer' = answer /\ data' = data
    BY <1>3, <1>4 DEF UpdateHealthFindRule, UpdateHealthNotify, GetStats, Continue, In
  <2>2. seen' = seen
    BY <1>1, <2>1, SeenStays DEF data, seen
  <2> QED
    BY <2>1, <2>2, Stutters
<1>5. CASE UpdateHealthMark(t) \/ UpdateConnections(t)
  <2>1. Requests' = Requests /\ UNCHANGED <<rules, routers, answer>>
    BY <1>3, <1>5 DEF UpdateHealthMark, UpdateConnections, Continue, In
  <2>2. UNCHANGED <<seen_rules, seen_routers>>
    BY <1>1, <2>1, SeenStays
  <2>3. seen_cache = backends_cache /\ seen_cache' = backends_cache'
    BY <1>1, <1>5, EntrySees DEF UpdateHealthMark, UpdateConnections, In, SeenInv, Show,
       Base, LoadInv
  <2>4. CASE UpdateHealthMark(t)
    <3>1. call[t].report \in Reports
      BY <2>4, CallArguments, CallOps
         DEF UpdateHealthMark, In, Base, LoadInv, LockInv, LockTypes
    <3>2. Table!ReportHealth(call[t].report)
      BY <2>1, <2>2, <2>3, <2>4, OneReport DEF UpdateHealthMark, Table!ReportHealth, Requests
    <3> QED
      BY <3>1, <3>2 DEF Table!Next
  <2>5. CASE UpdateConnections(t)
    <3>1. call[t].load \in Loads
      BY <2>5, CallArguments, CallOps
         DEF UpdateConnections, In, Base, LoadInv, LockInv, LockTypes
    <3>2. Table!ReportLoad(call[t].load)
      BY <2>1, <2>2, <2>3, <2>5, OneReport DEF UpdateConnections, Table!ReportLoad, Requests
    <3> QED
      BY <3>1, <3>2 DEF Table!Next
  <2> QED
    BY <1>5, <2>4, <2>5
<1>6. CASE Shutdown(t)
  <2>1. Requests' = Requests /\ UNCHANGED <<rules, backends_cache, answer>> /\ routers' = <<>>
    BY <1>3, <1>6 DEF Shutdown, Continue, In
  <2>2. UNCHANGED <<seen_rules, seen_cache>>
    BY <1>1, <2>1, SeenStays
  <2>3. seen_routers' = routers'
    BY <1>1, <1>6, EntrySees DEF Shutdown, In, Show, Base, LoadInv
  <2>4. Table!Shutdown
    BY <2>1, <2>2, <2>3 DEF Table!Shutdown, Requests
  <2> QED
    BY <2>4 DEF Table!Next
<1> QED
  BY <1>2, <1>4, <1>5, <1>6

-----------------------------------------------------------------------------
(***************************************************************************)
(* The refinement: what requests see of route, update_backend_health,      *)
(* update_backend_connections, initialize, reload_config and shutdown,     *)
(* each over several locks, is the lock-free table of RoutingTable.        *)
(***************************************************************************)
THEOREM ManagerImplementsTable == RSpec => ImplementsTable
<1>1. RInit => Table!Init /\ SeenInv
  <2> SUFFICES ASSUME RInit PROVE Table!Init /\ SeenInv
    OBVIOUS
  <2>1. \A t \in Tasks : call[t] = Idle /\ held[t] = {}
    BY DEF RInit, Init
  <2>2. SeenInv
    BY <2>1 DEF RInit, SeenInv
  <2>3. Requests = [t \in Tasks |-> Table!Nothing]
    BY <2>1, CallOps DEF Requests, Stage, Table!Nothing
  <2>4. \E c \in {Table!EmptyConfig} \cup {k \in Configs : Table!Buildable(k)} :
          /\ seen_rules = c.rules
          /\ seen_routers = c.routers
          /\ seen_cache = Table!FreshCache(c.rules)
    <3>1. PICK c \in {EmptyConfig} \cup {k \in Configs : Buildable(k)} :
            rules = c.rules /\ routers = c.routers /\ backends_cache = FreshCache(c.rules)
      BY DEF RInit, Init
    <3>2. c \in {Table!EmptyConfig} \cup {k \in Configs : Table!Buildable(k)}
      BY <3>1 DEF Table!EmptyConfig, EmptyConfig, Table!Creatable, Creatable,
         Table!Buildable, Buildable, Table!Plugins, Plugins
    <3> QED
      BY <3>1, <3>2, OneCache DEF RInit
  <2>5. answer = [t \in Tasks |-> Table!NoAnswer]
    BY OneVocabulary DEF RInit, Init
  <2> QED
    BY <2>2, <2>3, <2>4, <2>5 DEF Table!Init, Requests
<1>2. Base /\ SeenInv /\ [Next /\ Show]_<<vars, seen>> => [Table!Next]_(Table!vars)
  <2> SUFFICES ASSUME Base, SeenInv, [Next /\ Show]_<<vars, seen>>
               PROVE  Table!Next \/ UNCHANGED Table!vars
    OBVIOUS
  <2>1. CASE UNCHANGED <<vars, seen>>
    BY <2>1, Stutters DEF vars, seen, Requests, Stage
  <2>2. ASSUME NEW t \in Tasks, Begin(t) \/ Continue(t), Show
        PROVE  Table!Next \/ UNCHANGED Table!vars
    BY <2>2, RequestStep, LoadStep, OtherStep DEF Continue
  <2> QED
    BY <2>1, <2>2 DEF Next
<1>3. Base /\ SeenInv /\ [Next /\ Show]_<<vars, seen>> => SeenInv'
  BY SeenInvStep
<1>4. RInit => Init
  BY DEF RInit
<1>5. [Next /\ Show]_<<vars, seen>> => [Next]_vars
  OBVIOUS
<1>6. Spec => []Base
  <2>1. LoadInv /\ [Next]_vars => LoadInv'
    BY LoadInvStep
  <2>2. Init => LoadInv
    BY LoadInvInit
  <2>3. TypeOK => CallDataTypes
    BY DEF TypeOK, CallDataTypes
  <2>4. LoadInv /\ CallDataTypes /\ RouterInUseStays => Base
    BY DEF Base
  <2> QED
    BY <2>1, <2>2, <2>3, <2>4, Typing, RouterInUseAlwaysStays, PTL DEF Spec
<1>7. RSpec => Spec
  BY <1>4, <1>5, PTL DEF RSpec, Spec
<1> QED
  BY <1>1, <1>2, <1>3, <1>6, <1>7, PTL DEF RSpec, ImplementsTable, Table!Spec

=============================================================================
