---------------------------- MODULE RoutingTable -----------------------------
(***************************************************************************)
(* What src/router/manager.rs promises its callers, without a lock in it:  *)
(* one table of rules, routers and backends that initialize, reload_config *)
(* and shutdown change in a single step.  A request looks at the table     *)
(* twice, for its rule and for the rule's router and backends; only        *)
(* between these two looks may the table change under it.                  *)
(* RouterRefinement shows that RouterManager implements this.              *)
(***************************************************************************)
EXTENDS Routing

CONSTANTS
  Tasks,            \* the callers
  Configs,          \* the configurations given to initialize and reload_config
  Contexts,         \* the routing contexts of the requests
  Reports,          \* the health reports [rule, id, healthy]
  Loads             \* the connection counts reported [rule, id, connections]

VARIABLES
  rules, routers, backends_cache,   \* the table
  request,          \* how far the request of each caller has come
  answer            \* what it was answered

table == <<rules, routers, backends_cache>>
vars == <<table, request, answer>>

Nothing == [at |-> "idle"]
Asked(ctx) == [at |-> "asked", context |-> ctx]
Found(r) == [at |-> "found", rule |-> r]

Init ==
  /\ \E c \in {EmptyConfig} \cup {k \in Configs : Buildable(k)} :
       /\ rules = c.rules
       /\ routers = c.routers
       /\ backends_cache = FreshCache(c.rules)
  /\ request = [t \in Tasks |-> Nothing]
  /\ answer = [t \in Tasks |-> NoAnswer]

-----------------------------------------------------------------------------
(* Requests *)

(* A caller starts a request, or a call of another kind. *)
Ask(t) ==
  /\ request[t] = Nothing
  /\ \E r \in {Nothing} \cup {Asked(ctx) : ctx \in Contexts} :
       request' = [request EXCEPT ![t] = r]
  /\ answer' = [answer EXCEPT ![t] = NoAnswer]
  /\ UNCHANGED table

Reply(t, a) ==
  /\ request' = [request EXCEPT ![t] = Nothing]
  /\ answer' = [answer EXCEPT ![t] = a]
  /\ UNCHANGED table

(* The first rule that matches decides, also when it is disabled. *)
FindRule(t) ==
  /\ request[t].at = "asked"
  /\ LET found == MatchingRules(rules, request[t].context) # {}
         match == FirstMatch(rules, request[t].context)
     IN  IF found /\ match.enabled
           THEN /\ request' = [request EXCEPT ![t] = Found(match)]
                /\ UNCHANGED <<table, answer>>
           ELSE Reply(t, NoBackend)

(* One look at the rule's router and at the backends it chooses from. *)
Choose(t) ==
  /\ request[t].at = "found"
  /\ LET r == request[t].rule
         bs == IF r.name \in DOMAIN backends_cache THEN backends_cache[r.name] ELSE <<>>
     IN  IF r.router \in DOMAIN routers
           THEN \E a \in Replies(routers[r.router], bs) : Reply(t, a)
           ELSE Reply(t, RouterNotFound)

-----------------------------------------------------------------------------
(* The table *)

Inserted(new, plugins) ==
  [n \in DOMAIN routers \cup new |-> IF n \in new THEN plugins[n] ELSE routers[n]]

(* initialize adds to the table, or inserts some routers and fails. *)
Initialize(c) ==
  /\ \/ /\ Buildable(c)
        /\ rules' = c.rules
        /\ routers' = Inserted(DOMAIN c.routers, c.routers)
        /\ LET fresh == FreshCache(c.rules)
           IN  backends_cache' =
                 [n \in DOMAIN backends_cache \cup DOMAIN fresh |->
                    IF n \in DOMAIN fresh THEN fresh[n] ELSE backends_cache[n]]
     \/ /\ ~Buildable(c)
        /\ \E some \in SUBSET Creatable(c) : routers' = Inserted(some, c.routers)
        /\ UNCHANGED <<rules, backends_cache>>
  /\ UNCHANGED <<request, answer>>

(* reload_config replaces the table, except that a router of a known name  *)
(* keeps its plugin, and that after a failure the old routers stay.        *)
Reload(c) ==
  /\ rules' = c.rules
  /\ backends_cache' = FreshCache(c.rules)
  /\ LET new == DOMAIN c.routers \ DOMAIN routers
     IN  \/ /\ new \subseteq Creatable(c)
            /\ routers' = [n \in DOMAIN c.routers |->
                             IF n \in new THEN c.routers[n] ELSE routers[n]]
         \/ /\ ~(new \subseteq Creatable(c))
            /\ \E some \in SUBSET (new \cap Creatable(c)) :
                 routers' = Inserted(some, c.routers)
  /\ UNCHANGED <<request, answer>>

(* shutdown takes the routers away and leaves rules and backends. *)
Shutdown ==
  /\ routers' = <<>>
  /\ UNCHANGED <<rules, backends_cache, request, answer>>

(* update_backend_health and update_backend_connections *)
ReportHealth(r) ==
  /\ backends_cache' =
       [n \in DOMAIN backends_cache |->
          IF n = r.rule THEN SetHealthy(backends_cache[n], r.id, r.healthy)
                        ELSE backends_cache[n]]
  /\ UNCHANGED <<rules, routers, request, answer>>

ReportLoad(r) ==
  /\ backends_cache' =
       [n \in DOMAIN backends_cache |->
          IF n = r.rule THEN SetConnections(backends_cache[n], r.id, r.connections)
                        ELSE backends_cache[n]]
  /\ UNCHANGED <<rules, routers, request, answer>>

-----------------------------------------------------------------------------
Next ==
  \/ \E t \in Tasks : Ask(t) \/ FindRule(t) \/ Choose(t)
  \/ \E c \in Configs : Initialize(c) \/ Reload(c)
  \/ Shutdown
  \/ \E r \in Reports : ReportHealth(r)
  \/ \E r \in Loads : ReportLoad(r)

Spec == Init /\ [][Next]_vars

=============================================================================
