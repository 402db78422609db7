-------------------------- MODULE RouterRefinement ---------------------------
(***************************************************************************)
(* RouterManager implements RoutingTable: with three locks taken one after *)
(* another and deadlocks among them, every initialize, reload_config and   *)
(* shutdown still looks to the requests like one step.                     *)
(*                                                                         *)
(* The step is the return of the call.  Until then the call holds, for     *)
(* writing, each map it has already changed, so that what others can see   *)
(* of that map is its value from before the call: an auxiliary variable    *)
(* for each map remembers it.                                              *)
(***************************************************************************)
EXTENDS RouterManager

VARIABLES seen_rules, seen_routers, seen_cache

seen == <<seen_rules, seen_routers, seen_cache>>

(* A load has changed the map behind l, and nobody else can look at it. *)
Hidden(l) ==
  \E t \in Tasks : call[t].op \in {"initialize", "reload_config"} /\ l \in held[t]

Show ==
  /\ seen_rules' = IF Hidden("rules")' THEN seen_rules ELSE rules'
  /\ seen_routers' = IF Hidden("routers")' THEN seen_routers ELSE routers'
  /\ seen_cache' = IF Hidden("backends_cache")' THEN seen_cache ELSE backends_cache'

RInit ==
  /\ Init
  /\ seen_rules = rules /\ seen_routers = routers /\ seen_cache = backends_cache

RSpec == RInit /\ [][Next /\ Show]_<<vars, seen>>
RFairSpec == RSpec /\ \A t \in Tasks : WF_vars(Continue(t))

(* How far the request of t has come: to its first look at the table, to   *)
(* its second one, or nowhere.                                             *)
Stage(t) ==
  IF call[t].op # "route" THEN [at |-> "idle"]
  ELSE IF awaits[t] = "rules" THEN [at |-> "asked", context |-> call[t].context]
  ELSE [at |-> "found", rule |-> rule[t]]

Table == INSTANCE RoutingTable
           WITH rules <- seen_rules, routers <- seen_routers,
                backends_cache <- seen_cache, request <- [t \in Tasks |-> Stage(t)]

(* Every behaviour of the manager is one of the lock-free table: a request *)
(* never sees the rules of one configuration with the backends of another, *)
(* except across its own two looks, nor a router map half rebuilt.         *)
ImplementsTable == Table!Spec

=============================================================================
