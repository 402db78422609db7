------------------------------ MODULE Routing -------------------------------
(***************************************************************************)
(* The pure part of src/router: what a routing rule matches, how the       *)
(* configured backends of a rule become cache entries, which backends a    *)
(* request may be sent to, and what each router plugin may answer.         *)
(*                                                                         *)
(* A configuration is a record                                             *)
(*   [rules   |-> sequence of rules,                                       *)
(*    routers |-> function from router names to plugin names]              *)
(* a rule is                                                               *)
(*   [name, protocol, matcher, router, enabled, backends]                  *)
(* a configured backend is [id, enabled, weight], and a routing context is *)
(* [protocol, port, sni] (NoSni when the connection carries none, which is *)
(* always so for the contexts the TCP and UDP proxies build).              *)
(***************************************************************************)
EXTENDS WeightSums

NoSni == "no sni"

(* The plugins that RouterManager::new registers. *)
Plugins == {"round_robin", "weighted", "hash", "least_connections", "random"}

(***************************************************************************)
(* A rule matches on protocol and then on one matcher.  An sni pattern is  *)
(* the set of names it accepts; matchers on source or destination          *)
(* addresses and custom matchers are stubs in the code and match nothing.  *)
(***************************************************************************)
RuleMatches(rule, ctx) ==
  /\ rule.protocol \in {"both", ctx.protocol}
  /\ \/ /\ rule.matcher.type = "port"
        /\ ctx.port = rule.matcher.port
     \/ /\ rule.matcher.type = "port_range"
        /\ ctx.port \in rule.matcher.start .. rule.matcher.end
     \/ /\ rule.matcher.type = "sni"
        /\ ctx.sni \in rule.matcher.names

MatchingRules(rs, ctx) == {i \in DOMAIN rs : RuleMatches(rs[i], ctx)}

(* The rule a request follows: the first one that matches. *)
FirstMatch(rs, ctx) ==
  LET m == MatchingRules(rs, ctx)
  IN  rs[CHOOSE i \in m : \A j \in m : i <= j]

RuleNames(rs) == {rs[i].name : i \in DOMAIN rs}

(***************************************************************************)
(* The cache entry of a configured backend: assumed healthy, idle.  The    *)
(* code stores max_connections = None in every entry.                      *)
(***************************************************************************)
NewBackend(b) ==
  [id |-> b.id, enabled |-> b.enabled, weight |-> b.weight,
   healthy |-> TRUE, connections |-> 0]

(* Entries are inserted rule by rule, so a later rule of a name wins. *)
LastNamed(rs, n) ==
  CHOOSE i \in DOMAIN rs :
    rs[i].name = n /\ \A j \in DOMAIN rs : rs[j].name = n => j <= i

FreshCache(rs) ==
  [n \in RuleNames(rs) |->
     LET bs == rs[LastNamed(rs, n)].backends
     IN  [k \in DOMAIN bs |-> NewBackend(bs[k])]]

(* Position k holds the first backend with this id (Iterator::find). *)
FirstWithId(bs, id, k) ==
  bs[k].id = id /\ \A j \in DOMAIN bs : bs[j].id = id => k <= j

SetHealthy(bs, id, flag) ==
  [k \in DOMAIN bs |-> IF FirstWithId(bs, id, k)
                         THEN [bs[k] EXCEPT !.healthy = flag] ELSE bs[k]]

SetConnections(bs, id, n) ==
  [k \in DOMAIN bs |-> IF FirstWithId(bs, id, k)
                         THEN [bs[k] EXCEPT !.connections = n] ELSE bs[k]]

(* can_accept_connection: max_connections is None, so availability decides *)
CanAccept(b) == b.enabled /\ b.healthy

Available(bs) == {k \in DOMAIN bs : CanAccept(bs[k])}

(* The weights the weighted plugin adds up: those of the backends that are *)
(* available.                                                              *)
Offered(avail, bs) == [k \in DOMAIN bs |-> IF k \in avail THEN bs[k].weight ELSE 0]

(* The weighted plugin takes the backend at whose weight the walk uses up  *)
(* the number drawn: one of positive weight, and whose turn comes before   *)
(* the sum does, which may have wrapped.                                   *)
Weighted(avail, bs) ==
  LET ws == Offered(avail, bs)
  IN  {k \in avail : bs[k].weight > 0 /\ Sums(ws)[k - 1] < Total(ws) % U32}

(* The least connections plugin takes the first minimum. *)
LeastConnections(avail, bs) ==
  {k \in avail : \A j \in avail :
     \/ bs[k].connections < bs[j].connections
     \/ bs[k].connections = bs[j].connections /\ k <= j}

(* The routers whose plugin the registry knows; create fails on the rest. *)
Creatable(c) == {n \in DOMAIN c.routers : c.routers[n] \in Plugins}
Buildable(c) == Creatable(c) = DOMAIN c.routers

EmptyConfig == [rules |-> <<>>, routers |-> <<>>]

(* What route answers when it answers with no backend. *)
NoAnswer == "no answer"
NoBackend == "Ok(None)"
RouterNotFound == "Err(Router not found)"
Panicked == "panicked"

(***************************************************************************)
(* The positions a router plugin may answer with; an empty choice is the   *)
(* answer None.  The position the other three plugins take among the       *)
(* available ones depends on a counter, a hash or a random number.         *)
(***************************************************************************)
Choices(plugin, bs) ==
  LET avail == Available(bs)
  IN  CASE plugin = "weighted" -> Weighted(avail, bs)
        [] plugin = "least_connections" -> LeastConnections(avail, bs)
        [] OTHER -> avail

(* What route may answer once it has the router.  A sum of weights that    *)
(* does not fit into a u32 panics in a dev build, and wraps in a release.  *)
Replies(plugin, bs) ==
  LET choices == Choices(plugin, bs)
      panics == plugin = "weighted" /\ Overflows(Offered(Available(bs), bs))
  IN  {bs[k].id : k \in choices}
      \cup (IF choices = {} THEN {NoBackend} ELSE {})
      \cup (IF panics THEN {Panicked} ELSE {})

=============================================================================
