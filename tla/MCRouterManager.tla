--------------------------- MODULE MCRouterManager ---------------------------
(***************************************************************************)
(* Instances of RouterRefinement, and so of RouterManager, for TLC.        *)
(* Configuration A routes port 80 of both protocols to two backends; B     *)
(* drops one of them, sends the rule to another router and puts a disabled *)
(* rule before it; D names a plugin that does not exist.                   *)
(***************************************************************************)
EXTENDS RouterRefinement, TLC

Port(p) == [type |-> "port", port |-> p]
Bk(id, weight) == [id |-> id, enabled |-> TRUE, weight |-> weight]
Rule(name, matcher, router, bs) ==
  [name |-> name, protocol |-> "both", matcher |-> matcher, router |-> router,
   enabled |-> TRUE, backends |-> bs]

A == [rules   |-> <<Rule("web", Port(80), "main", <<Bk("x", 1), Bk("y", 2)>>)>>,
      routers |-> [main |-> "round_robin"]]

B == [rules   |-> <<[Rule("old", [type |-> "port_range", start |-> 70, end |-> 79],
                          "spare", <<Bk("y", 1)>>) EXCEPT !.enabled = FALSE],
                    Rule("web", Port(80), "spare", <<Bk("y", 1)>>)>>,
      routers |-> [spare |-> "least_connections"]]

D == [rules   |-> <<Rule("web", Port(80), "lost", <<Bk("x", 1)>>)>>,
      routers |-> [main |-> "hash", lost |-> "unheard_of"]]

(* A with one backend less, and its router on another plugin. *)
A2 == [A EXCEPT !.rules[1].backends = <<Bk("x", 1)>>, !.routers = [main |-> "hash"]]

Tcp(p) == [protocol |-> "tcp", port |-> p, sni |-> NoSni]

MCConfigs == {A, B}
MCContexts == {Tcp(80), Tcp(75)}
MCReports == {[rule |-> "web", id |-> "y", healthy |-> h] : h \in BOOLEAN}
MCLoads == {[rule |-> "web", id |-> "x", connections |-> 3]}

(* B with weights that are too heavy for a u32 of two bits. *)
Heavy == [B EXCEPT !.rules[2].backends = <<Bk("y", 3), Bk("x", 2)>>,
                   !.routers = [spare |-> "weighted"]]

PluginConfigs == {A, A2, B}
ForwardConfigs == {Heavy, D}
ForwardLoads == {[rule |-> "web", id |-> "y", connections |-> 3]}
OneContext == {Tcp(80)}

Symmetry == Permutations(Tasks)

=============================================================================
