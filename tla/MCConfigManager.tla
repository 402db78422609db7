--------------------------- MODULE MCConfigManager ---------------------------
(* Instances of ConfigManager for TLC. *)
EXTENDS ConfigManager, TLC

B == [id |-> "x", enabled |-> TRUE, weight |-> 1]
R(name, router, backends) ==
  [name |-> name, router |-> router, backends |-> backends, enabled |-> TRUE]
C(routers, rules) ==
  [ports |-> TRUE, redis |-> TRUE, routers |-> routers, rules |-> rules]

One == [a |-> "round_robin"]

(* Two rules; one that comes twice; a rule whose router is missing; and a  *)
(* plugin that nobody registered.                                          *)
Good == C(One, <<R("r1", "a", <<B>>), R("r2", "a", <<B>>)>>)
Twice == C(One, <<R("r2", "a", <<B>>), R("r1", "a", <<B>>), R("r2", "a", <<B>>)>>)
Dangling == C(One, <<R("r1", "b", <<B>>)>>)
Unknown == C([a |-> "sticky"], <<R("r1", "a", <<B>>)>>)

MCFiles == {Good, Twice, Dangling, Unknown}

MCRules == {R("r1", "a", <<B, B>>), R("r2", "b", <<B>>), R("r3", "a", <<>>)}
MCRouterUpdates == {[name |-> "b", plugin |-> "hash"]}

CallerSymmetry == Permutations(Callers)

=============================================================================
