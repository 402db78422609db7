--------------------------- MODULE MCRouterPlugin ----------------------------
(* Instances of RouterPlugin for TLC. *)
EXTENDS RouterPlugin, TLC

B(id, weight) == [id |-> id, enabled |-> TRUE, weight |-> weight,
                  healthy |-> TRUE, connections |-> 0]

(* Three backends; one whose weights leave the weighted router nothing to  *)
(* draw; and two lists of two that are too heavy for a u32 of three bits,  *)
(* one of them by chance to a sum of zero.                                 *)
Three == <<B("x", 1), B("y", 2), B("z", 0)>>
Weightless == <<B("z", 0)>>
Heavy == <<B("x", 5), B("y", 6)>>
Full == <<B("x", 5), B("y", 3)>>

MCLists == {Three, Weightless, Heavy, Full}
MCWeightLists == {Weights(bs) : bs \in MCLists}

(* Two clients of two addresses and one port. *)
MCClients == {[ip |-> "ip1", port |-> "p1", target |-> "p80"],
              [ip |-> "ip2", port |-> "p1", target |-> "p80"]}
MCHash == [v \in {"ip1", "ip2", "p1", "p80"} |->
             CASE v = "ip1" -> 4 [] v = "ip2" -> 3 [] v = "p1" -> 1 [] OTHER -> 2]

MCSymmetry == Permutations(Tasks) \cup Permutations(Rules)

=============================================================================
