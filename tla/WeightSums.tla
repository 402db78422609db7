----------------------------- MODULE WeightSums ------------------------------
(***************************************************************************)
(* The sum of the weights in src/router/plugins/weighted.rs: weights are   *)
(* u32, and so is their sum, which nothing keeps below 2^32.  A build that *)
(* checks for overflow panics there, one that does not goes on with the    *)
(* remainder.                                                              *)
(***************************************************************************)
EXTENDS Naturals, Sequences

CONSTANT U32        \* the number of values of a u32

ASSUME U32Assumption == U32 \in Nat \ {0}

(* The sums of the first weights of a list, from that of none of them. *)
Sums(ws) ==
  LET sum[i \in 0 .. Len(ws)] == IF i = 0 THEN 0 ELSE sum[i - 1] + ws[i]
  IN  sum

Total(ws) == Sums(ws)[Len(ws)]

Overflows(ws) == Total(ws) >= U32

=============================================================================
