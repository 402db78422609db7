---------------------------- MODULE WeightedDraw -----------------------------
(***************************************************************************)
(* The calls of select_simple_weighted in src/router/plugins/weighted.rs:  *)
(* add up the weights, draw a number below the sum, and walk along the     *)
(* backends subtracting their weights until the number is used up.  (With  *)
(* smooth_weighted the plugin calls the same function.)  A call has only   *)
(* local variables and no await, so one call is shown after the other.     *)
(*                                                                         *)
(* Weights are u32: nothing bounds what a configuration may give.  Whether *)
(* a sum past the largest u32 panics or wraps is up to the build profile.  *)
(* The number drawn, (random * total) as u32 with random < 1 a multiple of *)
(* 2^-53, is below the total.                                              *)
(***************************************************************************)
EXTENDS WeightSums

CONSTANTS
  WeightLists,      \* the weights of the available backends, in order
  Profiles          \* the builds: "dev" checks for overflow, "release" wraps

ASSUME WeightsAssumption ==
  WeightLists \subseteq Seq(0 .. U32 - 1)
ASSUME ProfilesAssumption == Profiles \subseteq {"dev", "release"}

VARIABLES
  weights,          \* the weights of the backends passed in
  profile,          \* the build
  at,               \* "idle", "summing", "scanning", "done", "fell back", "panicked"
  position,         \* the backend the loop comes to next
  total_weight,     \* the sum so far
  random_weight,    \* what is left of the number drawn
  selected,         \* the position answered, 0 for None
  (* of the past *)
  sums,             \* the true sum of the weights before each position
  drawn             \* the number drawn

draw == <<weights, profile, at, position, total_weight, random_weight, selected, sums, drawn>>

DrawInit ==
  /\ weights = <<>>
  /\ profile \in Profiles
  /\ at = "idle"
  /\ position = 1
  /\ total_weight = 0
  /\ random_weight = 0
  /\ selected = 0
  /\ sums = <<0>>
  /\ drawn = 0

-----------------------------------------------------------------------------
(* MUTANT: the sum goes on from that of the call before. *)
BeginWithOldTotal(ws) ==
  /\ at \notin {"summing", "scanning"}
  /\ weights' = ws
  /\ at' = "summing"
  /\ position' = 1
  /\ random_weight' = 0
  /\ selected' = 0
  /\ sums' = <<0>>
  /\ drawn' = 0
  /\ UNCHANGED <<profile, total_weight>>

(* The next call, with these weights. *)
Begin(ws) ==
  /\ at \notin {"summing", "scanning"}
  /\ weights' = ws
  /\ at' = "summing"
  /\ position' = 1
  /\ total_weight' = 0
  /\ random_weight' = 0
  /\ selected' = 0
  /\ sums' = <<0>>
  /\ drawn' = 0
  /\ UNCHANGED profile

Sum ==
  /\ at = "summing" /\ position <= Len(weights)
  /\ LET s == total_weight + weights[position]
     IN  IF s >= U32 /\ profile = "dev"
           THEN at' = "panicked" /\ UNCHANGED <<position, total_weight, sums>>
           ELSE /\ total_weight' = s % U32
                /\ sums' = Append(sums, sums[position] + weights[position])
                /\ position' = position + 1
                /\ UNCHANGED at
  /\ UNCHANGED <<weights, profile, random_weight, selected, drawn>>

(* MUTANT: a draw that may be the total itself. *)
DrawInclusive ==
  /\ at = "summing" /\ position > Len(weights)
  /\ IF total_weight = 0
       THEN at' = "done" /\ UNCHANGED <<position, random_weight, drawn>>
       ELSE /\ drawn' \in 0 .. total_weight
            /\ random_weight' = drawn'
            /\ position' = 1
            /\ at' = "scanning"
  /\ UNCHANGED <<weights, profile, total_weight, selected, sums>>

Draw ==
  /\ at = "summing" /\ position > Len(weights)
  /\ IF total_weight = 0
       THEN at' = "done" /\ UNCHANGED <<position, random_weight, drawn>>
       ELSE /\ drawn' \in 0 .. total_weight - 1
            /\ random_weight' = drawn'
            /\ position' = 1
            /\ at' = "scanning"
  /\ UNCHANGED <<weights, profile, total_weight, selected, sums>>

(* A backend that does not take the number; after the last one, the last   *)
(* one stands in.                                                          *)
Pass ==
  /\ random_weight' = random_weight - weights[position]
  /\ position' = position + 1
  /\ IF position = Len(weights) THEN selected' = position /\ at' = "fell back"
                                ELSE UNCHANGED <<selected, at>>

Take == selected' = position /\ at' = "done" /\ UNCHANGED <<position, random_weight>>

(* MUTANT: a backend takes the number that equals its weight, too. *)
ScanInclusive ==
  /\ at = "scanning"
  /\ IF random_weight <= weights[position] THEN Take ELSE Pass
  /\ UNCHANGED <<weights, profile, total_weight, sums, drawn>>

Scan ==
  /\ at = "scanning"
  /\ IF random_weight < weights[position] THEN Take ELSE Pass
  /\ UNCHANGED <<weights, profile, total_weight, sums, drawn>>

Drawing == Sum \/ Draw \/ Scan

DrawNext == Drawing \/ \E ws \in WeightLists : Begin(ws)

DrawSpec == DrawInit /\ [][DrawNext]_draw

-----------------------------------------------------------------------------
(* Properties *)

Positive == {k \in DOMAIN weights : weights[k] > 0}

(* The weights of this call do not add up to more than a u32 holds. *)
Fits == at \in {"scanning", "done"} => sums[Len(weights) + 1] < U32

(* Every variable has its type. *)
DrawTypeOK ==
  /\ weights \in WeightLists \cup {<<>>}
  /\ profile \in Profiles
  /\ at \in {"idle", "summing", "scanning", "done", "fell back", "panicked"}
  /\ position \in 1 .. Len(weights) + 1
  /\ total_weight \in 0 .. U32 - 1
  /\ random_weight \in 0 .. U32 - 1
  /\ selected \in 0 .. Len(weights)
  /\ sums \in Seq(Nat)
  /\ drawn \in 0 .. U32 - 1

(***************************************************************************)
(* When the weights fit, every number that can be drawn belongs to exactly *)
(* one backend, and to each as many as its weight says: the one that is    *)
(* selected has the drawn number between the weights before it and its     *)
(* own.  None is answered only when all weights are zero.                  *)
(***************************************************************************)
DrawsInProportion ==
  at = "done" /\ Fits =>
    IF selected = 0 THEN Positive = {}
                    ELSE sums[selected] <= drawn /\ drawn < sums[selected + 1]

(* Whatever the weights, wrapped sums included, the walk ends at a backend *)
(* of positive weight: the fallback for rounding errors is never needed.   *)
NeverFallsBack ==
  /\ at # "fell back"
  /\ selected # 0 => weights[selected] > 0

(***************************************************************************)
(* A backend of positive weight is enough for an answer, unless the        *)
(* weights are too heavy for a u32 together: then a build that checks for  *)
(* overflow panics, and one that wraps may find a sum of zero and answer   *)
(* None.                                                                   *)
(***************************************************************************)
FailsOnlyByOverflow ==
  /\ at = "panicked" => profile = "dev" /\ sums[position] + weights[position] >= U32
  /\ at = "done" /\ selected = 0 /\ Positive # {} =>
       profile = "release" /\ sums[Len(weights) + 1] >= U32

=============================================================================
