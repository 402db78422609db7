------------------------- MODULE RouterPluginProofs --------------------------
(***************************************************************************)
(* Proofs about the draws of WeightedDraw, for any weights, any number of  *)
(* backends and any width of a u32, and about RouterPlugin, which makes    *)
(* them one after the other: for any tasks, rules, lists and clients.      *)
(***************************************************************************)
EXTENDS RouterPlugin, RoutingProofs, FiniteSetTheorems

(* The sums are those of the weights, and they grow. *)
SumsInv ==
  /\ sums \in Seq(Nat) /\ Len(sums) \in 1 .. Len(weights) + 1 /\ sums[1] = 0
  /\ \A k \in 1 .. Len(sums) - 1 : sums[k + 1] = sums[k] + weights[k]
  /\ \A j, k \in 1 .. Len(sums) : j <= k => sums[j] <= sums[k]
  /\ at \in {"summing", "panicked"} => Len(sums) = position
  /\ at \in {"scanning", "done", "fell back"} => Len(sums) = Len(weights) + 1

(* The u32 holds no more than the sum, and the sum itself where it fits. *)
TotalInv ==
  at # "panicked" => /\ total_weight <= sums[Len(sums)]
                     /\ sums[Len(sums)] < U32 => total_weight = sums[Len(sums)]
                     /\ profile = "dev" => sums[Len(sums)] < U32
                     /\ total_weight = sums[Len(sums)] % U32

(* What is left of the number drawn, and the weights passed, make it up. *)
ScanInv ==
  /\ at # "fell back"
  /\ at \in {"idle", "summing", "panicked"} => selected = 0
  /\ at = "panicked" => /\ profile = "dev" /\ position <= Len(weights)
                        /\ sums[position] + weights[position] >= U32
  /\ at = "scanning" => /\ selected = 0 /\ position <= Len(weights)
                        /\ drawn = random_weight + sums[position]
                        /\ drawn < total_weight
  /\ at = "done" /\ selected = 0 => total_weight = 0
  /\ at = "done" /\ selected # 0 => /\ drawn = random_weight + sums[selected]
                                    /\ random_weight < weights[selected]
                                    /\ drawn < total_weight

IInv == DrawTypeOK /\ SumsInv /\ TotalInv /\ ScanInv

(* A remainder is below its divisor and no more than what it is taken of. *)
LEMMA Remainder ==
  ASSUME NEW s \in Nat
  PROVE  /\ s % U32 \in 0 .. U32 - 1 /\ s % U32 <= s
         /\ s < U32 => s % U32 = s
BY U32Assumption, SMTT(30)

LEMMA Quotient ==
  ASSUME NEW n \in Nat \ {0}, NEW c \in Nat
  PROVE  c = n * (c \div n) + (c % n) /\ c \div n \in Nat /\ c % n \in 0 .. n - 1
OBVIOUS

LEMMA OneRemainder ==
  ASSUME NEW n \in Nat \ {0}, NEW q \in Nat, NEW r \in 0 .. n - 1
  PROVE  (n * q + r) % n = r
OBVIOUS

(* A remainder goes on as the number it is of. *)
LEMMA RemainderGoesOn ==
  ASSUME NEW n \in Nat \ {0}, NEW s \in Nat, NEW w \in 0 .. n - 1
  PROVE  ((s % n) + w) % n = (s + w) % n
<1> DEFINE q == s \div n
           r == s % n
<1>1. s = n * q + r /\ q \in Nat /\ r \in 0 .. n - 1
  BY Quotient
<1> HIDE DEF q, r
<1>2. CASE r + w < n
  <2>1. s + w = n * q + (r + w) /\ r + w \in 0 .. n - 1
    BY <1>1, <1>2
  <2>2. r + w = n * 0 + (r + w) /\ 0 \in Nat
    BY <1>1
  <2>3. (s + w) % n = r + w
    BY <1>1, <2>1, OneRemainder
  <2>4. (r + w) % n = r + w
    BY <2>1, <2>2, OneRemainder
  <2> QED
    BY <2>3, <2>4 DEF r
<1>3. CASE ~(r + w < n)
  <2> DEFINE m == (r + w) - n
  <2>1. m \in 0 .. n - 1
    BY <1>1, <1>3
  <2>2. r + w = n * 1 + m /\ 1 \in Nat
    BY <1>1
  <2>3. s + w = n * (q + 1) + m /\ q + 1 \in Nat
    BY <1>1
  <2> HIDE DEF m
  <2>4. (s + w) % n = m
    BY <2>1, <2>3, OneRemainder
  <2>5. (r + w) % n = m
    BY <2>1, <2>2, OneRemainder
  <2> QED
    BY <2>4, <2>5 DEF r
<1> QED
  BY <1>2, <1>3

LEMMA WeightsAreU32 ==
  ASSUME DrawTypeOK
  PROVE  /\ weights \in Seq(0 .. U32 - 1) /\ Len(weights) \in Nat /\ U32 \in Nat \ {0}
         /\ DOMAIN weights = 1 .. Len(weights)
         /\ \A k \in 1 .. Len(weights) : weights[k] \in 0 .. U32 - 1
<1>1. weights \in WeightLists \cup {<<>>}
  BY DEF DrawTypeOK
<1>2. weights \in Seq(0 .. U32 - 1) /\ U32 \in Nat \ {0}
  <2>1. <<>> \in Seq(0 .. U32 - 1)
    OBVIOUS
  <2> QED
    BY <1>1, <2>1, WeightsAssumption, U32Assumption
<1>3. DOMAIN weights = 1 .. Len(weights) /\ Len(weights) \in Nat
  BY <1>2
<1>5. \A k \in 1 .. Len(weights) : weights[k] \in 0 .. U32 - 1
  BY <1>2, <1>3
<1> QED
  BY <1>2, <1>3, <1>5

LEMMA Ranges ==
  ASSUME DrawTypeOK
  PROVE  /\ total_weight \in Nat /\ random_weight \in Nat /\ drawn \in Nat
         /\ position \in Nat \ {0} /\ selected \in 0 .. Len(weights)
<1>1. U32 \in Nat \ {0} /\ Len(weights) \in Nat
  BY WeightsAreU32
<1>2. /\ total_weight \in 0 .. U32 - 1 /\ random_weight \in 0 .. U32 - 1
      /\ drawn \in 0 .. U32 - 1
      /\ position \in 1 .. Len(weights) + 1 /\ selected \in 0 .. Len(weights)
  BY DEF DrawTypeOK
<1> QED
  BY <1>1, <1>2

LEMMA InitIInv == DrawInit => IInv
<1>1. 0 % U32 = 0
  BY U32Assumption, Remainder
<1> QED
  BY <1>1, U32Assumption DEF DrawInit, IInv, DrawTypeOK, SumsInv, TotalInv, ScanInv

LEMMA BeginKeepsIInv == ASSUME IInv, NEW ws \in WeightLists, Begin(ws) PROVE IInv'
<1>1. ws \in Seq(0 .. U32 - 1) /\ Len(ws) \in Nat /\ U32 \in Nat \ {0}
  BY WeightsAssumption, U32Assumption
<1>2. DrawTypeOK'
  <2>1. /\ at' = "summing" /\ position' = 1 /\ weights' = ws /\ sums' = <<0>>
        /\ profile' = profile /\ profile \in Profiles
        /\ total_weight' = 0 /\ random_weight' = 0 /\ selected' = 0 /\ drawn' = 0
    BY DEF Begin, IInv, DrawTypeOK
  <2>2. <<0>> \in Seq(Nat) /\ 0 \in 0 .. U32 - 1
    BY <1>1
  <2>3. 1 \in 1 .. Len(ws) + 1 /\ 0 \in 0 .. Len(ws)
    BY <1>1
  <2> QED
    BY <2>1, <2>2, <2>3 DEF DrawTypeOK
<1>3. SumsInv' /\ TotalInv' /\ ScanInv'
  <2>1. 0 % U32 = 0
    BY <1>1, Remainder
  <2> QED
    BY <1>1, <2>1 DEF Begin, SumsInv, TotalInv, ScanInv
<1> QED
  BY <1>2, <1>3 DEF IInv

LEMMA SumKeepsIInv == ASSUME IInv, Sum PROVE IInv'
<1> DEFINE w == weights[position]
           s == total_weight + w
<1> USE DEF IInv
<1>1. /\ w \in 0 .. U32 - 1 /\ position \in 1 .. Len(weights) /\ Len(weights) \in Nat
      /\ U32 \in Nat \ {0} /\ s \in Nat
  BY WeightsAreU32 DEF Sum, DrawTypeOK
<1>2. CASE s >= U32 /\ profile = "dev"
  BY <1>1, <1>2 DEF Sum, DrawTypeOK, SumsInv, TotalInv, ScanInv
<1>3. CASE ~(s >= U32 /\ profile = "dev")
  <2>1. /\ total_weight' = s % U32 /\ sums' = Append(sums, sums[position] + w)
        /\ position' = position + 1
        /\ UNCHANGED <<weights, profile, at, random_weight, selected, drawn>>
    BY <1>3 DEF Sum
  <2>2. s % U32 \in 0 .. U32 - 1 /\ s % U32 <= s /\ (s < U32 => s % U32 = s)
    BY <1>1, Remainder
  <2>3. at = "summing" /\ Len(sums) = position /\ sums \in Seq(Nat) /\ sums[position] \in Nat
    BY <1>1 DEF Sum, SumsInv
  <2>4. sums' \in Seq(Nat) /\ Len(sums') = position + 1
        /\ (\A k \in 1 .. position : sums'[k] = sums[k])
        /\ sums'[position + 1] = sums[position] + w
    BY <1>1, <2>1, <2>3
  <2> HIDE DEF w
  <2>5. DrawTypeOK'
    <3>1. UNCHANGED <<weights, profile, at, random_weight, selected, drawn>>
          /\ total_weight' \in 0 .. U32 - 1 /\ position' \in 1 .. Len(weights) + 1
          /\ sums' \in Seq(Nat)
      BY <1>1, <2>1, <2>2, <2>4
    <3> QED
      BY <3>1 DEF DrawTypeOK
  <2>6. SumsInv'
    <3>1. Len(sums') \in 1 .. Len(weights') + 1 /\ sums'[1] = 0
      BY <1>1, <2>1, <2>3, <2>4 DEF SumsInv
    <3>2. \A k \in 1 .. Len(sums') - 1 : sums'[k + 1] = sums'[k] + weights'[k]
      <4>0. Len(sums') - 1 = position /\ weights' = weights
        BY <1>1, <2>1, <2>4
      <4> SUFFICES ASSUME NEW k \in 1 .. position
                   PROVE  sums'[k + 1] = sums'[k] + weights[k]
        BY <4>0
      <4>1. CASE k = position
        BY <1>1, <2>4, <4>1 DEF w
      <4>2. CASE k # position
        <5>1. k \in 1 .. position - 1 /\ k + 1 \in 1 .. position
          BY <1>1, <4>2
        <5> QED
          BY <2>3, <2>4, <5>1 DEF SumsInv
      <4> QED
        BY <4>1, <4>2
    <3>3. \A j, k \in 1 .. Len(sums') : j <= k => sums'[j] <= sums'[k]
      <4> SUFFICES ASSUME NEW j \in 1 .. position + 1, NEW k \in 1 .. position + 1, j <= k
                   PROVE  sums'[j] <= sums'[k]
        BY <2>4
      <4>1. \A i \in 1 .. position : sums'[i] \in Nat /\ sums'[i] <= sums[position]
        BY <1>1, <2>3, <2>4 DEF SumsInv
      <4>2. CASE k = position + 1
        BY <1>1, <2>3, <2>4, <4>1, <4>2
      <4>3. CASE k # position + 1
        <5>1. j \in 1 .. position /\ k \in 1 .. position
          BY <1>1, <4>3
        <5> QED
          BY <2>3, <2>4, <5>1 DEF SumsInv
      <4> QED
        BY <4>2, <4>3
    <3> QED
      BY <2>1, <2>3, <2>4, <3>1, <3>2, <3>3 DEF SumsInv
  <2>7. TotalInv'
    <3>1. total_weight <= sums[position]
          /\ (sums[position] < U32 => total_weight = sums[position])
          /\ (profile = "dev" => sums[position] < U32)
      BY <2>3 DEF TotalInv
    <3>2. total_weight \in Nat
      BY Ranges
    <3>3. Len(sums') = position + 1 /\ sums'[Len(sums')] = sums[position] + w
      BY <2>4
    <3>4. s % U32 <= sums[position] + w
          /\ (sums[position] + w < U32 => s % U32 = sums[position] + w)
      <4> DEFINE r == s % U32
      <4>1. r \in Nat /\ r <= s /\ (s < U32 => r = s)
        BY <1>1, <2>2
      <4> HIDE DEF r
      <4>2. r <= sums[position] + w /\ (sums[position] + w < U32 => r = sums[position] + w)
        BY <1>1, <2>3, <3>1, <3>2, <4>1
      <4> QED
        BY <4>2 DEF r
    <3>5. profile = "dev" => sums[position] + w < U32
      BY <1>1, <1>3, <2>3, <3>1, <3>2 DEF w
    <3>6. s % U32 = (sums[position] + w) % U32
      <4>1. total_weight = sums[position] % U32
        BY <2>3 DEF TotalInv
      <4> QED
        BY <1>1, <2>3, <4>1, RemainderGoesOn
    <3> QED
      BY <2>1, <3>3, <3>4, <3>5, <3>6 DEF TotalInv
  <2>8. ScanInv'
    BY <2>1, <2>3 DEF ScanInv
  <2> QED
    BY <2>5, <2>6, <2>7, <2>8
<1> QED
  BY <1>2, <1>3

LEMMA DrawKeepsIInv == ASSUME IInv, Draw PROVE IInv'
<1> USE DEF IInv
<1>1. /\ Len(weights) \in Nat /\ U32 \in Nat \ {0} /\ total_weight \in 0 .. U32 - 1
      /\ position = Len(weights) + 1 /\ Len(sums) = position /\ at = "summing"
  BY WeightsAreU32 DEF Draw, DrawTypeOK, SumsInv
<1>2. CASE total_weight = 0
  BY <1>1, <1>2 DEF Draw, DrawTypeOK, SumsInv, TotalInv, ScanInv
<1>3. CASE total_weight # 0
  <2>1. /\ drawn' \in 0 .. total_weight - 1 /\ random_weight' = drawn' /\ position' = 1
        /\ at' = "scanning"
        /\ UNCHANGED <<weights, profile, total_weight, selected, sums>>
    BY <1>3 DEF Draw
  <2>2. DrawTypeOK' /\ SumsInv' /\ TotalInv'
    BY <1>1, <2>1 DEF DrawTypeOK, SumsInv, TotalInv
  <2>3. sums[1] = 0 /\ Len(weights) # 0
    BY <1>1, <1>3 DEF SumsInv, TotalInv
  <2>4. ScanInv'
    <3>1. selected' = 0 /\ weights' = weights /\ sums' = sums /\ total_weight' = total_weight
      BY <1>1, <2>1 DEF ScanInv
    <3>2. /\ position' = 1 /\ position' <= Len(weights) /\ drawn' < total_weight
          /\ drawn' = random_weight' + sums[position']
      <4>1. Len(weights) >= 1
        BY <1>1, <2>3
      <4>2. drawn' \in Nat /\ drawn' < total_weight /\ random_weight' = drawn'
        BY <1>1, <2>1
      <4>3. position' = 1
        BY <2>1
      <4>4. sums[position'] = 0
        BY <2>3, <4>3
      <4>5. drawn' = random_weight' + 0
        <5>1. \A d, r \in Nat : r = d => d = r + 0
          OBVIOUS
        <5> QED
          BY <4>2, <5>1
      <4> QED
        BY <4>1, <4>2, <4>3, <4>4, <4>5
    <3> QED
      BY <2>1, <3>1, <3>2 DEF ScanInv
  <2> QED
    BY <2>2, <2>4
<1> QED
  BY <1>2, <1>3

LEMMA ScanKeepsIInv == ASSUME IInv, Scan PROVE IInv'
<1> DEFINE w == weights[position]
<1> USE DEF IInv
<1>1. /\ at = "scanning" /\ position \in 1 .. Len(weights) /\ Len(weights) \in Nat
      /\ w \in 0 .. U32 - 1 /\ U32 \in Nat \ {0} /\ random_weight \in 0 .. U32 - 1
      /\ Len(sums) = Len(weights) + 1 /\ drawn \in 0 .. U32 - 1
  <2>1. /\ at = "scanning" /\ position <= Len(weights) /\ position \in Nat \ {0}
        /\ Len(weights) \in Nat /\ U32 \in Nat \ {0}
    BY WeightsAreU32, Ranges DEF Scan, ScanInv
  <2>2. position \in 1 .. Len(weights)
    BY <2>1
  <2>3. w \in 0 .. U32 - 1
    BY <2>2, WeightsAreU32
  <2> QED
    BY <2>1, <2>2, <2>3 DEF DrawTypeOK, SumsInv
<1>2. /\ sums[position] \in Nat /\ sums[position + 1] = sums[position] + w
      /\ drawn = random_weight + sums[position] /\ drawn < total_weight
  BY <1>1 DEF SumsInv, ScanInv
<1>3. CASE random_weight < w
  BY <1>1, <1>2, <1>3 DEF Scan, Take, DrawTypeOK, SumsInv, TotalInv, ScanInv
<1>4. CASE ~(random_weight < w)
  <2>1. /\ random_weight' = random_weight - w /\ position' = position + 1
        /\ UNCHANGED <<weights, profile, total_weight, sums, drawn>>
    BY <1>4 DEF Scan, Pass
  <2>2. position # Len(weights)
    <3> SUFFICES ASSUME position = Len(weights) PROVE FALSE
      OBVIOUS
    <3>1. total_weight <= sums[position + 1]
      BY <1>1 DEF TotalInv
    <3> QED
      BY <1>1, <1>2, <1>4, <3>1 DEF DrawTypeOK
  <2>3. UNCHANGED <<selected, at>>
    BY <1>4, <2>2 DEF Scan, Pass
  <2>4. SumsInv' /\ TotalInv'
    BY <1>1, <2>1, <2>3 DEF SumsInv, TotalInv
  <2>6. DrawTypeOK'
    <3>1. random_weight' \in 0 .. U32 - 1 /\ position' \in 1 .. Len(weights) + 1
      BY <1>1, <1>4, <2>1
    <3> QED
      BY <2>1, <2>3, <3>1 DEF DrawTypeOK
  <2>5. ScanInv'
    BY <1>1, <1>2, <1>4, <2>1, <2>2, <2>3 DEF ScanInv
  <2> QED
    BY <2>4, <2>5, <2>6
<1> QED
  BY <1>3, <1>4

LEMMA IInvStep == IInv /\ [DrawNext]_draw => IInv'
<1> SUFFICES ASSUME IInv, [DrawNext]_draw PROVE IInv'
  OBVIOUS
<1>1. CASE UNCHANGED draw
  BY <1>1 DEF draw, IInv, DrawTypeOK, SumsInv, TotalInv, ScanInv
<1> QED
  BY <1>1, BeginKeepsIInv, SumKeepsIInv, DrawKeepsIInv, ScanKeepsIInv DEF DrawNext, Drawing

(* The arithmetic stays within a u32 and the walk within the list.         *)
THEOREM DrawTyping == DrawSpec => []DrawTypeOK
<1>1. IInv => DrawTypeOK
  BY DEF IInv
<1> QED
  BY <1>1, InitIInv, IInvStep, PTL DEF DrawSpec

(* Weights that fit into a u32 are drawn in proportion: each number below  *)
(* the total leads to one backend, as many of them as its weight says.     *)
THEOREM AlwaysDrawsInProportion == DrawSpec => []DrawsInProportion
<1>1. IInv => DrawsInProportion
  <2> SUFFICES ASSUME IInv, at = "done", Fits
               PROVE  IF selected = 0 THEN Positive = {}
                      ELSE sums[selected] <= drawn /\ drawn < sums[selected + 1]
    BY DEF DrawsInProportion
  <2>1. /\ Len(sums) = Len(weights) + 1 /\ Len(weights) \in Nat
        /\ \A k \in 1 .. Len(weights) : /\ weights[k] \in Nat /\ sums[k] \in Nat
                                        /\ sums[k + 1] = sums[k] + weights[k]
    <3>1. /\ \A k \in 1 .. Len(weights) : weights[k] \in 0 .. U32 - 1
          /\ Len(weights) \in Nat /\ U32 \in Nat \ {0}
      BY WeightsAreU32 DEF IInv
    <3>2. /\ Len(sums) = Len(weights) + 1 /\ sums \in Seq(Nat)
          /\ \A k \in 1 .. Len(sums) - 1 : sums[k + 1] = sums[k] + weights[k]
      BY DEF IInv, SumsInv
    <3>3. \A k \in 1 .. Len(weights) : weights[k] \in Nat
      BY <3>1
    <3> QED
      BY <3>1, <3>2, <3>3
  <2>2. CASE selected = 0
    <3>1. sums[Len(weights) + 1] = 0
      BY <2>1, <2>2 DEF IInv, TotalInv, ScanInv, Fits
    <3>2. \A k \in 1 .. Len(weights) : sums[k + 1] <= 0
      <4> SUFFICES ASSUME NEW k \in 1 .. Len(weights) PROVE sums[k + 1] <= 0
        OBVIOUS
      <4>1. k + 1 \in 1 .. Len(sums) /\ Len(sums) \in 1 .. Len(sums) /\ k + 1 <= Len(sums)
        BY <2>1
      <4>2. sums[k + 1] <= sums[Len(sums)]
        BY <4>1 DEF IInv, SumsInv
      <4> QED
        BY <2>1, <3>1, <4>2
    <3>3. \A k \in 1 .. Len(weights) : weights[k] = 0
      BY <2>1, <3>2
    <3> QED
      BY <2>2, <3>3, WeightsAreU32 DEF Positive, IInv
  <2>3. CASE selected # 0
    <3>1. selected \in 1 .. Len(weights) /\ random_weight \in Nat
      BY <2>3, Ranges DEF IInv
    <3>2. drawn = random_weight + sums[selected] /\ random_weight < weights[selected]
      BY <2>3 DEF IInv, ScanInv
    <3> QED
      BY <2>1, <2>3, <3>1, <3>2
  <2> QED
    BY <2>2, <2>3
<1> QED
  BY <1>1, InitIInv, IInvStep, PTL DEF DrawSpec

(* The fallback for rounding errors is dead code, even when a sum wraps.   *)
THEOREM FallbackIsNeverNeeded == DrawSpec => []NeverFallsBack
<1>1. IInv => NeverFallsBack
  <2> SUFFICES ASSUME IInv, selected # 0 PROVE at # "fell back" /\ weights[selected] > 0
    BY DEF NeverFallsBack, IInv, ScanInv
  <2>1. at = "done" /\ random_weight < weights[selected]
    BY DEF IInv, DrawTypeOK, ScanInv
  <2>2. selected \in 1 .. Len(weights) /\ random_weight \in Nat /\ weights[selected] \in Nat
    BY Ranges, WeightsAreU32 DEF IInv
  <2> QED
    BY <2>1, <2>2
<1> QED
  BY <1>1, InitIInv, IInvStep, PTL DEF DrawSpec

(* What a weighted selection fails for, other than weights of zero. *)
THEOREM DrawsFailOnlyByOverflow == DrawSpec => []FailsOnlyByOverflow
<1>1. IInv => FailsOnlyByOverflow
  <2> SUFFICES ASSUME IInv PROVE FailsOnlyByOverflow
    OBVIOUS
  <2>1. at = "panicked" => profile = "dev" /\ sums[position] + weights[position] >= U32
    BY DEF IInv, ScanInv
  <2>2. ASSUME at = "done", selected = 0, Positive # {}
        PROVE  profile = "release" /\ sums[Len(weights) + 1] >= U32
    <3>1. total_weight = 0 /\ Len(sums) = Len(weights) + 1
      BY <2>2 DEF IInv, ScanInv, SumsInv
    <3>2. PICK k \in 1 .. Len(weights) : weights[k] > 0
      BY <2>2, WeightsAreU32 DEF Positive, IInv
    <3>3. /\ sums \in Seq(Nat) /\ k \in Nat /\ k + 1 \in 1 .. Len(sums)
          /\ k \in 1 .. Len(sums) - 1 /\ Len(sums) \in Nat
      BY <3>1, WeightsAreU32 DEF IInv, SumsInv
    <3>4. sums[k + 1] = sums[k] + weights[k] /\ sums[k + 1] <= sums[Len(sums)]
      <4>1. Len(sums) \in 1 .. Len(sums) /\ k + 1 <= Len(sums)
        BY <3>3
      <4> QED
        BY <3>3, <4>1 DEF IInv, SumsInv
    <3>5. /\ sums[k] \in Nat /\ sums[k + 1] \in Nat /\ sums[Len(sums)] \in Nat
          /\ weights[k] \in Nat
      BY <3>2, <3>3, WeightsAreU32 DEF IInv
    <3>6. sums[Len(sums)] > 0
      BY <3>2, <3>4, <3>5
    <3>7. ~(sums[Len(sums)] < U32)
      BY <2>2, <3>1, <3>6 DEF IInv, TotalInv
    <3>8. profile # "dev"
      BY <2>2, <3>7 DEF IInv, TotalInv
    <3>9. profile = "release"
      BY <3>8, ProfilesAssumption DEF IInv, DrawTypeOK
    <3> QED
      BY <3>1, <3>5, <3>7, <3>9, U32Assumption
  <2> QED
    BY <2>1, <2>2 DEF FailsOnlyByOverflow
<1> QED
  BY <1>1, InitIInv, IInvStep, PTL DEF DrawSpec

-----------------------------------------------------------------------------
(***************************************************************************)
(* The weighted router draws by the rules of WeightedDraw: every step of   *)
(* RouterPlugin, whatever it does besides, is a step of a draw or leaves   *)
(* the draw alone.                                                         *)
(***************************************************************************)
ListedInv == listed \in [Rules -> Lists]

LEMMA NextDraws == [Next]_vars /\ ListedInv => [DrawNext]_draw
<1> SUFFICES ASSUME [Next]_vars, listed \in [Rules -> Lists] PROVE [DrawNext]_draw
  BY DEF ListedInv
<1>1. CASE UNCHANGED vars
  BY <1>1 DEF vars
<1>2. ASSUME NEW t \in Tasks, SelectWeighted(t) PROVE DrawNext
  <2>1. PICK n \in Rules : Begin(Weights(listed[n]))
    BY <1>2 DEF SelectWeighted
  <2>2. Weights(listed[n]) \in WeightLists
    BY ListsAssumption DEF Weights
  <2> QED
    BY <2>1, <2>2 DEF DrawNext
<1>3. ASSUME NEW t \in Tasks, DrawOn(t) PROVE DrawNext
  BY <1>3 DEF DrawOn, DrawNext
<1>4. ASSUME NEW t \in Tasks, Select(t) \/ Drawn(t) \/ Panic(t) \/ Count(t) PROVE UNCHANGED draw
  BY <1>4 DEF Select, Drawn, Panic, Count
<1>5. ASSUME NEW o, Initialize(o) PROVE UNCHANGED draw
  BY <1>5 DEF Initialize
<1>6. ASSUME NEW n, NEW bs, Relist(n, bs) PROVE UNCHANGED draw
  BY <1>6 DEF Relist
<1>7. ASSUME NEW id, NEW flag, OnBackendHealthChanged(id, flag) PROVE UNCHANGED draw
  BY <1>7 DEF OnBackendHealthChanged
<1> QED
  BY <1>1, <1>2, <1>3, <1>4, <1>5, <1>6, <1>7 DEF Next

LEMMA ListedHolds == Spec => []ListedInv
<1>1. Init => ListedInv
  BY DEF Init, ListedInv
<1>2. ListedInv /\ [Next]_vars => ListedInv'
  BY DEF ListedInv, Next, vars, Select, SelectWeighted, DrawOn, Drawn, Panic, Count, Initialize, Relist,
     OnBackendHealthChanged
<1> QED
  BY <1>1, <1>2, PTL DEF Spec

THEOREM PluginDraws == Spec => DrawSpec
<1>1. Init => DrawInit
  BY DEF Init
<1> QED
  BY <1>1, NextDraws, ListedHolds, PTL DEF Spec, DrawSpec

(* So a router under any load draws in proportion, never falls back, and   *)
(* fails for overflow only.                                                *)
THEOREM RouterDrawsInProportion == Spec => []DrawsInProportion
BY PluginDraws, AlwaysDrawsInProportion, PTL

THEOREM RouterNeverFallsBack == Spec => []NeverFallsBack
BY PluginDraws, FallbackIsNeverNeeded, PTL

THEOREM RouterFailsOnlyByOverflow == Spec => []FailsOnlyByOverflow
BY PluginDraws, DrawsFailOnlyByOverflow, PTL

-----------------------------------------------------------------------------
(***************************************************************************)
(* The statistics.  The selections under way are a set that a step of a    *)
(* task enters or leaves, so that counting goes step by step.              *)
(***************************************************************************)
Busy == {t \in Tasks : picking[t] # Outside}

CountInv ==
  /\ DOMAIN picking = Tasks
  /\ \E s, f \in Nat :
       /\ \E h : stats = [total |-> s + f, successful |-> s, failed |-> f, healthy |-> h]
       /\ s + f + Cardinality(Busy) + panics = requests
  /\ requests \in Nat /\ panics \in Nat

LEMMA BusyIsFinite == IsFiniteSet(Busy) /\ Cardinality(Busy) \in Nat
BY TasksAssumption, FS_Subset, FS_CardinalityType DEF Busy

(* A selection begins. *)
LEMMA BusyGains ==
  ASSUME NEW t \in Tasks, DOMAIN picking = Tasks, picking[t] = Outside, NEW p, p # Outside,
         picking' = [picking EXCEPT ![t] = p]
  PROVE  Cardinality(Busy') = Cardinality(Busy) + 1
<1>1. Busy' = Busy \cup {t} /\ t \notin Busy
  BY DEF Busy
<1> QED
  BY <1>1, BusyIsFinite, FS_AddElement

(* A selection ends. *)
LEMMA BusyLoses ==
  ASSUME NEW t \in Tasks, DOMAIN picking = Tasks, picking[t] # Outside,
         picking' = [picking EXCEPT ![t] = Outside]
  PROVE  Cardinality(Busy') = Cardinality(Busy) - 1
<1>1. Busy' = Busy \ {t} /\ t \in Busy
  BY DEF Busy
<1> QED
  BY <1>1, BusyIsFinite, FS_RemoveElement

(* A selection goes on. *)
LEMMA BusyStays ==
  ASSUME NEW t \in Tasks, DOMAIN picking = Tasks, picking[t] # Outside, NEW p, p # Outside,
         picking' = [picking EXCEPT ![t] = p]
  PROVE  Busy' = Busy
BY DEF Busy

LEMMA CountStep == CountInv /\ [Next]_vars => CountInv'
<1> SUFFICES ASSUME CountInv, [Next]_vars PROVE CountInv'
  OBVIOUS
<1>0. PICK s \in Nat, f \in Nat :
        /\ \E h : stats = [total |-> s + f, successful |-> s, failed |-> f, healthy |-> h]
        /\ s + f + Cardinality(Busy) + panics = requests
  BY DEF CountInv
<1>0a. PICK h : stats = [total |-> s + f, successful |-> s, failed |-> f, healthy |-> h]
  BY <1>0
<1>1. /\ stats = [total |-> s + f, successful |-> s, failed |-> f, healthy |-> h]
      /\ s + f + Cardinality(Busy) + panics = requests
  BY <1>0, <1>0a
<1>2. DOMAIN picking = Tasks /\ requests \in Nat /\ panics \in Nat /\ Cardinality(Busy) \in Nat
  BY BusyIsFinite DEF CountInv
<1>3. ASSUME UNCHANGED <<stats, picking, requests, panics>> PROVE CountInv'
  <2>1. Busy' = Busy
    BY <1>3 DEF Busy
  <2> QED
    BY <1>1, <1>2, <1>3, <2>1 DEF CountInv
<1>4. ASSUME NEW t \in Tasks, Select(t) \/ SelectWeighted(t) PROVE CountInv'
  <2>1. PICK p : p # Outside /\ picking' = [picking EXCEPT ![t] = p]
    <3>1. CASE Select(t)
      <4>1. PICK n, k : Pick(t, n, k)
        BY <3>1 DEF Select
      <4>2. [step |-> "picked", rule |-> n, position |-> k] # Outside
        BY DEF Outside
      <4> QED
        BY <4>1, <4>2 DEF Pick
    <3>2. CASE SelectWeighted(t)
      <4>1. PICK n : picking' = [picking EXCEPT ![t] = [step |-> "drawing", rule |-> n]]
        BY <3>2 DEF SelectWeighted
      <4>2. [step |-> "drawing", rule |-> n] # Outside
        BY DEF Outside
      <4> QED
        BY <4>1, <4>2
    <3> QED
      BY <1>4, <3>1, <3>2
  <2>2. /\ picking[t] = Outside /\ requests' = requests + 1
        /\ UNCHANGED <<stats, panics>>
    BY <1>4 DEF Select, SelectWeighted
  <2>3. Cardinality(Busy') = Cardinality(Busy) + 1
    BY <1>2, <2>1, <2>2, BusyGains
  <2>4. DOMAIN picking' = Tasks
    BY <1>2, <2>1
  <2>5. s + f + Cardinality(Busy') + panics' = requests'
    BY <1>1, <1>2, <2>2, <2>3
  <2>6. requests' \in Nat /\ panics' \in Nat /\ stats' = stats
    BY <1>2, <2>2
  <2> QED
    BY <1>1, <2>4, <2>5, <2>6 DEF CountInv
<1>5. ASSUME NEW t \in Tasks, Drawn(t) PROVE CountInv'
  <2>1. /\ picking' = [picking EXCEPT ![t] = [step |-> "picked", rule |-> picking[t].rule,
                        position |-> selected]]
        /\ picking[t].step = "drawing" /\ UNCHANGED <<stats, requests, panics>>
    BY <1>5 DEF Drawn, Pick, InDraw
  <2>2. picking[t] # Outside
    BY <2>1 DEF Outside
  <2>3. [step |-> "picked", rule |-> picking[t].rule, position |-> selected] # Outside
    BY DEF Outside
  <2>4. Busy' = Busy
    BY <1>2, <2>1, <2>2, <2>3, BusyStays
  <2> QED
    BY <1>1, <1>2, <2>1, <2>4 DEF CountInv
<1>6. ASSUME NEW t \in Tasks, Panic(t) PROVE CountInv'
  <2>1. /\ picking' = [picking EXCEPT ![t] = Outside] /\ picking[t].step = "drawing"
        /\ panics' = panics + 1 /\ UNCHANGED <<stats, requests>>
    BY <1>6 DEF Panic, InDraw
  <2>2. picking[t] # Outside
    BY <2>1 DEF Outside
  <2>3. Cardinality(Busy') = Cardinality(Busy) - 1
    BY <1>2, <2>1, <2>2, BusyLoses
  <2>4. s + f + Cardinality(Busy') + panics' = requests'
    BY <1>1, <1>2, <2>1, <2>3
  <2>5. DOMAIN picking' = Tasks /\ panics' \in Nat
    BY <1>2, <2>1
  <2> QED
    BY <1>1, <1>2, <2>1, <2>4, <2>5 DEF CountInv
<1>7. ASSUME NEW t \in Tasks, Count(t) PROVE CountInv'
  <2>1. /\ picking' = [picking EXCEPT ![t] = Outside] /\ picking[t].step = "picked"
        /\ UNCHANGED <<requests, panics>>
    BY <1>7 DEF Count
  <2>2. picking[t] # Outside
    BY <2>1 DEF Outside
  <2>3. Cardinality(Busy') = Cardinality(Busy) - 1
    BY <1>2, <2>1, <2>2, BusyLoses
  <2>4. DOMAIN picking' = Tasks
    BY <1>2, <2>1
  <2>5. CASE picking[t].position = 0
    <3>1. stats' = [total |-> s + (f + 1), successful |-> s, failed |-> f + 1, healthy |-> h]
      <4>1. stats' = [stats EXCEPT !.total = @ + 1, !.failed = @ + 1]
        BY <1>7, <2>5 DEF Count
      <4>2. (s + f) + 1 = s + (f + 1)
        OBVIOUS
      <4> QED
        BY <1>1, <4>1, <4>2
    <3>2. s + (f + 1) + Cardinality(Busy') + panics' = requests' /\ f + 1 \in Nat
      BY <1>1, <1>2, <2>1, <2>3
    <3> QED
      BY <1>2, <2>1, <2>4, <3>1, <3>2 DEF CountInv
  <2>6. CASE picking[t].position # 0
    <3>1. stats' = [total |-> (s + 1) + f, successful |-> s + 1, failed |-> f, healthy |-> h]
      <4>1. stats' = [stats EXCEPT !.total = @ + 1, !.successful = @ + 1]
        BY <1>7, <2>6 DEF Count
      <4>2. (s + f) + 1 = (s + 1) + f
        OBVIOUS
      <4> QED
        BY <1>1, <4>1, <4>2
    <3>2. (s + 1) + f + Cardinality(Busy') + panics' = requests' /\ s + 1 \in Nat
      BY <1>1, <1>2, <2>1, <2>3
    <3> QED
      BY <1>2, <2>1, <2>4, <3>1, <3>2 DEF CountInv
  <2> QED
    BY <2>5, <2>6
<1>8. ASSUME NEW id, NEW flag, OnBackendHealthChanged(id, flag) PROVE CountInv'
  <2>1. PICK g : stats' = [stats EXCEPT !.healthy = g]
    BY <1>8 DEF OnBackendHealthChanged
  <2>2. stats' = [total |-> s + f, successful |-> s, failed |-> f, healthy |-> g]
    BY <1>1, <2>1
  <2>3. UNCHANGED <<picking, requests, panics>>
    BY <1>8 DEF OnBackendHealthChanged
  <2>4. Busy' = Busy
    BY <2>3 DEF Busy
  <2> QED
    BY <1>1, <1>2, <2>2, <2>3, <2>4 DEF CountInv
<1> QED
  BY <1>3, <1>4, <1>5, <1>6, <1>7, <1>8
     DEF Next, vars, self, DrawOn, Initialize, Relist

(* However selections overlap, each is counted once, as a success or as a  *)
(* failure, or panics.                                                     *)
THEOREM AnswersAreAlwaysCounted == Spec => []EveryAnswerIsCounted
<1>1. Init => CountInv
  <2> SUFFICES ASSUME Init PROVE CountInv
    OBVIOUS
  <2>1. Busy = {}
    BY DEF Init, Busy
  <2>2. Cardinality(Busy) = 0
    BY <2>1, FS_EmptySet
  <2>3. /\ stats = [total |-> 0 + 0, successful |-> 0, failed |-> 0, healthy |-> 0]
        /\ 0 + 0 + Cardinality(Busy) + panics = requests
        /\ DOMAIN picking = Tasks /\ requests \in Nat /\ panics \in Nat
    BY <2>2 DEF Init
  <2> QED
    BY <2>3 DEF CountInv
<1>2. CountInv => EveryAnswerIsCounted
  <2> SUFFICES ASSUME CountInv PROVE EveryAnswerIsCounted
    OBVIOUS
  <2>1. PICK s \in Nat, f \in Nat :
          /\ \E h : stats = [total |-> s + f, successful |-> s, failed |-> f, healthy |-> h]
          /\ s + f + Cardinality(Busy) + panics = requests
    BY DEF CountInv
  <2> QED
    BY <2>1 DEF EveryAnswerIsCounted, Busy
<1> QED
  BY <1>1, <1>2, CountStep, PTL DEF Spec

-----------------------------------------------------------------------------
(***************************************************************************)
(* Types.  The position a selection has come to is one of the list it was  *)
(* given: the list stays while it is under way, and a draw has its weights.*)
(***************************************************************************)
RouterTypeOK ==
  /\ plugin \in Installed
  /\ hash_key \in Options \cup {"client_ip"}
  /\ counter \in 0 .. CounterSize - 1
  /\ stats \in [{"total", "successful", "failed", "healthy"} -> Nat]
  /\ listed \in [Rules -> Lists]
  /\ requests \in Nat /\ panics \in Nat
  /\ DOMAIN backends = {}

SelectionInv ==
  /\ DOMAIN picking = Tasks
  /\ \A t \in Tasks : picking[t] # Outside => picking[t].rule \in Rules
  /\ \A t \in Tasks : picking[t].step = "picked" =>
       picking[t].position \in DOMAIN listed[picking[t].rule] \cup {0}
  /\ \A t \in Tasks : InDraw(t) => weights = Weights(listed[picking[t].rule])

LEMMA Modulo ==
  ASSUME NEW a \in Nat, NEW n \in Nat \ {0} PROVE a % n \in 0 .. n - 1
BY SMTT(30)

LEMMA RouterTypeStep == RouterTypeOK /\ [Next]_vars => RouterTypeOK'
<1> SUFFICES ASSUME RouterTypeOK, [Next]_vars PROVE RouterTypeOK'
  OBVIOUS
<1> USE DEF RouterTypeOK
<1>1. ASSUME NEW t \in Tasks, Select(t) PROVE RouterTypeOK'
  <2>1. (counter + 1) % CounterSize \in 0 .. CounterSize - 1
    <3>1. counter + 1 \in Nat
      BY CounterAssumption
    <3> QED
      BY <3>1, CounterAssumption, Modulo
  <2>2. counter' \in 0 .. CounterSize - 1
    BY <1>1, <2>1 DEF Select, Advance
  <2> QED
    BY <1>1, <2>2 DEF Select
<1>2. ASSUME NEW t \in Tasks, SelectWeighted(t) \/ DrawOn(t) \/ Drawn(t) \/ Panic(t)
      PROVE  RouterTypeOK'
  <2>1. UNCHANGED <<plugin, hash_key, counter, backends, stats, listed>>
    BY <1>2 DEF SelectWeighted, DrawOn, Drawn, Panic, self
  <2>2. requests' \in {requests, requests + 1} /\ panics' \in {panics, panics + 1}
    BY <1>2 DEF SelectWeighted, DrawOn, Drawn, Panic
  <2>3. requests' \in Nat /\ panics' \in Nat
    BY <2>2
  <2> QED
    BY <2>1, <2>3
<1>3. ASSUME NEW t \in Tasks, Count(t) PROVE RouterTypeOK'
  <2>1. UNCHANGED <<plugin, hash_key, counter, backends, listed, requests, panics>>
    BY <1>3 DEF Count, self
  <2>2. stats.total + 1 \in Nat /\ stats.failed + 1 \in Nat /\ stats.successful + 1 \in Nat
    OBVIOUS
  <2>3. \/ stats' = [stats EXCEPT !.total = stats.total + 1, !.failed = stats.failed + 1]
        \/ stats' = [stats EXCEPT !.total = stats.total + 1, !.successful = stats.successful + 1]
    BY <1>3 DEF Count
  <2>4. stats' \in [{"total", "successful", "failed", "healthy"} -> Nat]
    BY <2>2, <2>3
  <2> QED
    BY <2>1, <2>4
<1>4. ASSUME NEW o \in Options, Initialize(o) PROVE RouterTypeOK'
  BY <1>4 DEF Initialize
<1>5. ASSUME NEW id, NEW flag, OnBackendHealthChanged(id, flag) PROVE RouterTypeOK'
  <2>1. DOMAIN backends' = {}
    BY <1>5 DEF OnBackendHealthChanged, SetHealthy
  <2>2. {k \in DOMAIN backends' : backends'[k].healthy} = {}
    BY <2>1
  <2>3. Cardinality({k \in DOMAIN backends' : backends'[k].healthy}) = 0
    BY <2>2, FS_EmptySet
  <2> QED
    BY <1>5, <2>1, <2>3 DEF OnBackendHealthChanged
<1>6. ASSUME NEW n \in Rules, NEW bs \in Lists, Relist(n, bs) PROVE RouterTypeOK'
  BY <1>6 DEF Relist, self
<1>7. CASE UNCHANGED vars
  BY <1>7 DEF vars, self
<1> QED
  BY <1>1, <1>2, <1>3, <1>4, <1>5, <1>6, <1>7 DEF Next

(* Whatever position a plugin comes to by itself is one of the list. *)
LEMMA PicksArePositions ==
  ASSUME RouterTypeOK, NEW n \in Rules, NEW c \in Clients
  PROVE  Picks(listed[n], c) \subseteq DOMAIN listed[n]
<1>1. /\ Len(listed[n]) \in Nat \ {0} /\ DOMAIN listed[n] = 1 .. Len(listed[n])
      /\ counter \in Nat
  <2>1. listed[n] \in Lists
    BY DEF RouterTypeOK
  <2>2. counter \in Nat
    BY CounterAssumption DEF RouterTypeOK
  <2> QED
    BY <2>1, <2>2, ListsAssumption
<1>2. \A a \in Nat : (a % Len(listed[n])) + 1 \in DOMAIN listed[n]
  <2> SUFFICES ASSUME NEW a \in Nat PROVE (a % Len(listed[n])) + 1 \in DOMAIN listed[n]
    OBVIOUS
  <2>1. a % Len(listed[n]) \in 0 .. Len(listed[n]) - 1
    BY <1>1, Modulo
  <2>2. \A l \in Nat : \A m \in 0 .. l - 1 : m + 1 \in 1 .. l
    OBVIOUS
  <2> QED
    BY <1>1, <2>1, <2>2
<1>3. Turn(Len(listed[n])) \in DOMAIN listed[n]
  BY <1>1, <1>2 DEF Turn
<1>4. HashPosition(Len(listed[n]), c) \in DOMAIN listed[n]
  <2>1. Hash[Key(c)] \in Nat
    BY HashAssumption DEF Key
  <2> QED
    BY <2>1, <1>2 DEF HashPosition
<1>5. plugin \in Plugins
  BY InstalledAssumption DEF RouterTypeOK
<1> QED
  BY <1>3, <1>4, <1>5 DEF Picks, LeastConnections, Plugins

LEMMA SelectionStep ==
  RouterTypeOK /\ DrawTypeOK /\ SelectionInv /\ [Next]_vars => SelectionInv'
<1> SUFFICES ASSUME RouterTypeOK, DrawTypeOK, SelectionInv, [Next]_vars PROVE SelectionInv'
  OBVIOUS
<1>1. ASSUME NEW t \in Tasks, Select(t) PROVE SelectionInv'
  <2>1. PICK n \in Rules, c \in Clients : \E k \in Picks(listed[n], c) : Pick(t, n, k)
    BY <1>1 DEF Select
  <2>2. PICK k \in Picks(listed[n], c) : Pick(t, n, k)
    BY <2>1
  <2>3. k \in DOMAIN listed[n]
    BY PicksArePositions
  <2>4. listed' = listed /\ weights' = weights
    BY <1>1 DEF Select, draw
  <2> QED
    BY <2>2, <2>3, <2>4 DEF SelectionInv, Pick, InDraw
<1>2. ASSUME NEW t \in Tasks, SelectWeighted(t) PROVE SelectionInv'
  <2>1. PICK n \in Rules :
          /\ picking' = [picking EXCEPT ![t] = [step |-> "drawing", rule |-> n]]
          /\ weights' = Weights(listed[n])
    BY <1>2 DEF SelectWeighted, Begin
  <2>2. listed' = listed /\ \A u \in Tasks : ~InDraw(u)
    BY <1>2 DEF SelectWeighted
  <2> QED
    BY <2>1, <2>2 DEF SelectionInv, InDraw, Weights
<1>3. ASSUME NEW t \in Tasks, DrawOn(t) PROVE SelectionInv'
  BY <1>3 DEF DrawOn, Drawing, Sum, Draw, Scan, SelectionInv, InDraw, Weights
<1>4. ASSUME NEW t \in Tasks, Drawn(t) PROVE SelectionInv'
  <2>1. Pick(t, picking[t].rule, selected) /\ InDraw(t)
        /\ listed' = listed /\ weights' = weights
    BY <1>4 DEF Drawn, draw
  <2>2. picking[t].rule \in Rules /\ weights = Weights(listed[picking[t].rule])
    BY <2>1 DEF SelectionInv, InDraw, Outside
  <2>3. selected \in DOMAIN listed[picking[t].rule] \cup {0}
    <3>1. DOMAIN weights = DOMAIN listed[picking[t].rule]
      BY <2>2 DEF Weights
    <3>2. selected \in 0 .. Len(weights) /\ DOMAIN weights = 1 .. Len(weights) /\ Len(weights) \in Nat
      BY WeightsAreU32 DEF DrawTypeOK
    <3> QED
      BY <3>1, <3>2
  <2> QED
    BY <2>1, <2>2, <2>3 DEF SelectionInv, Pick, InDraw
<1>5. ASSUME NEW t \in Tasks, Panic(t) \/ Count(t) PROVE SelectionInv'
  <2>1. picking' = [picking EXCEPT ![t] = Outside] /\ listed' = listed /\ weights' = weights
    BY <1>5 DEF Panic, Count, draw
  <2> QED
    BY <2>1 DEF SelectionInv, InDraw, Outside
<1>6. ASSUME NEW n \in Rules, NEW bs \in Lists, Relist(n, bs) PROVE SelectionInv'
  BY <1>6 DEF Relist, Exclusive, SelectionInv, InDraw, Outside
<1>7. ASSUME UNCHANGED <<picking, listed, weights>> PROVE SelectionInv'
  BY <1>7 DEF SelectionInv, InDraw
<1> QED
  BY <1>1, <1>2, <1>3, <1>4, <1>5, <1>6, <1>7
     DEF Next, vars, draw, Initialize, OnBackendHealthChanged

LEMMA RouterTypeInit == ASSUME Init PROVE RouterTypeOK
BY CounterAssumption DEF Init, RouterTypeOK

(* Every variable of a router keeps its type, and no selection stands on a *)
(* position its list does not have.                                        *)
THEOREM RouterTyping == Spec => []TypeOK
<1>1. Init => RouterTypeOK /\ SelectionInv
  <2> SUFFICES ASSUME Init PROVE RouterTypeOK /\ SelectionInv
    OBVIOUS
  <2>1. RouterTypeOK
    BY RouterTypeInit
  <2>2. SelectionInv
    BY DEF Init, SelectionInv, InDraw, Outside
  <2> QED
    BY <2>1, <2>2
<1>2. RouterTypeOK /\ SelectionInv /\ DrawTypeOK => TypeOK
  BY DEF RouterTypeOK, SelectionInv, TypeOK
<1>3. Spec => []DrawTypeOK
  BY PluginDraws, DrawTyping, PTL
<1> QED
  BY <1>1, <1>2, <1>3, RouterTypeStep, SelectionStep, PTL DEF Spec

-----------------------------------------------------------------------------
(***************************************************************************)
(* The turns of the round robin router.  Rank tells how many picks from    *)
(* now a position comes; those that come sooner were not picked oftener,   *)
(* but for the jumps of the counter.                                       *)
(***************************************************************************)
Rank(j, p, n) == IF j >= p THEN j - p ELSE (j - p) + n

Even(f, p, jmp, n) ==
  \A j, k \in 1 .. n :
    /\ f[j] <= f[k] + 1 + jmp
    /\ Rank(j, p, n) <= Rank(k, p, n) => f[j] <= f[k] + jmp

(* The next position of n after p. *)
After(p, n) == IF p = n THEN 1 ELSE p + 1

(* One more is the next remainder, and zero after the last one. *)
LEMMA NextRemainder ==
  ASSUME NEW n \in Nat \ {0}, NEW c \in Nat
  PROVE  (c + 1) % n = IF c % n = n - 1 THEN 0 ELSE (c % n) + 1
<1> DEFINE q == c \div n
           r == c % n
<1>1. c = n * q + r /\ q \in Nat /\ r \in 0 .. n - 1
  BY Quotient
<1> HIDE DEF q, r
<1>2. CASE r = n - 1
  <2>1. c + 1 = n * (q + 1) + 0
    BY <1>1, <1>2
  <2>2. q + 1 \in Nat /\ 0 \in 0 .. n - 1
    BY <1>1
  <2>3. (c + 1) % n = 0
    BY <2>1, <2>2, OneRemainder
  <2> QED
    BY <1>2, <2>3 DEF r
<1>3. CASE r # n - 1
  <2>1. c + 1 = n * q + (r + 1) /\ r + 1 \in 0 .. n - 1
    BY <1>1, <1>3
  <2>2. (c + 1) % n = r + 1
    BY <1>1, <2>1, OneRemainder
  <2> QED
    BY <1>3, <2>2 DEF r
<1> QED
  BY <1>2, <1>3

(* The pick of the position whose turn it is keeps the picks even: the     *)
(* turn goes on, or else the counter jumps.                                *)
LEMMA PickKeepsEven ==
  ASSUME NEW n \in Nat \ {0}, NEW p \in 1 .. n, NEW q \in 1 .. n,
         NEW f \in [1 .. n -> Nat], NEW a \in Nat, NEW b \in Nat,
         Even(f, p, a, n),
         b = a + 1 \/ (b = a /\ q = After(p, n))
  PROVE  /\ Even([f EXCEPT ![p] = @ + 1], q, b, n)
         /\ [f EXCEPT ![p] = @ + 1] \in [1 .. n -> Nat]
<1> DEFINE g == [f EXCEPT ![p] = @ + 1]
<1>1. /\ g[p] = f[p] + 1 /\ \A j \in 1 .. n : j # p => g[j] = f[j]
      /\ \A j \in 1 .. n : f[j] \in Nat
      /\ g \in [1 .. n -> Nat]
  OBVIOUS
<1>2. \A j \in 1 .. n : Rank(p, p, n) <= Rank(j, p, n)
  BY DEF Rank
<1> HIDE DEF g
<1>3. ASSUME NEW j \in 1 .. n, NEW k \in 1 .. n
      PROVE  /\ g[j] <= g[k] + 1 + b
             /\ Rank(j, q, n) <= Rank(k, q, n) => g[j] <= g[k] + b
  <2>1. /\ f[j] \in Nat /\ f[k] \in Nat
        /\ f[j] <= f[k] + 1 + a
        /\ Rank(j, p, n) <= Rank(k, p, n) => f[j] <= f[k] + a
    BY <1>1 DEF Even
  <2>2. f[p] <= f[k] + a /\ f[p] \in Nat
    BY <1>1, <1>2 DEF Even
  <2>3. CASE j = p /\ k = p
    BY <1>1, <2>1, <2>3
  <2>4. CASE j = p /\ k # p
    <3>1. g[j] = f[p] + 1 /\ g[k] = f[k]
      BY <1>1, <2>4
    <3>2. CASE b = a + 1
      BY <2>1, <2>2, <3>1, <3>2
    <3>3. CASE b = a /\ q = After(p, n)
      <4>1. ~(Rank(j, q, n) <= Rank(k, q, n))
        BY <2>4, <3>3 DEF Rank, After
      <4> QED
        BY <2>1, <2>2, <3>1, <3>3, <4>1
    <3> QED
      BY <3>2, <3>3
  <2>5. CASE j # p
    <3>1. /\ g[j] = f[j] /\ g[k] \in {f[k], f[k] + 1}
          /\ g[k] \in Nat /\ f[k] <= g[k]
      BY <1>1, <2>1, <2>5
    <3>2. f[j] <= f[k] + 1 + a /\ f[j] \in Nat /\ f[k] \in Nat
      BY <2>1
    <3>3. b \in {a, a + 1}
      OBVIOUS
    <3>4. g[j] <= g[k] + 1 + b
      BY <3>1, <3>2, <3>3
    <3>5. ASSUME Rank(j, q, n) <= Rank(k, q, n) PROVE g[j] <= g[k] + b
      <4>1. CASE b = a + 1
        BY <3>1, <3>2, <4>1
      <4>2. CASE b = a /\ k = p
        <5>1. g[k] = f[k] + 1
          BY <1>1, <4>2
        <5> QED
          BY <3>1, <3>2, <4>2, <5>1
      <4>3. CASE b = a /\ k # p
        <5>1. q = After(p, n)
          BY <4>3
        <5>2. Rank(j, p, n) <= Rank(k, p, n)
          BY <2>5, <3>5, <4>3, <5>1 DEF Rank, After
        <5>3. f[j] <= f[k] + a
          BY <2>1, <5>2
        <5> QED
          BY <3>1, <3>2, <4>3, <5>3
      <4> QED
        BY <4>1, <4>2, <4>3
    <3> QED
      BY <3>4, <3>5
  <2> QED
    BY <2>3, <2>4, <2>5
<1> QED
  BY <1>1, <1>3 DEF Even, g

(* Where the counter jumps, any turn may follow. *)
LEMMA JumpKeepsEven ==
  ASSUME NEW n \in Nat, NEW p, NEW q, NEW f \in [1 .. n -> Nat], NEW a \in Nat, Even(f, p, a, n)
  PROVE  Even(f, q, a + 1, n)
<1>1. ASSUME NEW j \in 1 .. n, NEW k \in 1 .. n PROVE f[j] <= f[k] + (a + 1)
  <2>1. f[j] \in Nat /\ f[k] \in Nat /\ f[j] <= f[k] + 1 + a
    BY DEF Even
  <2> QED
    BY <2>1
<1>2. ASSUME NEW j \in 1 .. n, NEW k \in 1 .. n PROVE f[j] <= f[k] + 1 + (a + 1)
  <2>1. f[j] \in Nat /\ f[k] \in Nat /\ f[j] <= f[k] + 1 + a
    BY DEF Even
  <2> QED
    BY <2>1
<1> QED
  BY <1>1, <1>2 DEF Even

RotationInv ==
  /\ DOMAIN picking = Tasks
  /\ plugin = "round_robin" =>
       /\ \A t \in Tasks : ~InDraw(t)
       /\ DOMAIN taken = Rules /\ jumps \in [Rules -> Nat]
       /\ \A n \in Rules :
            /\ taken[n] \in [1 .. Len(listed[n]) -> Nat]
            /\ Even(taken[n], Turn(Len(listed[n])), jumps[n], Len(listed[n]))

LEMMA ListLengths ==
  ASSUME RouterTypeOK, NEW n \in Rules
  PROVE  /\ Len(listed[n]) \in Nat \ {0} /\ DOMAIN listed[n] = 1 .. Len(listed[n])
         /\ Turn(Len(listed[n])) \in 1 .. Len(listed[n])
<1>1. listed[n] \in Lists /\ counter \in Nat
  BY CounterAssumption DEF RouterTypeOK
<1>2. Len(listed[n]) \in Nat \ {0} /\ DOMAIN listed[n] = 1 .. Len(listed[n])
  BY <1>1, ListsAssumption
<1>3. counter % Len(listed[n]) \in 0 .. Len(listed[n]) - 1
  BY <1>1, <1>2, Modulo
<1>4. \A l \in Nat : \A m \in 0 .. l - 1 : m + 1 \in 1 .. l
  OBVIOUS
<1> QED
  BY <1>2, <1>3, <1>4 DEF Turn

(* A new list, and a router that begins. *)
LEMMA UntakenIsEven ==
  ASSUME NEW bs \in Lists, NEW p
  PROVE  Untaken(bs) \in [1 .. Len(bs) -> Nat] /\ Even(Untaken(bs), p, 0, Len(bs))
<1>1. DOMAIN bs = 1 .. Len(bs)
  BY ListsAssumption
<1>2. Untaken(bs) \in [1 .. Len(bs) -> Nat] /\ \A k \in 1 .. Len(bs) : Untaken(bs)[k] = 0
  BY <1>1 DEF Untaken
<1> QED
  BY <1>2 DEF Even

LEMMA RotationSelect ==
  ASSUME RouterTypeOK, RouterTypeOK', RotationInv, plugin = "round_robin",
         NEW t \in Tasks, Select(t)
  PROVE  RotationInv'
<1>1. PICK n \in Rules, c \in Clients :
        /\ \E k \in Picks(listed[n], c) : Pick(t, n, k)
        /\ jumps' = Jump(n)
  BY DEF Select
<1>2. /\ counter' = Advance /\ listed' = listed /\ plugin' = plugin
      /\ counter \in Nat /\ counter' \in Nat
  BY CounterAssumption DEF Select, RouterTypeOK
<1>3. PICK p : p = Turn(Len(listed[n]))
  OBVIOUS
<1>4. Pick(t, n, p)
  BY <1>1, <1>3 DEF Picks
<1>5. taken' = [taken EXCEPT ![n][p] = @ + 1]
  BY <1>4 DEF Pick
<1>6. \A m \in Rules : /\ jumps'[m] = IF m = n /\ counter' # 0 THEN jumps[m] ELSE jumps[m] + 1
                       /\ jumps'[m] \in Nat /\ jumps[m] \in Nat
  BY <1>1, <1>2 DEF Jump, RotationInv
<1>7. jumps' \in [Rules -> Nat]
  BY <1>1, <1>6 DEF Jump
<1>8. DOMAIN taken' = Rules /\ \A m \in Rules : m # n => taken'[m] = taken[m]
  BY <1>5 DEF RotationInv
<1>9. taken'[n] = [taken[n] EXCEPT ![p] = @ + 1]
  BY <1>5 DEF RotationInv
<1>10. \A u \in Tasks : ~InDraw(u)'
  BY <1>4 DEF Pick, RotationInv, InDraw
<1>11. DOMAIN picking' = Tasks
  BY <1>4 DEF Pick, RotationInv
<1>12. ASSUME NEW m \in Rules
       PROVE  /\ taken'[m] \in [1 .. Len(listed[m]) -> Nat]
              /\ Even(taken'[m], Turn(Len(listed[m]))', jumps'[m], Len(listed[m]))
  <2> DEFINE l == Len(listed[m])
  <2>1. l \in Nat \ {0} /\ Turn(l) \in 1 .. l
    BY ListLengths
  <2>2. Turn(l)' \in 1 .. l
    <3>1. counter' % l \in 0 .. l - 1
      BY <1>2, <2>1, Modulo
    <3>2. \A a \in Nat : \A b \in 0 .. a - 1 : b + 1 \in 1 .. a
      OBVIOUS
    <3>3. Turn(l)' = (counter' % l) + 1
      BY <1>2 DEF Turn
    <3> QED
      BY <2>1, <3>1, <3>2, <3>3
  <2>3. taken[m] \in [1 .. l -> Nat] /\ Even(taken[m], Turn(l), jumps[m], l)
    BY DEF RotationInv
  <2>4. CASE m # n
    <3>1. taken'[m] = taken[m] /\ jumps'[m] = jumps[m] + 1
      BY <1>6, <1>8, <2>4
    <3> QED
      BY <1>6, <2>1, <2>3, <3>1, JumpKeepsEven
  <2>5. CASE m = n
    <3>1. counter' # 0 => Turn(l)' = After(Turn(l), l)
      <4>1. counter' # 0 => counter' = counter + 1
        <5>1. counter % CounterSize = counter
          <6>1. counter \in 0 .. CounterSize - 1 /\ counter = CounterSize * 0 + counter
            BY CounterAssumption DEF RouterTypeOK
          <6> QED
            BY <6>1, OneRemainder, CounterAssumption
        <5>2. counter' = (counter + 1) % CounterSize
          BY <1>2 DEF Advance
        <5> QED
          BY <1>2, <5>1, <5>2, NextRemainder, CounterAssumption
      <4>2. (counter + 1) % l = IF counter % l = l - 1 THEN 0 ELSE (counter % l) + 1
        BY <1>2, <2>1, NextRemainder
      <4>3. counter % l \in 0 .. l - 1
        BY <1>2, <2>1, Modulo
      <4>4. Turn(l)' = (counter' % l) + 1 /\ Turn(l) = (counter % l) + 1
        BY <1>2 DEF Turn
      <4>5. PICK r \in 0 .. l - 1 : r = counter % l
        BY <4>3
      <4> HIDE DEF l
      <4> QED
        BY <2>1, <4>1, <4>2, <4>4, <4>5 DEF After
    <3>2. taken'[m] = [taken[m] EXCEPT ![Turn(l)] = @ + 1]
      BY <1>3, <1>9, <2>5
    <3>3. jumps'[m] = jumps[m] + 1 \/ (jumps'[m] = jumps[m] /\ Turn(l)' = After(Turn(l), l))
      BY <1>6, <2>5, <3>1
    <3>4. PICK len, turn, next, before, now, old, new :
            /\ len = Len(listed[m]) /\ turn = Turn(l) /\ next = Turn(l)'
            /\ before = taken[m] /\ now = taken'[m] /\ old = jumps[m] /\ new = jumps'[m]
      OBVIOUS
    <3>5. /\ len \in Nat \ {0} /\ turn \in 1 .. len /\ next \in 1 .. len
          /\ before \in [1 .. len -> Nat] /\ Even(before, turn, old, len)
          /\ old \in Nat /\ new \in Nat
          /\ now = [before EXCEPT ![turn] = @ + 1]
          /\ new = old + 1 \/ (new = old /\ next = After(turn, len))
      BY <1>6, <2>1, <2>2, <2>3, <3>2, <3>3, <3>4
    <3>6. now \in [1 .. len -> Nat] /\ Even(now, next, new, len)
      BY <3>5, PickKeepsEven
    <3> QED
      BY <3>4, <3>6
  <2> QED
    BY <2>4, <2>5
<1> QED
  BY <1>2, <1>7, <1>8, <1>10, <1>11, <1>12 DEF RotationInv, Turn

LEMMA RotationStep == RouterTypeOK /\ RotationInv /\ [Next]_vars => RotationInv'
<1> SUFFICES ASSUME RouterTypeOK, RotationInv, [Next]_vars PROVE RotationInv'
  OBVIOUS
<1>1. RouterTypeOK' /\ plugin' = plugin
  BY RouterTypeStep DEF Next, vars, self, Select, SelectWeighted, DrawOn, Drawn, Panic, Count,
     Initialize, OnBackendHealthChanged, Relist
<1>2. DOMAIN picking' = Tasks
  BY DEF RotationInv, Next, vars, Select, Pick, SelectWeighted, DrawOn, Drawn, Panic, Count,
     Initialize, OnBackendHealthChanged, Relist
<1>3. CASE plugin # "round_robin"
  BY <1>1, <1>2, <1>3 DEF RotationInv
<1>4. CASE plugin = "round_robin"
  <2>1. ASSUME NEW t \in Tasks, Select(t) PROVE RotationInv'
    BY <1>1, <1>4, <2>1, RotationSelect
  <2>2. ASSUME NEW n \in Rules, NEW bs \in Lists, Relist(n, bs) PROVE RotationInv'
    <3>1. /\ listed' = [listed EXCEPT ![n] = bs]
          /\ taken' = [taken EXCEPT ![n] = Untaken(bs)]
          /\ jumps' = [jumps EXCEPT ![n] = 0]
          /\ counter' = counter /\ picking' = picking
      BY <2>2 DEF Relist, self
    <3>2. listed \in [Rules -> Lists] /\ DOMAIN taken = Rules /\ jumps \in [Rules -> Nat]
      BY <1>4 DEF RouterTypeOK, RotationInv
    <3>3. ASSUME NEW m \in Rules
          PROVE  /\ taken'[m] \in [1 .. Len(listed'[m]) -> Nat]
                 /\ Even(taken'[m], Turn(Len(listed'[m])), jumps'[m], Len(listed'[m]))
      <4>1. CASE m = n
        BY <3>1, <3>2, <4>1, UntakenIsEven
      <4>2. CASE m # n
        BY <1>4, <3>1, <3>2, <4>2 DEF RotationInv
      <4> QED
        BY <4>1, <4>2
    <3>4. DOMAIN taken' = Rules /\ jumps' \in [Rules -> Nat]
      BY <3>1, <3>2
    <3>5. \A u \in Tasks : ~InDraw(u)'
      BY <1>4, <3>1 DEF RotationInv, InDraw
    <3> QED
      BY <1>1, <1>2, <3>1, <3>3, <3>4, <3>5 DEF RotationInv, Turn
  <2>3. ASSUME UNCHANGED <<picking, taken, jumps, counter, listed>> PROVE RotationInv'
    BY <1>1, <2>3 DEF RotationInv, InDraw, Turn
  <2>4. ASSUME NEW t \in Tasks, Count(t) PROVE RotationInv'
    <3>1. picking' = [picking EXCEPT ![t] = Outside]
          /\ UNCHANGED <<taken, jumps, counter, listed>>
      BY <2>4 DEF Count, self, past
    <3>2. \A u \in Tasks : ~InDraw(u)'
      BY <1>4, <3>1 DEF RotationInv, InDraw, Outside
    <3> QED
      BY <1>1, <1>2, <1>4, <3>1, <3>2 DEF RotationInv, Turn
  <2>5. ASSUME NEW t \in Tasks, SelectWeighted(t) \/ DrawOn(t) \/ Drawn(t) \/ Panic(t)
        PROVE  FALSE
    BY <1>4, <2>5 DEF SelectWeighted, DrawOn, Drawn, Panic, RotationInv
  <2> QED
    BY <2>1, <2>2, <2>3, <2>4, <2>5
       DEF Next, vars, past, self, Initialize, OnBackendHealthChanged
<1> QED
  BY <1>3, <1>4

(* Round robin is fair to the backends of a rule, for any tasks, rules and *)
(* lists and a counter of any size: only what moves the counter out of the *)
(* rule's turn, requests of other rules and a wrap, sets a backend back.   *)
THEOREM TurnsStayEven == Spec => []RotatesEvenly
<1>1. Init => RouterTypeOK /\ RotationInv
  <2> SUFFICES ASSUME Init PROVE RouterTypeOK /\ RotationInv
    OBVIOUS
  <2>1. RouterTypeOK
    BY RouterTypeInit
  <2>2. ASSUME NEW n \in Rules
        PROVE  /\ taken[n] \in [1 .. Len(listed[n]) -> Nat]
               /\ Even(taken[n], Turn(Len(listed[n])), jumps[n], Len(listed[n]))
    BY UntakenIsEven DEF Init
  <2>3. DOMAIN taken = Rules /\ jumps \in [Rules -> Nat] /\ DOMAIN picking = Tasks
        /\ \A t \in Tasks : ~InDraw(t)
    BY DEF Init, InDraw, Outside
  <2> QED
    BY <2>1, <2>2, <2>3 DEF RotationInv
<1>2. RotationInv => RotatesEvenly
  BY DEF RotationInv, RotatesEvenly, Even
<1> QED
  BY <1>1, <1>2, RouterTypeStep, RotationStep, PTL DEF Spec

-----------------------------------------------------------------------------
(***************************************************************************)
(* What is picked is a choice that Routing allows: the sums of a draw are  *)
(* what the recursive definition of Sums adds up.                          *)
(***************************************************************************)
IsChoice(n, k) ==
  IF k = 0 THEN Choices(plugin, listed[n]) = {}
           ELSE k \in Choices(plugin, listed[n])

ChoiceInv ==
  /\ \A t \in Tasks : InDraw(t) => plugin = "weighted"
  /\ \A t \in Tasks : picking[t].step = "picked" => IsChoice(picking[t].rule, picking[t].position)

(* The plugins that need no draw. *)
LEMMA SelectChooses ==
  ASSUME RouterTypeOK, NEW n \in Rules, NEW c \in Clients, NEW k \in Picks(listed[n], c)
  PROVE  IsChoice(n, k)
<1>1. listed[n] \in Lists /\ plugin \in Plugins
  BY InstalledAssumption DEF RouterTypeOK
<1>2. Available(listed[n]) = DOMAIN listed[n] /\ DOMAIN listed[n] = 1 .. Len(listed[n])
      /\ Len(listed[n]) \in Nat
  BY <1>1, ListsAssumption
<1>3. k \in DOMAIN listed[n]
  BY PicksArePositions
<1>4. k # 0
  BY <1>2, <1>3
<1>5. k \in Choices(plugin, listed[n])
  BY <1>1, <1>2, <1>3 DEF Choices, Picks, Plugins
<1> QED
  BY <1>4, <1>5 DEF IsChoice

(* The end of a draw. *)
LEMMA DrawnChooses ==
  ASSUME RouterTypeOK, IInv, NEW n \in Rules, weights = Weights(listed[n]),
         plugin = "weighted", at = "done"
  PROVE  IsChoice(n, selected)
<1> DEFINE bs == listed[n]
<1>1. /\ Available(bs) = DOMAIN bs /\ DOMAIN bs = 1 .. Len(bs) /\ Len(bs) \in Nat
  <2>1. bs \in Lists
    BY DEF RouterTypeOK
  <2> QED
    BY <2>1, ListsAssumption
<1>2. /\ DOMAIN weights = DOMAIN bs /\ \A k \in DOMAIN bs : weights[k] = bs[k].weight
      /\ selected \in 0 .. Len(weights) /\ DOMAIN weights = 1 .. Len(weights)
      /\ weights \in Seq(Nat) /\ Len(weights) \in Nat
  BY WeightsAreU32 DEF Weights, DrawTypeOK, IInv
<1>3. Offered(Available(bs), bs) = weights
  BY <1>1 DEF Offered, Weights
<1>4. Choices(plugin, bs) =
        {k \in DOMAIN bs : weights[k] > 0 /\ Sums(weights)[k - 1] < Total(weights) % U32}
  BY <1>1, <1>2, <1>3 DEF Choices, Weighted
<1>5. /\ \A k \in 1 .. Len(weights) + 1 : Sums(weights)[k - 1] = sums[k] /\ sums[k] \in Nat
      /\ total_weight = Total(weights) % U32
  <2> DEFINE s == [i \in 0 .. Len(weights) |-> sums[i + 1]]
  <2>1. /\ sums \in Seq(Nat) /\ Len(sums) = Len(weights) + 1 /\ sums[1] = 0
        /\ \A k \in 1 .. Len(weights) : sums[k + 1] = sums[k] + weights[k]
    <3>1. \A k \in 1 .. Len(sums) - 1 : sums[k + 1] = sums[k] + weights[k]
      BY DEF IInv, SumsInv
    <3>2. Len(sums) = Len(weights) + 1 /\ sums \in Seq(Nat) /\ sums[1] = 0
      BY DEF IInv, SumsInv
    <3> QED
      BY <1>2, <3>1, <3>2
  <2>2. s[0] = 0
    BY <1>2, <2>1
  <2>3. \A k \in 1 .. Len(weights) : s[k] = s[k - 1] + weights[k]
    <3> SUFFICES ASSUME NEW k \in 1 .. Len(weights) PROVE s[k] = s[k - 1] + weights[k]
      OBVIOUS
    <3>1. k \in 0 .. Len(weights) /\ k - 1 \in 0 .. Len(weights) /\ (k - 1) + 1 = k
      BY <1>2
    <3> QED
      BY <2>1, <3>1
  <2> HIDE DEF s
  <2>4. \A i \in 0 .. Len(weights) : Sums(weights)[i] = s[i]
    BY <1>2, <2>2, <2>3, SumsAreSums
  <2>5. ASSUME NEW k \in 1 .. Len(weights) + 1
        PROVE  Sums(weights)[k - 1] = sums[k] /\ sums[k] \in Nat
    <3>1. k - 1 \in 0 .. Len(weights) /\ (k - 1) + 1 = k /\ k \in 1 .. Len(sums)
      BY <1>2, <2>1
    <3> QED
      BY <2>1, <2>4, <3>1 DEF s
  <2>6. Total(weights) = sums[Len(sums)]
    <3>1. Len(weights) \in 0 .. Len(weights)
      BY <1>2
    <3> QED
      BY <2>1, <2>4, <3>1 DEF Total, s
  <2> QED
    BY <2>5, <2>6 DEF IInv, TotalInv
<1>6. CASE selected # 0
  <2>1. /\ selected \in DOMAIN bs /\ selected \in 1 .. Len(weights) + 1
        /\ random_weight \in Nat /\ weights[selected] \in Nat /\ total_weight \in Nat
    BY <1>2, <1>6, Ranges DEF IInv
  <2>2. /\ drawn = random_weight + sums[selected] /\ random_weight < weights[selected]
        /\ drawn < total_weight
    BY <1>6 DEF IInv, ScanInv
  <2>3. sums[selected] < total_weight /\ weights[selected] > 0
    BY <1>5, <2>1, <2>2
  <2> QED
    BY <1>4, <1>5, <1>6, <2>1, <2>3 DEF IsChoice
<1>7. CASE selected = 0
  <2>1. total_weight = 0
    BY <1>7 DEF IInv, ScanInv
  <2>2. \A k \in DOMAIN bs : ~(Sums(weights)[k - 1] < Total(weights) % U32)
    <3>1. \A k \in DOMAIN bs : k \in 1 .. Len(weights) + 1
      BY <1>2
    <3> QED
      BY <1>5, <2>1, <3>1
  <2> QED
    BY <1>4, <1>7, <2>2 DEF IsChoice
<1> QED
  BY <1>6, <1>7

LEMMA ChoiceStep ==
  ASSUME RouterTypeOK, IInv, SelectionInv, ChoiceInv, [Next]_vars
  PROVE  ChoiceInv'
<1>1. DOMAIN picking = Tasks /\ plugin' = plugin
  BY DEF SelectionInv, Next, vars, self, Select, SelectWeighted, DrawOn, Drawn, Panic, Count,
     Initialize, OnBackendHealthChanged, Relist
<1>2. ASSUME NEW t \in Tasks, NEW n \in Rules, NEW k, Pick(t, n, k), IsChoice(n, k),
             listed' = listed
      PROVE  ChoiceInv'
  <2>1. picking' = [picking EXCEPT ![t] =
                      [step |-> "picked", rule |-> n, position |-> k]]
    BY <1>2 DEF Pick
  <2>2. \A u \in Tasks : u # t => picking'[u] = picking[u]
    BY <1>1, <2>1
  <2>3. /\ picking'[t].step = "picked" /\ picking'[t].rule = n /\ picking'[t].position = k
    BY <1>1, <2>1
  <2>4. \A m, j : IsChoice(m, j)' <=> IsChoice(m, j)
    BY <1>1, <1>2 DEF IsChoice
  <2> QED
    BY <1>1, <1>2, <2>2, <2>3, <2>4 DEF ChoiceInv, InDraw
<1>3. ASSUME NEW t \in Tasks, Select(t) PROVE ChoiceInv'
  <2>1. PICK n \in Rules, c \in Clients : \E k \in Picks(listed[n], c) : Pick(t, n, k)
    BY <1>3 DEF Select
  <2>2. PICK k \in Picks(listed[n], c) : Pick(t, n, k)
    BY <2>1
  <2> QED
    BY <1>2, <1>3, <2>2, SelectChooses DEF Select
<1>4. ASSUME NEW t \in Tasks, Drawn(t) PROVE ChoiceInv'
  <2>1. /\ InDraw(t) /\ at = "done" /\ listed' = listed
        /\ Pick(t, picking[t].rule, selected)
    BY <1>4 DEF Drawn, IInv, ScanInv
  <2>2. /\ picking[t].rule \in Rules /\ weights = Weights(listed[picking[t].rule])
        /\ plugin = "weighted"
    BY <2>1 DEF SelectionInv, InDraw, Outside, ChoiceInv
  <2>3. IsChoice(picking[t].rule, selected)
    BY <2>1, <2>2, DrawnChooses
  <2> QED
    BY <1>2, <2>1, <2>2, <2>3
<1>5. ASSUME NEW t \in Tasks, NEW p, picking' = [picking EXCEPT ![t] = p], listed' = listed,
             p.step # "picked", p.step = "drawing" => plugin = "weighted"
      PROVE  ChoiceInv'
  <2>1. \A u \in Tasks : u # t => picking'[u] = picking[u]
    BY <1>1, <1>5
  <2>2. \A m, j : IsChoice(m, j)' <=> IsChoice(m, j)
    BY <1>1, <1>5 DEF IsChoice
  <2>3. picking'[t] = p
    BY <1>1, <1>5
  <2> QED
    BY <1>1, <1>5, <2>1, <2>2, <2>3 DEF ChoiceInv, InDraw
<1>6. ASSUME NEW t \in Tasks, SelectWeighted(t) PROVE ChoiceInv'
  <2>1. PICK n \in Rules : picking' = [picking EXCEPT ![t] = [step |-> "drawing", rule |-> n]]
    BY <1>6 DEF SelectWeighted
  <2> DEFINE p == [step |-> "drawing", rule |-> n]
  <2>2. picking' = [picking EXCEPT ![t] = p] /\ p.step = "drawing"
    BY <2>1
  <2>3. plugin = "weighted" /\ listed' = listed
    BY <1>6 DEF SelectWeighted
  <2> HIDE DEF p
  <2> QED
    BY <1>5, <2>2, <2>3
<1>7. ASSUME NEW t \in Tasks, Panic(t) \/ Count(t) PROVE ChoiceInv'
  <2>1. picking' = [picking EXCEPT ![t] = Outside] /\ listed' = listed
    BY <1>7 DEF Panic, Count
  <2>2. Outside.step = "outside"
    BY DEF Outside
  <2> QED
    BY <1>5, <2>1, <2>2
<1>8. ASSUME NEW n \in Rules, NEW bs \in Lists, Relist(n, bs) PROVE ChoiceInv'
  BY <1>8 DEF Relist, Exclusive, ChoiceInv, InDraw, Outside
<1>9. ASSUME UNCHANGED <<picking, listed>> PROVE ChoiceInv'
  BY <1>1, <1>9 DEF ChoiceInv, InDraw, IsChoice
<1> QED
  BY <1>3, <1>4, <1>6, <1>7, <1>8, <1>9
     DEF Next, vars, DrawOn, Initialize, OnBackendHealthChanged

(* What RouterManager assumes of the plugins holds of them, for any lists  *)
(* and weights and however many tasks select at once.                      *)
THEOREM PicksAreAlwaysChoices == Spec => []PicksAreChoices
<1>1. Init => RouterTypeOK /\ SelectionInv /\ ChoiceInv
  <2> SUFFICES ASSUME Init PROVE RouterTypeOK /\ SelectionInv /\ ChoiceInv
    OBVIOUS
  <2>1. RouterTypeOK
    BY RouterTypeInit
  <2>2. SelectionInv /\ ChoiceInv
    BY DEF Init, SelectionInv, ChoiceInv, InDraw, Outside
  <2> QED
    BY <2>1, <2>2
<1>2. Spec => []IInv
  BY PluginDraws, InitIInv, IInvStep, PTL DEF DrawSpec
<1>3. ChoiceInv => PicksAreChoices
  BY DEF ChoiceInv, PicksAreChoices, IsChoice
<1>4. RouterTypeOK /\ SelectionInv /\ ChoiceInv /\ [Next]_vars /\ IInv
      => RouterTypeOK' /\ SelectionInv' /\ ChoiceInv'
  BY RouterTypeStep, SelectionStep, ChoiceStep DEF IInv
<1> QED
  BY <1>1, <1>2, <1>3, <1>4, PTL DEF Spec

=============================================================================
