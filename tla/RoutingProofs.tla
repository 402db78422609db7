---------------------------- MODULE RoutingProofs ----------------------------
(***************************************************************************)
(* Facts about the operators of Routing that the other proofs cite.        *)
(***************************************************************************)
EXTENDS Routing, Integers, WellFoundedInduction, TLAPS

(* A set of naturals has a least element, a bounded one has a greatest.    *)
LEMMA LeastNatural ==
  ASSUME NEW T, T \subseteq Nat, T # {}
  PROVE  \E x \in T : \A y \in T : x <= y
<1> DEFINE R == OpToRel(<, Nat)
<1>1. IsWellFoundedOn(R, Nat)
  BY NatLessThanWellFounded
<1>2. ASSUME NEW x \in T, NEW y \in T, ~(<<y, x>> \in R) PROVE x <= y
  <2>1. x \in Nat /\ y \in Nat
    OBVIOUS
  <2>2. ~(y < x)
    BY <1>2, <2>1 DEF OpToRel
  <2> QED
    BY <2>1, <2>2
<1> HIDE DEF R
<1>3. \E x \in T : \A y \in T : ~ (<<y, x>> \in R)
  BY <1>1, WFMin
<1> QED
  BY <1>2, <1>3

LEMMA GreatestNatural ==
  ASSUME NEW n \in Nat, NEW T, T \subseteq 1 .. n, T # {}
  PROVE  \E x \in T : \A y \in T : y <= x
<1> DEFINE D == {n - x : x \in T}
<1>1. D # {}
  OBVIOUS
<1>2. D \subseteq Nat
  <2>1. \A x \in T : n - x \in Nat
    OBVIOUS
  <2> QED
    BY <2>1
<1>3. PICK d \in D : \A y \in D : d <= y
  <2> HIDE DEF D
  <2> QED
    BY <1>1, <1>2, LeastNatural
<1>4. PICK x \in T : d = n - x
  BY <1>3
<1>5. ASSUME NEW y \in T PROVE y <= x
  <2>1. n - y \in D
    OBVIOUS
  <2>2. d <= n - y
    BY <1>3, <2>1
  <2> QED
    BY <1>4, <2>2
<1> QED
  BY <1>5

(* A function defined by recursion on the naturals up to n exists. *)
Steps(next, n, V) == next \in [1 .. n -> [V -> V]]
Recurs(f, n, V, base, next) ==
  /\ f \in [0 .. n -> V]
  /\ f[0] = base
  /\ \A i \in 1 .. n : f[i] = next[i][f[i - 1]]

LEMMA PrimitiveRecursion ==
  ASSUME NEW n \in Nat, NEW V, NEW base \in V, NEW next, Steps(next, n, V)
  PROVE  \E f : Recurs(f, n, V, base, next)
<1> USE DEF Steps
<1> DEFINE UpTo(f, m) == /\ f \in [0 .. m -> V] /\ f[0] = base
                         /\ \A i \in 1 .. m : f[i] = next[i][f[i - 1]]
           bad == {m \in 0 .. n : ~ \E f : UpTo(f, m)}
<1>1. ASSUME bad # {} PROVE FALSE
  <2>1. bad \subseteq Nat
    OBVIOUS
  <2>2. PICK m \in bad : \A k \in bad : m <= k
    <3> HIDE DEF bad
    <3> QED
      BY <1>1, <2>1, LeastNatural
  <2>3. m \in 0 .. n /\ \A f : ~UpTo(f, m)
    BY <2>2
  <2>4. m # 0
    <3>1. UpTo([i \in 0 .. 0 |-> base], 0)
      OBVIOUS
    <3> HIDE DEF UpTo
    <3> QED
      BY <2>3, <3>1
  <2>5. m - 1 \in 0 .. n /\ ~(m <= m - 1) /\ m \in 1 .. n /\ m - 1 \in 0 .. m - 1
    BY <2>3, <2>4
  <2>6. PICK g : UpTo(g, m - 1)
    <3>1. m - 1 \notin bad
      BY <2>2, <2>5
    <3> HIDE DEF UpTo
    <3> QED
      BY <2>5, <3>1
  <2> DEFINE f == [i \in 0 .. m |-> IF i = m THEN next[m][g[m - 1]] ELSE g[i]]
  <2>7. next[m][g[m - 1]] \in V
    <3>1. g[m - 1] \in V
      BY <2>5, <2>6
    <3>2. next[m] \in [V -> V]
      BY <2>5
    <3> QED
      BY <3>1, <3>2
  <2>8. \A i \in 0 .. m : i # m => i \in 0 .. m - 1
    BY <2>3
  <2>9. f \in [0 .. m -> V]
    BY <2>6, <2>7, <2>8
  <2>10. f[0] = base
    BY <2>3, <2>4, <2>6
  <2>11. ASSUME NEW i \in 1 .. m PROVE f[i] = next[i][f[i - 1]]
    <3>1. i \in 0 .. m /\ i - 1 \in 0 .. m /\ i - 1 # m /\ (i # m => i \in 1 .. m - 1)
      BY <2>3
    <3>2. f[i - 1] = g[i - 1]
      BY <3>1
    <3>3. CASE i = m
      BY <3>1, <3>2, <3>3
    <3>4. CASE i # m
      BY <2>6, <3>1, <3>2, <3>4
    <3> QED
      BY <3>3, <3>4
  <2>12. UpTo(f, m)
    BY <2>9, <2>10, <2>11
  <2> HIDE DEF UpTo, f
  <2> QED
    BY <2>3, <2>12
<1>2. n \notin bad
  BY <1>1
<1>3. \E f : UpTo(f, n)
  <2> HIDE DEF UpTo
  <2> QED
    BY <1>2
<1> QED
  BY <1>3 DEF Recurs

-----------------------------------------------------------------------------
(* The matching rule a request follows: no rule before it matches. *)
THEOREM FirstMatchIsFirst ==
  ASSUME NEW S, NEW rs \in Seq(S), NEW ctx, MatchingRules(rs, ctx) # {}
  PROVE  \E i \in DOMAIN rs : /\ FirstMatch(rs, ctx) = rs[i]
                              /\ RuleMatches(rs[i], ctx)
                              /\ \A j \in 1 .. i - 1 : ~RuleMatches(rs[j], ctx)
<1> DEFINE m == MatchingRules(rs, ctx)
           first == CHOOSE i \in m : \A j \in m : i <= j
<1>1. m \subseteq DOMAIN rs /\ DOMAIN rs = 1 .. Len(rs) /\ Len(rs) \in Nat
  BY DEF MatchingRules
<1>2. m \subseteq Nat
  BY <1>1
<1>3. first \in m /\ \A j \in m : first <= j
  <2> HIDE DEF m
  <2>1. \E i \in m : \A j \in m : i <= j
    BY <1>2, LeastNatural DEF m
  <2> QED
    BY <2>1
<1>4. FirstMatch(rs, ctx) = rs[first]
  BY DEF FirstMatch
<1>5. \A j \in 1 .. first - 1 : j \notin m
  <2> HIDE DEF first, m
  <2> QED
    BY <1>2, <1>3
<1>6. \A j \in 1 .. first - 1 : j \in DOMAIN rs
  <2> HIDE DEF first, m
  <2> QED
    BY <1>1, <1>2, <1>3
<1> HIDE DEF first
<1>7. \A j \in 1 .. first - 1 : ~RuleMatches(rs[j], ctx)
  BY <1>5, <1>6 DEF MatchingRules
<1> QED
  BY <1>1, <1>3, <1>4, <1>7 DEF MatchingRules

(* The rule whose backends stand in the cache is the last of its name. *)
LEMMA LastNamedIsLast ==
  ASSUME NEW S, NEW rs \in Seq(S), NEW n \in RuleNames(rs)
  PROVE  /\ LastNamed(rs, n) \in DOMAIN rs
         /\ rs[LastNamed(rs, n)].name = n
<1> DEFINE m == {i \in DOMAIN rs : rs[i].name = n}
<1>1. m \subseteq 1 .. Len(rs) /\ Len(rs) \in Nat /\ m # {}
  BY DEF RuleNames
<1>2. \E i \in m : \A j \in m : j <= i
  <2> HIDE DEF m
  <2> QED
    BY <1>1, GreatestNatural
<1>3. \E i \in DOMAIN rs : rs[i].name = n /\ \A j \in DOMAIN rs : rs[j].name = n => j <= i
  BY <1>2
<1> QED
  BY <1>3 DEF LastNamed

-----------------------------------------------------------------------------
(* The sums of weights, as their recursive definition has them. *)
LEMMA SumsAreSums ==
  ASSUME NEW ws \in Seq(Nat), NEW s, s[0] = 0,
         \A k \in 1 .. Len(ws) : s[k] = s[k - 1] + ws[k]
  PROVE  \A i \in 0 .. Len(ws) : Sums(ws)[i] = s[i]
<1> DEFINE n == Len(ws)
           IsSum(f) == f = [i \in 0 .. n |-> IF i = 0 THEN 0 ELSE f[i - 1] + ws[i]]
           sum == CHOOSE f : IsSum(f)
<1>1. n \in Nat
  OBVIOUS
<1>2. \E f : IsSum(f)
  <2> DEFINE f == [i \in 0 .. n |-> s[i]]
  <2>1. ASSUME NEW i \in 0 .. n PROVE f[i] = IF i = 0 THEN 0 ELSE f[i - 1] + ws[i]
    <3>1. CASE i = 0
      BY <3>1
    <3>2. CASE i # 0
      <4>1. i \in 1 .. n /\ i - 1 \in 0 .. n
        BY <1>1, <3>2
      <4> QED
        BY <3>2, <4>1
    <3> QED
      BY <3>1, <3>2
  <2>2. f = [i \in 0 .. n |-> IF i = 0 THEN 0 ELSE f[i - 1] + ws[i]]
    BY <2>1
  <2> HIDE DEF f
  <2> QED
    BY <2>2
<1>3. IsSum(sum)
  <2> HIDE DEF IsSum
  <2> QED
    BY <1>2
<1>4. Sums(ws) = sum
  BY DEF Sums
<1> HIDE DEF sum
<1>5. ASSUME NEW i \in 0 .. n, sum[i] # s[i] PROVE FALSE
  <2> DEFINE wrong == {j \in 0 .. n : sum[j] # s[j]}
  <2>0. 0 .. n \subseteq Nat
    BY <1>1
  <2>1. wrong \subseteq Nat /\ wrong # {}
    <3> HIDE DEF n
    <3>1. i \in wrong
      BY <1>5
    <3> QED
      BY <2>0, <3>1
  <2> HIDE DEF wrong
  <2>2. PICK j \in wrong : \A k \in wrong : j <= k
    BY <2>1, LeastNatural
  <2>3. j \in 0 .. n /\ sum[j] # s[j]
    BY <2>2 DEF wrong
  <2>4. j # 0
    BY <1>1, <1>3, <2>3
  <2>5. j - 1 \in 0 .. n /\ j \in 1 .. n /\ ~(j <= j - 1)
    BY <1>1, <2>3, <2>4
  <2>6. sum[j - 1] = s[j - 1]
    BY <2>2, <2>5 DEF wrong
  <2>7. sum[j] = sum[j - 1] + ws[j]
    BY <1>3, <2>3, <2>4
  <2>8. s[j] = s[j - 1] + ws[j]
    BY <2>5
  <2> QED
    BY <2>3, <2>6, <2>7, <2>8
<1> QED
  BY <1>4, <1>5

(* They start from zero and grow by one weight each. *)
LEMMA SumsGrow ==
  ASSUME NEW ws \in Seq(Nat)
  PROVE  /\ Sums(ws)[0] = 0
         /\ \A i \in 0 .. Len(ws) : Sums(ws)[i] \in Nat
         /\ \A i \in 1 .. Len(ws) : Sums(ws)[i] = Sums(ws)[i - 1] + ws[i]
         /\ \A i \in 0 .. Len(ws) : Sums(ws)[i] <= Total(ws)
<1> DEFINE n == Len(ws)
           next == [i \in 1 .. n |-> [v \in Nat |-> v + ws[i]]]
<1>1. n \in Nat /\ \A i \in 1 .. n : ws[i] \in Nat
  OBVIOUS
<1>2. Steps(next, n, Nat)
  BY <1>1 DEF Steps
<1>3. PICK s : Recurs(s, n, Nat, 0, next)
  <2> HIDE DEF next, n
  <2> QED
    BY <1>1, <1>2, PrimitiveRecursion
<1>4. s \in [0 .. n -> Nat] /\ s[0] = 0
  BY <1>3 DEF Recurs
<1>5. \A i \in 1 .. n : s[i] = s[i - 1] + ws[i]
  <2> SUFFICES ASSUME NEW i \in 1 .. n PROVE s[i] = s[i - 1] + ws[i]
    OBVIOUS
  <2>1. i - 1 \in 0 .. n
    BY <1>1
  <2>2. s[i - 1] \in Nat
    BY <1>4, <2>1
  <2>3. s[i] = next[i][s[i - 1]]
    BY <1>3 DEF Recurs
  <2> QED
    BY <2>2, <2>3
<1> HIDE DEF next
<1>6. \A i \in 0 .. n : Sums(ws)[i] = s[i]
  BY <1>4, <1>5, SumsAreSums
<1>7. ASSUME NEW i \in 0 .. n, ~(s[i] <= s[n]) PROVE FALSE
  <2> DEFINE high == {j \in 0 .. n : ~(s[j] <= s[n])}
  <2>1. PICK j \in high : \A k \in high : k <= j
    <3>1. n \in 0 .. n /\ s[n] \in Nat
      BY <1>1, <1>4
    <3>2. high \subseteq 0 .. n /\ high # {}
      BY <1>7
    <3>3. \E x \in high : \A y \in high : y <= x
      <4> DEFINE up == {j + 1 : j \in high}
      <4>1. up \subseteq 1 .. n + 1 /\ up # {} /\ n + 1 \in Nat
        BY <1>1, <3>2
      <4> HIDE DEF up, high
      <4>2. PICK x \in up : \A y \in up : y <= x
        BY <4>1, GreatestNatural
      <4>3. PICK j \in high : x = j + 1
        BY DEF up
      <4>4. ASSUME NEW y \in high PROVE y <= j
        <5>1. y + 1 \in up
          BY DEF up
        <5>2. y + 1 <= j + 1
          BY <4>2, <4>3, <5>1
        <5> QED
          BY <1>1, <3>2, <5>2
      <4> QED
        BY <4>4
    <3> QED
      BY <3>3
  <2>2. j \in 0 .. n /\ ~(s[j] <= s[n])
    BY <2>1
  <2>3. s[j] \in Nat /\ s[n] \in Nat
    BY <1>1, <1>4, <2>2
  <2>4. j # n
    BY <2>2, <2>3
  <2>5. j + 1 \in 1 .. n /\ j + 1 \in 0 .. n /\ (j + 1) - 1 = j /\ ~(j + 1 <= j)
    BY <1>1, <2>2, <2>4
  <2>6. s[j + 1] = s[j] + ws[j + 1] /\ ws[j + 1] \in Nat
    BY <1>1, <1>5, <2>5
  <2>7. s[j + 1] <= s[n]
    <3> HIDE DEF high
    <3>1. j + 1 \notin high
      BY <2>1, <2>5
    <3> QED
      BY <2>5, <3>1 DEF high
  <2> QED
    BY <2>2, <2>3, <2>6, <2>7
<1>8. \A i \in 1 .. n : i \in 0 .. n /\ i - 1 \in 0 .. n
  BY <1>1
<1>9. n \in 0 .. n /\ Total(ws) = Sums(ws)[n] /\ 0 \in 0 .. n
  BY <1>1 DEF Total
<1> QED
  BY <1>1, <1>4, <1>5, <1>6, <1>7, <1>8, <1>9

-----------------------------------------------------------------------------
(* The records of a configured backend and of a cache entry. *)
BackendConfigs(ids) == [id : ids, enabled : BOOLEAN, weight : Nat]
Entries(ids) == [id : ids, enabled : BOOLEAN, weight : Nat,
                 healthy : BOOLEAN, connections : Nat]

LEMMA FreshCacheType ==
  ASSUME NEW ids, NEW S, NEW rs \in Seq(S),
         \A i \in DOMAIN rs : rs[i].backends \in Seq(BackendConfigs(ids))
  PROVE  /\ DOMAIN FreshCache(rs) = RuleNames(rs)
         /\ FreshCache(rs) \in [RuleNames(rs) -> Seq(Entries(ids))]
<1>1. ASSUME NEW n \in RuleNames(rs)
      PROVE  FreshCache(rs)[n] \in Seq(Entries(ids))
  <2> DEFINE bs == rs[LastNamed(rs, n)].backends
  <2>1. bs \in Seq(BackendConfigs(ids))
    BY LastNamedIsLast
  <2>2. FreshCache(rs)[n] = [k \in DOMAIN bs |-> NewBackend(bs[k])]
    BY DEF FreshCache
  <2> HIDE DEF bs
  <2>3. \A b \in BackendConfigs(ids) : NewBackend(b) \in Entries(ids)
    BY DEF BackendConfigs, Entries, NewBackend
  <2>4. DOMAIN bs = 1 .. Len(bs) /\ Len(bs) \in Nat
    BY <2>1
  <2>5. \A k \in DOMAIN bs : bs[k] \in BackendConfigs(ids)
    BY <2>1
  <2> QED
    BY <2>2, <2>3, <2>4, <2>5
<1> QED
  BY <1>1 DEF FreshCache

(* A health or connection report changes no length, id, weight or flag.    *)
LEMMA ReportsKeepEntries ==
  ASSUME NEW ids, NEW bs \in Seq(Entries(ids)), NEW id,
         NEW flag \in BOOLEAN, NEW n \in Nat
  PROVE  /\ SetHealthy(bs, id, flag) \in Seq(Entries(ids))
         /\ SetConnections(bs, id, n) \in Seq(Entries(ids))
         /\ DOMAIN SetHealthy(bs, id, flag) = DOMAIN bs
         /\ DOMAIN SetConnections(bs, id, n) = DOMAIN bs
         /\ \A k \in DOMAIN bs :
              /\ SetHealthy(bs, id, flag)[k].id = bs[k].id
              /\ SetHealthy(bs, id, flag)[k].enabled = bs[k].enabled
              /\ SetHealthy(bs, id, flag)[k].weight = bs[k].weight
              /\ SetConnections(bs, id, n)[k].id = bs[k].id
              /\ SetConnections(bs, id, n)[k].enabled = bs[k].enabled
              /\ SetConnections(bs, id, n)[k].weight = bs[k].weight
<1>1. DOMAIN bs = 1 .. Len(bs) /\ Len(bs) \in Nat
  OBVIOUS
<1>2. ASSUME NEW k \in DOMAIN bs
      PROVE  /\ SetHealthy(bs, id, flag)[k] \in Entries(ids)
             /\ SetConnections(bs, id, n)[k] \in Entries(ids)
             /\ SetHealthy(bs, id, flag)[k].id = bs[k].id
             /\ SetHealthy(bs, id, flag)[k].enabled = bs[k].enabled
             /\ SetHealthy(bs, id, flag)[k].weight = bs[k].weight
             /\ SetConnections(bs, id, n)[k].id = bs[k].id
             /\ SetConnections(bs, id, n)[k].enabled = bs[k].enabled
             /\ SetConnections(bs, id, n)[k].weight = bs[k].weight
  <2>1. bs[k] \in Entries(ids)
    BY <1>1
  <2> QED
    BY <2>1 DEF Entries, SetHealthy, SetConnections
<1>3. /\ DOMAIN SetHealthy(bs, id, flag) = 1 .. Len(bs)
      /\ DOMAIN SetConnections(bs, id, n) = 1 .. Len(bs)
  BY <1>1 DEF SetHealthy, SetConnections
<1>4. /\ SetHealthy(bs, id, flag) \in [1 .. Len(bs) -> Entries(ids)]
      /\ SetConnections(bs, id, n) \in [1 .. Len(bs) -> Entries(ids)]
  BY <1>1, <1>2, <1>3 DEF SetHealthy, SetConnections
<1> QED
  BY <1>1, <1>2, <1>3, <1>4

(* No plugin answers with a backend that is disabled or unhealthy. *)
LEMMA ChoicesAreAvailable ==
  ASSUME NEW plugin, NEW bs
  PROVE  Choices(plugin, bs) \subseteq Available(bs)
BY DEF Choices, Weighted, LeastConnections

LEMMA RepliesAreIds ==
  ASSUME NEW plugin, NEW ids, NEW bs \in Seq(Entries(ids))
  PROVE  Replies(plugin, bs) \subseteq ids \cup {NoBackend, Panicked}
<1>1. Choices(plugin, bs) \subseteq DOMAIN bs
  BY ChoicesAreAvailable DEF Available
<1>2. \A k \in DOMAIN bs : bs[k].id \in ids
  <2>1. \A k \in DOMAIN bs : bs[k] \in Entries(ids)
    OBVIOUS
  <2> QED
    BY <2>1 DEF Entries
<1> QED
  BY <1>1, <1>2 DEF Replies

(***************************************************************************)
(* A plugin that finds a backend available answers with one.  The weighted *)
(* one needs a weight that is not zero, and a sum of the weights that, cut *)
(* to a u32, is not zero either; a walk through a sum that has wrapped     *)
(* still comes to a backend.                                               *)
(***************************************************************************)
THEOREM ChoicesExist ==
  ASSUME NEW plugin \in Plugins, NEW ids, NEW bs \in Seq(Entries(ids)), Available(bs) # {},
         plugin = "weighted" => Total(Offered(Available(bs), bs)) % U32 # 0
  PROVE  Choices(plugin, bs) # {}
<1> DEFINE n == Len(bs)
<1>0. DOMAIN bs = 1 .. n /\ n \in Nat /\ \A k \in DOMAIN bs : bs[k] \in Entries(ids)
  OBVIOUS
<1>1. CASE plugin = "weighted"
  <2> DEFINE avail == Available(bs)
             ws == Offered(avail, bs)
             s == Sums(ws)
             total == Total(ws) % U32
             heavy == {k \in 1 .. n : s[k] > 0}
  <2>1. ws \in Seq(Nat) /\ Len(ws) = n /\ \A k \in 1 .. n :
          ws[k] = IF k \in avail THEN bs[k].weight ELSE 0
    <3>1. \A k \in 1 .. n : bs[k].weight \in Nat
      BY <1>0 DEF Entries
    <3>2. ws = [k \in 1 .. n |-> IF k \in avail THEN bs[k].weight ELSE 0]
      BY <1>0 DEF Offered
    <3> QED
      BY <1>0, <3>1, <3>2
  <2> HIDE DEF ws
  <2>2. /\ s[0] = 0 /\ \A k \in 0 .. n : s[k] \in Nat
        /\ \A k \in 1 .. n : s[k] = s[k - 1] + ws[k]
        /\ Total(ws) = s[n] /\ s[n] \in Nat
    <3>1. n \in 0 .. n
      BY <1>0
    <3> QED
      BY <2>1, <3>1, SumsGrow DEF Total
  <2>3. total # 0 /\ total \in Nat
    BY <1>1, <2>2, U32Assumption DEF ws
  <2>4. s[n] # 0
    <3>1. 0 % U32 = 0
      BY U32Assumption
    <3> QED
      BY <2>2, <2>3, <3>1
  <2>5. PICK k \in heavy : \A j \in heavy : k <= j
    <3>1. heavy \subseteq Nat
      BY <1>0
    <3>2. n \in heavy
      BY <1>0, <2>2, <2>4
    <3> HIDE DEF heavy
    <3> QED
      BY <3>1, <3>2, LeastNatural
  <2>6. k \in 1 .. n /\ k \in Nat /\ k - 1 \in 0 .. n /\ s[k] > 0
    BY <1>0, <2>5
  <2>7. s[k - 1] = 0
    <3>1. CASE k = 1
      BY <2>2, <3>1
    <3>2. CASE k # 1
      <4>1. k - 1 \in 1 .. n /\ ~(k <= k - 1)
        BY <1>0, <2>6, <3>2
      <4>2. k - 1 \notin heavy
        <5> HIDE DEF heavy
        <5> QED
          BY <2>5, <4>1
      <4>3. ~(s[k - 1] > 0) /\ s[k - 1] \in Nat
        BY <2>2, <2>6, <4>1, <4>2
      <4> QED
        BY <4>3
    <3> QED
      BY <3>1, <3>2
  <2>8. ws[k] > 0
    BY <2>1, <2>2, <2>6, <2>7
  <2>9. k \in avail /\ bs[k].weight > 0
    BY <2>1, <2>6, <2>8
  <2>10. s[k - 1] < total
    BY <2>3, <2>7
  <2>11. k \in Weighted(avail, bs)
    BY <2>9, <2>10 DEF Weighted, ws
  <2> QED
    BY <1>1, <2>11 DEF Choices
<1>2. CASE plugin = "least_connections"
  <2> DEFINE avail == Available(bs)
             counts == {bs[k].connections : k \in avail}
             least(k) == \A j \in avail : bs[k].connections <= bs[j].connections
             ties == {k \in avail : least(k)}
  <2>1. avail \subseteq 1 .. n /\ avail # {}
    BY <1>0 DEF Available
  <2>2. \A k \in avail : bs[k].connections \in Nat /\ k \in Nat
    BY <1>0, <2>1 DEF Entries
  <2> HIDE DEF avail
  <2>3. counts \subseteq Nat /\ counts # {}
    BY <2>1, <2>2
  <2>4. PICK c \in counts : \A d \in counts : c <= d
    <3> HIDE DEF counts
    <3> QED
      BY <2>3, LeastNatural
  <2>5. ties # {}
    BY <2>4
  <2>6. ties \subseteq Nat
    BY <2>2
  <2>7. PICK k \in ties : \A j \in ties : k <= j
    <3> HIDE DEF ties
    <3> QED
      BY <2>5, <2>6, LeastNatural
  <2>8. k \in avail /\ least(k)
    BY <2>7
  <2>9. ASSUME NEW j \in avail
        PROVE  \/ bs[k].connections < bs[j].connections
               \/ bs[k].connections = bs[j].connections /\ k <= j
    <3>1. CASE bs[k].connections = bs[j].connections
      <4>1. j \in ties
        BY <2>8, <3>1
      <4> QED
        BY <2>7, <3>1, <4>1
    <3>2. CASE bs[k].connections # bs[j].connections
      BY <2>2, <2>8, <3>2
    <3> QED
      BY <3>1, <3>2
  <2>10. k \in LeastConnections(avail, bs)
    BY <2>8, <2>9 DEF LeastConnections
  <2> QED
    BY <1>2, <2>10 DEF Choices, avail
<1>3. CASE plugin \notin {"weighted", "least_connections"}
  BY <1>3 DEF Choices
<1> QED
  BY <1>1, <1>2, <1>3

=============================================================================
