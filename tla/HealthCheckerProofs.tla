------------------------- MODULE HealthCheckerProofs -------------------------
(***************************************************************************)
(* Proofs about HealthChecker, for any backends, loops, thresholds and     *)
(* operations.                                                             *)
(***************************************************************************)
EXTENDS HealthChecker, TLAPS

LEMMA MoreCounts == \A n \in Counts : More(n) \in Counts
BY ThresholdsAssumption DEF More, Counts

LEMMA VerdictType == \A s \in States, ok \in BOOLEAN : Verdict(s, ok) \in States
BY MoreCounts, ThresholdsAssumption DEF Verdict, States, Counts

LEMMA FreshType == Fresh \in States
BY ThresholdsAssumption DEF Fresh, States, Counts

(* The parts of the type that the steps of a check change. *)
TableType == /\ DOMAIN backend_states \subseteq Backends
             /\ backend_states \in [DOMAIN backend_states -> States]
CheckType == check \in [Loops -> [Backends -> Checks]]

LEMMA WrittenType ==
  ASSUME TableType, NEW b \in Backends, NEW s \in States, backend_states' = Written(b, s)
  PROVE  TableType'
BY DEF TableType, Written

LEMMA CheckChangeType ==
  ASSUME CheckType, NEW l \in Loops, NEW b \in Backends, NEW c \in Checks,
         check' = [check EXCEPT ![l][b] = c]
  PROVE  CheckType'
BY DEF CheckType

(* What the phase of a check says of its record. *)
LEMMA CheckPhases ==
  \A c \in Checks :
    /\ c.phase \in {"none", "probe", "notify", "insert"}
    /\ c.phase = "none" <=> c = NoCheck
    /\ c.phase # "none" => c.state \in States
    /\ c.phase = "probe" => c.attempt \in 0 .. Retries
    /\ c.phase = "probe" => c = [phase |-> "probe", attempt |-> c.attempt, state |-> c.state]
    /\ c.phase \in {"notify", "insert"} => c = [phase |-> c.phase, state |-> c.state]
BY DEF Checks, NoCheck

(* A probe either is followed by another or concludes; these are the new   *)
(* records of the check.                                                   *)
LEMMA ProbeChecks ==
  ASSUME CheckType, NEW l \in Loops, NEW b \in Backends, Probe(l, b)
  PROVE  LET s == check[l][b].state
         IN  \/ /\ check[l][b].attempt + 1 \in 0 .. Retries /\ ~up[b]
                /\ check' = [check EXCEPT ![l][b] =
                               [phase |-> "probe", attempt |-> check[l][b].attempt + 1,
                                state |-> s]]
             \/ \E ok \in BOOLEAN, p \in {"notify", "insert"} :
                  /\ IF ok THEN up[b] ELSE check[l][b].attempt = Retries
                  /\ p = "notify" <=> Verdict(s, ok).healthy # s.healthy
                  /\ check' = [check EXCEPT ![l][b] = [phase |-> p, state |-> Verdict(s, ok)]]
<1> DEFINE c == check[l][b]
<1>1. c \in Checks /\ c.phase = "probe"
  BY DEF CheckType, Probe
<1>2. c = [phase |-> "probe", attempt |-> c.attempt, state |-> c.state]
      /\ c.attempt \in 0 .. Retries
  BY <1>1, CheckPhases
<1>3. CASE c.attempt < Retries /\ ~up[b] /\ check' = [check EXCEPT ![l][b].attempt = @ + 1]
  <2>1. c.attempt + 1 \in 0 .. Retries
    BY <1>2, <1>3, RetriesAssumption
  <2>2. [c EXCEPT !.attempt = @ + 1]
          = [phase |-> "probe", attempt |-> c.attempt + 1, state |-> c.state]
    BY <1>2
  <2>3. check' = [check EXCEPT ![l][b] = [c EXCEPT !.attempt = @ + 1]]
    BY <1>3 DEF CheckType
  <2> QED
    BY <1>3, <2>1, <2>2, <2>3
<1>4. ASSUME NEW ok \in BOOLEAN, IF ok THEN up[b] ELSE c.attempt = Retries, Conclude(l, b, ok)
      PROVE  \E o \in BOOLEAN, p \in {"notify", "insert"} :
               /\ IF o THEN up[b] ELSE c.attempt = Retries
               /\ p = "notify" <=> Verdict(c.state, o).healthy # c.state.healthy
               /\ check' = [check EXCEPT ![l][b] = [phase |-> p, state |-> Verdict(c.state, o)]]
  BY <1>4 DEF Conclude
<1>5. ~(c.attempt < Retries) => c.attempt = Retries
  BY <1>2, RetriesAssumption
<1>6. \/ c.attempt < Retries /\ ~up[b] /\ check' = [check EXCEPT ![l][b].attempt = @ + 1]
      \/ up[b] /\ Conclude(l, b, TRUE)
      \/ c.attempt = Retries /\ Conclude(l, b, FALSE)
  BY <1>5 DEF Probe
<1> QED
  BY <1>3, <1>4, <1>6

(* A check changes no other check's record. *)
LEMMA OtherChecksStay ==
  ASSUME CheckType, NEW l \in Loops, NEW b \in Backends, Check(l, b),
         NEW m \in Loops, NEW a \in Backends, m # l \/ a # b
  PROVE  check'[m][a] = check[m][a]
<1>1. CASE Probe(l, b)
  BY <1>1, ProbeChecks DEF CheckType
<1>2. CASE Notify(l, b)
  BY <1>2 DEF Notify, CheckType
<1>3. CASE Insert(l, b)
  BY <1>3 DEF Insert, CheckType
<1> QED
  BY <1>1, <1>2, <1>3 DEF Check

-----------------------------------------------------------------------------
(* Type correctness: the table and the checks hold only what the code may  *)
(* write there, and a check never probes more often than configured.       *)
THEOREM Typing == Spec => []TypeOK
<1>1. Init => TypeOK
  <2> SUFFICES ASSUME Init PROVE TypeOK
    OBVIOUS
  <2>1. backend_states \in [DOMAIN backend_states -> States] /\ DOMAIN backend_states = Backends
    BY FreshType DEF Init
  <2>2. check \in [Loops -> [Backends -> Checks]]
    BY DEF Init, Checks
  <2>3. DOMAIN backend_states \subseteq Backends
    BY <2>1
  <2>4. backend_states \in [DOMAIN backend_states -> States]
    BY <2>1
  <2>5. reloads \in 0 .. ReloadBound
    BY ReloadAssumption DEF Init
  <2> QED
    BY <2>2, <2>3, <2>4, <2>5 DEF Init, TypeOK
<1>2. TypeOK /\ [Next]_vars => TypeOK'
  <2> SUFFICES ASSUME TypeOK, [Next]_vars PROVE TypeOK'
    OBVIOUS
  <2>0. TableType /\ CheckType
    BY DEF TypeOK, TableType, CheckType
  <2>1. CASE UNCHANGED vars
    BY <2>1 DEF TypeOK, vars, checker
  <2>2. CASE Start
    BY <2>2 DEF TypeOK, Start
  <2>3. CASE Stop
    BY <2>3 DEF TypeOK, Stop
  <2>4. CASE Reload
    BY <2>4, ReloadAssumption DEF TypeOK, Reload, checker
  <2>5. ASSUME NEW b \in Backends, AddBackend(b) PROVE TypeOK'
    <3>1. TableType'
      BY <2>0, <2>5, FreshType, WrittenType DEF AddBackend
    <3> QED
      BY <2>5, <3>1 DEF TypeOK, TableType, AddBackend
  <2>6. ASSUME NEW b \in Backends, RemoveBackend(b) PROVE TypeOK'
    BY <2>6 DEF TypeOK, RemoveBackend
  <2>7. ASSUME NEW b \in Backends, Flip(b) PROVE TypeOK'
    BY <2>7 DEF TypeOK, Flip, checker
  <2>8. ASSUME NEW l \in Loops, Tick(l) PROVE TypeOK'
    <3>1. \A s \in States : Begun(s) \in Checks
      BY RetriesAssumption DEF Begun, Checks
    <3>2. \A b \in Backends : (IF b \in DOMAIN backend_states
                                 THEN Begun(backend_states[b]) ELSE NoCheck) \in Checks
      BY <2>0, <3>1 DEF TableType, Checks
    <3> QED
      BY <2>8, <3>2 DEF TypeOK, Tick
  <2>9. ASSUME NEW l \in Loops, EndRound(l) PROVE TypeOK'
    BY <2>9 DEF TypeOK, EndRound
  <2>10. ASSUME NEW l \in Loops, NEW b \in Backends, Probe(l, b) PROVE TypeOK'
    <3>1. check[l][b].state \in States
      BY <2>0, <2>10, CheckPhases DEF CheckType, Probe
    <3>2. PICK c \in Checks : check' = [check EXCEPT ![l][b] = c]
      <4> DEFINE s == check[l][b].state
                 more == check[l][b].attempt + 1
      <4>1. more \in 0 .. Retries => [phase |-> "probe", attempt |-> more, state |-> s] \in Checks
        BY <3>1 DEF Checks
      <4>2. \A ok \in BOOLEAN, p \in {"notify", "insert"} :
              [phase |-> p, state |-> Verdict(s, ok)] \in Checks
        BY <3>1, VerdictType DEF Checks
      <4>3. \/ /\ more \in 0 .. Retries
               /\ check' = [check EXCEPT ![l][b] =
                              [phase |-> "probe", attempt |-> more, state |-> s]]
            \/ \E ok \in BOOLEAN, p \in {"notify", "insert"} :
                 check' = [check EXCEPT ![l][b] = [phase |-> p, state |-> Verdict(s, ok)]]
        BY <2>0, <2>10, ProbeChecks
      <4> HIDE DEF s, more
      <4> QED
        BY <4>1, <4>2, <4>3
    <3>3. CheckType'
      BY <2>0, <3>2, CheckChangeType
    <3> QED
      BY <2>10, <3>3 DEF TypeOK, CheckType, Probe
  <2>11. ASSUME NEW l \in Loops, NEW b \in Backends, Notify(l, b) PROVE TypeOK'
    <3> DEFINE c == check[l][b]
    <3>1. c \in Checks /\ c.phase = "notify"
      BY <2>0, <2>11 DEF CheckType, Notify
    <3>2. c.state \in States /\ c = [phase |-> "notify", state |-> c.state]
      BY <3>1, CheckPhases
    <3>3. [c EXCEPT !.phase = "insert"] = [phase |-> "insert", state |-> c.state]
      BY <3>2
    <3>4. [c EXCEPT !.phase = "insert"] \in Checks
      BY <3>2, <3>3 DEF Checks
    <3>5. check' = [check EXCEPT ![l][b] = [c EXCEPT !.phase = "insert"]]
      BY <2>0, <2>11 DEF CheckType, Notify
    <3>6. CheckType'
      BY <2>0, <3>4, <3>5, CheckChangeType
    <3>7. c.state.healthy \in BOOLEAN
      BY <3>2 DEF States
    <3> QED
      BY <2>11, <3>6, <3>7 DEF TypeOK, CheckType, Notify
  <2>12. ASSUME NEW l \in Loops, NEW b \in Backends, Insert(l, b) PROVE TypeOK'
    <3>1. check[l][b].state \in States
      BY <2>0, <2>12, CheckPhases DEF CheckType, Insert
    <3>2. TableType'
      BY <2>0, <2>12, <3>1, WrittenType DEF Insert
    <3>3. CheckType'
      BY <2>0, <2>12, CheckChangeType DEF Insert, Checks
    <3> QED
      BY <2>12, <3>2, <3>3 DEF TypeOK, TableType, CheckType, Insert
  <2> QED
    BY <2>1, <2>2, <2>3, <2>4, <2>5, <2>6, <2>7, <2>8, <2>9, <2>10, <2>11, <2>12
       DEF Next, Check
<1> QED
  BY <1>1, <1>2, PTL DEF Spec

-----------------------------------------------------------------------------
(***************************************************************************)
(* Nothing the checker knows speaks against a backend that was never down: *)
(* not its entry in the table, not the copy of any check under way.        *)
(***************************************************************************)
Unblemished(b) ==
  /\ up[b] /\ cached[b]
  /\ b \in DOMAIN backend_states => backend_states[b].healthy
  /\ \A l \in Loops : check[l][b] # NoCheck => check[l][b].state.healthy
  /\ \A l \in Loops : check[l][b].phase = "probe" => check[l][b].attempt = 0

LEMMA UnblemishedStep ==
  ASSUME TypeOK, Retries > 0, \A b \in Backends : b \notin faulted => Unblemished(b), [Next]_vars,
         NEW a \in Backends, a \notin faulted'
  PROVE  Unblemished(a)'
<1>0. a \notin faulted
  BY DEF Next, vars, checker, Start, Stop, Reload, AddBackend, RemoveBackend, Flip, Tick,
     EndRound, Check, Probe, Notify, Insert
<1>1. /\ up[a] /\ cached[a]
      /\ a \in DOMAIN backend_states => backend_states[a].healthy
      /\ \A l \in Loops : check[l][a] # NoCheck => check[l][a].state.healthy
      /\ \A l \in Loops : check[l][a].phase = "probe" => check[l][a].attempt = 0
  BY <1>0 DEF Unblemished
<1>t. CheckType /\ cached \in [Backends -> BOOLEAN] /\ up \in [Backends -> BOOLEAN]
  BY DEF TypeOK, CheckType
<1>2. CASE UNCHANGED vars \/ Start \/ Stop
  BY <1>1, <1>2 DEF vars, checker, Start, Stop, Unblemished
<1>3. CASE Reload
  BY <1>1, <1>3 DEF Reload, checker, Unblemished
<1>4. ASSUME NEW b \in Backends, AddBackend(b) PROVE Unblemished(a)'
  BY <1>1, <1>4 DEF AddBackend, Written, Fresh, Unblemished
<1>5. ASSUME NEW b \in Backends, RemoveBackend(b) PROVE Unblemished(a)'
  BY <1>1, <1>5 DEF RemoveBackend, Unblemished
<1>6. ASSUME NEW b \in Backends, Flip(b) PROVE Unblemished(a)'
  <2>1. b # a
    BY <1>1, <1>6 DEF Flip
  <2> QED
    BY <1>1, <1>t, <1>6, <2>1 DEF Flip, checker, Unblemished
<1>7. ASSUME NEW l \in Loops, Tick(l) PROVE Unblemished(a)'
  <2>1. \A m \in Loops : check'[m][a] \in {check[m][a], NoCheck}
          \/ (a \in DOMAIN backend_states /\ check'[m][a] = Begun(backend_states[a]))
    BY <1>7, <1>t DEF Tick, CheckType
  <2> QED
    BY <1>1, <1>7, <2>1 DEF Tick, Begun, Unblemished, NoCheck
<1>8. ASSUME NEW l \in Loops, EndRound(l) PROVE Unblemished(a)'
  BY <1>1, <1>8 DEF EndRound, Unblemished
<1>9. ASSUME NEW l \in Loops, NEW b \in Backends, Probe(l, b) PROVE Unblemished(a)'
  <2>1. \A m \in Loops : <<m, a>> # <<l, b>> => check'[m][a] = check[m][a]
    BY <1>9, <1>t, ProbeChecks DEF CheckType
  <2>2. a = b => check'[l][a].state.healthy /\ check'[l][a].phase # "probe"
    <3> SUFFICES ASSUME a = b PROVE check'[l][a].state.healthy /\ check'[l][a].phase # "probe"
      OBVIOUS
    <3> DEFINE s == check[l][b].state
    <3>1. s.healthy /\ up[b] /\ check[l][b].attempt = 0
      BY <1>1, <1>9 DEF Probe, NoCheck
    <3>2. Verdict(s, TRUE).healthy
      BY <3>1 DEF Verdict
    <3>3. PICK p \in {"notify", "insert"} :
            check' = [check EXCEPT ![l][b] = [phase |-> p, state |-> Verdict(s, TRUE)]]
      <4>1. PICK ok \in BOOLEAN, p \in {"notify", "insert"} :
              /\ IF ok THEN up[b] ELSE check[l][b].attempt = Retries
              /\ check' = [check EXCEPT ![l][b] = [phase |-> p, state |-> Verdict(s, ok)]]
        BY <1>t, <1>9, <3>1, ProbeChecks
      <4>2. ok = TRUE
        BY <3>1, <4>1
      <4> QED
        BY <4>1, <4>2
    <3>4. check'[l][a] = [phase |-> p, state |-> Verdict(s, TRUE)]
      BY <1>t, <3>3 DEF CheckType
    <3>5. check'[l][a].state.healthy = Verdict(s, TRUE).healthy /\ check'[l][a].phase = p
      BY <3>4
    <3>6. p # "probe"
      OBVIOUS
    <3> QED
      BY <3>2, <3>5, <3>6
  <2> QED
    BY <1>1, <1>9, <2>1, <2>2 DEF Probe, Unblemished
<1>10. ASSUME NEW l \in Loops, NEW b \in Backends, Notify(l, b) PROVE Unblemished(a)'
  <2>1. cached'[a]
    BY <1>1, <1>t, <1>10 DEF Notify, NoCheck
  <2>2. \A m \in Loops : /\ check'[m][a] # NoCheck => check[m][a] # NoCheck
                         /\ check[m][a] # NoCheck => check'[m][a].state = check[m][a].state
                         /\ check'[m][a].phase = "probe" => check'[m][a] = check[m][a]
    <3>1. check[l][b] \in Checks /\ check[l][b].phase = "notify"
      BY <1>t, <1>10 DEF CheckType, Notify
    <3>2. /\ check[l][b] # NoCheck
          /\ check[l][b] = [phase |-> "notify", state |-> check[l][b].state]
      BY <3>1, CheckPhases DEF NoCheck
    <3>3. [check[l][b] EXCEPT !.phase = "insert"]
            = [phase |-> "insert", state |-> check[l][b].state]
      BY <3>2
    <3>4. check' = [check EXCEPT ![l][b] = [phase |-> "insert", state |-> check[l][b].state]]
      BY <1>t, <1>10, <3>3 DEF CheckType, Notify
    <3> QED
      BY <1>t, <3>2, <3>4 DEF CheckType
  <2> QED
    BY <1>1, <1>10, <2>1, <2>2 DEF Notify, Unblemished
<1>11. ASSUME NEW l \in Loops, NEW b \in Backends, Insert(l, b) PROVE Unblemished(a)'
  <2>1. a \in DOMAIN backend_states' => backend_states'[a].healthy
    BY <1>1, <1>11 DEF Insert, Written, NoCheck
  <2>2. \A m \in Loops : check'[m][a] \in {check[m][a], NoCheck}
    BY <1>t, <1>11 DEF Insert, CheckType
  <2> QED
    BY <1>1, <1>11, <2>1, <2>2 DEF Insert, Unblemished, NoCheck
<1> QED
  BY <1>2, <1>3, <1>4, <1>5, <1>6, <1>7, <1>8, <1>9, <1>10, <1>11 DEF Next, Check

(* A backend that was never down stays in balancing: however the operations *)
(* and any number of loops interleave, no stale copy can take it out.       *)
THEOREM NeverDownStaysIn == Spec => []NeverDownNeverOut
<1> DEFINE Inv == Retries > 0 => \A b \in Backends : b \notin faulted => Unblemished(b)
<1>1. Init => Inv
  BY DEF Init, Unblemished, Fresh, NoCheck
<1>2. TypeOK /\ Inv /\ [Next]_vars => Inv'
  BY UnblemishedStep
<1>3. Inv => NeverDownNeverOut
  BY DEF Unblemished, NeverDownNeverOut
<1> HIDE DEF Inv
<1> QED
  BY <1>1, <1>2, <1>3, Typing, PTL DEF Spec

-----------------------------------------------------------------------------
(***************************************************************************)
(* While one loop works and only its checks write the entry of b and the   *)
(* manager's flag, the copy of a check stays what the table says until the *)
(* check concludes, and the flag is the table's until the check notifies   *)
(* the manager and the copy's from then on.                                *)
(***************************************************************************)
InStep(l, b) ==
  LET c == check[l][b]
      s == backend_states[b]
  IN  /\ c.phase # "insert" => cached[b] = s.healthy
      /\ c.phase = "probe"  => c.state = s
      /\ c.phase = "notify" => c.state.healthy # s.healthy
      /\ c.phase = "insert" => cached[b] = c.state.healthy

Follows(b) ==
  /\ b \in DOMAIN backend_states
  /\ \A l \in Loops : loop[l] # "none" => InStep(l, b)
  /\ (\A l \in Loops : loop[l] = "none") => cached[b] = backend_states[b].healthy

(* The checks of a round are over when the loop waits for the next one. *)
RoundsEnd == \A l \in Loops : loop[l] # "checking" =>
               \A b \in Backends : check[l][b] = NoCheck

LEMMA RoundsEndStep ==
  ASSUME TypeOK, RoundsEnd, [Next]_vars
  PROVE  RoundsEnd'
<1>t. CheckType /\ loop \in [Loops -> {"none", "waiting", "checking", "ended"}]
  BY DEF TypeOK, CheckType
<1>1. CASE UNCHANGED <<loop, check>>
  BY <1>1 DEF RoundsEnd
<1>2. CASE Stop \/ Reload \/ UNCHANGED vars
           \/ \E b \in Backends : AddBackend(b) \/ RemoveBackend(b) \/ Flip(b)
  BY <1>1, <1>2 DEF Stop, Reload, AddBackend, RemoveBackend, Flip, vars, checker
<1>3. CASE Start
  BY <1>3, <1>t DEF Start, RoundsEnd
<1>4. ASSUME NEW l \in Loops, Tick(l) \/ EndRound(l) PROVE RoundsEnd'
  BY <1>4, <1>t DEF Tick, EndRound, RoundsEnd, CheckType
<1>5. ASSUME NEW l \in Loops, NEW b \in Backends, Check(l, b) PROVE RoundsEnd'
  <2>1. check[l][b] # NoCheck
    <3>1. check[l][b].phase \in {"probe", "notify", "insert"}
      BY <1>5 DEF Check, Probe, Notify, Insert
    <3> QED
      BY <3>1 DEF NoCheck
  <2>2. loop[l] = "checking"
    BY <2>1 DEF RoundsEnd
  <2>3. loop' = loop /\ \A m \in Loops : m # l => check'[m] = check[m]
    BY <1>5, <1>t DEF Check, Probe, Conclude, Notify, Insert, CheckType
  <2> QED
    BY <2>2, <2>3 DEF RoundsEnd
<1> QED
  BY <1>2, <1>3, <1>4, <1>5 DEF Next

(* Loops are only ever spawned, and backends only ever edited. *)
LEMMA DisturbedForEver ==
  ASSUME TypeOK, [Next]_vars, NEW a \in Backends, Undisturbed(a)'
  PROVE  /\ Undisturbed(a)
         /\ ~Reload /\ ~AddBackend(a) /\ ~RemoveBackend(a)
<1>t. CheckType /\ loop \in [Loops -> {"none", "waiting", "checking", "ended"}]
      /\ reloads \in Nat
  BY DEF TypeOK, CheckType
<1>1. \A l \in Loops : loop[l] # "none" => loop'[l] # "none"
  BY <1>t DEF Next, vars, checker, Start, Stop, Reload, AddBackend, RemoveBackend, Flip, Tick,
     EndRound, Check, Probe, Notify, Insert
<1>2. edited \subseteq edited'
  BY DEF Next, vars, checker, Start, Stop, Reload, AddBackend, RemoveBackend, Flip, Tick,
     EndRound, Check, Probe, Notify, Insert
<1>3. reloads' = reloads \/ Reload
  BY DEF Next, vars, checker, Start, Stop, Reload, AddBackend, RemoveBackend, Flip, Tick,
     EndRound, Check, Probe, Notify, Insert
<1>4. ~Reload
  BY <1>t DEF Reload, Undisturbed
<1>5. ~AddBackend(a) /\ ~RemoveBackend(a)
  BY DEF AddBackend, RemoveBackend, Undisturbed
<1> QED
  BY <1>1, <1>2, <1>3, <1>4, <1>5 DEF Undisturbed, OneLoop

LEMMA FollowsStep ==
  ASSUME TypeOK, RoundsEnd, [Next]_vars,
         NEW a \in Backends, Undisturbed(a)', Undisturbed(a) => Follows(a)
  PROVE  Follows(a)'
<1>t. /\ CheckType /\ TableType /\ cached \in [Backends -> BOOLEAN]
      /\ loop \in [Loops -> {"none", "waiting", "checking", "ended"}]
  BY DEF TypeOK, CheckType, TableType
<1>u. Undisturbed(a) /\ ~Reload /\ ~AddBackend(a) /\ ~RemoveBackend(a)
  BY DisturbedForEver
<1>i. Follows(a) /\ OneLoop
  BY <1>u DEF Undisturbed
<1>o. OneLoop'
  BY DEF Undisturbed
<1>1. ASSUME UNCHANGED <<check, cached>>, \A l \in Loops : loop[l] = "none" <=> loop'[l] = "none",
             a \in DOMAIN backend_states', backend_states'[a] = backend_states[a]
      PROVE  Follows(a)'
  BY <1>i, <1>1 DEF Follows, InStep
<1>2. CASE Stop \/ UNCHANGED vars \/ \E b \in Backends : Flip(b)
  BY <1>i, <1>1, <1>2 DEF Stop, Flip, vars, checker, Follows
<1>3. ASSUME NEW l \in Loops, EndRound(l) PROVE Follows(a)'
  BY <1>i, <1>1, <1>3, <1>t DEF EndRound, Follows
<1>4. ASSUME NEW b \in Backends, AddBackend(b) \/ RemoveBackend(b) PROVE Follows(a)'
  <2>1. b # a
    BY <1>u, <1>4
  <2>2. a \in DOMAIN backend_states' /\ backend_states'[a] = backend_states[a]
    BY <1>i, <1>4, <2>1 DEF AddBackend, RemoveBackend, Written, Follows
  <2> QED
    BY <1>1, <1>4, <2>2 DEF AddBackend, RemoveBackend
<1>5. CASE Start
  <2>1. PICK l \in Loops : loop[l] = "none" /\ loop' = [loop EXCEPT ![l] = "waiting"]
    BY <1>5 DEF Start
  <2>2. \A m \in Loops : loop[m] = "none"
    BY <1>o, <1>t, <2>1 DEF OneLoop
  <2>3. cached[a] = backend_states[a].healthy /\ \A m \in Loops : check[m][a] = NoCheck
    BY <1>i, <2>2 DEF Follows, RoundsEnd
  <2> QED
    BY <1>5, <1>i, <1>t, <2>1, <2>3 DEF Start, Follows, InStep, NoCheck
<1>6. ASSUME NEW l \in Loops, Tick(l) PROVE Follows(a)'
  <2>1. CASE UNCHANGED check
    <3>1. \A m \in Loops : loop[m] = "none" <=> loop'[m] = "none"
      BY <1>6, <1>t DEF Tick
    <3> QED
      BY <1>1, <1>6, <1>i, <2>1, <3>1 DEF Tick, Follows
  <2>2. CASE check' = [check EXCEPT ![l] = [b \in Backends |->
               IF b \in DOMAIN backend_states THEN Begun(backend_states[b]) ELSE NoCheck]]
    <3>1. check'[l][a] = [phase |-> "probe", attempt |-> 0, state |-> backend_states[a]]
      BY <1>t, <1>i, <2>2 DEF CheckType, Begun, Follows
    <3>2. check[l][a].phase = "none" /\ loop[l] # "none"
      BY <1>6 DEF Tick, RoundsEnd, NoCheck
    <3>3. cached[a] = backend_states[a].healthy
      BY <1>i, <3>2 DEF Follows, InStep
    <3>4. backend_states' = backend_states /\ cached' = cached /\ loop'[l] # "none"
          /\ \A m \in Loops : loop'[m] # "none" => m = l
      BY <1>6, <1>t, <1>o DEF Tick, OneLoop
    <3>5. InStep(l, a)'
      <4>1. check'[l][a].phase = "probe" /\ check'[l][a].state = backend_states[a]
        BY <3>1
      <4> QED
        BY <3>3, <3>4, <4>1 DEF InStep
    <3> QED
      BY <1>i, <3>4, <3>5 DEF Follows
  <2> QED
    BY <1>6, <2>1, <2>2 DEF Tick
<1>7. ASSUME NEW l \in Loops, NEW b \in Backends, Check(l, b) PROVE Follows(a)'
  <2>1. check[l][b] # NoCheck
    <3>1. check[l][b].phase \in {"probe", "notify", "insert"}
      BY <1>7 DEF Check, Probe, Notify, Insert
    <3> QED
      BY <3>1 DEF NoCheck
  <2>2. loop' = loop /\ loop[l] # "none" /\ \A m \in Loops : loop[m] # "none" => m = l
    <3>1. loop[l] # "none"
      BY <2>1 DEF RoundsEnd
    <3>2. loop' = loop
      BY <1>7 DEF Check, Probe, Notify, Insert
    <3> QED
      BY <1>i, <3>1, <3>2 DEF OneLoop
  <2>3. SUFFICES a \in DOMAIN backend_states' /\ InStep(l, a)'
    BY <2>2 DEF Follows
  <2>4. CASE a # b
    <3>1. check'[l][a] = check[l][a]
      BY <1>7, <1>t, <2>4, OtherChecksStay
    <3>2. /\ cached'[a] = cached[a] /\ backend_states'[a] = backend_states[a]
          /\ a \in DOMAIN backend_states'
      BY <1>7, <1>t, <1>i, <2>4 DEF Check, Probe, Notify, Insert, Written, Follows
    <3> QED
      BY <1>i, <2>2, <3>1, <3>2 DEF InStep, Follows
  <2>5. CASE a = b
    <3> DEFINE c == check[l][a]
    <3>0. c \in Checks /\ InStep(l, a) /\ a \in DOMAIN backend_states
      BY <1>t, <1>i, <2>2 DEF CheckType, Follows
    <3>1. CASE Probe(l, a)
      <4>1. /\ backend_states' = backend_states /\ cached' = cached
            /\ c.state = backend_states[a] /\ cached[a] = c.state.healthy
        BY <3>0, <3>1 DEF Probe, InStep
      <4>2. CASE check' = [check EXCEPT ![l][a] =
                     [phase |-> "probe", attempt |-> c.attempt + 1, state |-> c.state]]
        <5>1. check'[l][a] = [phase |-> "probe", attempt |-> c.attempt + 1, state |-> c.state]
          BY <1>t, <4>2 DEF CheckType
        <5> QED
          BY <3>0, <4>1, <5>1 DEF InStep
      <4>3. ASSUME NEW ok \in BOOLEAN, NEW p \in {"notify", "insert"},
                   p = "notify" <=> Verdict(c.state, ok).healthy # c.state.healthy,
                   check' = [check EXCEPT ![l][a] =
                               [phase |-> p, state |-> Verdict(c.state, ok)]]
            PROVE  InStep(l, a)'
        <5>1. check'[l][a] = [phase |-> p, state |-> Verdict(c.state, ok)]
          BY <1>t, <4>3 DEF CheckType
        <5> QED
          BY <4>1, <4>3, <5>1 DEF InStep
      <4>4. \/ check' = [check EXCEPT ![l][a] =
                     [phase |-> "probe", attempt |-> c.attempt + 1, state |-> c.state]]
            \/ \E ok \in BOOLEAN, p \in {"notify", "insert"} :
                 /\ p = "notify" <=> Verdict(c.state, ok).healthy # c.state.healthy
                 /\ check' = [check EXCEPT ![l][a] =
                                [phase |-> p, state |-> Verdict(c.state, ok)]]
        BY <1>t, <3>1, ProbeChecks
      <4> QED
        BY <3>0, <4>1, <4>2, <4>3, <4>4
    <3>2. CASE Notify(l, a)
      <4>1. c.phase = "notify" /\ c = [phase |-> "notify", state |-> c.state]
        BY <3>0, <3>2, CheckPhases DEF Notify
      <4>2. [c EXCEPT !.phase = "insert"] = [phase |-> "insert", state |-> c.state]
        BY <4>1
      <4>3. check'[l][a] = [phase |-> "insert", state |-> c.state]
        BY <1>t, <3>2, <4>2 DEF Notify, CheckType
      <4>4. cached'[a] = c.state.healthy /\ backend_states' = backend_states
        BY <1>t, <3>2 DEF Notify
      <4> QED
        BY <3>0, <4>3, <4>4 DEF InStep
    <3>3. CASE Insert(l, a)
      <4>1. check'[l][a] = NoCheck /\ cached' = cached /\ cached[a] = c.state.healthy
        BY <1>t, <3>0, <3>3 DEF Insert, InStep, CheckType
      <4>2. a \in DOMAIN backend_states' /\ backend_states'[a] = c.state
        BY <3>3 DEF Insert, Written
      <4> QED
        BY <4>1, <4>2 DEF InStep, NoCheck
    <3> QED
      BY <1>7, <2>5, <3>1, <3>2, <3>3 DEF Check
  <2> QED
    BY <2>4, <2>5
<1> QED
  BY <1>u, <1>2, <1>3, <1>4, <1>5, <1>6, <1>7 DEF Next

(* Routing and the checker agree on every undisturbed backend whenever no  *)
(* verdict is on its way, for any number of backends and of loops waiting  *)
(* to be spawned, and whatever happens to the other backends.              *)
THEOREM RouterAlwaysAgrees == Spec => []RouterAgrees
<1> DEFINE Inv == RoundsEnd /\ \A b \in Backends : Undisturbed(b) => Follows(b)
<1>1. Init => Inv
  <2> SUFFICES ASSUME Init PROVE Inv
    OBVIOUS
  <2>1. /\ DOMAIN backend_states = Backends
        /\ \A b \in Backends : cached[b] = backend_states[b].healthy
        /\ \A l \in Loops, b \in Backends : check[l][b] = NoCheck
        /\ \A l \in Loops : loop[l] = "none"
    BY DEF Init, Fresh
  <2> QED
    BY <2>1 DEF RoundsEnd, Follows
<1>2. TypeOK /\ Inv /\ [Next]_vars => Inv'
  BY RoundsEndStep, FollowsStep
<1>3. Inv => RouterAgrees
  <2> SUFFICES ASSUME Inv, NEW b \in Backends, Undisturbed(b),
                      \A l \in Loops : check[l][b].phase # "insert"
               PROVE  cached[b] = backend_states[b].healthy
    BY DEF RouterAgrees
  <2>1. Follows(b)
    OBVIOUS
  <2> QED
    BY <2>1 DEF Follows, InStep
<1> HIDE DEF Inv
<1> QED
  BY <1>1, <1>2, <1>3, Typing, PTL DEF Spec

=============================================================================
