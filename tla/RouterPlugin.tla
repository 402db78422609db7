---------------------------- MODULE RouterPlugin -----------------------------
(***************************************************************************)
(* src/router/plugins: one router of the manager, an instance of one of    *)
(* the five plugins, between its creation and its removal.  It is shared   *)
(* by every rule that names it and by every task that routes.              *)
(*                                                                         *)
(* RouterManager::route calls select_backend with the routers and the      *)
(* cache locked for reading, so selections overlap; initialize and         *)
(* on_backend_health_changed run under the write lock of the routers, and  *)
(* a rule's backends change under the write lock of the cache: both only   *)
(* while no selection runs.  A selection is cut at its one await, before   *)
(* it writes the statistics.  The weighted plugin draws as WeightedDraw    *)
(* has it; where that panics, the task ends and leaves no statistics.      *)
(*                                                                         *)
(* The manager hands a plugin the backends that are available, never an    *)
(* empty list.  update_backends, which would fill the plugin's own list,   *)
(* has no caller.                                                          *)
(***************************************************************************)
EXTENDS Routing, WeightedDraw, FiniteSets

CONSTANTS
  Tasks,            \* the tasks that route
  Installed,        \* the plugins considered
  Rules,            \* the names of the rules that use the router
  Lists,            \* the lists of available backends a rule may have
  Clients,          \* what a request shows of itself: [ip, port, target]
  Options,          \* the hash_key options of the configurations
  Hash,             \* the hash of an address or a port
  CounterSize,      \* the number of values of the counter (usize)
  MaxRequests       \* bound: selections in a behaviour

ASSUME TasksAssumption == IsFiniteSet(Tasks)
ASSUME InstalledAssumption == Installed \subseteq Plugins
ASSUME CounterAssumption == CounterSize \in Nat \ {0}
ASSUME ListsAssumption ==
  \A bs \in Lists :
    /\ Len(bs) \in Nat \ {0} /\ DOMAIN bs = 1 .. Len(bs)
    /\ Available(bs) = DOMAIN bs
    /\ \A k \in DOMAIN bs : bs[k].connections \in Nat
    /\ [k \in DOMAIN bs |-> bs[k].weight] \in WeightLists
ASSUME HashAssumption ==
  \A c \in Clients : \A v \in {c.ip, c.port, c.target} : Hash[v] \in Nat

VARIABLES
  plugin,           \* the plugin the router was created with
  hash_key,         \* HashRouter: what it hashes
  counter,          \* RoundRobinRouter: the next position, before the modulo
  backends,         \* the list of its own
  stats,            \* RouterStats
  listed,           \* the available backends of each rule, in the manager
  picking,          \* the selection each task is in
  (* of the past *)
  taken,            \* round robin: the picks of each position since the list changed
  jumps,            \* how often since then the counter moved out of its turn
  requests,         \* the selections begun
  panics            \* the selections that panicked

self == <<plugin, hash_key, counter, backends>>
past == <<taken, jumps>>
vars == <<self, stats, listed, picking, past, requests, panics, draw>>

Outside == [step |-> "outside"]
Untaken(bs) == [k \in DOMAIN bs |-> 0]
Weights(bs) == [k \in DOMAIN bs |-> bs[k].weight]
Ids == UNION {{bs[k].id : k \in DOMAIN bs} : bs \in Lists}

Init ==
  /\ plugin \in Installed
  /\ hash_key \in {"client_ip"} \cup (IF plugin = "hash" THEN Options ELSE {})
  /\ counter = 0
  /\ backends = <<>>
  /\ stats = [total |-> 0, successful |-> 0, failed |-> 0, healthy |-> 0]
  /\ listed \in [Rules -> Lists]
  /\ picking = [t \in Tasks |-> Outside]
  /\ taken = [n \in Rules |-> Untaken(listed[n])]
  /\ jumps = [n \in Rules |-> 0]
  /\ requests = 0
  /\ panics = 0
  /\ DrawInit

Exclusive == \A t \in Tasks : picking[t] = Outside

-----------------------------------------------------------------------------
(* select_backend *)

(* calculate_hash: requests of the proxies carry no session id, no sni and *)
(* no metadata, and every other key falls back to the client's address.    *)
Key(client) == CASE hash_key = "client_port" -> client.port
                 [] hash_key = "target_port" -> client.target
                 [] OTHER -> client.ip

(* MUTANT: the round robin router counts on the requests of its statistics. *)
TurnByStats(n) == (stats.total % n) + 1

(* MUTANT: a position counted from zero. *)
TurnFromZero(n) == counter % n

(* The value fetch_add returns, modulo the length of the list at hand. *)
Turn(n) == (counter % n) + 1

(* The position of the hash. *)
HashPosition(n, client) == (Hash[Key(client)] % n) + 1

(* The positions a selection may come to; the weighted router draws. *)
Picks(bs, client) ==
  CASE plugin = "round_robin" -> {Turn(Len(bs))}
    [] plugin = "hash" -> {HashPosition(Len(bs), client)}
    [] plugin = "random" -> DOMAIN bs
    [] plugin = "least_connections" -> LeastConnections(DOMAIN bs, bs)
    [] plugin = "weighted" -> {}

(* MUTANT: a counter that does not wrap. *)
AdvanceForEver == counter + 1

(* What fetch_add leaves behind. *)
Advance == (counter + 1) % CounterSize

(* A task has its position, 0 for None, and goes to write the statistics. *)
Pick(t, n, k) ==
  /\ picking' = [picking EXCEPT ![t] = [step |-> "picked", rule |-> n, position |-> k]]
  /\ taken' = IF plugin = "round_robin" THEN [taken EXCEPT ![n][k] = @ + 1] ELSE taken

(* The counter goes on by one for rule n; for the others, and where it     *)
(* starts again from zero, it jumps.                                       *)
Jump(n) == [m \in Rules |-> IF m = n /\ Advance # 0 THEN jumps[m] ELSE jumps[m] + 1]

Select(t) ==
  /\ picking[t] = Outside /\ requests < MaxRequests
  /\ \E n \in Rules, client \in Clients :
       /\ \E k \in Picks(listed[n], client) : Pick(t, n, k)
       /\ jumps' = IF plugin = "round_robin" THEN Jump(n) ELSE jumps
  /\ counter' = IF plugin = "round_robin" THEN Advance ELSE counter
  /\ requests' = requests + 1
  /\ UNCHANGED <<plugin, hash_key, backends, stats, listed, panics, draw>>

(* The draw of the weighted router is under way for some task. *)
InDraw(t) == picking[t].step = "drawing"

SelectWeighted(t) ==
  /\ plugin = "weighted"
  /\ picking[t] = Outside /\ requests < MaxRequests
  /\ \A u \in Tasks : ~InDraw(u)
  /\ \E n \in Rules :
       /\ picking' = [picking EXCEPT ![t] = [step |-> "drawing", rule |-> n]]
       /\ Begin(Weights(listed[n]))
  /\ requests' = requests + 1
  /\ UNCHANGED <<self, stats, listed, past, panics>>

DrawOn(t) ==
  /\ InDraw(t)
  /\ Drawing
  /\ UNCHANGED <<self, stats, listed, picking, past, requests, panics>>

Drawn(t) ==
  /\ InDraw(t) /\ at \in {"done", "fell back"}
  /\ Pick(t, picking[t].rule, selected)
  /\ UNCHANGED <<self, stats, listed, jumps, requests, panics, draw>>

(* The panic ends the task: it answers nobody and counts nothing. *)
Panic(t) ==
  /\ InDraw(t) /\ at = "panicked"
  /\ picking' = [picking EXCEPT ![t] = Outside]
  /\ panics' = panics + 1
  /\ UNCHANGED <<self, stats, listed, past, requests, draw>>

(* MUTANT: a selection that found nothing is not counted as a failure. *)
CountSuccess(t) ==
  /\ picking[t].step = "picked"
  /\ stats' = IF picking[t].position = 0
                 THEN [stats EXCEPT !.total = @ + 1]
                 ELSE [stats EXCEPT !.total = @ + 1, !.successful = @ + 1]
  /\ picking' = [picking EXCEPT ![t] = Outside]
  /\ UNCHANGED <<self, listed, past, requests, panics, draw>>

(* The statistics are written and the backend is answered. *)
Count(t) ==
  /\ picking[t].step = "picked"
  /\ stats' = IF picking[t].position = 0
                 THEN [stats EXCEPT !.total = @ + 1, !.failed = @ + 1]
                 ELSE [stats EXCEPT !.total = @ + 1, !.successful = @ + 1]
  /\ picking' = [picking EXCEPT ![t] = Outside]
  /\ UNCHANGED <<self, listed, past, requests, panics, draw>>

-----------------------------------------------------------------------------
(* What changes the router between selections *)

(* reload_config gives the plugin its options; one that is left out keeps  *)
(* its old value.                                                          *)
Initialize(o) ==
  /\ plugin = "hash" /\ Exclusive
  /\ hash_key' = o
  /\ UNCHANGED <<plugin, counter, backends, stats, listed, picking, past, requests, panics, draw>>

(* on_backend_health_changed marks in the plugin's own list and recounts it. *)
OnBackendHealthChanged(id, flag) ==
  /\ Exclusive
  /\ backends' = SetHealthy(backends, id, flag)
  /\ stats' = [stats EXCEPT !.healthy = Cardinality({k \in DOMAIN backends' : backends'[k].healthy})]
  /\ UNCHANGED <<plugin, hash_key, counter, listed, picking, past, requests, panics, draw>>

(* The manager's entry of a rule changes: a health report or a reload. *)
Relist(n, bs) ==
  /\ Exclusive
  /\ bs # listed[n]
  /\ listed' = [listed EXCEPT ![n] = bs]
  /\ taken' = [taken EXCEPT ![n] = Untaken(bs)]
  /\ jumps' = [jumps EXCEPT ![n] = 0]
  /\ UNCHANGED <<self, stats, picking, requests, panics, draw>>

Next ==
  \/ \E t \in Tasks : Select(t) \/ SelectWeighted(t) \/ DrawOn(t) \/ Drawn(t) \/ Panic(t) \/ Count(t)
  \/ \E o \in Options : Initialize(o)
  \/ \E id \in Ids, flag \in BOOLEAN : OnBackendHealthChanged(id, flag)
  \/ \E n \in Rules, bs \in Lists : Relist(n, bs)

Spec == Init /\ [][Next]_vars

-----------------------------------------------------------------------------
(* Properties *)

(* Every variable of the router and of its draws has its type. *)
TypeOK ==
  /\ plugin \in Installed
  /\ hash_key \in Options \cup {"client_ip"}
  /\ counter \in 0 .. CounterSize - 1
  /\ stats \in [{"total", "successful", "failed", "healthy"} -> Nat]
  /\ listed \in [Rules -> Lists]
  /\ \A t \in Tasks : picking[t].step = "picked" =>
       picking[t].position \in DOMAIN listed[picking[t].rule] \cup {0}
  /\ requests \in Nat /\ panics \in Nat
  /\ DrawTypeOK

(***************************************************************************)
(* A selection under way, on however many tasks, stands on one of the      *)
(* positions Routing!Choices allows the plugin, for the list it was given: *)
(* what RouterManager assumes of the plugins.  It is None only when there  *)
(* is no choice, as for weights that are zero or wrap to a sum of zero.    *)
(***************************************************************************)
PicksAreChoices ==
  \A t \in Tasks : picking[t].step = "picked" =>
    LET bs == listed[picking[t].rule]
        choices == Choices(plugin, bs)
    IN  IF picking[t].position = 0
          THEN choices = {}
          ELSE picking[t].position \in choices

(***************************************************************************)
(* The round robin router takes the backends of a rule in turn: however    *)
(* the tasks overlap, while the list stays as it is no backend is picked   *)
(* more than once oftener than another, and once more for each time the    *)
(* counter, which is shared by all rules of the router, moved on for       *)
(* another rule or wrapped.                                                *)
(***************************************************************************)
RotatesEvenly ==
  plugin = "round_robin" =>
    \A n \in Rules : \A j, k \in DOMAIN taken[n] :
      taken[n][j] <= taken[n][k] + 1 + jumps[n]

(* A selection is a success or a failure and is counted when it answers;   *)
(* only one that panics is never counted.                                  *)
EveryAnswerIsCounted ==
  /\ stats.total = stats.successful + stats.failed
  /\ stats.total + Cardinality({t \in Tasks : picking[t] # Outside}) + panics = requests

=============================================================================
