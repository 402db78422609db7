---------------------------- MODULE HealthChecker ----------------------------
(***************************************************************************)
(* src/health.rs: the HealthChecker.  start spawns a loop that, at every   *)
(* tick, copies the table of backends, spawns one check task per entry and *)
(* waits for all of them.  A check works on its copy: it probes the        *)
(* backend, counts the outcome, tells the RouterManager when its opinion   *)
(* of the backend changed and only then writes the copy back.  Nothing is  *)
(* locked meanwhile, so the table may change under a check, and stop and   *)
(* start may leave two loops at work.                                      *)
(*                                                                         *)
(* A backend stands for one rule:backend key of the table.  Of the manager *)
(* the module keeps what routing reads, the healthy flag of each cached    *)
(* backend; RouterManager shows how a flag is written, and that the write  *)
(* may wait.                                                               *)
(***************************************************************************)
EXTENDS Naturals

CONSTANTS
  Backends,         \* the backends of the rules
  Loops,            \* the checking loops that start may spawn: a bound
  Ops,              \* the operations called while the program runs
  Retries,          \* config.retries
  FailureThreshold, \* config.failure_threshold
  SuccessThreshold, \* config.success_threshold
  CountBound,       \* larger counts are not told apart
  ReloadBound       \* how many times the configuration is reloaded

Operations == {"start", "stop", "add_backend", "remove_backend", "reload_config"}

ASSUME OpsAssumption == Ops \subseteq Operations
ASSUME ThresholdsAssumption ==
  /\ FailureThreshold \in Nat /\ SuccessThreshold \in Nat
  /\ CountBound \in Nat
  /\ FailureThreshold <= CountBound /\ SuccessThreshold <= CountBound
ASSUME RetriesAssumption == Retries \in Nat
ASSUME ReloadAssumption == ReloadBound \in Nat

VARIABLES
  running,          \* running
  backend_states,   \* backend_states: the table, by backend
  loop,             \* what each spawned loop is doing
  check,            \* the check task of each loop and backend
  cached,           \* the healthy flags in the RouterManager's cache
  reloads,          \* how often the configuration was reloaded
  up,               \* environment: the backends that accept connections
  faulted,          \* history: the backends that were ever down
  edited            \* history: the backends ever added again or removed

checker == <<running, backend_states, loop, check>>
vars == <<checker, cached, reloads, up, faulted, edited>>

Counts == 0 .. CountBound
States == [healthy : BOOLEAN, failures : Counts, successes : Counts]

(* add_backend assumes the best. *)
Fresh == [healthy |-> TRUE, failures |-> 0, successes |-> 0]

NoCheck == [phase |-> "none"]

More(n) == IF n < CountBound THEN n + 1 ELSE n

-----------------------------------------------------------------------------
(* start, stop, add_backend, remove_backend *)

Start ==
  /\ "start" \in Ops /\ ~running
  /\ running' = TRUE
  /\ \E l \in Loops : /\ loop[l] = "none"
                      /\ loop' = [loop EXCEPT ![l] = "waiting"]
  /\ UNCHANGED <<backend_states, check, cached, reloads, up, faulted, edited>>

Stop ==
  /\ "stop" \in Ops
  /\ running' = FALSE
  /\ UNCHANGED <<backend_states, loop, check, cached, reloads, up, faulted, edited>>

(* The table with an entry for b, new or overwritten. *)
Written(b, s) ==
  [k \in DOMAIN backend_states \cup {b} |-> IF k = b THEN s ELSE backend_states[k]]

AddBackend(b) ==
  /\ "add_backend" \in Ops
  /\ backend_states' = Written(b, Fresh)
  /\ edited' = edited \cup {b}
  /\ UNCHANGED <<running, loop, check, cached, reloads, up, faulted>>

RemoveBackend(b) ==
  /\ "remove_backend" \in Ops
  /\ backend_states' = [k \in DOMAIN backend_states \ {b} |-> backend_states[k]]
  /\ edited' = edited \cup {b}
  /\ UNCHANGED <<running, loop, check, cached, reloads, up, faulted>>

-----------------------------------------------------------------------------
(* The loop *)

Begun(s) == [phase |-> "probe", attempt |-> 0, state |-> s]

(* MUTANT: the loop does not look whether it was stopped. *)
TickUnchecked(l) ==
  /\ loop[l] = "waiting"
  /\ loop' = [loop EXCEPT ![l] = "checking"]
  /\ check' = [check EXCEPT ![l] = [b \in Backends |->
                 IF b \in DOMAIN backend_states THEN Begun(backend_states[b]) ELSE NoCheck]]
  /\ UNCHANGED <<running, backend_states, cached, reloads, up, faulted, edited>>

(* interval.tick, then either the end of the loop or a new round. *)
Tick(l) ==
  /\ loop[l] = "waiting"
  /\ \/ /\ ~running
        /\ loop' = [loop EXCEPT ![l] = "ended"]
        /\ UNCHANGED check
     \/ /\ running
        /\ loop' = [loop EXCEPT ![l] = "checking"]
        /\ check' = [check EXCEPT ![l] = [b \in Backends |->
             IF b \in DOMAIN backend_states THEN Begun(backend_states[b]) ELSE NoCheck]]
  /\ UNCHANGED <<running, backend_states, cached, reloads, up, faulted, edited>>

EndRound(l) ==
  /\ loop[l] = "checking"
  /\ \A b \in Backends : check[l][b] = NoCheck
  /\ loop' = [loop EXCEPT ![l] = "waiting"]
  /\ UNCHANGED <<running, backend_states, check, cached, reloads, up, faulted, edited>>

-----------------------------------------------------------------------------
(* check_single_backend *)

(* MUTANT: a failure that is not the last one needed is forgotten. *)
ForgetfulVerdict(s, ok) ==
  IF ok THEN [healthy   |-> s.healthy \/ More(s.successes) >= SuccessThreshold,
              failures  |-> 0,
              successes |-> More(s.successes)]
        ELSE [healthy   |-> s.healthy /\ More(s.failures) < FailureThreshold,
              failures  |-> 0,
              successes |-> 0]

(* MUTANT: a success makes healthy only what the threshold says is. *)
StrictVerdict(s, ok) ==
  IF ok THEN [healthy   |-> More(s.successes) >= SuccessThreshold,
              failures  |-> 0,
              successes |-> More(s.successes)]
        ELSE [healthy   |-> s.healthy /\ More(s.failures) < FailureThreshold,
              failures  |-> More(s.failures),
              successes |-> 0]

(* What a check makes of its copy, given whether a probe succeeded. *)
Verdict(s, ok) ==
  IF ok THEN [healthy   |-> s.healthy \/ More(s.successes) >= SuccessThreshold,
              failures  |-> 0,
              successes |-> More(s.successes)]
        ELSE [healthy   |-> s.healthy /\ More(s.failures) < FailureThreshold,
              failures  |-> More(s.failures),
              successes |-> 0]

(* MUTANT: the manager hears of failures only. *)
ConcludeSilently(l, b, ok) ==
  LET s == check[l][b].state
      v == Verdict(s, ok)
  IN  check' = [check EXCEPT ![l][b] =
                  [phase |-> IF s.healthy /\ ~v.healthy THEN "notify" ELSE "insert",
                   state |-> v]]

(* MUTANT: the manager hears of recoveries only. *)
ConcludeHopefully(l, b, ok) ==
  LET s == check[l][b].state
      v == Verdict(s, ok)
  IN  check' = [check EXCEPT ![l][b] =
                  [phase |-> IF ~s.healthy /\ v.healthy THEN "notify" ELSE "insert",
                   state |-> v]]

(* The manager is told only when the opinion changed. *)
Conclude(l, b, ok) ==
  LET s == check[l][b].state
      v == Verdict(s, ok)
  IN  check' = [check EXCEPT ![l][b] =
                  [phase |-> IF v.healthy # s.healthy THEN "notify" ELSE "insert",
                   state |-> v]]

(* MUTANT: one attempt more than configured. *)
ProbeOneMore(l, b) ==
  /\ check[l][b].phase = "probe"
  /\ IF check[l][b].attempt <= Retries
       THEN IF up[b] THEN Conclude(l, b, TRUE)
                     ELSE check' = [check EXCEPT ![l][b].attempt = @ + 1]
       ELSE Conclude(l, b, FALSE)
  /\ UNCHANGED <<running, backend_states, loop, cached, reloads, up, faulted, edited>>

(* One tcp_health_check, or what follows when all of them failed. *)
Probe(l, b) ==
  /\ check[l][b].phase = "probe"
  /\ IF check[l][b].attempt < Retries
       THEN IF up[b] THEN Conclude(l, b, TRUE)
                     ELSE check' = [check EXCEPT ![l][b].attempt = @ + 1]
       ELSE Conclude(l, b, FALSE)
  /\ UNCHANGED <<running, backend_states, loop, cached, reloads, up, faulted, edited>>

(* router_manager.update_backend_health *)
Notify(l, b) ==
  /\ check[l][b].phase = "notify"
  /\ cached' = [cached EXCEPT ![b] = check[l][b].state.healthy]
  /\ check' = [check EXCEPT ![l][b].phase = "insert"]
  /\ UNCHANGED <<running, backend_states, loop, reloads, up, faulted, edited>>

(* The copy goes back into the table, whatever is there by now. *)
Insert(l, b) ==
  /\ check[l][b].phase = "insert"
  /\ backend_states' = Written(b, check[l][b].state)
  /\ check' = [check EXCEPT ![l][b] = NoCheck]
  /\ UNCHANGED <<running, loop, cached, reloads, up, faulted, edited>>

-----------------------------------------------------------------------------
(* ProxyServer::reload_config: the manager rebuilds its cache, every       *)
(* backend healthy; the checker is not told.                               *)
Reload ==
  /\ "reload_config" \in Ops /\ reloads < ReloadBound
  /\ reloads' = reloads + 1
  /\ cached' = [b \in Backends |-> TRUE]
  /\ UNCHANGED <<checker, up, faulted, edited>>

(* Environment: a backend fails or comes back. *)
Flip(b) ==
  /\ up' = [up EXCEPT ![b] = ~@]
  /\ faulted' = IF up[b] THEN faulted \cup {b} ELSE faulted
  /\ UNCHANGED <<checker, cached, reloads, edited>>

(* main adds every backend of every rule before it starts the checker. *)
Init ==
  /\ running = FALSE
  /\ backend_states = [b \in Backends |-> Fresh]
  /\ loop = [l \in Loops |-> "none"]
  /\ check = [l \in Loops |-> [b \in Backends |-> NoCheck]]
  /\ cached = [b \in Backends |-> TRUE]
  /\ reloads = 0
  /\ up = [b \in Backends |-> TRUE]
  /\ faulted = {} /\ edited = {}

Check(l, b) == Probe(l, b) \/ Notify(l, b) \/ Insert(l, b)

Next ==
  \/ Start \/ Stop \/ Reload
  \/ \E b \in Backends : AddBackend(b) \/ RemoveBackend(b) \/ Flip(b)
  \/ \E l \in Loops : Tick(l) \/ EndRound(l)
  \/ \E l \in Loops, b \in Backends : Check(l, b)

Spec == Init /\ [][Next]_vars

(***************************************************************************)
(* The interval ticks, tokio runs every task it spawned, and every probe   *)
(* ends, by its timeout at the latest.  Nothing promises that Notify does: *)
(* update_backend_health may wait for ever for the manager's locks.        *)
(***************************************************************************)
FairSpec ==
  /\ Spec
  /\ \A l \in Loops : /\ WF_vars(Tick(l)) /\ WF_vars(EndRound(l))
                      /\ \A b \in Backends : WF_vars(Probe(l, b) \/ Insert(l, b))

-----------------------------------------------------------------------------
(* Properties *)

Checks ==
  {NoCheck} \cup [phase : {"probe"}, attempt : 0 .. Retries, state : States]
            \cup [phase : {"notify", "insert"}, state : States]

(* Every variable has its type; no check probes more than Retries times. *)
TypeOK ==
  /\ running \in BOOLEAN
  /\ DOMAIN backend_states \subseteq Backends
  /\ backend_states \in [DOMAIN backend_states -> States]
  /\ loop \in [Loops -> {"none", "waiting", "checking", "ended"}]
  /\ check \in [Loops -> [Backends -> Checks]]
  /\ cached \in [Backends -> BOOLEAN]
  /\ reloads \in 0 .. ReloadBound
  /\ up \in [Backends -> BOOLEAN]
  /\ faulted \subseteq Backends /\ edited \subseteq Backends

(* Only one loop was ever spawned, and nobody but its checks has written   *)
(* to the entry of b or to the manager's flags.                            *)
OneLoop == \A l, m \in Loops : loop[l] # "none" /\ loop[m] # "none" => l = m
Undisturbed(b) == OneLoop /\ b \notin edited /\ reloads = 0

(***************************************************************************)
(* Routing and the checker agree on an undisturbed backend whenever no     *)
(* check stands between telling the manager and writing its copy back.     *)
(* The checker speaks up only when its own opinion changes, so a flag that *)
(* once disagrees stays wrong: a second loop, an edit or a reload is       *)
(* enough for that.                                                        *)
(***************************************************************************)
RouterAgrees ==
  \A b \in Backends :
    Undisturbed(b) /\ (\A l \in Loops : check[l][b].phase # "insert") =>
      cached[b] = backend_states[b].healthy

(***************************************************************************)
(* A backend that was never down is never taken out of balancing, however  *)
(* many loops check it from whichever copies, and whatever is added,       *)
(* removed and reloaded meanwhile.  Without retries, which a configuration *)
(* may ask for, no check probes anything and every backend is taken out.   *)
(***************************************************************************)
NeverDownNeverOut == Retries > 0 => \A b \in Backends : b \notin faulted => cached[b]

(* Hypothesis: every check hears back from the manager. *)
ManagerAnswers ==
  \A l \in Loops, b \in Backends : []<>(check[l][b].phase # "notify")

(* A backend that is down for good is taken out of balancing for good.     *)
DownIsTakenOut ==
  ManagerAnswers =>
    \A b \in Backends : <>[](running /\ ~up[b]) => <>[](~cached[b])

(* So it is while nothing disturbs it, and it comes back once it is up for *)
(* good: no failure or success is lost between the rounds.                 *)
RoutingFollows ==
  ManagerAnswers =>
    \A b \in Backends :
      []Undisturbed(b) =>
        /\ <>[](running /\ ~up[b]) => <>[](~cached[b])
        /\ Retries > 0 /\ <>[](running /\ up[b]) => <>[](cached[b])

(***************************************************************************)
(* A backend that fails and never comes back is taken out for good with    *)
(* several loops at work, too, and when it was added again and removed     *)
(* meanwhile: the loops overwrite one another's counts, and stale copies   *)
(* the entry that was added, but the failures still come to the threshold. *)
(***************************************************************************)
DeadIsTakenOut ==
  \A b \in Backends :
    /\ ManagerAnswers
    /\ [](reloads = 0 /\ (b \in faulted => ~up[b]))
    /\ <>[](running /\ ~up[b] /\ b \in DOMAIN backend_states)
    /\ <>[][~AddBackend(b) /\ ~RemoveBackend(b)]_vars
    => <>[](~cached[b])

(* After a stop, every loop ends: none goes on probing backends. *)
StopEndsChecking ==
  ManagerAnswers /\ <>[](~running) => <>[](\A l \in Loops : loop[l] \in {"none", "ended"})

=============================================================================
