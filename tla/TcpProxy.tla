------------------------------ MODULE TcpProxy -------------------------------
(***************************************************************************)
(* src/proxy/tcp.rs: the TcpProxy.  An accept loop spawns a task per       *)
(* connection; the task enters the connection into the table that stop     *)
(* waits for, finds and connects a backend, copies both directions until   *)
(* both have ended, and takes the connection out of the table again.  A    *)
(* loop looks whether it should stop before it accepts, never while it     *)
(* waits, and keeps the port until it is gone.                             *)
(*                                                                         *)
(* Of src/metrics.rs the module has the three metrics the tasks move: each *)
(* is an atomic of its own, and an export may read them at any moment.     *)
(*                                                                         *)
(* ProxyServer calls the steps of start and stop; whether a route is found *)
(* and a backend reached is left open (RouterManager has the routing), and *)
(* so is what the two ends send.                                           *)
(***************************************************************************)
EXTENDS Integers, FiniteSets

CONSTANTS
  ConnectionBound,  \* connections accepted in all
  StartBound,       \* starts that bind the port
  Attempts          \* how often stop waits for the table (30 in the code)

ASSUME BoundsAssumption == {ConnectionBound, StartBound, Attempts} \subseteq Nat

Connections == 1 .. ConnectionBound
Loops == 1 .. StartBound

VARIABLES
  tcp_running,          \* running
  acceptor,             \* what each accept loop is doing
  phase,                \* how far the task of each connection is
  copying,              \* proxy_data: the directions still copied
  gone,                 \* environment: the ends that closed while it is copied
  active_connections,   \* active_connections: the table
  gauge,                \* the metric active_connections
  total_connections,    \* the metric total_connections
  connection_duration,  \* the metric connection_duration: how many were observed
  late                  \* history: what each loop accepted after a stop

metrics == <<gauge, total_connections, connection_duration>>
tasks == <<phase, copying, gone, active_connections, metrics>>
tcp == <<tcp_running, acceptor, tasks, late>>

Ends == {"client", "backend"}

(* A direction is named for the end it reads from. *)
Other(end) == CHOOSE e \in Ends : e # end

-----------------------------------------------------------------------------
(* start and stop *)

(* A loop keeps the listener until it has been left. *)
PortFree == \A l \in Loops : acceptor[l] \in {"none", "ended"}

(* running is set before the listener is bound. *)
SetRunning ==
  /\ tcp_running' = TRUE
  /\ late' = [l \in Loops |-> 0]
  /\ UNCHANGED <<acceptor, tasks>>

Bind ==
  /\ PortFree
  /\ \E l \in Loops : /\ acceptor[l] = "none" /\ \A m \in 1 .. l - 1 : acceptor[m] # "none"
                      /\ acceptor' = [acceptor EXCEPT ![l] = "check"]
  /\ UNCHANGED <<tcp_running, tasks, late>>

ClearRunning ==
  /\ tcp_running' = FALSE
  /\ UNCHANGED <<acceptor, tasks, late>>

-----------------------------------------------------------------------------
(* The accept loop *)

(* MUTANT: the loop never looks whether it should stop. *)
LoopRunsOn(l) ==
  /\ acceptor[l] = "check"
  /\ acceptor' = [acceptor EXCEPT ![l] = "accept"]
  /\ UNCHANGED <<tcp_running, tasks, late>>

LoopCheck(l) ==
  /\ acceptor[l] = "check"
  /\ acceptor' = [acceptor EXCEPT ![l] = IF tcp_running THEN "accept" ELSE "leaving"]
  /\ UNCHANGED <<tcp_running, tasks, late>>

LoopLeave(l) ==
  /\ acceptor[l] = "leaving"
  /\ acceptor' = [acceptor EXCEPT ![l] = "ended"]
  /\ UNCHANGED <<tcp_running, tasks, late>>

(* A connection is accepted and its task spawned, or accept fails. *)
Accept(l) ==
  /\ acceptor[l] = "accept"
  /\ acceptor' = [acceptor EXCEPT ![l] = "check"]
  /\ \/ /\ \E k \in Connections :
             /\ phase[k] = "none" /\ \A j \in 1 .. k - 1 : phase[j] # "none"
             /\ phase' = [phase EXCEPT ![k] = "accepted"]
        /\ late' = IF tcp_running THEN late ELSE [late EXCEPT ![l] = @ + 1]
     \/ UNCHANGED <<phase, late>>
  /\ UNCHANGED <<tcp_running, copying, gone, active_connections, metrics>>

-----------------------------------------------------------------------------
(* handle_connection and proxy_connection *)

RecordNew(k) ==
  /\ phase[k] = "accepted"
  /\ gauge' = gauge + 1
  /\ phase' = [phase EXCEPT ![k] = "count"]
  /\ UNCHANGED <<tcp_running, acceptor, copying, gone, active_connections,
                 total_connections, connection_duration, late>>

RecordTotal(k) ==
  /\ phase[k] = "count"
  /\ total_connections' = total_connections + 1
  /\ phase' = [phase EXCEPT ![k] = "insert"]
  /\ UNCHANGED <<tcp_running, acceptor, copying, gone, active_connections,
                 gauge, connection_duration, late>>

Insert(k) ==
  /\ phase[k] = "insert"
  /\ active_connections' = active_connections \cup {k}
  /\ phase' = [phase EXCEPT ![k] = "route"]
  /\ UNCHANGED <<tcp_running, acceptor, copying, gone, metrics, late>>

(* MUTANT: an error on the way to the backend leaves handle_connection. *)
RouteOrReturn(k) ==
  /\ phase[k] = "route"
  /\ \E p \in {"connect", "done"} : phase' = [phase EXCEPT ![k] = p]
  /\ UNCHANGED <<tcp_running, acceptor, copying, gone, active_connections, metrics, late>>

Route(k) ==
  /\ phase[k] = "route"
  /\ \E p \in {"connect", "remove"} : phase' = [phase EXCEPT ![k] = p]
  /\ UNCHANGED <<tcp_running, acceptor, copying, gone, active_connections, metrics, late>>

Connect(k) ==
  /\ phase[k] = "connect"
  /\ \/ /\ phase' = [phase EXCEPT ![k] = "data"]
        /\ copying' = [copying EXCEPT ![k] = Ends]
     \/ /\ phase' = [phase EXCEPT ![k] = "remove"]
        /\ UNCHANGED copying
  /\ UNCHANGED <<tcp_running, acceptor, gone, active_connections, metrics, late>>

Remove(k) ==
  /\ phase[k] = "remove"
  /\ active_connections' = active_connections \ {k}
  /\ phase' = [phase EXCEPT ![k] = "close"]
  /\ UNCHANGED <<tcp_running, acceptor, copying, gone, metrics, late>>

(* Nothing is awaited between the table and the two metrics, but other     *)
(* threads may look in between.  No request is ever recorded: the line     *)
(* that would give a connection the name of its rule is commented out.     *)
RecordClosed(k) ==
  /\ phase[k] = "close"
  /\ gauge' = gauge - 1
  /\ phase' = [phase EXCEPT ![k] = "observe"]
  /\ UNCHANGED <<tcp_running, acceptor, copying, gone, active_connections,
                 total_connections, connection_duration, late>>

(* MUTANT: a connection that ends is counted once more. *)
RecordBoth(k) ==
  /\ phase[k] = "observe"
  /\ connection_duration' = connection_duration + 1
  /\ total_connections' = total_connections + 1
  /\ phase' = [phase EXCEPT ![k] = "done"]
  /\ UNCHANGED <<tcp_running, acceptor, copying, gone, active_connections, gauge, late>>

RecordDuration(k) ==
  /\ phase[k] = "observe"
  /\ connection_duration' = connection_duration + 1
  /\ phase' = [phase EXCEPT ![k] = "done"]
  /\ UNCHANGED <<tcp_running, acceptor, copying, gone, active_connections,
                 gauge, total_connections, late>>

-----------------------------------------------------------------------------
(* proxy_data *)

(* One direction ends; the last one ends the connection. *)
EndCopying(k, end) ==
  /\ phase[k] = "data" /\ end \in copying[k]
  /\ copying' = [copying EXCEPT ![k] = @ \ {end}]
  /\ \/ copying[k] # {end} /\ UNCHANGED <<phase, gone>>
     \/ /\ copying[k] = {end}
        /\ phase' = [phase EXCEPT ![k] = "remove"]
        /\ gone' = [gone EXCEPT ![k] = {}]
  /\ UNCHANGED <<tcp_running, acceptor, active_connections, metrics, late>>

(* MUTANT: that the backend has left is not noticed by reading from it. *)
ClientEnds(k) == "client" \in gone[k] /\ EndCopying(k, "client")

(* A read returns nothing, or fails, once the end it reads from has left.  *)
ReadEnds(k) == \E end \in gone[k] : EndCopying(k, end)

(* A write fails when the end it writes to has left. *)
WriteFails(k) == \E end \in gone[k] : EndCopying(k, Other(end))

(* Environment: an end closes the connection.  Nobody tells the other one. *)
Close(k, end) ==
  /\ phase[k] = "data"
  /\ gone' = [gone EXCEPT ![k] = @ \cup {end}]
  /\ UNCHANGED <<tcp_running, acceptor, phase, copying, active_connections, metrics, late>>

-----------------------------------------------------------------------------
TcpInit ==
  /\ tcp_running = FALSE
  /\ acceptor = [l \in Loops |-> "none"]
  /\ phase = [k \in Connections |-> "none"]
  /\ copying = [k \in Connections |-> {}]
  /\ gone = [k \in Connections |-> {}]
  /\ active_connections = {}
  /\ gauge = 0 /\ total_connections = 0 /\ connection_duration = 0
  /\ late = [l \in Loops |-> 0]

TcpNext ==
  \/ \E l \in Loops : LoopCheck(l) \/ LoopLeave(l) \/ Accept(l)
  \/ \E k \in Connections :
       \/ RecordNew(k) \/ RecordTotal(k) \/ Insert(k) \/ Route(k) \/ Connect(k)
       \/ ReadEnds(k) \/ WriteFails(k)
       \/ Remove(k) \/ RecordClosed(k) \/ RecordDuration(k)
       \/ \E end \in Ends : Close(k, end)

(* What tokio owes a connection whose ends have left. *)
Leave(k) == ReadEnds(k) \/ Remove(k) \/ RecordClosed(k) \/ RecordDuration(k)

-----------------------------------------------------------------------------
(* Properties *)

Phases == {"none", "accepted", "count", "insert", "route", "connect", "data",
           "remove", "close", "observe", "done"}

TcpTypeOK ==
  /\ tcp_running \in BOOLEAN
  /\ acceptor \in [Loops -> {"none", "check", "accept", "leaving", "ended"}]
  /\ phase \in [Connections -> Phases]
  /\ copying \in [Connections -> SUBSET Ends]
  /\ gone \in [Connections -> SUBSET Ends]
  /\ active_connections \subseteq Connections
  /\ gauge \in Int /\ total_connections \in Nat /\ connection_duration \in Nat
  /\ late \in [Loops -> Nat]

(***************************************************************************)
(* A stop does not interrupt a loop that waits in accept: it takes one     *)
(* more connection, and only one, however late that comes and whatever     *)
(* starts fail on its port meanwhile.                                      *)
(***************************************************************************)
AtMostOneLate == \A l \in Loops : late[l] <= 1

(***************************************************************************)
(* Whichever way connections end, refused by the router, by the backend    *)
(* or by either end, they leave nothing behind: once none is at work the   *)
(* table that stop waits for is empty and the gauge back at zero, and the  *)
(* gauge never counts fewer connections than the table has.                *)
(***************************************************************************)
NothingLeaks ==
  /\ (\A k \in Connections : phase[k] \in {"none", "accepted", "observe", "done"}) =>
       active_connections = {} /\ gauge = 0
  /\ Cardinality(active_connections) <= gauge

(***************************************************************************)
(* At every export the metrics add up: the active connections are those    *)
(* counted and not yet observed, but for the tasks that are between two    *)
(* metrics.  Every connection is counted once, and every one that ended,   *)
(* whichever way, is observed once.                                        *)
(***************************************************************************)
At(phases) == {k \in Connections : phase[k] \in phases}
MetricsAddUp ==
  /\ gauge + Cardinality(At({"observe"})) + connection_duration
       = total_connections + Cardinality(At({"count"}))
  /\ total_connections = Cardinality(At(Phases \ {"none", "accepted", "count"}))
  /\ connection_duration = Cardinality(At({"done"}))

(***************************************************************************)
(* A connection that both of its ends have left ends, whichever direction  *)
(* notices first, and its task does the rest: of the connections there     *)
(* are, none stays in between for ever.  (Nothing ends one that both ends  *)
(* keep open: there is no timeout.)                                        *)
(***************************************************************************)
LeftConnectionsEnd ==
  <>[](\A k \in Connections : gone[k] # Ends /\ phase[k] \notin {"remove", "close", "observe"})

=============================================================================
