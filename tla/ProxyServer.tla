----------------------------- MODULE ProxyServer -----------------------------
(***************************************************************************)
(* src/proxy/mod.rs: the ProxyServer, which starts and stops the parts one *)
(* after the other: the health checker, the TCP proxy and the UDP proxy.   *)
(* Each part has a running flag of its own, and a start that fails half    *)
(* way leaves the flags of what it reached.  main calls start, and         *)
(* graceful_shutdown when a signal comes; one caller at a time makes its   *)
(* calls here, in any order.                                               *)
(*                                                                         *)
(* TcpProxy is composed as it is.  Of the UDP proxy the module keeps its   *)
(* flag and whether its port is bound (UdpProxy has the rest), of the      *)
(* health checker its flag (HealthChecker), enabled in the configuration.  *)
(***************************************************************************)
EXTENDS TcpProxy

VARIABLES
  running,          \* running: of the server
  udp_running,      \* running: of the UDP proxy
  udp_bound,        \* the UDP proxy's receive loop has its socket
  checking,         \* running: of the health checker
  caller,           \* where the call in progress is
  outcome,          \* what the last call returned, when none is in progress
  failed,           \* history: where a start failed that no stop followed yet
  attempts,         \* attempts: of TcpProxy::stop
  registered        \* history: the connections in the table when it began

parts == <<running, udp_running, udp_bound, checking>>
stopping == <<attempts, registered>>
vars == <<tcp, parts, caller, outcome, failed, stopping>>

Goto(from, to) ==
  /\ caller = from /\ caller' = to
  /\ outcome' = "none"
  /\ failed' = IF to = "stop_tcp" THEN "none" ELSE failed
Return(from, what) ==
  /\ caller = from /\ caller' = "idle"
  /\ outcome' = what
  /\ failed' = IF what = "Err" THEN from ELSE failed

-----------------------------------------------------------------------------
(* start *)

(* A server that is marked running is taken at its word, also one whose    *)
(* start failed half way: the answer is the same Ok.                       *)
Start ==
  /\ \/ ~running /\ running' = TRUE /\ Goto("idle", "start_health")
     \/ running /\ Return("idle", "Ok") /\ UNCHANGED running
  /\ UNCHANGED <<tcp, udp_running, udp_bound, checking, stopping>>

(* The health checker and the metrics start without fail. *)
StartHealth ==
  /\ Goto("start_health", "start_tcp")
  /\ checking' = TRUE
  /\ UNCHANGED <<tcp, running, udp_running, udp_bound, stopping>>

StartTcp ==
  /\ \/ ~tcp_running /\ SetRunning /\ Goto("start_tcp", "bind_tcp")
     \/ tcp_running /\ UNCHANGED tcp /\ Goto("start_tcp", "start_udp")
  /\ UNCHANGED <<parts, stopping>>

(* MUTANT: that the listener is not bound is no error. *)
BindTcpOrNot ==
  /\ Goto("bind_tcp", "start_udp")
  /\ Bind \/ UNCHANGED tcp
  /\ UNCHANGED <<parts, stopping>>

BindTcp ==
  /\ \/ Bind /\ Goto("bind_tcp", "start_udp")
     \/ UNCHANGED tcp /\ Return("bind_tcp", "Err")
  /\ UNCHANGED <<parts, stopping>>

StartUdp ==
  /\ \/ ~udp_running /\ udp_running' = TRUE /\ Goto("start_udp", "bind_udp")
     \/ udp_running /\ UNCHANGED udp_running /\ Return("start_udp", "Ok")
  /\ UNCHANGED <<tcp, running, udp_bound, checking, stopping>>

BindUdp ==
  /\ \/ ~udp_bound /\ udp_bound' = TRUE /\ Return("bind_udp", "Ok")
     \/ UNCHANGED udp_bound /\ Return("bind_udp", "Err")
  /\ UNCHANGED <<tcp, running, udp_running, checking, stopping>>

-----------------------------------------------------------------------------
(* stop and graceful_shutdown *)

(* MUTANT: a server that is not running is not stopped. *)
StopIfRunning ==
  /\ \/ \E from \in {"idle", "graceful"} : running /\ Goto(from, "stop_tcp")
     \/ ~running /\ caller \in {"idle", "graceful"} /\ Return(caller, "stopped")
  /\ running' = FALSE
  /\ UNCHANGED <<tcp, udp_running, udp_bound, checking, stopping>>

(* Also a server that never ran, and one that graceful_shutdown marked.    *)
Stop ==
  /\ \E from \in {"idle", "graceful"} : Goto(from, "stop_tcp")
  /\ running' = FALSE
  /\ UNCHANGED <<tcp, udp_running, udp_bound, checking, stopping>>

StopTcp ==
  /\ Goto("stop_tcp", "wait")
  /\ ClearRunning
  /\ registered' = active_connections
  /\ UNCHANGED <<parts, attempts>>

(* MUTANT: stop waits as long as there are connections. *)
WaitForAll ==
  /\ \/ active_connections # {} /\ Goto("wait", "wait")
     \/ active_connections = {} /\ Goto("wait", "stop_udp")
  /\ UNCHANGED <<tcp, parts, stopping>>

(* MUTANT: the loop ends after its first look. *)
WaitOnce ==
  /\ Goto("wait", "stop_udp")
  /\ UNCHANGED <<tcp, parts, stopping>>

(* MUTANT: one attempt too many. *)
WaitOnceMore ==
  /\ \/ /\ attempts <= Attempts /\ active_connections # {}
        /\ attempts' = attempts + 1
        /\ Goto("wait", "wait")
     \/ /\ attempts > Attempts \/ active_connections = {}
        /\ Goto("wait", "stop_udp")
        /\ UNCHANGED attempts
  /\ UNCHANGED <<tcp, parts, registered>>

(* One look at the table, and a second of sleep unless it was the last.    *)
Wait ==
  /\ \/ /\ attempts < Attempts /\ active_connections # {}
        /\ attempts' = attempts + 1
        /\ Goto("wait", "wait")
     \/ /\ attempts = Attempts \/ active_connections = {}
        /\ Goto("wait", "stop_udp")
        /\ UNCHANGED attempts
  /\ UNCHANGED <<tcp, parts, registered>>

StopUdp ==
  /\ Goto("stop_udp", "stop_health")
  /\ udp_running' = FALSE
  /\ UNCHANGED <<tcp, running, udp_bound, checking, stopping>>

StopHealth ==
  /\ Return("stop_health", "stopped")
  /\ checking' = FALSE
  /\ attempts' = 0 /\ registered' = {}
  /\ UNCHANGED <<tcp, running, udp_running, udp_bound>>

(* The count of connections it waits for is always zero: it stops at once. *)
GracefulShutdown ==
  /\ Goto("idle", "graceful")
  /\ running' = FALSE
  /\ UNCHANGED <<tcp, udp_running, udp_bound, checking, stopping>>

-----------------------------------------------------------------------------
(* The UDP proxy's receive loop finds itself stopped and lets its port go. *)
UdpEnds ==
  /\ udp_bound /\ ~udp_running
  /\ udp_bound' = FALSE
  /\ UNCHANGED <<tcp, running, udp_running, checking, caller, outcome, failed, stopping>>

Init ==
  /\ TcpInit
  /\ running = FALSE /\ udp_running = FALSE /\ udp_bound = FALSE /\ checking = FALSE
  /\ caller = "idle" /\ outcome = "none" /\ failed = "none"
  /\ attempts = 0 /\ registered = {}

Starting == Start \/ StartHealth \/ StartTcp \/ BindTcp \/ StartUdp \/ BindUdp
Stopping == StopTcp \/ Wait \/ StopUdp \/ StopHealth

Next ==
  \/ Starting \/ Stopping \/ Stop \/ GracefulShutdown
  \/ UdpEnds
  \/ TcpNext /\ UNCHANGED <<parts, caller, outcome, failed, stopping>>

Spec == Init /\ [][Next]_vars

(* tokio runs the caller of a stop, and its sleeps end; it runs the task   *)
(* of a connection that can go on.  The network owes nothing.              *)
FairSpec == /\ Spec
            /\ WF_vars(Stopping) /\ WF_vars(caller = "graceful" /\ Stop)
            /\ \A k \in Connections :
                 WF_vars(Leave(k) /\ UNCHANGED <<parts, caller, outcome, failed, stopping>>)

-----------------------------------------------------------------------------
(* Properties *)

Callers == {"idle", "start_health", "start_tcp", "bind_tcp", "start_udp", "bind_udp",
            "graceful", "stop_tcp", "wait", "stop_udp", "stop_health"}
Outcomes == {"none", "Ok", "Err", "stopped"}

(* Every variable has its type. *)
TypeOK ==
  /\ TcpTypeOK
  /\ running \in BOOLEAN /\ udp_running \in BOOLEAN /\ udp_bound \in BOOLEAN
  /\ checking \in BOOLEAN
  /\ caller \in Callers /\ outcome \in Outcomes
  /\ failed \in {"none", "bind_tcp", "bind_udp"}
  /\ attempts \in 0 .. Attempts /\ registered \subseteq Connections

(***************************************************************************)
(* What a start's Ok is worth, until the next call.  Both protocols are    *)
(* served, and neither an accept loop nor a receive loop of an earlier     *)
(* run, still on its way out, leaves a flag without its loop; but for a    *)
(* start that failed and was not stopped, after which every start answers  *)
(* Ok and does nothing: then what came before the port it could not bind   *)
(* is at work.                                                             *)
(***************************************************************************)
StartedServes ==
  caller = "idle" /\ outcome = "Ok" =>
    /\ checking
    /\ failed # "bind_tcp" =>
         tcp_running /\ \E l \in Loops : acceptor[l] \in {"check", "accept"}
    /\ failed = "none" => udp_running /\ udp_bound

(***************************************************************************)
(* After a stop or a graceful shutdown no part is marked running, whatever *)
(* failed and half done starts and shutdowns there were before.            *)
(***************************************************************************)
StoppedStops ==
  caller = "idle" /\ outcome = "stopped" =>
    ~running /\ ~tcp_running /\ ~udp_running /\ ~checking

(***************************************************************************)
(* A stop goes on before its attempts are used up only when every          *)
(* connection that was in the table when it began has left it; those that  *)
(* are there now came later.                                               *)
(***************************************************************************)
StopWaitsForRegistered ==
  caller \in {"stop_udp", "stop_health"} /\ attempts < Attempts =>
    registered \cap active_connections = {}

(* Every stop and every graceful shutdown returns, though connections may  *)
(* hang for ever.                                                          *)
StopReturns ==
  caller \in {"graceful", "stop_tcp", "wait"} ~> caller = "idle"

=============================================================================
