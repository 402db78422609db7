-------------------------- MODULE ProxyServerProofs --------------------------
(***************************************************************************)
(* What holds of the lifecycle for any number of connections, restarts and *)
(* attempts: the types, that starts and stops do what they report, that a  *)
(* stopped loop takes one more connection at most and that connections     *)
(* leave nothing behind.                                                   *)
(***************************************************************************)
EXTENDS ProxyServer, FiniteSetTheorems, TLAPS

(* The steps of the server, the TCP proxy's apart. *)
Working == Starting \/ Stopping \/ Stop \/ GracefulShutdown \/ UdpEnds

LEMMA TcpInitType == TcpInit => TcpTypeOK
<1> SUFFICES ASSUME TcpInit PROVE TcpTypeOK
  OBVIOUS
<1>1. \A S : {} \in SUBSET S
  OBVIOUS
<1>2. copying \in [Connections -> SUBSET Ends] /\ gone \in [Connections -> SUBSET Ends]
  BY <1>1 DEF TcpInit
<1>3. /\ late \in [Loops -> Nat] /\ gauge \in Int
        /\ total_connections \in Nat /\ connection_duration \in Nat
  BY DEF TcpInit
<1> QED
  BY <1>2, <1>3 DEF TcpInit, TcpTypeOK, Phases

LEMMA TcpStepType ==
  ASSUME TcpTypeOK, TcpNext PROVE TcpTypeOK'
<1>1. ASSUME NEW l \in Loops, LoopCheck(l) \/ LoopLeave(l) \/ Accept(l) PROVE TcpTypeOK'
  <2>1. CASE LoopCheck(l)
    BY <2>1 DEF TcpTypeOK, LoopCheck, tasks, metrics
  <2>2. CASE LoopLeave(l)
    BY <2>2 DEF TcpTypeOK, LoopLeave, tasks, metrics
  <2>3. CASE Accept(l)
    <3>1. phase' \in [Connections -> Phases]
      BY <2>3 DEF TcpTypeOK, Accept, Phases
    <3>2. late' \in [Loops -> Nat]
      BY <2>3 DEF TcpTypeOK, Accept
    <3> QED
      BY <2>3, <3>1, <3>2 DEF TcpTypeOK, Accept, metrics
  <2> QED
    BY <1>1, <2>1, <2>2, <2>3
<1>2. ASSUME NEW k \in Connections, RecordNew(k) PROVE TcpTypeOK'
  BY <1>2 DEF TcpTypeOK, RecordNew, Phases
<1>2t. ASSUME NEW k \in Connections, RecordTotal(k) PROVE TcpTypeOK'
  BY <1>2t DEF TcpTypeOK, RecordTotal, Phases
<1>3. ASSUME NEW k \in Connections, Insert(k) PROVE TcpTypeOK'
  BY <1>3 DEF TcpTypeOK, Insert, Phases, metrics
<1>4. ASSUME NEW k \in Connections, Route(k) PROVE TcpTypeOK'
  BY <1>4 DEF TcpTypeOK, Route, Phases, metrics
<1>5. ASSUME NEW k \in Connections, Connect(k) PROVE TcpTypeOK'
  <2>1. phase' \in [Connections -> Phases]
    BY <1>5 DEF TcpTypeOK, Connect, Phases
  <2>2. copying' \in [Connections -> SUBSET Ends]
    BY <1>5 DEF TcpTypeOK, Connect
  <2> QED
    BY <1>5, <2>1, <2>2 DEF TcpTypeOK, Connect, metrics
<1>6. ASSUME NEW k \in Connections, Remove(k) PROVE TcpTypeOK'
  BY <1>6 DEF TcpTypeOK, Remove, Phases, metrics
<1>6c. ASSUME NEW k \in Connections, RecordClosed(k) PROVE TcpTypeOK'
  BY <1>6c DEF TcpTypeOK, RecordClosed, Phases
<1>6d. ASSUME NEW k \in Connections, RecordDuration(k) PROVE TcpTypeOK'
  BY <1>6d DEF TcpTypeOK, RecordDuration, Phases
<1>7. ASSUME NEW k \in Connections, NEW end, EndCopying(k, end) PROVE TcpTypeOK'
  <2>1. phase' \in [Connections -> Phases]
    BY <1>7 DEF TcpTypeOK, EndCopying, Phases
  <2>2. /\ copying' \in [Connections -> SUBSET Ends]
        /\ gone' \in [Connections -> SUBSET Ends]
    BY <1>7 DEF TcpTypeOK, EndCopying
  <2> QED
    BY <1>7, <2>1, <2>2 DEF TcpTypeOK, EndCopying, metrics
<1>8. ASSUME NEW k \in Connections, NEW end \in Ends, Close(k, end) PROVE TcpTypeOK'
  BY <1>8 DEF TcpTypeOK, Close, metrics
<1> QED
  BY <1>1, <1>2, <1>2t, <1>3, <1>4, <1>5, <1>6, <1>6c, <1>6d, <1>7, <1>8
     DEF TcpNext, ReadEnds, WriteFails

(* The server changes the TCP proxy through its start and stop only. *)
LEMMA ServerCallsTcp ==
  ASSUME Working PROVE UNCHANGED tcp \/ SetRunning \/ Bind \/ ClearRunning
<1>1. CASE Starting
  BY <1>1 DEF Starting, Start, StartHealth, StartTcp, BindTcp, StartUdp, BindUdp
<1>2. CASE Stopping \/ Stop \/ GracefulShutdown \/ UdpEnds
  BY <1>2 DEF Stopping, Stop, StopTcp, Wait, StopUdp, StopHealth, GracefulShutdown, UdpEnds
<1> QED
  BY <1>1, <1>2 DEF Working

LEMMA ServerStepType ==
  ASSUME TcpTypeOK, Working PROVE TcpTypeOK'
<1>1. CASE UNCHANGED tcp
  BY <1>1 DEF tcp, tasks, metrics, TcpTypeOK
<1>2. CASE SetRunning \/ ClearRunning
  <2>1. late' \in [Loops -> Nat]
    <3>1. [l \in Loops |-> 0] \in [Loops -> Nat]
      OBVIOUS
    <3> QED
      BY <1>2, <3>1 DEF SetRunning, ClearRunning, TcpTypeOK
  <2> QED
    BY <1>2, <2>1 DEF SetRunning, ClearRunning, tasks, metrics, TcpTypeOK
<1>3. CASE Bind
  BY <1>3 DEF Bind, tasks, metrics, TcpTypeOK
<1> QED
  BY <1>1, <1>2, <1>3, ServerCallsTcp

(* Every variable keeps its type in every run. *)
THEOREM Typing == Spec => []TypeOK
<1>1. Init => TypeOK
  <2>1. 0 \in 0 .. Attempts
    BY BoundsAssumption
  <2>2. {} \subseteq Connections
    OBVIOUS
  <2> QED
    BY <2>1, <2>2, TcpInitType DEF Init, TypeOK, Callers, Outcomes
<1>2. TypeOK /\ [Next]_vars => TypeOK'
  <2> SUFFICES ASSUME TypeOK, [Next]_vars PROVE TypeOK'
    OBVIOUS
  <2>1. CASE UNCHANGED vars
    BY <2>1 DEF vars, tcp, tasks, metrics, parts, stopping, TypeOK, TcpTypeOK
  <2>2. CASE TcpNext /\ UNCHANGED <<parts, caller, outcome, failed, stopping>>
    BY <2>2, TcpStepType DEF TypeOK, parts, stopping
  <2>3. CASE Working
    <3>1. TcpTypeOK'
      BY <2>3, ServerStepType DEF TypeOK
    <3>2. CASE Starting \/ GracefulShutdown \/ UdpEnds
      BY <3>1, <3>2 DEF TypeOK, Starting, Start, StartHealth, StartTcp, BindTcp, StartUdp,
         BindUdp,
         GracefulShutdown, UdpEnds, Goto, Return, parts, stopping, Callers, Outcomes
    <3>3. CASE Stop
      BY <3>1, <3>3 DEF TypeOK, Stop, Goto, parts, stopping, Callers, Outcomes
    <3>4. CASE Stopping
      <4>1. attempts' \in 0 .. Attempts /\ registered' \subseteq Connections
        BY <3>4, BoundsAssumption DEF TypeOK, TcpTypeOK, Stopping, StopTcp, Wait, StopUdp,
           StopHealth, stopping
      <4> QED
        BY <3>1, <3>4, <4>1 DEF TypeOK, Stopping, StopTcp, Wait, StopUdp, StopHealth, Goto,
           Return,
           parts, Callers, Outcomes
    <3> QED
      BY <2>3, <3>2, <3>3, <3>4 DEF Working
  <2> QED
    BY <2>1, <2>2, <2>3 DEF Next, Working
<1> QED
  BY <1>1, <1>2, PTL DEF Spec

-----------------------------------------------------------------------------
(***************************************************************************)
(* While running is set nothing is late; without it a loop on its way to   *)
(* accept has had no late connection, and any other at most one.           *)
(***************************************************************************)
LateInv ==
  /\ tcp_running => \A l \in Loops : late[l] = 0
  /\ \A l \in Loops : /\ late[l] <= 1
                      /\ acceptor[l] = "accept" => late[l] = 0
                      /\ acceptor[l] = "none" => late[l] = 0

(* A stopped loop takes at most one more connection. *)
THEOREM AtMostOneIsLate == Spec => []AtMostOneLate
<1>1. Init => LateInv
  BY DEF Init, TcpInit, LateInv
<1>2. TypeOK /\ LateInv /\ [Next]_vars => LateInv'
  <2> SUFFICES ASSUME TypeOK, LateInv, [Next]_vars PROVE LateInv'
    OBVIOUS
  <2>0. late \in [Loops -> Nat] /\ tcp_running \in BOOLEAN
        /\ acceptor \in [Loops -> {"none", "check", "accept", "leaving", "ended"}]
    BY DEF TypeOK, TcpTypeOK
  <2>1. CASE UNCHANGED <<tcp_running, acceptor, late>>
    BY <2>1 DEF LateInv
  <2>2. CASE SetRunning \/ ClearRunning
    BY <2>2 DEF SetRunning, ClearRunning, LateInv
  <2>3. CASE Bind
    <3>1. PICK l \in Loops : acceptor[l] = "none"
                            /\ acceptor' = [acceptor EXCEPT ![l] = "check"]
      BY <2>3 DEF Bind
    <3> QED
      BY <2>0, <2>3, <3>1 DEF Bind, LateInv
  <2>4. ASSUME NEW l \in Loops, LoopCheck(l) PROVE LateInv'
    BY <2>0, <2>4 DEF LoopCheck, LateInv
  <2>5. ASSUME NEW l \in Loops, LoopLeave(l) PROVE LateInv'
    BY <2>0, <2>5 DEF LoopLeave, LateInv
  <2>6. ASSUME NEW l \in Loops, Accept(l) PROVE LateInv'
    BY <2>0, <2>6 DEF Accept, LateInv
  <2>7. ASSUME NEW k \in Connections, RecordNew(k) \/ RecordTotal(k) \/ Insert(k)
                 \/ Route(k) \/ Connect(k) \/ Remove(k) \/ RecordClosed(k) \/ RecordDuration(k)
                 \/ ReadEnds(k) \/ WriteFails(k) \/ \E end \in Ends : Close(k, end)
        PROVE  UNCHANGED <<tcp_running, acceptor, late>>
    BY <2>7 DEF RecordNew, RecordTotal, Insert, Route, Connect, Remove, RecordClosed,
       RecordDuration,
       ReadEnds, WriteFails, EndCopying, Close
  <2>8. CASE TcpNext
    BY <2>1, <2>4, <2>5, <2>6, <2>7, <2>8 DEF TcpNext
  <2>9. CASE Working
    <3>1. UNCHANGED tcp \/ SetRunning \/ ClearRunning \/ Bind
      BY <2>9, ServerCallsTcp
    <3> QED
      BY <2>1, <2>2, <2>3, <3>1 DEF tcp
  <2> QED
    BY <2>1, <2>8, <2>9 DEF Next, Working, vars, tcp
<1>3. LateInv => AtMostOneLate
  BY DEF LateInv, AtMostOneLate
<1> QED
  BY <1>1, <1>2, <1>3, Typing, PTL DEF Spec

-----------------------------------------------------------------------------
(***************************************************************************)
(* The flags at each point of a call.  A start that finds the server not   *)
(* running begins with both proxies off, for such a server has been        *)
(* stopped completely; so it never takes a proxy for running that is not,  *)
(* and binds both.  A server that is running is, between two calls, as far *)
(* as its start came.                                                      *)
(***************************************************************************)
Listening == \E l \in Loops : acceptor[l] \in {"check", "accept"}

FlagInv ==
  /\ (caller = "idle" /\ ~running) =>
       ~tcp_running /\ ~udp_running /\ ~checking /\ failed = "none"
  /\ (caller = "idle" /\ running) =>
       /\ checking
       /\ failed # "bind_tcp" => tcp_running /\ Listening
       /\ failed = "none" => udp_running /\ udp_bound
  /\ caller \notin {"idle", "graceful"} => failed = "none"
  /\ caller \in {"start_health", "start_tcp"} => running /\ ~tcp_running /\ ~udp_running
  /\ caller \in {"bind_tcp", "start_udp"} => running /\ tcp_running /\ ~udp_running
  /\ caller = "bind_udp" => running /\ tcp_running /\ udp_running
  /\ caller \in {"start_tcp", "bind_tcp", "start_udp", "bind_udp"} => checking
  /\ caller \in {"start_udp", "bind_udp"} => Listening
  /\ caller \in {"graceful", "stop_tcp", "wait", "stop_udp", "stop_health"} => ~running
  /\ caller \in {"wait", "stop_udp", "stop_health"} => ~tcp_running
  /\ caller = "stop_health" => ~udp_running
  /\ (caller = "idle" /\ outcome = "Ok") => running
  /\ (caller = "idle" /\ outcome = "stopped") => ~running

(* A loop that runs goes on to listen. *)
LEMMA ListeningStays ==
  ASSUME TypeOK, TcpNext, tcp_running, Listening PROVE Listening'
<1>0. acceptor \in [Loops -> {"none", "check", "accept", "leaving", "ended"}]
  BY DEF TypeOK, TcpTypeOK
<1>1. PICK m \in Loops : acceptor[m] \in {"check", "accept"}
  BY DEF Listening
<1>2. ASSUME NEW l \in Loops, LoopCheck(l) \/ LoopLeave(l) \/ Accept(l)
      PROVE  acceptor'[m] \in {"check", "accept"}
  BY <1>0, <1>1, <1>2 DEF LoopCheck, LoopLeave, Accept
<1>3. ASSUME acceptor' = acceptor PROVE acceptor'[m] \in {"check", "accept"}
  BY <1>1, <1>3
<1> QED
  BY <1>2, <1>3 DEF Listening, TcpNext, RecordNew, RecordTotal, Insert, Route, Connect,
     Remove, RecordClosed,
     RecordDuration, ReadEnds, WriteFails, EndCopying, Close

LEMMA FlagStep ==
  ASSUME TypeOK, FlagInv, [Next]_vars PROVE FlagInv'
<1>1. CASE UNCHANGED vars
  BY <1>1 DEF vars, tcp, parts, FlagInv, Listening
<1>2. CASE TcpNext /\ UNCHANGED <<parts, caller, outcome, failed, stopping>>
  <2>1. UNCHANGED tcp_running
    BY <1>2 DEF TcpNext, LoopCheck, LoopLeave, Accept, RecordNew, RecordTotal, Insert, Route,
       Connect, Remove, RecordClosed, RecordDuration, ReadEnds, WriteFails, EndCopying, Close
  <2>2. tcp_running /\ Listening => Listening'
    BY <1>2, ListeningStays
  <2> QED
    BY <1>2, <2>1, <2>2 DEF FlagInv, parts
<1>3. CASE Start
  BY <1>3 DEF Start, Goto, Return, tcp, FlagInv, Listening
<1>4. CASE StartHealth
  BY <1>4 DEF StartHealth, Goto, tcp, FlagInv
<1>5. CASE StartTcp
  BY <1>5 DEF StartTcp, SetRunning, Goto, parts, tcp, FlagInv
<1>6. CASE BindTcp
  <2>1. CASE Bind /\ Goto("bind_tcp", "start_udp")
    <3>1. Listening'
      BY <2>1 DEF Bind, Listening, TypeOK, TcpTypeOK
    <3> QED
      BY <1>6, <2>1, <3>1 DEF BindTcp, Bind, Goto, parts, FlagInv
  <2>2. CASE UNCHANGED tcp /\ Return("bind_tcp", "Err")
    BY <1>6, <2>2 DEF BindTcp, Return, parts, tcp, FlagInv
  <2> QED
    BY <1>6, <2>1, <2>2 DEF BindTcp
<1>7. CASE StartUdp
  BY <1>7 DEF StartUdp, Goto, Return, tcp, FlagInv, Listening
<1>8. CASE BindUdp
  BY <1>8 DEF BindUdp, Return, tcp, FlagInv, Listening
<1>9. CASE Stop \/ GracefulShutdown
  BY <1>9 DEF Stop, GracefulShutdown, Goto, FlagInv
<1>10. CASE StopTcp
  BY <1>10 DEF StopTcp, ClearRunning, Goto, parts, FlagInv
<1>11. CASE Wait
  BY <1>11 DEF Wait, Goto, tcp, parts, FlagInv
<1>12. CASE StopUdp
  BY <1>12 DEF StopUdp, Goto, tcp, FlagInv
<1>13. CASE StopHealth
  BY <1>13 DEF StopHealth, Return, tcp, FlagInv
<1>14. CASE UdpEnds
  BY <1>14 DEF UdpEnds, tcp, FlagInv, Listening
<1> QED
  BY <1>1, <1>2, <1>3, <1>4, <1>5, <1>6, <1>7, <1>8, <1>9, <1>10, <1>11, <1>12, <1>13, <1>14
     DEF Next, Starting, Stopping

LEMMA FlagsHold == Spec => []FlagInv
<1>1. Init => FlagInv
  BY DEF Init, TcpInit, FlagInv
<1>2. TypeOK /\ FlagInv /\ [Next]_vars => FlagInv'
  BY FlagStep
<1> QED
  BY <1>1, <1>2, Typing, PTL DEF Spec

(* What an Ok of start is worth is there until the next call, also the Ok  *)
(* of a start that found the server running.                               *)
THEOREM StartedAlwaysServes == Spec => []StartedServes
<1>1. FlagInv => StartedServes
  BY DEF FlagInv, StartedServes, Listening
<1> QED
  BY <1>1, FlagsHold, PTL

(* What a stop reports to have stopped is marked stopped. *)
THEOREM StoppedAlwaysStops == Spec => []StoppedStops
<1>1. FlagInv => StoppedStops
  BY DEF FlagInv, StoppedStops
<1> QED
  BY <1>1, FlagsHold, PTL

-----------------------------------------------------------------------------
(***************************************************************************)
(* The table and the metrics follow the tasks: the table has the           *)
(* connections between their insertion and their removal, the gauge counts *)
(* those that are about to be inserted as well, the counter all that have  *)
(* been counted and the histogram those that are done.  What stop found in *)
(* the table has been inserted, and is not inserted again.                 *)
(***************************************************************************)
Entered == {"route", "connect", "data", "remove"}
Gauged == Entered \cup {"count", "insert", "close"}
Totalled == Phases \ {"none", "accepted", "count"}
InTable == At(Entered)

TableInv ==
  /\ active_connections = InTable
  /\ gauge = Cardinality(At(Gauged))
  /\ total_connections = Cardinality(At(Totalled))
  /\ connection_duration = Cardinality(At({"done"}))
  /\ \A k \in registered : phase[k] \in Entered \cup {"close", "observe", "done"}

LEMMA AtFinite == \A S : IsFiniteSet(At(S))
<1>1. IsFiniteSet(Connections)
  BY BoundsAssumption, FS_Interval DEF Connections
<1> QED
  BY <1>1, FS_Subset DEF At

(* How the connections at some phases change when one changes its phase. *)
LEMMA AtStays ==
  ASSUME phase \in [Connections -> Phases], NEW k \in Connections, NEW p \in Phases,
         phase' = [phase EXCEPT ![k] = p], NEW S,
         \/ phase[k] \in S /\ p \in S
         \/ phase[k] \notin S /\ p \notin S
  PROVE  At(S)' = At(S)
BY DEF At

LEMMA AtGains ==
  ASSUME phase \in [Connections -> Phases], NEW k \in Connections, NEW p \in Phases,
         phase' = [phase EXCEPT ![k] = p], NEW S,
         phase[k] \notin S, p \in S
  PROVE  /\ At(S)' = At(S) \cup {k}
         /\ Cardinality(At(S)') = Cardinality(At(S)) + 1
<1>1. At(S)' = At(S) \cup {k} /\ k \notin At(S)
  BY DEF At
<1> QED
  BY <1>1, AtFinite, FS_AddElement

LEMMA AtLoses ==
  ASSUME phase \in [Connections -> Phases], NEW k \in Connections, NEW p \in Phases,
         phase' = [phase EXCEPT ![k] = p], NEW S,
         phase[k] \in S, p \notin S
  PROVE  /\ At(S)' = At(S) \ {k}
         /\ Cardinality(At(S)') = Cardinality(At(S)) - 1
<1>1. At(S)' = At(S) \ {k} /\ k \in At(S)
  BY DEF At
<1> QED
  BY <1>1, AtFinite, FS_RemoveElement

LEMMA TableTasks ==
  ASSUME TypeOK, TableInv, TcpNext, UNCHANGED registered PROVE TableInv'
<1>0. /\ phase \in [Connections -> Phases] /\ registered \subseteq Connections
      /\ gauge \in Int /\ total_connections \in Nat /\ connection_duration \in Nat
  BY DEF TypeOK, TcpTypeOK
<1>1. ASSUME phase' = phase, metrics' = metrics, active_connections' = active_connections
      PROVE  TableInv'
  BY <1>1 DEF TableInv, InTable, At, metrics
<1>2. ASSUME NEW k \in Connections, NEW p \in Phases, phase' = [phase EXCEPT ![k] = p],
             \A S \in {Entered, Gauged, Totalled, {"done"}} :
               \/ phase[k] \in S /\ p \in S
               \/ phase[k] \notin S /\ p \notin S,
             k \in registered => p \in Entered \cup {"close", "observe", "done"},
             metrics' = metrics, active_connections' = active_connections
      PROVE  TableInv'
  <2>1. /\ InTable' = InTable /\ At(Gauged)' = At(Gauged)
        /\ At(Totalled)' = At(Totalled) /\ At({"done"})' = At({"done"})
    BY <1>0, <1>2, AtStays DEF InTable
  <2> QED
    BY <1>0, <1>2, <2>1 DEF TableInv, metrics
<1>3. ASSUME NEW l \in Loops, LoopCheck(l) \/ LoopLeave(l) PROVE TableInv'
  BY <1>1, <1>3 DEF LoopCheck, LoopLeave, tasks, metrics
<1>4. ASSUME NEW l \in Loops, Accept(l) PROVE TableInv'
  <2>1. CASE UNCHANGED phase
    BY <1>1, <1>4, <2>1 DEF Accept
  <2>2. ASSUME NEW k \in Connections, phase[k] = "none",
               phase' = [phase EXCEPT ![k] = "accepted"]
        PROVE  TableInv'
    <3>1. k \notin registered
      BY <2>2 DEF TableInv, Entered
    <3> QED
      BY <1>2, <1>4, <2>2, <3>1 DEF Accept, Entered, Gauged, Totalled, Phases
  <2> QED
    BY <1>4, <2>1, <2>2 DEF Accept
<1>5. ASSUME NEW k \in Connections, RecordNew(k) PROVE TableInv'
  <2>1. phase[k] = "accepted" /\ phase' = [phase EXCEPT ![k] = "count"] /\ "count" \in Phases
    BY <1>5 DEF RecordNew, Phases
  <2>2. /\ InTable' = InTable /\ Cardinality(At(Gauged)') = Cardinality(At(Gauged)) + 1
        /\ At(Totalled)' = At(Totalled) /\ At({"done"})' = At({"done"})
    <3>1. At(Entered)' = At(Entered)
      <4>1. "accepted" \notin Entered /\ "count" \notin Entered
        BY DEF Entered
      <4> QED
        BY <1>0, <2>1, <4>1, AtStays
    <3>2. At(Gauged)' = At(Gauged) \cup {k} /\ Cardinality(At(Gauged)') = Cardinality(At(Gauged)) + 1
      <4>1. "accepted" \notin Gauged /\ "count" \in Gauged
        BY DEF Gauged, Entered
      <4> QED
        BY <1>0, <2>1, <4>1, AtGains
    <3>3. At(Totalled)' = At(Totalled)
      <4>1. "accepted" \notin Totalled /\ "count" \notin Totalled
        BY DEF Totalled, Phases
      <4> QED
        BY <1>0, <2>1, <4>1, AtStays
    <3>4. At({"done"})' = At({"done"})
      <4>1. "accepted" \notin {"done"} /\ "count" \notin {"done"}
        OBVIOUS
      <4> QED
        BY <1>0, <2>1, <4>1, AtStays
    <3> QED
      BY <3>1, <3>2, <3>3, <3>4 DEF InTable
  <2> QED
    BY <1>0, <1>5, <2>1, <2>2 DEF RecordNew, TableInv, Entered
<1>5t. ASSUME NEW k \in Connections, RecordTotal(k) PROVE TableInv'
  <2>1. phase[k] = "count" /\ phase' = [phase EXCEPT ![k] = "insert"] /\ "insert" \in Phases
    BY <1>5t DEF RecordTotal, Phases
  <2>2. /\ InTable' = InTable /\ At(Gauged)' = At(Gauged)
        /\ Cardinality(At(Totalled)') = Cardinality(At(Totalled)) + 1
        /\ At({"done"})' = At({"done"})
    <3>1. At(Entered)' = At(Entered)
      <4>1. "count" \notin Entered /\ "insert" \notin Entered
        BY DEF Entered
      <4> QED
        BY <1>0, <2>1, <4>1, AtStays
    <3>2. At(Gauged)' = At(Gauged)
      <4>1. "count" \in Gauged /\ "insert" \in Gauged
        BY DEF Gauged, Entered
      <4> QED
        BY <1>0, <2>1, <4>1, AtStays
    <3>3. At(Totalled)' = At(Totalled) \cup {k} /\ Cardinality(At(Totalled)') = Cardinality(At(Totalled)) + 1
      <4>1. "count" \notin Totalled /\ "insert" \in Totalled
        BY DEF Totalled, Phases
      <4> QED
        BY <1>0, <2>1, <4>1, AtGains
    <3>4. At({"done"})' = At({"done"})
      <4>1. "count" \notin {"done"} /\ "insert" \notin {"done"}
        OBVIOUS
      <4> QED
        BY <1>0, <2>1, <4>1, AtStays
    <3> QED
      BY <3>1, <3>2, <3>3, <3>4 DEF InTable
  <2> QED
    BY <1>0, <1>5t, <2>1, <2>2 DEF RecordTotal, TableInv, Entered
<1>6. ASSUME NEW k \in Connections, Insert(k) PROVE TableInv'
  <2>1. phase[k] = "insert" /\ phase' = [phase EXCEPT ![k] = "route"] /\ "route" \in Phases
    BY <1>6 DEF Insert, Phases
  <2>2. /\ InTable' = InTable \cup {k} /\ At(Gauged)' = At(Gauged)
        /\ At(Totalled)' = At(Totalled) /\ At({"done"})' = At({"done"})
    <3>1. At(Entered)' = At(Entered) \cup {k} /\ Cardinality(At(Entered)') = Cardinality(At(Entered)) + 1
      <4>1. "insert" \notin Entered /\ "route" \in Entered
        BY DEF Entered
      <4> QED
        BY <1>0, <2>1, <4>1, AtGains
    <3>2. At(Gauged)' = At(Gauged)
      <4>1. "insert" \in Gauged /\ "route" \in Gauged
        BY DEF Gauged, Entered
      <4> QED
        BY <1>0, <2>1, <4>1, AtStays
    <3>3. At(Totalled)' = At(Totalled)
      <4>1. "insert" \in Totalled /\ "route" \in Totalled
        BY DEF Totalled, Phases
      <4> QED
        BY <1>0, <2>1, <4>1, AtStays
    <3>4. At({"done"})' = At({"done"})
      <4>1. "insert" \notin {"done"} /\ "route" \notin {"done"}
        OBVIOUS
      <4> QED
        BY <1>0, <2>1, <4>1, AtStays
    <3> QED
      BY <3>1, <3>2, <3>3, <3>4 DEF InTable
  <2> QED
    BY <1>0, <1>6, <2>1, <2>2 DEF Insert, TableInv, Entered, metrics
<1>7. ASSUME NEW k \in Connections, Route(k) PROVE TableInv'
  <2>1. PICK p \in {"connect", "remove"} : phase' = [phase EXCEPT ![k] = p]
    BY <1>7 DEF Route
  <2> QED
    BY <1>2, <1>7, <2>1 DEF Route, Entered, Gauged, Totalled, Phases
<1>8. ASSUME NEW k \in Connections, Connect(k) PROVE TableInv'
  <2>1. PICK p \in {"data", "remove"} : phase' = [phase EXCEPT ![k] = p]
    BY <1>8 DEF Connect
  <2> QED
    BY <1>2, <1>8, <2>1 DEF Connect, Entered, Gauged, Totalled, Phases
<1>9. ASSUME NEW k \in Connections, Remove(k) PROVE TableInv'
  <2>1. phase[k] = "remove" /\ phase' = [phase EXCEPT ![k] = "close"] /\ "close" \in Phases
    BY <1>9 DEF Remove, Phases
  <2>2. /\ InTable' = InTable \ {k} /\ At(Gauged)' = At(Gauged)
        /\ At(Totalled)' = At(Totalled) /\ At({"done"})' = At({"done"})
    <3>1. At(Entered)' = At(Entered) \ {k}
      <4>1. "remove" \in Entered /\ "close" \notin Entered
        BY DEF Entered
      <4> QED
        BY <1>0, <2>1, <4>1, AtLoses
    <3>2. At(Gauged)' = At(Gauged)
      <4>1. "remove" \in Gauged /\ "close" \in Gauged
        BY DEF Gauged, Entered
      <4> QED
        BY <1>0, <2>1, <4>1, AtStays
    <3>3. At(Totalled)' = At(Totalled)
      <4>1. "remove" \in Totalled /\ "close" \in Totalled
        BY DEF Totalled, Phases
      <4> QED
        BY <1>0, <2>1, <4>1, AtStays
    <3>4. At({"done"})' = At({"done"})
      <4>1. "remove" \notin {"done"} /\ "close" \notin {"done"}
        OBVIOUS
      <4> QED
        BY <1>0, <2>1, <4>1, AtStays
    <3> QED
      BY <3>1, <3>2, <3>3, <3>4 DEF InTable
  <2> QED
    BY <1>0, <1>9, <2>1, <2>2 DEF Remove, TableInv, Entered, metrics
<1>9c. ASSUME NEW k \in Connections, RecordClosed(k) PROVE TableInv'
  <2>1. phase[k] = "close" /\ phase' = [phase EXCEPT ![k] = "observe"] /\ "observe" \in Phases
    BY <1>9c DEF RecordClosed, Phases
  <2>2. /\ InTable' = InTable
        /\ Cardinality(At(Gauged)') = Cardinality(At(Gauged)) - 1
        /\ At(Totalled)' = At(Totalled) /\ At({"done"})' = At({"done"})
    <3>1. At(Entered)' = At(Entered)
      <4>1. "close" \notin Entered /\ "observe" \notin Entered
        BY DEF Entered
      <4> QED
        BY <1>0, <2>1, <4>1, AtStays
    <3>2. Cardinality(At(Gauged)') = Cardinality(At(Gauged)) - 1
      <4>1. "close" \in Gauged /\ "observe" \notin Gauged
        BY DEF Gauged, Entered
      <4> QED
        BY <1>0, <2>1, <4>1, AtLoses
    <3>3. At(Totalled)' = At(Totalled)
      <4>1. "close" \in Totalled /\ "observe" \in Totalled
        BY DEF Totalled, Phases
      <4> QED
        BY <1>0, <2>1, <4>1, AtStays
    <3>4. At({"done"})' = At({"done"})
      <4>1. "close" \notin {"done"} /\ "observe" \notin {"done"}
        OBVIOUS
      <4> QED
        BY <1>0, <2>1, <4>1, AtStays
    <3> QED
      BY <3>1, <3>2, <3>3, <3>4 DEF InTable
  <2> QED
    BY <1>0, <1>9c, <2>1, <2>2 DEF RecordClosed, TableInv, Entered
<1>9d. ASSUME NEW k \in Connections, RecordDuration(k) PROVE TableInv'
  <2>1. phase[k] = "observe" /\ phase' = [phase EXCEPT ![k] = "done"] /\ "done" \in Phases
    BY <1>9d DEF RecordDuration, Phases
  <2>2. /\ InTable' = InTable /\ At(Gauged)' = At(Gauged)
        /\ At(Totalled)' = At(Totalled)
        /\ Cardinality(At({"done"})') = Cardinality(At({"done"})) + 1
    <3>1. At(Entered)' = At(Entered)
      <4>1. "observe" \notin Entered /\ "done" \notin Entered
        BY DEF Entered
      <4> QED
        BY <1>0, <2>1, <4>1, AtStays
    <3>2. At(Gauged)' = At(Gauged)
      <4>1. "observe" \notin Gauged /\ "done" \notin Gauged
        BY DEF Gauged, Entered
      <4> QED
        BY <1>0, <2>1, <4>1, AtStays
    <3>3. At(Totalled)' = At(Totalled)
      <4>1. "observe" \in Totalled /\ "done" \in Totalled
        BY DEF Totalled, Phases
      <4> QED
        BY <1>0, <2>1, <4>1, AtStays
    <3>4. At({"done"})' = At({"done"}) \cup {k} /\ Cardinality(At({"done"})') = Cardinality(At({"done"})) + 1
      <4>1. "observe" \notin {"done"} /\ "done" \in {"done"}
        OBVIOUS
      <4> QED
        BY <1>0, <2>1, <4>1, AtGains
    <3> QED
      BY <3>1, <3>2, <3>3, <3>4 DEF InTable
  <2> QED
    BY <1>0, <1>9d, <2>1, <2>2 DEF RecordDuration, TableInv, Entered
<1>10. ASSUME NEW k \in Connections, NEW end, EndCopying(k, end) PROVE TableInv'
  <2>1. CASE UNCHANGED phase
    BY <1>1, <1>10, <2>1 DEF EndCopying
  <2>2. CASE phase' = [phase EXCEPT ![k] = "remove"]
    BY <1>2, <1>10, <2>2 DEF EndCopying, Entered, Gauged, Totalled, Phases
  <2> QED
    BY <1>10, <2>1, <2>2 DEF EndCopying
<1>11. ASSUME NEW k \in Connections, NEW end \in Ends, Close(k, end) PROVE TableInv'
  BY <1>1, <1>11 DEF Close
<1> QED
  BY <1>3, <1>4, <1>5, <1>5t, <1>6, <1>7, <1>8, <1>9, <1>9c, <1>9d, <1>10, <1>11
     DEF TcpNext, ReadEnds, WriteFails

LEMMA TableStep ==
  ASSUME TypeOK, TableInv, [Next]_vars PROVE TableInv'
<1>1. CASE UNCHANGED vars
  BY <1>1 DEF vars, tcp, tasks, metrics, stopping, TableInv, InTable, At
<1>2. CASE TcpNext /\ UNCHANGED <<parts, caller, outcome, failed, stopping>>
  BY <1>2, TableTasks DEF stopping
<1>3. CASE Working
  <2>1. UNCHANGED tasks
    BY <1>3, ServerCallsTcp DEF tcp, SetRunning, Bind, ClearRunning
  <2>2. registered' \in {registered, active_connections, {}}
    BY <1>3 DEF Working, Starting, Stopping, Start, StartHealth, StartTcp, BindTcp, StartUdp,
       BindUdp, Stop, StopTcp, Wait, StopUdp, StopHealth, GracefulShutdown, UdpEnds, stopping
  <2> QED
    BY <2>1, <2>2 DEF tasks, metrics, TableInv, InTable, At
<1> QED
  BY <1>1, <1>2, <1>3 DEF Next, Working

LEMMA TableHolds == Spec => []TableInv
<1>1. Init => TableInv
  <2> SUFFICES ASSUME Init PROVE TableInv
    OBVIOUS
  <2>1. InTable = {} /\ At(Gauged) = {} /\ At(Totalled) = {} /\ At({"done"}) = {}
    BY DEF Init, TcpInit, InTable, At, Entered, Gauged, Totalled
  <2> QED
    BY <2>1, FS_EmptySet DEF Init, TcpInit, TableInv
<1>2. TypeOK /\ TableInv /\ [Next]_vars => TableInv'
  BY TableStep
<1> QED
  BY <1>1, <1>2, Typing, PTL DEF Spec

(* However connections end, the table and the metric let them go.          *)
THEOREM NothingEverLeaks == Spec => []NothingLeaks
<1>1. TypeOK /\ TableInv => NothingLeaks
  <2> SUFFICES ASSUME TypeOK, TableInv PROVE NothingLeaks
    OBVIOUS
  <2>1. ASSUME \A k \in Connections : phase[k] \in {"none", "accepted", "observe", "done"}
        PROVE  active_connections = {} /\ gauge = 0
    <3>1. InTable = {} /\ At(Gauged) = {}
      BY <2>1 DEF InTable, At, Entered, Gauged
    <3> QED
      BY <3>1, FS_EmptySet DEF TableInv
  <2>2. Cardinality(active_connections) <= gauge
    <3>1. InTable \subseteq At(Gauged)
      BY DEF InTable, At, Gauged
    <3> QED
      BY <3>1, AtFinite, FS_Subset DEF TableInv
  <2> QED
    BY <2>1, <2>2 DEF NothingLeaks
<1> QED
  BY <1>1, TableHolds, Typing, PTL

(* Two kinds of phases together. *)
LEMMA AtAdds ==
  ASSUME NEW R, NEW S, NEW T, At(R) = At(S) \cup At(T), At(S) \cap At(T) = {}
  PROVE  Cardinality(At(R)) = Cardinality(At(S)) + Cardinality(At(T))
<1>1. IsFiniteSet(At(S)) /\ IsFiniteSet(At(T))
  BY AtFinite
<1>2. Cardinality(At(S) \cap At(T)) = 0
  BY FS_EmptySet
<1>3. Cardinality(At(S)) \in Nat /\ Cardinality(At(T)) \in Nat
  BY <1>1, FS_CardinalityType
<1>4. Cardinality(At(S) \cup At(T))
        = Cardinality(At(S)) + Cardinality(At(T)) - Cardinality(At(S) \cap At(T))
  BY <1>1, FS_Union
<1> QED
  BY <1>2, <1>3, <1>4

(* At every moment, and so at every export, the metrics add up. *)
THEOREM MetricsAlwaysAddUp == Spec => []MetricsAddUp
<1>1. TypeOK /\ TableInv => MetricsAddUp
  <2> SUFFICES ASSUME TypeOK, TableInv PROVE MetricsAddUp
    OBVIOUS
  <2> DEFINE Past == Phases \ {"none", "accepted"}
             Over == {"observe", "done"}
             New == {"count"}
  <2>1. phase \in [Connections -> Phases]
    BY DEF TypeOK, TcpTypeOK
  <2>2. \A S : IsFiniteSet(At(S)) /\ Cardinality(At(S)) \in Nat
    BY AtFinite, FS_CardinalityType
  <2>3. Cardinality(At(Past)) = Cardinality(At(Totalled)) + Cardinality(At(New))
    <3>1. At(Past) = At(Totalled) \cup At(New)
      BY DEF At, Totalled, Phases
    <3>2. At(Totalled) \cap At(New) = {}
      BY DEF At, Totalled
    <3> HIDE DEF Past, New
    <3> QED
      BY <3>1, <3>2, AtAdds
  <2>4. Cardinality(At(Over)) = Cardinality(At({"observe"})) + Cardinality(At({"done"}))
    <3>1. /\ At(Over) = At({"observe"}) \cup At({"done"})
          /\ At({"observe"}) \cap At({"done"}) = {}
      BY DEF At
    <3> HIDE DEF Over
    <3> QED
      BY <3>1, AtAdds
  <2>5. Cardinality(At(Past)) = Cardinality(At(Gauged)) + Cardinality(At(Over))
    <3>1. At(Past) = At(Gauged) \cup At(Over) /\ At(Gauged) \cap At(Over) = {}
      BY <2>1 DEF At, Gauged, Entered, Phases
    <3> HIDE DEF Past, Over
    <3> QED
      BY <3>1, AtAdds
  <2>6. /\ gauge = Cardinality(At(Gauged)) /\ total_connections = Cardinality(At(Totalled))
        /\ connection_duration = Cardinality(At({"done"}))
    BY DEF TableInv
  <2> HIDE DEF Past, Over
  <2>7. gauge + Cardinality(At({"observe"})) + connection_duration
          = total_connections + Cardinality(At({"count"}))
    BY <2>2, <2>3, <2>4, <2>5, <2>6
  <2> QED
    BY <2>6, <2>7 DEF MetricsAddUp, Totalled
<1> QED
  BY <1>1, TableHolds, Typing, PTL

(* A stop that does not give up has seen every connection off that it      *)
(* found: none of them comes back into the table.                          *)
THEOREM StopAlwaysWaits == Spec => []StopWaitsForRegistered
<1>1. Init => StopWaitsForRegistered
  BY DEF Init, StopWaitsForRegistered
<1>2. TypeOK /\ TableInv /\ StopWaitsForRegistered /\ [Next]_vars => StopWaitsForRegistered'
  <2> SUFFICES ASSUME TypeOK, TableInv, StopWaitsForRegistered, [Next]_vars
               PROVE  StopWaitsForRegistered'
    OBVIOUS
  <2>0. phase \in [Connections -> Phases] /\ attempts \in 0 .. Attempts /\ Attempts \in Nat
    BY BoundsAssumption DEF TypeOK, TcpTypeOK
  <2>1. CASE UNCHANGED vars
    BY <2>1 DEF vars, tcp, tasks, stopping, StopWaitsForRegistered
  <2>2. CASE TcpNext /\ UNCHANGED <<parts, caller, outcome, failed, stopping>>
    <3>1. \A k \in registered : k \in active_connections' => k \in active_connections
      BY <2>0, <2>2 DEF TableInv, InTable, At, Entered, TcpNext, LoopCheck, LoopLeave, Accept,
         RecordNew, RecordTotal, Insert, Route, Connect, Remove, RecordClosed, RecordDuration, ReadEnds,
         WriteFails, EndCopying, Close, tasks
    <3> QED
      BY <2>2, <3>1 DEF StopWaitsForRegistered, stopping
  <2>3. CASE Wait
    BY <2>0, <2>3 DEF Wait, Goto, tcp, tasks, StopWaitsForRegistered
  <2>4. CASE StopUdp
    BY <2>4 DEF StopUdp, Goto, tcp, tasks, stopping, StopWaitsForRegistered
  <2>5. CASE UdpEnds
    BY <2>5 DEF UdpEnds, tcp, tasks, stopping, StopWaitsForRegistered
  <2>6. CASE Starting \/ StopTcp \/ StopHealth \/ Stop \/ GracefulShutdown
    <3>1. caller' \notin {"stop_udp", "stop_health"}
      BY <2>6 DEF Starting, Start, StartHealth, StartTcp, BindTcp, StartUdp, BindUdp, StopTcp,
         StopHealth, Stop, GracefulShutdown, Goto, Return
    <3> QED
      BY <3>1 DEF StopWaitsForRegistered
  <2> QED
    BY <2>1, <2>2, <2>3, <2>4, <2>5, <2>6 DEF Next, Stopping
<1> QED
  BY <1>1, <1>2, TableHolds, Typing, PTL DEF Spec

=============================================================================
