--------------------------- MODULE UdpProxyProofs ----------------------------
(***************************************************************************)
(* Proofs about UdpProxy, for any number of clients, tasks, sockets and    *)
(* datagrams.                                                              *)
(***************************************************************************)
EXTENDS UdpProxy, TLAPS

(* What the pc of a task says of its record. *)
LEMMA TaskRecords ==
  /\ \A k \in HandlerTasks :
       /\ k.pc \in {"lookup", "open"} => k.client \in Clients
       /\ k.pc \in {"send", "insert"} => /\ k.client \in Clients /\ k.session \in Sessions
                                         /\ k = [pc |-> k.pc, client |-> k.client,
                                                 session |-> k.session]
  /\ \A k \in ListenerTasks :
       k.pc \in {"recv", "insert", "remove"} =>
         /\ k.client \in Clients /\ k.session \in Sessions
         /\ k = [pc |-> k.pc, client |-> k.client, session |-> k.session]
BY DEF HandlerTasks, ListenerTasks, NoHandler, Unopened, Closed

LEMMA WithType ==
  ASSUME NEW c \in Clients, NEW e \in Sessions, DOMAIN active_sessions \subseteq Clients,
         active_sessions \in [DOMAIN active_sessions -> Sessions]
  PROVE  /\ DOMAIN With(c, e) \subseteq Clients
         /\ With(c, e) \in [DOMAIN With(c, e) -> Sessions]
BY DEF With

LEMMA WithoutType ==
  ASSUME NEW cs, DOMAIN active_sessions \subseteq Clients,
         active_sessions \in [DOMAIN active_sessions -> Sessions]
  PROVE  /\ DOMAIN WithoutThose(cs) \subseteq Clients
         /\ WithoutThose(cs) \in [DOMAIN WithoutThose(cs) -> Sessions]
BY DEF WithoutThose

(* The sessions the code computes from others are sessions. *)
LEMMA SessionTypes ==
  /\ \A s \in Sockets : NewSession(s) \in Sessions
  /\ \A e \in Sessions :
       /\ Used(e) \in Sessions
       /\ Heard(e) \in Sessions
       /\ [e EXCEPT !.old = TRUE] \in Sessions
<1>1. ASSUME NEW s \in Sockets PROVE NewSession(s) \in Sessions
  BY DEF NewSession, Sessions
<1>2. ASSUME NEW e \in Sessions
      PROVE  Used(e) \in Sessions /\ Heard(e) \in Sessions
             /\ [e EXCEPT !.old = TRUE] \in Sessions
  <2>1. Used(e) \in Sessions
    BY DEF Sessions, Used
  <2>2. Heard(e) \in Sessions
    BY DEF Sessions, Heard
  <2>3. [e EXCEPT !.old = TRUE] \in Sessions
    BY DEF Sessions
  <2> QED
    BY <2>1, <2>2, <2>3
<1> QED
  BY <1>1, <1>2

(* Type correctness: the table holds sessions of clients only, and the     *)
(* tasks carry what their next step needs.                                 *)
THEOREM Typing == Spec => []TypeOK
<1>1. Init => TypeOK
  <2> SUFFICES ASSUME Init PROVE TypeOK
    OBVIOUS
  <2>1. DOMAIN active_sessions = {} /\ active_sessions \in [{} -> Sessions]
    BY DEF Init
  <2>2. /\ handler \in [Handlers -> HandlerTasks]
        /\ listener \in [Sockets -> ListenerTasks]
        /\ cleaner \in [Cleaners -> CleanerTasks]
    BY DEF Init, HandlerTasks, ListenerTasks, CleanerTasks
  <2>3. datagrams \in 0 .. DatagramBound
    BY BoundsAssumption DEF Init
  <2> QED
    BY <2>1, <2>2, <2>3 DEF Init, TypeOK
<1>2. TypeOK /\ [Next]_vars => TypeOK'
  <2> SUFFICES ASSUME TypeOK, [Next]_vars PROVE TypeOK'
    OBVIOUS
  <2>0. /\ DOMAIN active_sessions \subseteq Clients
        /\ active_sessions \in [DOMAIN active_sessions -> Sessions]
        /\ \A h \in Handlers : handler[h] \in HandlerTasks
        /\ \A s \in Sockets : listener[s] \in ListenerTasks
    BY DEF TypeOK
  <2>1. CASE UNCHANGED vars
    BY <2>1 DEF TypeOK, vars, traffic
  <2>2. CASE Start
    BY <2>2 DEF TypeOK, Start, traffic, CleanerTasks
  <2>3. CASE Stop \/ ReceiveCheck \/ ReceiveError
    BY <2>3 DEF TypeOK, Stop, ReceiveCheck, ReceiveError, traffic
  <2>4. CASE StopClear
    BY <2>0, <2>4, WithoutType DEF TypeOK, StopClear, traffic
  <2>5. ASSUME NEW c \in Clients, Receive(c) PROVE TypeOK'
    <3>1. [pc |-> "lookup", client |-> c] \in HandlerTasks
      BY DEF HandlerTasks
    <3>2. datagrams' \in 0 .. DatagramBound
      BY <2>5, BoundsAssumption DEF TypeOK, Receive
    <3> QED
      BY <2>5, <3>1, <3>2 DEF TypeOK, Receive
  <2>6. ASSUME NEW c \in Clients, Age(c) PROVE TypeOK'
    <3>1. [active_sessions[c] EXCEPT !.old = TRUE] \in Sessions
      BY <2>0, <2>6, SessionTypes DEF Age
    <3> QED
      BY <2>0, <2>6, <3>1, WithType DEF TypeOK, Age, traffic
  <2>7. ASSUME NEW h \in Handlers, Lookup(h) PROVE TypeOK'
    <3> DEFINE c == handler[h].client
    <3>1. c \in Clients
      BY <2>0, <2>7, TaskRecords DEF Lookup
    <3>2. \A e \in Sessions : [pc |-> "send", client |-> c, session |-> e] \in HandlerTasks
      BY <3>1 DEF HandlerTasks
    <3>3. [pc |-> "open", client |-> c] \in HandlerTasks
      BY <3>1 DEF HandlerTasks
    <3>4. c \in DOMAIN active_sessions =>
            Used(active_sessions[c]) \in Sessions
      BY <2>0, SessionTypes
    <3>5. handler' \in [Handlers -> HandlerTasks]
      BY <2>7, <3>2, <3>3, <3>4 DEF TypeOK, Lookup
    <3> QED
      BY <2>7, <3>5 DEF TypeOK, Lookup, traffic
  <2>8. ASSUME NEW h \in Handlers, Send(h) PROVE TypeOK'
    <3>1. /\ handler[h].session \in Sessions /\ handler[h].client \in Clients
          /\ handler[h] = [pc |-> "send", client |-> handler[h].client,
                           session |-> handler[h].session]
      BY <2>0, <2>8, TaskRecords DEF Send
    <3>2. [handler[h] EXCEPT !.pc = "insert"] \in HandlerTasks /\ NoHandler \in HandlerTasks
      <4>1. [handler[h] EXCEPT !.pc = "insert"]
              = [pc |-> "insert", client |-> handler[h].client, session |-> handler[h].session]
        BY <3>1
      <4> QED
        BY <3>1, <4>1 DEF HandlerTasks
    <3>3. handler' \in [Handlers -> HandlerTasks]
      BY <2>8, <3>2 DEF TypeOK, Send, Done
    <3>4. sent' \in [Sockets -> Nat]
      BY <2>8, <3>1 DEF TypeOK, Send, Sessions
    <3> QED
      BY <2>8, <3>3, <3>4 DEF TypeOK, Send
  <2>9. ASSUME NEW h \in Handlers, Open(h) PROVE TypeOK'
    <3>1. handler[h].client \in Clients
      BY <2>0, <2>9, TaskRecords DEF Open
    <3>2. \A s \in Sockets :
            /\ [pc |-> "recv", client |-> handler[h].client, session |-> NewSession(s)]
                 \in ListenerTasks
            /\ [pc |-> "insert", client |-> handler[h].client, session |-> NewSession(s)]
                 \in HandlerTasks
      BY <3>1, SessionTypes DEF ListenerTasks, HandlerTasks
    <3>3. NoHandler \in HandlerTasks
      BY DEF HandlerTasks
    <3>4. /\ handler' \in [Handlers -> HandlerTasks]
          /\ listener' \in [Sockets -> ListenerTasks]
          /\ sent' \in [Sockets -> Nat]
      BY <2>9, <3>2, <3>3 DEF TypeOK, Open, Done
    <3> QED
      BY <2>9, <3>4 DEF TypeOK, Open
  <2>10. ASSUME NEW h \in Handlers, Insert(h) PROVE TypeOK'
    <3>1. handler[h].session \in Sessions /\ handler[h].client \in Clients
      BY <2>0, <2>10, TaskRecords DEF Insert
    <3>2. handler' \in [Handlers -> HandlerTasks]
      BY <2>10 DEF TypeOK, Insert, Done, HandlerTasks
    <3> QED
      BY <2>0, <2>10, <3>1, <3>2, WithType DEF TypeOK, Insert, traffic
  <2>11. ASSUME NEW s \in Sockets, Listen(s) PROVE TypeOK'
    <3> DEFINE k == listener[s]
    <3>1. /\ k.client \in Clients /\ k.session \in Sessions
          /\ k = [pc |-> k.pc, client |-> k.client, session |-> k.session]
      BY <2>0, <2>11, TaskRecords DEF Listen, Answer, ListenInsert, GiveUp, ListenRemove
    <3>2. \A p \in {"recv", "insert", "remove"}, e \in Sessions :
            [pc |-> p, client |-> k.client, session |-> e] \in ListenerTasks
      BY <3>1 DEF ListenerTasks
    <3>3. /\ [k EXCEPT !.pc = "remove"] = [pc |-> "remove", client |-> k.client,
                                           session |-> k.session]
          /\ [k EXCEPT !.pc = "recv"] = [pc |-> "recv", client |-> k.client,
                                         session |-> k.session]
      BY <3>1
    <3>4. [k EXCEPT !.pc = "remove"] \in ListenerTasks
      BY <3>1, <3>2, <3>3
    <3>5. CASE Answer(s)
      <4>1. [pc |-> "insert", client |-> k.client, session |-> Heard(k.session)]
              \in ListenerTasks
        BY <3>1, <3>2, <3>3, SessionTypes
      <4>2. listener' \in [Sockets -> ListenerTasks]
        BY <3>4, <3>5, <4>1 DEF TypeOK, Answer
      <4>3. received' \in [Sockets -> Nat]
        BY <3>5 DEF TypeOK, Answer
      <4> QED
        BY <3>5, <4>2, <4>3 DEF TypeOK, Answer
    <3>6. CASE ListenInsert(s)
      <4>1. [k EXCEPT !.pc = "recv"] \in ListenerTasks
        BY <3>1, <3>2, <3>3
      <4>2. listener' \in [Sockets -> ListenerTasks]
        BY <3>6, <4>1 DEF TypeOK, ListenInsert
      <4> QED
        BY <2>0, <3>1, <3>6, <4>2, WithType DEF TypeOK, ListenInsert, traffic
    <3>7. CASE GiveUp(s)
      BY <3>4, <3>7 DEF TypeOK, GiveUp, traffic
    <3>8. CASE ListenRemove(s)
      <4>1. listener' \in [Sockets -> ListenerTasks]
        BY <3>8 DEF TypeOK, ListenRemove, ListenerTasks
      <4> QED
        BY <2>0, <3>8, <4>1, WithoutType DEF TypeOK, ListenRemove, traffic
    <3> QED
      BY <2>11, <3>5, <3>6, <3>7, <3>8 DEF Listen
  <2>12. ASSUME NEW k \in Cleaners, CleanFind(k) PROVE TypeOK'
    <3>1. \A cs \in SUBSET Clients : [pc |-> "remove", expired |-> cs] \in CleanerTasks
      BY DEF CleanerTasks
    <3>2. [pc |-> "ended"] \in CleanerTasks
      BY DEF CleanerTasks
    <3>3. cleaner' \in [Cleaners -> CleanerTasks]
      BY <2>0, <2>12, <3>1, <3>2 DEF TypeOK, CleanFind
    <3> QED
      BY <2>12, <3>3 DEF TypeOK, CleanFind, traffic
  <2>13. ASSUME NEW k \in Cleaners, CleanRemove(k) PROVE TypeOK'
    <3>1. cleaner' \in [Cleaners -> CleanerTasks]
      BY <2>13 DEF TypeOK, CleanRemove, CleanerTasks
    <3> QED
      BY <2>0, <2>13, <3>1, WithoutType DEF TypeOK, CleanRemove, traffic
  <2> QED
    BY <2>1, <2>2, <2>3, <2>4, <2>5, <2>6, <2>7, <2>8, <2>9, <2>10, <2>11, <2>12, <2>13
       DEF Next, Handle, Clean
<1> QED
  BY <1>1, <1>2, PTL DEF Spec

-----------------------------------------------------------------------------
(***************************************************************************)
(* No copy of a session claims more than passed its socket, except for the *)
(* one datagram a handler is about to send; and a listener's copy names    *)
(* the socket it listens on.                                               *)
(***************************************************************************)
Honest(e) == e.sent <= sent[e.socket] /\ e.received <= received[e.socket]

HonestCopies ==
  /\ \A c \in DOMAIN active_sessions : Honest(active_sessions[c])
  /\ \A h \in Handlers :
       LET e == handler[h].session
       IN  /\ handler[h].pc = "insert" => Honest(e)
           /\ handler[h].pc = "send" =>
                e.sent <= sent[e.socket] + 1 /\ e.received <= received[e.socket]
  /\ \A s \in Sockets : Listening(s) => /\ Honest(listener[s].session)
                                  /\ listener[s].session.socket = s

(* What the three kinds of copies say, for steps that change only some.    *)
LEMMA HonestCopiesStep ==
  ASSUME TypeOK, HonestCopies, [Next]_vars
  PROVE  HonestCopies'
<1>0. /\ sent \in [Sockets -> Nat] /\ received \in [Sockets -> Nat]
      /\ \A c \in DOMAIN active_sessions : active_sessions[c] \in Sessions
      /\ handler \in [Handlers -> HandlerTasks]
      /\ listener \in [Sockets -> ListenerTasks]
  BY DEF TypeOK
<1>1. CASE UNCHANGED vars \/ Start \/ Stop \/ ReceiveCheck \/ ReceiveError
  BY <1>1 DEF vars, traffic, Start, Stop, ReceiveCheck, ReceiveError, HonestCopies, Honest,
     Listening
<1>2. CASE StopClear
  BY <1>2 DEF StopClear, WithoutThose, traffic, HonestCopies, Honest, Listening
<1>3. ASSUME NEW c \in Clients, Receive(c) PROVE HonestCopies'
  <2>1. \A h \in Handlers : handler'[h].pc \in {"send", "insert"} => handler'[h] = handler[h]
    BY <1>0, <1>3 DEF Receive
  <2> QED
    BY <1>3, <2>1 DEF Receive, HonestCopies, Honest, Listening
<1>4. ASSUME NEW c \in Clients, Age(c) PROVE HonestCopies'
  <2>1. \A k \in DOMAIN active_sessions' :
          /\ k \in DOMAIN active_sessions
          /\ active_sessions'[k].socket = active_sessions[k].socket
          /\ active_sessions'[k].sent = active_sessions[k].sent
          /\ active_sessions'[k].received = active_sessions[k].received
    BY <1>0, <1>4 DEF Age, With, Sessions
  <2> QED
    BY <1>4, <2>1 DEF Age, traffic, HonestCopies, Honest, Listening
<1>5. ASSUME NEW h \in Handlers, Lookup(h) PROVE HonestCopies'
  <2>1. \A g \in Handlers \ {h} : handler'[g] = handler[g]
    BY <1>0, <1>5 DEF Lookup
  <2>2. CASE handler[h].client \in DOMAIN active_sessions
    <3> DEFINE e == active_sessions[handler[h].client]
    <3>1. handler'[h].pc = "send" /\ handler'[h].session = Used(e)
      BY <1>0, <1>5, <2>2 DEF Lookup
    <3>2. e \in Sessions /\ Honest(e)
      BY <1>0, <2>2 DEF HonestCopies
    <3>3. /\ Used(e).sent <= sent[Used(e).socket] + 1
          /\ Used(e).received <= received[Used(e).socket]
      BY <1>0, <3>2 DEF Used, Honest, Sessions
    <3>4. /\ handler'[h].pc # "insert"
          /\ LET d == handler'[h].session
             IN  d.sent <= sent[d.socket] + 1 /\ d.received <= received[d.socket]
      BY <3>1, <3>3
    <3>5. /\ sent' = sent /\ received' = received
          /\ active_sessions' = active_sessions /\ listener' = listener
      BY <1>5 DEF Lookup, traffic
    <3> HIDE DEF e
    <3> QED
      BY <2>1, <3>4, <3>5 DEF HonestCopies, Honest, Listening
  <2>3. CASE handler[h].client \notin DOMAIN active_sessions
    <3>1. handler'[h].pc = "open"
      BY <1>0, <1>5, <2>3 DEF Lookup
    <3> QED
      BY <1>5, <2>1, <3>1 DEF Lookup, traffic, HonestCopies, Honest, Listening
  <2> QED
    BY <2>2, <2>3
<1>6. ASSUME \A s \in Sockets : sent'[s] >= sent[s] /\ sent'[s] \in Nat,
             received' = received, active_sessions' = active_sessions
      PROVE  /\ \A c \in DOMAIN active_sessions' : Honest(active_sessions[c])'
             /\ \A h \in Handlers : handler[h].pc = "insert" =>
                  /\ handler[h].session.sent <= sent'[handler[h].session.socket]
                  /\ handler[h].session.received <= received'[handler[h].session.socket]
             /\ \A h \in Handlers : handler[h].pc = "send" =>
                  /\ handler[h].session.sent <= sent'[handler[h].session.socket] + 1
                  /\ handler[h].session.received <= received'[handler[h].session.socket]
             /\ \A s \in Sockets : Listening(s) =>
                  /\ listener[s].session.sent <= sent'[s]
                  /\ listener[s].session.received <= received'[s]
  <2>1. \A e \in Sessions : Honest(e) =>
          e.sent <= sent'[e.socket] /\ e.received <= received'[e.socket]
    BY <1>0, <1>6 DEF Honest, Sessions
  <2>2. \A c \in DOMAIN active_sessions' : Honest(active_sessions[c])'
    BY <1>0, <1>6, <2>1 DEF HonestCopies, Honest
  <2>3. \A h \in Handlers : handler[h].pc \in {"send", "insert"} =>
          handler[h].session \in Sessions
    BY <1>0, TaskRecords
  <2>4. \A e \in Sessions : e.sent <= sent[e.socket] + 1 => e.sent <= sent'[e.socket] + 1
    BY <1>0, <1>6 DEF Sessions
  <2>5. \A s \in Sockets : Listening(s) => listener[s].session \in Sessions
    BY <1>0, TaskRecords DEF Listening
  <2> QED
    BY <1>6, <2>1, <2>2, <2>3, <2>4, <2>5 DEF HonestCopies
<1>7. ASSUME NEW h \in Handlers, Send(h) PROVE HonestCopies'
  <2> DEFINE e == handler[h].session
  <2>1. e \in Sessions
    BY <1>0, <1>7, TaskRecords DEF Send
  <2>2. \A s \in Sockets : sent'[s] >= sent[s] /\ sent'[s] \in Nat
    BY <1>0, <1>7, <2>1 DEF Send, Sessions
  <2>3. received' = received /\ active_sessions' = active_sessions /\ listener' = listener
    BY <1>7 DEF Send
  <2>4. \A g \in Handlers \ {h} : handler'[g] = handler[g]
    BY <1>0, <1>7 DEF Send, Done
  <2>5. \/ handler'[h].pc = "none"
        \/ /\ handler'[h].pc = "insert" /\ handler'[h].session = e
           /\ e.sent <= sent'[e.socket] /\ e.received <= received'[e.socket]
    <3>1. CASE Done(h)
      BY <1>0, <3>1 DEF Done, NoHandler
    <3>2. CASE /\ sent' = [sent EXCEPT ![e.socket] = @ + 1]
               /\ handler' = [handler EXCEPT ![h].pc = "insert"]
      <4>1. handler[h] = [pc |-> "send", client |-> handler[h].client, session |-> e]
        BY <1>0, <1>7, TaskRecords DEF Send
      <4>2. handler'[h].pc = "insert" /\ handler'[h].session = e
        BY <1>0, <3>2, <4>1
      <4>3. e.sent <= sent[e.socket] + 1 /\ e.received <= received[e.socket]
        BY <1>7 DEF Send, HonestCopies
      <4> QED
        BY <1>0, <2>1, <2>3, <3>2, <4>2, <4>3 DEF Sessions
    <3> QED
      BY <1>7, <3>1, <3>2 DEF Send
  <2> QED
    BY <1>6, <2>2, <2>3, <2>4, <2>5 DEF HonestCopies, Honest, Listening
<1>8. ASSUME NEW h \in Handlers, Open(h) PROVE HonestCopies'
  <2>0. \A g \in Handlers \ {h} : handler'[g] = handler[g]
    BY <1>0, <1>8 DEF Open, Done
  <2>1. CASE Done(h) /\ UNCHANGED <<sent, listener>>
    <3>1. handler'[h].pc = "none"
      BY <1>0, <2>1 DEF Done, NoHandler
    <3> QED
      BY <1>8, <2>0, <2>1, <3>1 DEF Open, HonestCopies, Honest, Listening
  <2>2. ASSUME NEW s \in Sockets,
               sent' = [sent EXCEPT ![s] = @ + 1],
               listener' = [listener EXCEPT ![s] =
                  [pc |-> "recv", client |-> handler[h].client, session |-> NewSession(s)]],
               handler' = [handler EXCEPT ![h] =
                  [pc |-> "insert", client |-> handler[h].client, session |-> NewSession(s)]]
        PROVE  HonestCopies'
    <3>1. \A r \in Sockets : sent'[r] >= sent[r] /\ sent'[r] \in Nat
      BY <1>0, <2>2
    <3>2. received' = received /\ active_sessions' = active_sessions
      BY <1>8 DEF Open
    <3>3. /\ handler'[h].pc = "insert" /\ handler'[h].session = NewSession(s)
          /\ listener'[s].session = NewSession(s)
          /\ \A r \in Sockets \ {s} : listener'[r] = listener[r]
      BY <1>0, <2>2
    <3>4. /\ NewSession(s).sent <= sent'[s] /\ NewSession(s).received <= received'[s]
          /\ NewSession(s).socket = s
      BY <1>0, <2>2, <3>2 DEF NewSession
    <3> QED
      BY <1>6, <2>0, <3>1, <3>2, <3>3, <3>4 DEF HonestCopies, Honest, Listening
  <2> QED
    BY <1>8, <2>1, <2>2 DEF Open
<1>9. ASSUME NEW h \in Handlers, Insert(h) PROVE HonestCopies'
  <2>1. \A g \in Handlers \ {h} : handler'[g] = handler[g]
    BY <1>0, <1>9 DEF Insert, Done
  <2>2. handler'[h].pc = "none"
    BY <1>0, <1>9 DEF Insert, Done, NoHandler
  <2>3. \A c \in DOMAIN active_sessions' : Honest(active_sessions'[c])
    BY <1>9 DEF Insert, With, HonestCopies
  <2> QED
    BY <1>9, <2>1, <2>2, <2>3 DEF Insert, traffic, HonestCopies, Honest, Listening
<1>10. ASSUME NEW s \in Sockets, Listen(s) PROVE HonestCopies'
  <2> DEFINE k == listener[s]
  <2>0. /\ Listening(s) /\ k.session \in Sessions
        /\ k = [pc |-> k.pc, client |-> k.client, session |-> k.session]
        /\ Honest(k.session) /\ k.session.socket = s
        /\ \A r \in Sockets \ {s} : listener'[r] = listener[r]
        /\ handler' = handler /\ sent' = sent
    <3>1. Listening(s)
      BY <1>10 DEF Listen, Answer, ListenInsert, GiveUp, ListenRemove, Listening
    <3>2. \A r \in Sockets \ {s} : listener'[r] = listener[r]
      BY <1>0, <1>10 DEF Listen, Answer, ListenInsert, GiveUp, ListenRemove
    <3>3. handler' = handler /\ sent' = sent
      BY <1>10 DEF Listen, Answer, ListenInsert, GiveUp, ListenRemove, traffic
    <3> QED
      BY <1>0, <3>1, <3>2, <3>3, TaskRecords DEF Listening, HonestCopies
  <2>1. CASE Answer(s)
    <3>1. \A r \in Sockets : received'[r] >= received[r] /\ received'[r] \in Nat
      BY <1>0, <2>1 DEF Answer
    <3>2. \A e \in Sessions : e.received <= received[e.socket] =>
                                e.received <= received'[e.socket]
      BY <1>0, <3>1 DEF Sessions
    <3>3. active_sessions' = active_sessions
      BY <2>1 DEF Answer
    <3>4. /\ listener'[s].session.socket = s
          /\ listener'[s].session.sent <= sent[s]
          /\ listener'[s].session.received <= received'[s]
      <4>1. CASE /\ received' = [received EXCEPT ![s] = @ + 1]
                 /\ listener' = [listener EXCEPT ![s] = [pc |-> "insert",
                      client |-> @.client, session |-> Heard(@.session)]]
        <5>1. listener'[s].session = Heard(k.session)
          BY <1>0, <4>1
        <5>2. /\ Heard(k.session).socket = s
              /\ Heard(k.session).sent = k.session.sent
              /\ Heard(k.session).received = k.session.received + 1
          BY <2>0 DEF Heard, Sessions
        <5> QED
          BY <1>0, <2>0, <4>1, <5>1, <5>2 DEF Honest, Sessions
      <4>2. CASE listener' = [listener EXCEPT ![s].pc = "remove"] /\ UNCHANGED received
        <5>1. listener'[s].session = k.session
          BY <1>0, <2>0, <4>2
        <5> QED
          BY <2>0, <4>2, <5>1 DEF Honest
      <4> QED
        BY <2>1, <4>1, <4>2 DEF Answer
    <3>5. /\ \A c \in DOMAIN active_sessions' : Honest(active_sessions[c])'
          /\ \A h \in Handlers :
               LET e == handler[h].session
               IN  /\ handler[h].pc = "insert" => Honest(e)'
                   /\ handler[h].pc = "send" =>
                        e.sent <= sent[e.socket] + 1 /\ e.received <= received'[e.socket]
      <4>1. \A h \in Handlers : handler[h].pc \in {"send", "insert"} =>
              handler[h].session \in Sessions
        BY <1>0, TaskRecords
      <4> QED
        BY <1>0, <2>0, <3>2, <3>3, <4>1 DEF HonestCopies, Honest
    <3>6. \A r \in Sockets \ {s} : Listening(r) =>
            /\ listener[r].session.sent <= sent[r]
            /\ listener[r].session.received <= received'[r]
            /\ listener[r].session.socket = r
      <4>1. \A r \in Sockets : Listening(r) => listener[r].session \in Sessions
        BY <1>0, TaskRecords DEF Listening
      <4> QED
        BY <3>2, <4>1 DEF HonestCopies, Honest
    <3> QED
      BY <2>0, <3>4, <3>5, <3>6 DEF HonestCopies, Honest, Listening
  <2>2. CASE ListenInsert(s)
    <3>1. listener'[s].session = k.session
      BY <1>0, <2>0, <2>2 DEF ListenInsert
    <3>2. \A c \in DOMAIN active_sessions' : Honest(active_sessions'[c])
      BY <2>0, <2>2 DEF ListenInsert, With, HonestCopies
    <3> QED
      BY <2>0, <2>2, <3>1, <3>2 DEF ListenInsert, traffic, HonestCopies, Honest, Listening
  <2>3. CASE GiveUp(s)
    <3>1. listener'[s].session = k.session
      BY <1>0, <2>0, <2>3 DEF GiveUp
    <3> QED
      BY <2>0, <2>3, <3>1 DEF GiveUp, traffic, HonestCopies, Honest, Listening
  <2>4. CASE ListenRemove(s)
    <3>1. listener'[s].pc = "closed"
      BY <1>0, <2>4 DEF ListenRemove, Closed
    <3>2. \A c \in DOMAIN active_sessions' : Honest(active_sessions'[c])
      BY <2>4 DEF ListenRemove, WithoutThose, HonestCopies
    <3>3. /\ handler' = handler /\ sent' = sent /\ received' = received
      BY <2>4 DEF ListenRemove, traffic
    <3>4. \A r \in Sockets : Listening(r)' => r # s /\ Listening(r)
      BY <2>0, <3>1 DEF Listening
    <3>5. \A c \in DOMAIN active_sessions' : Honest(active_sessions[c])'
      BY <3>2, <3>3 DEF Honest
    <3> QED
      BY <2>0, <3>3, <3>4, <3>5 DEF HonestCopies, Honest
  <2> QED
    BY <1>10, <2>1, <2>2, <2>3, <2>4 DEF Listen
<1>11. ASSUME NEW k \in Cleaners, Clean(k) PROVE HonestCopies'
  BY <1>11 DEF Clean, CleanFind, CleanRemove, WithoutThose, traffic, HonestCopies, Honest,
     Listening
<1> QED
  BY <1>1, <1>2, <1>3, <1>4, <1>5, <1>7, <1>8, <1>9, <1>10, <1>11 DEF Next, Handle

(* No interleaving of handlers, listeners, cleaners and restarts makes the *)
(* table claim a datagram that did not pass.                               *)
THEOREM NeverOvercountsHolds == Spec => []NeverOvercounts
<1>1. Init => HonestCopies
  BY DEF Init, HonestCopies, NoHandler, Unopened, Listening
<1>2. TypeOK /\ HonestCopies /\ [Next]_vars => HonestCopies'
  BY HonestCopiesStep
<1>3. HonestCopies => NeverOvercounts
  BY DEF HonestCopies, Honest, NeverOvercounts
<1> QED
  BY <1>1, <1>2, <1>3, Typing, PTL DEF Spec

-----------------------------------------------------------------------------
(***************************************************************************)
(* One socket at a time.  Of a client that is not crossed, one handler is  *)
(* at work at most; while a listener of it lives, the table and every copy *)
(* name the listener's socket, and a handler that has found no session may *)
(* open one because there is none, nor will a cleaner remove one.          *)
(***************************************************************************)
At(h, c) == handler[h].pc # "none" /\ handler[h].client = c
HasSession(h) == handler[h].pc \in {"send", "insert"}
Removes(k, c) == cleaner[k].pc = "remove" /\ c \in cleaner[k].expired

(* Sessions name sockets that were opened; one that is old, a closed one. *)
SocketsInv ==
  /\ \A c \in DOMAIN active_sessions :
       /\ listener[active_sessions[c].socket] # Unopened
       /\ active_sessions[c].old => ~Listening(active_sessions[c].socket)
  /\ \A h \in Handlers : HasSession(h) =>
       listener[handler[h].session.socket] # Unopened /\ ~handler[h].session.old
  /\ \A s \in Sockets : Listening(s) => listener[s].session.socket = s /\ ~listener[s].session.old

(* Until a stop there is one cleaner at most. *)
CleanerInv ==
  Clients \ crossed # {} =>
    /\ ~running /\ ~stopping => \A k \in Cleaners : cleaner[k].pc = "unborn"
    /\ \A j, k \in Cleaners : cleaner[j].pc # "unborn" /\ cleaner[k].pc # "unborn" => j = k

HandlersInOrder(c) ==
  /\ \A g, h \in Handlers : At(g, c) /\ At(h, c) => g = h
  /\ \A h \in Handlers : At(h, c) /\ c \in DOMAIN active_sessions =>
       /\ handler[h].pc # "open"
       /\ HasSession(h) => active_sessions[c].socket = handler[h].session.socket

SocketInOrder(c, s) ==
  /\ \A r \in ListeningSockets(c) : r = s
  /\ \A h \in Handlers : At(h, c) =>
       handler[h].pc # "open" /\ (HasSession(h) => handler[h].session.socket = s)
  /\ IF c \in DOMAIN active_sessions
       THEN active_sessions[c].socket = s
       ELSE \E h \in Handlers : At(h, c) /\ handler[h].pc = "insert"

CleanersInOrder(c) ==
  \A k \in Cleaners : Removes(k, c) => c \in DOMAIN active_sessions /\ ListeningSockets(c) = {}

InOrder(c) ==
  /\ HandlersInOrder(c)
  /\ \A s \in ListeningSockets(c) : SocketInOrder(c, s)
  /\ CleanersInOrder(c)

OrderInv == SocketsInv /\ CleanerInv /\ \A c \in Clients \ crossed : InOrder(c)

(* Another client's steps, and steps that change nothing of what is said   *)
(* of c, keep its order.                                                   *)
LEMMA Undisturbed ==
  ASSUME NEW c \in Clients, InOrder(c),
         \A h \in Handlers : /\ At(h, c)' => At(h, c)
                             /\ At(h, c) => handler'[h] = handler[h],
         c \in DOMAIN active_sessions' <=> c \in DOMAIN active_sessions,
         c \in DOMAIN active_sessions =>
           active_sessions'[c].socket = active_sessions[c].socket,
         ListeningSockets(c)' = ListeningSockets(c),
         \A k \in Cleaners : Removes(k, c)' => Removes(k, c)
  PROVE  InOrder(c)'
<1>1. \A h \in Handlers : At(h, c)' <=> At(h, c)
  BY DEF At
<1>2. HandlersInOrder(c)'
  BY <1>1 DEF InOrder, HandlersInOrder, HasSession
<1>3. ASSUME NEW s \in ListeningSockets(c) PROVE SocketInOrder(c, s)'
  BY <1>1, <1>3 DEF InOrder, SocketInOrder, HasSession
<1>4. CleanersInOrder(c)'
  BY DEF InOrder, CleanersInOrder
<1> QED
  BY <1>2, <1>3, <1>4 DEF InOrder

-----------------------------------------------------------------------------
(* What the tasks do, in terms of the order. *)
LEMMA HandleEffect ==
  ASSUME TypeOK, NEW h \in Handlers, Handle(h)
  PROVE  /\ handler[h].client \in Clients /\ handler[h].pc # "none"
         /\ \A g \in Handlers \ {h} : handler'[g] = handler[g]
         /\ UNCHANGED <<running, stopping, cleaner, crossed>>
         /\ LET c == handler[h].client
            IN  \/ /\ handler[h].pc = "lookup" /\ UNCHANGED <<active_sessions, listener>>
                   /\ c \in DOMAIN active_sessions
                   /\ handler'[h].pc = "send" /\ handler'[h].client = c
                   /\ handler'[h].session.socket = active_sessions[c].socket
                   /\ ~handler'[h].session.old
                \/ /\ handler[h].pc = "lookup" /\ UNCHANGED <<active_sessions, listener>>
                   /\ c \notin DOMAIN active_sessions
                   /\ handler'[h].pc = "open" /\ handler'[h].client = c
                \/ /\ handler[h].pc = "send" /\ UNCHANGED <<active_sessions, listener>>
                   /\ handler'[h].pc = "insert" /\ handler'[h].client = c
                   /\ handler'[h].session = handler[h].session
                \/ /\ handler[h].pc \in {"send", "open"}
                   /\ UNCHANGED <<active_sessions, listener>>
                   /\ handler'[h].pc = "none"
                \/ /\ handler[h].pc = "open" /\ UNCHANGED active_sessions
                   /\ \E s \in Sockets :
                        /\ listener[s] = Unopened
                        /\ listener' = [listener EXCEPT ![s] =
                             [pc |-> "recv", client |-> c, session |-> NewSession(s)]]
                        /\ handler'[h].pc = "insert" /\ handler'[h].client = c
                        /\ handler'[h].session = NewSession(s)
                \/ /\ handler[h].pc = "insert" /\ UNCHANGED listener
                   /\ handler[h].session \in Sessions
                   /\ active_sessions' = With(c, handler[h].session)
                   /\ handler'[h].pc = "none"
<1>1. handler \in [Handlers -> HandlerTasks] /\ handler[h] \in HandlerTasks
  BY DEF TypeOK
<1>2. UNCHANGED <<running, stopping, cleaner, crossed>>
  BY DEF Handle, Lookup, Send, Open, Insert
<1>3. \A g \in Handlers \ {h} : handler'[g] = handler[g]
  BY <1>1 DEF Handle, Lookup, Send, Open, Insert, Done
<1>4. handler[h].pc \in {"lookup", "send", "open", "insert"} /\ handler[h].client \in Clients
  <2>1. handler[h].pc \in {"lookup", "send", "open", "insert"}
    BY DEF Handle, Lookup, Send, Open, Insert
  <2> QED
    BY <1>1, <2>1, TaskRecords
<1>5. Done(h) => handler'[h].pc = "none"
  BY <1>1 DEF Done, NoHandler
<1>6. CASE Lookup(h)
  BY <1>1, <1>2, <1>3, <1>4, <1>6 DEF Lookup, Used
<1>7. CASE Send(h)
  <2>1. handler[h] = [pc |-> "send", client |-> handler[h].client, session |-> handler[h].session]
    BY <1>1, <1>7, TaskRecords DEF Send
  <2> QED
    BY <1>1, <1>2, <1>3, <1>4, <1>5, <1>7, <2>1 DEF Send
<1>8. CASE Open(h)
  BY <1>1, <1>2, <1>3, <1>4, <1>5, <1>8 DEF Open
<1>9. CASE Insert(h)
  <2>1. handler[h].session \in Sessions
    BY <1>1, <1>9, TaskRecords DEF Insert
  <2> QED
    BY <1>1, <1>2, <1>3, <1>4, <1>5, <1>9, <2>1 DEF Insert
<1> QED
  BY <1>6, <1>7, <1>8, <1>9 DEF Handle

LEMMA ListenEffect ==
  ASSUME TypeOK, NEW s \in Sockets, Listen(s)
  PROVE  /\ Listening(s) /\ listener[s].client \in Clients /\ listener[s].session \in Sessions
         /\ \A r \in Sockets \ {s} : listener'[r] = listener[r]
         /\ UNCHANGED <<running, stopping, handler, cleaner, crossed>>
         /\ \/ /\ Listening(s)' /\ listener'[s].client = listener[s].client
               /\ listener'[s].session.socket = listener[s].session.socket
               /\ listener'[s].session.old = listener[s].session.old
               /\ \/ UNCHANGED active_sessions
                  \/ active_sessions' = With(listener[s].client, listener[s].session)
            \/ /\ listener'[s] = Closed
               /\ active_sessions' = WithoutThose({listener[s].client})
<1> DEFINE k == listener[s]
<1>1. listener \in [Sockets -> ListenerTasks] /\ k \in ListenerTasks
  BY DEF TypeOK
<1>2. Listening(s)
  BY DEF Listen, Answer, ListenInsert, GiveUp, ListenRemove, Listening
<1>3. /\ k.client \in Clients /\ k.session \in Sessions
      /\ k = [pc |-> k.pc, client |-> k.client, session |-> k.session]
  BY <1>1, <1>2, TaskRecords DEF Listening
<1>4. \A r \in Sockets \ {s} : listener'[r] = listener[r]
  BY <1>1 DEF Listen, Answer, ListenInsert, GiveUp, ListenRemove
<1>5. UNCHANGED <<running, stopping, handler, cleaner, crossed>>
  BY DEF Listen, Answer, ListenInsert, GiveUp, ListenRemove, traffic
<1>6. \A p : [k EXCEPT !.pc = p] = [pc |-> p, client |-> k.client, session |-> k.session]
  BY <1>3
<1>7. CASE Answer(s)
  <2>1. Heard(k.session).socket = k.session.socket /\ Heard(k.session).old = k.session.old
    BY <1>3 DEF Heard, Sessions
  <2>2. \/ listener'[s] = [pc |-> "insert", client |-> k.client, session |-> Heard(k.session)]
        \/ listener'[s] = [k EXCEPT !.pc = "remove"]
    BY <1>1, <1>7 DEF Answer
  <2>3. active_sessions' = active_sessions
    BY <1>7 DEF Answer
  <2> QED
    BY <1>2, <1>3, <1>4, <1>5, <1>6, <2>1, <2>2, <2>3 DEF Listening
<1>8. CASE ListenInsert(s)
  <2>1. listener'[s] = [k EXCEPT !.pc = "recv"]
    BY <1>1, <1>8 DEF ListenInsert
  <2> QED
    BY <1>2, <1>3, <1>4, <1>5, <1>6, <1>8, <2>1 DEF ListenInsert, Listening
<1>9. CASE GiveUp(s)
  <2>1. listener'[s] = [k EXCEPT !.pc = "remove"]
    BY <1>1, <1>9 DEF GiveUp
  <2> QED
    BY <1>2, <1>3, <1>4, <1>5, <1>6, <1>9, <2>1 DEF GiveUp, Listening
<1>10. CASE ListenRemove(s)
  BY <1>1, <1>2, <1>3, <1>4, <1>5, <1>10 DEF ListenRemove
<1> QED
  BY <1>7, <1>8, <1>9, <1>10 DEF Listen

LEMMA NewSessionFacts ==
  \A s : NewSession(s).socket = s /\ ~NewSession(s).old
BY DEF NewSession

-----------------------------------------------------------------------------
(* Sessions name sockets that were opened, and what was closed stays so. *)
LEMMA OpenedStays ==
  ASSUME TypeOK, [Next]_vars, NEW s \in Sockets, listener[s] # Unopened
  PROVE  listener'[s] # Unopened /\ (Listening(s)' => Listening(s))
<1>0. listener \in [Sockets -> ListenerTasks]
  BY DEF TypeOK
<1>1. ASSUME NEW h \in Handlers, Handle(h) PROVE listener'[s] = listener[s]
  <2>1. \/ listener' = listener
        \/ \E r \in Sockets : \E k : listener[r] = Unopened /\ listener' = [listener EXCEPT ![r] = k]
    BY <1>1, HandleEffect
  <2> QED
    BY <1>0, <2>1
<1>2. ASSUME NEW r \in Sockets, Listen(r)
      PROVE  listener'[s] # Unopened /\ (Listening(s)' => Listening(s))
  <2>1. \/ r # s /\ listener'[s] = listener[s]
        \/ r = s /\ Listening(s) /\ (Listening(s)' \/ listener'[s] = Closed)
    BY <1>2, ListenEffect
  <2> QED
    BY <2>1 DEF Listening, Unopened, Closed
<1>3. CASE UNCHANGED listener
  BY <1>3 DEF Listening
<1> QED
  BY <1>1, <1>2, <1>3 DEF Next, vars, Listening, Start, Stop, StopClear, ReceiveCheck,
     ReceiveError, Receive, Age,
     Clean, CleanFind, CleanRemove

LEMMA SocketsStep ==
  ASSUME TypeOK, SocketsInv, [Next]_vars
  PROVE  SocketsInv'
<1>0. /\ DOMAIN active_sessions \subseteq Clients
      /\ \A c \in DOMAIN active_sessions : active_sessions[c] \in Sessions
      /\ handler \in [Handlers -> HandlerTasks]
      /\ listener \in [Sockets -> ListenerTasks]
      /\ \A e \in Sessions : e.socket \in Sockets
  BY DEF TypeOK, Sessions
<1>1. \A s \in Sockets : listener[s] # Unopened =>
        listener'[s] # Unopened /\ (Listening(s)' => Listening(s))
  BY OpenedStays
<1> DEFINE Good(e) == listener[e.socket] # Unopened /\ (e.old => ~Listening(e.socket))
<1>2. ASSUME NEW e \in Sessions, Good(e)
      PROVE  Good(e)'
  BY <1>0, <1>1, <1>2
<1>3. \A c \in DOMAIN active_sessions : Good(active_sessions[c])
  BY DEF SocketsInv
<1>4. \A h \in Handlers : HasSession(h) =>
        handler[h].session \in Sessions /\ Good(handler[h].session) /\ ~handler[h].session.old
  <2>1. \A h \in Handlers : HasSession(h) => handler[h].session \in Sessions
    BY <1>0, TaskRecords DEF HasSession
  <2> QED
    BY <2>1 DEF SocketsInv
<1>5. \A s \in Sockets : Listening(s) => Good(listener[s].session) /\ listener[s].session \in Sessions
  <2>1. \A s \in Sockets : Listening(s) => listener[s].session \in Sessions /\ listener[s] # Unopened
    BY <1>0, TaskRecords DEF Listening, Unopened
  <2> QED
    BY <2>1 DEF SocketsInv
<1> DEFINE TableGood == \A c \in DOMAIN active_sessions : Good(active_sessions[c])
<1>6. TableGood'
  <2>1. CASE active_sessions' = active_sessions
    BY <1>0, <1>2, <1>3, <2>1
  <2>2. ASSUME NEW cs, active_sessions' = WithoutThose(cs)
        PROVE  TableGood'
    BY <1>0, <1>2, <1>3, <2>2 DEF WithoutThose
  <2>3. ASSUME NEW c, NEW e \in Sessions, Good(e), active_sessions' = With(c, e)
        PROVE  TableGood'
    BY <1>0, <1>2, <1>3, <2>3 DEF With
  <2>4. ASSUME NEW c \in Clients, Age(c) PROVE TableGood'
    <3> DEFINE old == [active_sessions[c] EXCEPT !.old = TRUE]
    <3>1. active_sessions[c] \in Sessions /\ Good(active_sessions[c]) /\ ~Listening(active_sessions[c].socket)
      BY <1>0, <1>3, <2>4 DEF Age
    <3>2. old \in Sessions /\ old.socket = active_sessions[c].socket
      BY <3>1, SessionTypes DEF Sessions
    <3>3. Good(old)
      BY <3>1, <3>2
    <3> QED
      BY <2>3, <2>4, <3>2, <3>3 DEF Age
  <2>5. ASSUME NEW h \in Handlers, Handle(h) PROVE TableGood'
    <3>1. \/ active_sessions' = active_sessions
          \/ /\ handler[h].pc = "insert"
             /\ active_sessions' = With(handler[h].client, handler[h].session)
      BY <2>5, HandleEffect
    <3> QED
      BY <1>4, <2>1, <2>3, <3>1 DEF HasSession
  <2>6. ASSUME NEW s \in Sockets, Listen(s) PROVE TableGood'
    <3>1. /\ Listening(s)
          /\ \/ active_sessions' = active_sessions
             \/ active_sessions' = With(listener[s].client, listener[s].session)
             \/ active_sessions' = WithoutThose({listener[s].client})
      BY <2>6, ListenEffect
    <3>2. Good(listener[s].session) /\ listener[s].session \in Sessions
      BY <1>5, <3>1
    <3> HIDE DEF Good, TableGood
    <3> QED
      BY <2>1, <2>2, <2>3, <3>1, <3>2
  <2>7. CASE StopClear
    BY <2>2, <2>7 DEF StopClear
  <2>8. ASSUME NEW k \in Cleaners, Clean(k) PROVE TableGood'
    BY <2>1, <2>2, <2>8 DEF Clean, CleanFind, CleanRemove
  <2> QED
    BY <2>1, <2>4, <2>5, <2>6, <2>7, <2>8 DEF Next, vars, Start, Stop, ReceiveCheck,
       ReceiveError, Receive
<1> DEFINE CopyGood(h) == listener[handler[h].session.socket] # Unopened /\ ~handler[h].session.old
<1>7. ASSUME NEW h \in Handlers, HasSession(h)' PROVE CopyGood(h)'
  <2>1. CASE handler'[h] = handler[h]
    BY <1>2, <1>4, <1>7, <2>1 DEF HasSession
  <2>2. ASSUME NEW g \in Handlers, Handle(g) PROVE CopyGood(h)'
    <3>1. CASE g # h
      BY <2>1, <2>2, <3>1, HandleEffect
    <3>2. CASE g = h
      <4>1. \/ \E e \in Sessions : /\ Good(e)
                                   /\ handler'[h].session.socket = e.socket
                                   /\ ~handler'[h].session.old
            \/ \E s \in Sockets : \E c :
                 /\ listener'[s] = [pc |-> "recv", client |-> c, session |-> NewSession(s)]
                 /\ handler'[h].session = NewSession(s)
        <5>1. \/ /\ handler[h].client \in DOMAIN active_sessions
                 /\ handler'[h].session.socket = active_sessions[handler[h].client].socket
                 /\ ~handler'[h].session.old
              \/ handler[h].pc = "send" /\ handler'[h].session = handler[h].session
              \/ \E s \in Sockets :
                   /\ listener' = [listener EXCEPT ![s] =
                        [pc |-> "recv", client |-> handler[h].client, session |-> NewSession(s)]]
                   /\ handler'[h].session = NewSession(s)
          BY <1>7, <2>2, <3>2, HandleEffect DEF HasSession
        <5> QED
          BY <1>0, <1>3, <1>4, <5>1 DEF HasSession
      <4>2. CASE \E e \in Sessions : /\ Good(e)
                                     /\ handler'[h].session.socket = e.socket
                                     /\ ~handler'[h].session.old
        BY <1>2, <4>2
      <4>3. ASSUME NEW s \in Sockets, NEW c,
                   listener'[s] = [pc |-> "recv", client |-> c, session |-> NewSession(s)],
                   handler'[h].session = NewSession(s)
            PROVE  CopyGood(h)'
        <5>1. listener'[s].pc = "recv" /\ Unopened.pc = "unopened"
          BY <4>3 DEF Unopened
        <5>2. handler'[h].session.socket = s /\ ~handler'[h].session.old
          BY <4>3, NewSessionFacts
        <5> QED
          BY <5>1, <5>2
      <4> QED
        BY <4>1, <4>2, <4>3
    <3> QED
      BY <3>1, <3>2
  <2>3. ASSUME NEW c \in Clients, Receive(c) PROVE handler'[h] = handler[h]
    BY <1>0, <1>7, <2>3 DEF Receive, HasSession
  <2>4. ASSUME NEW s \in Sockets, Listen(s) PROVE handler'[h] = handler[h]
    BY <2>4, ListenEffect
  <2> QED
    BY <2>1, <2>2, <2>3, <2>4
       DEF Next, vars, Start, Stop, StopClear, ReceiveCheck, ReceiveError, Age, Clean,
          CleanFind, CleanRemove
<1> DEFINE OwnSocket(s) == listener[s].session.socket = s /\ ~listener[s].session.old
<1>8. ASSUME NEW s \in Sockets, Listening(s)' PROVE OwnSocket(s)'
  <2>1. CASE listener'[s] = listener[s]
    BY <1>8, <2>1 DEF SocketsInv, Listening
  <2>2. ASSUME NEW h \in Handlers, Handle(h) PROVE OwnSocket(s)'
    <3>1. \/ listener' = listener
          \/ \E r \in Sockets : \E c : listener' = [listener EXCEPT ![r] =
               [pc |-> "recv", client |-> c, session |-> NewSession(r)]]
      BY <2>2, HandleEffect
    <3> QED
      BY <1>0, <2>1, <3>1, NewSessionFacts
  <2>3. ASSUME NEW r \in Sockets, Listen(r) PROVE OwnSocket(s)'
    <3>1. CASE r # s
      BY <2>1, <2>3, <3>1, ListenEffect
    <3>2. CASE r = s
      <4>1. ~(listener'[s] = Closed)
        BY <1>8 DEF Listening, Closed
      <4>2. /\ Listening(s) /\ listener'[s].session.socket = listener[s].session.socket
            /\ listener'[s].session.old = listener[s].session.old
        BY <2>3, <3>2, <4>1, ListenEffect
      <4> QED
        BY <4>2 DEF SocketsInv
    <3> QED
      BY <3>1, <3>2
  <2> QED
    BY <2>1, <2>2, <2>3 DEF Next, vars, Start, Stop, StopClear, ReceiveCheck, ReceiveError,
       Receive, Age, Clean,
       CleanFind, CleanRemove
<1> QED
  BY <1>6, <1>7, <1>8 DEF SocketsInv

LEMMA CleanerStep ==
  ASSUME TypeOK, CleanerInv, [Next]_vars
  PROVE  CleanerInv'
<1> DEFINE OneCleaner ==
             /\ ~running /\ ~stopping => \A k \in Cleaners : cleaner[k].pc = "unborn"
             /\ \A j, k \in Cleaners :
                  cleaner[j].pc # "unborn" /\ cleaner[k].pc # "unborn" => j = k
<1> SUFFICES ASSUME Clients \ crossed' # {} PROVE OneCleaner'
  BY DEF CleanerInv
<1>0. cleaner \in [Cleaners -> CleanerTasks]
  BY DEF TypeOK
<1>1. ~StopClear
  BY DEF StopClear
<1>2. crossed \subseteq crossed'
  <2>1. ASSUME NEW c \in Clients, Receive(c) PROVE crossed \subseteq crossed'
    BY <2>1 DEF Receive
  <2>2. ASSUME NEW h \in Handlers, Handle(h) PROVE crossed' = crossed
    BY <2>2, HandleEffect
  <2>3. ASSUME NEW s \in Sockets, Listen(s) PROVE crossed' = crossed
    BY <2>3, ListenEffect
  <2> QED
    BY <1>1, <2>1, <2>2, <2>3 DEF Next, vars, Start, Stop, ReceiveCheck, ReceiveError, Age,
       Clean, CleanFind,
       CleanRemove
<1>3. OneCleaner
  BY <1>2 DEF CleanerInv
<1>4. CASE Start
  <2>1. \/ cleaner' = cleaner
        \/ \E k \in Cleaners : cleaner' = [cleaner EXCEPT ![k] = [pc |-> "sleep"]]
    BY <1>4 DEF Start
  <2>2. running' /\ \A k \in Cleaners : cleaner[k].pc = "unborn"
    BY <1>3, <1>4 DEF Start
  <2> QED
    BY <1>0, <2>1, <2>2
<1>5. ASSUME NEW k \in Cleaners, Clean(k) PROVE OneCleaner'
  <2>1. /\ cleaner[k].pc # "unborn" /\ UNCHANGED <<running, stopping>>
        /\ \A j \in Cleaners \ {k} : cleaner'[j] = cleaner[j]
    BY <1>0, <1>5 DEF Clean, CleanFind, CleanRemove
  <2> QED
    BY <1>3, <2>1
<1>6. CASE Stop
  BY <1>3, <1>6 DEF Stop
<1>7. CASE UNCHANGED <<running, stopping, cleaner>>
  BY <1>3, <1>7
<1>8. ASSUME NEW h \in Handlers, Handle(h) PROVE UNCHANGED <<running, stopping, cleaner>>
  BY <1>8, HandleEffect
<1>9. ASSUME NEW s \in Sockets, Listen(s) PROVE UNCHANGED <<running, stopping, cleaner>>
  BY <1>9, ListenEffect
<1> QED
  BY <1>1, <1>4, <1>5, <1>6, <1>7, <1>8, <1>9 DEF Next, vars, ReceiveCheck, ReceiveError,
     Receive, Age

(* The steps of c's own handlers. *)
LEMMA HandlerKeepsOrder ==
  ASSUME TypeOK, NEW h \in Handlers, Handle(h),
         NEW c \in Clients, c = handler[h].client, InOrder(c)
  PROVE  InOrder(c)'
<1>0. /\ At(h, c) /\ listener \in [Sockets -> ListenerTasks]
      /\ \A g \in Handlers \ {h} : handler'[g] = handler[g]
      /\ cleaner' = cleaner
  BY HandleEffect DEF At, TypeOK
<1>1. \A g \in Handlers : At(g, c) => g = h
  BY <1>0 DEF InOrder, HandlersInOrder
<1>2. \A g \in Handlers : At(g, c)' => g = h
  BY <1>0, <1>1 DEF At
<1>3. \A k \in Cleaners : Removes(k, c)' <=> Removes(k, c)
  BY <1>0 DEF Removes
<1>4. /\ c \in DOMAIN active_sessions =>
           /\ handler[h].pc # "open"
           /\ HasSession(h) => active_sessions[c].socket = handler[h].session.socket
      /\ \A s \in ListeningSockets(c) :
           /\ \A r \in ListeningSockets(c) : r = s
           /\ handler[h].pc # "open"
           /\ HasSession(h) => handler[h].session.socket = s
           /\ c \in DOMAIN active_sessions => active_sessions[c].socket = s
           /\ c \notin DOMAIN active_sessions => handler[h].pc = "insert"
      /\ \A k \in Cleaners : Removes(k, c) =>
           c \in DOMAIN active_sessions /\ ListeningSockets(c) = {}
  BY <1>0, <1>1 DEF InOrder, HandlersInOrder, SocketInOrder, CleanersInOrder
(* It is enough to say the same of the next state. *)
<1>5. ASSUME c \in DOMAIN active_sessions' /\ handler'[h].pc # "none" =>
               /\ handler'[h].pc # "open"
               /\ HasSession(h)' => active_sessions'[c].socket = handler'[h].session.socket,
             \A s \in ListeningSockets(c)' :
               /\ \A r \in ListeningSockets(c)' : r = s
               /\ handler'[h].pc # "open"
               /\ HasSession(h)' => handler'[h].session.socket = s
               /\ c \in DOMAIN active_sessions' => active_sessions'[c].socket = s
               /\ c \notin DOMAIN active_sessions' =>
                    handler'[h].pc = "insert" /\ handler'[h].client = c,
             \A k \in Cleaners : Removes(k, c) =>
               c \in DOMAIN active_sessions' /\ ListeningSockets(c)' = {}
      PROVE  InOrder(c)'
  <2>1. HandlersInOrder(c)'
    BY <1>2, <1>5 DEF HandlersInOrder, At
  <2>2. \A s \in ListeningSockets(c)' : SocketInOrder(c, s)'
    BY <1>2, <1>5 DEF SocketInOrder, At
  <2>3. CleanersInOrder(c)'
    BY <1>3, <1>5 DEF CleanersInOrder
  <2> QED
    BY <2>1, <2>2, <2>3 DEF InOrder
<1>6. ASSUME listener' = listener PROVE ListeningSockets(c)' = ListeningSockets(c)
  BY <1>6 DEF ListeningSockets, Listening
<1>7. CASE /\ handler[h].pc = "lookup" /\ UNCHANGED <<active_sessions, listener>>
           /\ c \in DOMAIN active_sessions
           /\ handler'[h].pc = "send" /\ handler'[h].client = c
           /\ handler'[h].session.socket = active_sessions[c].socket
  BY <1>4, <1>5, <1>6, <1>7
<1>8. CASE /\ handler[h].pc = "lookup" /\ UNCHANGED <<active_sessions, listener>>
           /\ c \notin DOMAIN active_sessions
           /\ handler'[h].pc = "open" /\ handler'[h].client = c
  BY <1>4, <1>5, <1>6, <1>8 DEF HasSession
<1>9. CASE /\ handler[h].pc = "send" /\ UNCHANGED <<active_sessions, listener>>
           /\ handler'[h].pc = "insert" /\ handler'[h].client = c
           /\ handler'[h].session = handler[h].session
  BY <1>4, <1>5, <1>6, <1>9 DEF HasSession
<1>10. CASE /\ handler[h].pc \in {"send", "open"} /\ UNCHANGED <<active_sessions, listener>>
            /\ handler'[h].pc = "none"
  BY <1>4, <1>5, <1>6, <1>10 DEF HasSession
<1>11. ASSUME handler[h].pc = "open", active_sessions' = active_sessions,
              NEW s \in Sockets,
              listener' = [listener EXCEPT ![s] =
                [pc |-> "recv", client |-> c, session |-> NewSession(s)]],
              handler'[h].pc = "insert", handler'[h].client = c,
              handler'[h].session = NewSession(s)
       PROVE  InOrder(c)'
  <2>1. ListeningSockets(c) = {} /\ c \notin DOMAIN active_sessions
    BY <1>4, <1>11
  <2>2. ListeningSockets(c)' \subseteq {s}
    BY <1>0, <1>11, <2>1 DEF ListeningSockets, Listening
  <2> QED
    BY <1>4, <1>5, <1>11, <2>1, <2>2, NewSessionFacts DEF HasSession
<1>12. CASE /\ handler[h].pc = "insert" /\ UNCHANGED listener
            /\ active_sessions' = With(c, handler[h].session)
            /\ handler'[h].pc = "none"
  <2>1. c \in DOMAIN active_sessions' /\ active_sessions'[c].socket = handler[h].session.socket
    BY <1>12 DEF With
  <2> QED
    BY <1>4, <1>5, <1>6, <1>12, <2>1 DEF HasSession
<1> QED
  BY <1>7, <1>8, <1>9, <1>10, <1>11, <1>12, HandleEffect

(* The steps of c's own listeners. *)
LEMMA ListenerKeepsOrder ==
  ASSUME TypeOK, SocketsInv, NEW s \in Sockets, Listen(s),
         NEW c \in Clients, c = listener[s].client, InOrder(c)
  PROVE  InOrder(c)'
<1>0. /\ s \in ListeningSockets(c) /\ listener[s].session.socket = s
      /\ handler' = handler /\ cleaner' = cleaner
      /\ \A r \in Sockets \ {s} : listener'[r] = listener[r]
  BY ListenEffect DEF ListeningSockets, SocketsInv
<1>1. \A h \in Handlers : At(h, c)' <=> At(h, c)
  BY <1>0 DEF At
<1>2. SocketInOrder(c, s) /\ HandlersInOrder(c)
  BY <1>0 DEF InOrder
<1>3. \A k \in Cleaners : ~Removes(k, c) /\ ~Removes(k, c)'
  BY <1>0 DEF InOrder, CleanersInOrder, Removes
<1>4. CASE /\ Listening(s)' /\ listener'[s].client = listener[s].client
           /\ \/ UNCHANGED active_sessions
              \/ active_sessions' = With(c, listener[s].session)
  <2>1. ListeningSockets(c)' = ListeningSockets(c)
    BY <1>0, <1>4 DEF ListeningSockets, Listening
  <2>2. CASE active_sessions' = active_sessions
    BY <1>0, <1>1, <1>3, <2>1, <2>2, Undisturbed
  <2>3. CASE active_sessions' = With(c, listener[s].session)
    <3>1. c \in DOMAIN active_sessions' /\ active_sessions'[c].socket = s
      BY <1>0, <2>3 DEF With
    <3>2. HandlersInOrder(c)'
      BY <1>0, <1>1, <1>2, <3>1 DEF HandlersInOrder, SocketInOrder, HasSession
    <3>3. \A r \in ListeningSockets(c)' : SocketInOrder(c, r)'
      BY <1>0, <1>1, <1>2, <2>1, <3>1 DEF SocketInOrder, HasSession
    <3> QED
      BY <1>3, <3>2, <3>3 DEF InOrder, CleanersInOrder
  <2> QED
    BY <1>4, <2>2, <2>3
<1>5. CASE listener'[s] = Closed /\ active_sessions' = WithoutThose({c})
  <2>1. ListeningSockets(c)' = {}
    <3>1. ~Listening(s)'
      BY <1>5 DEF Listening, Closed
    <3> QED
      BY <1>0, <1>2, <3>1 DEF ListeningSockets, Listening, SocketInOrder
  <2>2. c \notin DOMAIN active_sessions'
    BY <1>5 DEF WithoutThose
  <2>3. HandlersInOrder(c)'
    BY <1>1, <1>2, <2>2 DEF HandlersInOrder
  <2> QED
    BY <1>3, <2>1, <2>3 DEF InOrder, CleanersInOrder
<1> QED
  BY <1>4, <1>5, ListenEffect

(* The cleaner. *)
LEMMA CleanerKeepsOrder ==
  ASSUME TypeOK, SocketsInv, CleanerInv, NEW k \in Cleaners, Clean(k),
         NEW c \in Clients \ crossed, InOrder(c)
  PROVE  InOrder(c)'
<1>0. /\ UNCHANGED <<handler, listener>> /\ cleaner \in [Cleaners -> CleanerTasks]
      /\ \A h \in Handlers : At(h, c)' <=> At(h, c)
      /\ ListeningSockets(c)' = ListeningSockets(c)
  BY DEF Clean, CleanFind, CleanRemove, TypeOK, At, ListeningSockets, Listening
<1>1. CASE CleanFind(k)
  <2>1. \A j \in Cleaners \ {k} : Removes(j, c)' <=> Removes(j, c)
    BY <1>0, <1>1 DEF CleanFind, Removes
  <2>2. ~Removes(k, c)
    BY <1>1 DEF CleanFind, Removes
  <2>3. Removes(k, c)' => c \in DOMAIN active_sessions /\ active_sessions[c].old
    BY <1>0, <1>1 DEF CleanFind, Removes
  <2>4. Removes(k, c)' => ListeningSockets(c) = {}
    <3> SUFFICES ASSUME Removes(k, c)', NEW s \in ListeningSockets(c) PROVE FALSE
      OBVIOUS
    <3>1. active_sessions[c].socket = s
      BY <2>3 DEF InOrder, SocketInOrder
    <3>2. ~Listening(s)
      BY <2>3, <3>1 DEF SocketsInv
    <3> QED
      BY <3>2 DEF ListeningSockets
  <2>5. active_sessions' = active_sessions
    BY <1>1 DEF CleanFind
  <2>6. HandlersInOrder(c)' /\ \A s \in ListeningSockets(c)' : SocketInOrder(c, s)'
    BY <1>0, <2>5 DEF InOrder, HandlersInOrder, SocketInOrder, HasSession
  <2>7. CleanersInOrder(c)'
    BY <1>0, <2>1, <2>3, <2>4, <2>5 DEF InOrder, CleanersInOrder
  <2> QED
    BY <2>6, <2>7 DEF InOrder
<1>2. CASE CleanRemove(k)
  <2>1. /\ \A j \in Cleaners \ {k} : Removes(j, c)' <=> Removes(j, c)
        /\ ~Removes(k, c)' /\ cleaner[k].pc = "remove"
        /\ active_sessions' = WithoutThose(cleaner[k].expired)
    BY <1>0, <1>2 DEF CleanRemove, Removes
  <2>2. CASE c \notin cleaner[k].expired
    <3>1. /\ c \in DOMAIN active_sessions' <=> c \in DOMAIN active_sessions
          /\ c \in DOMAIN active_sessions => active_sessions'[c] = active_sessions[c]
      BY <2>1, <2>2 DEF WithoutThose
    <3> QED
      BY <1>0, <2>1, <3>1, Undisturbed
  <2>3. CASE c \in cleaner[k].expired
    <3>1. ListeningSockets(c)' = {} /\ c \notin DOMAIN active_sessions'
      BY <1>0, <2>1, <2>3 DEF InOrder, CleanersInOrder, Removes, WithoutThose
    <3>2. \A j \in Cleaners : ~Removes(j, c)'
      <4>1. \A j \in Cleaners \ {k} : cleaner[j].pc = "unborn"
        BY <2>1 DEF CleanerInv
      <4> QED
        BY <2>1, <4>1 DEF Removes
    <3>3. HandlersInOrder(c)'
      BY <1>0, <3>1 DEF InOrder, HandlersInOrder
    <3> QED
      BY <3>1, <3>2, <3>3 DEF InOrder, CleanersInOrder
  <2> QED
    BY <2>2, <2>3
<1> QED
  BY <1>1, <1>2 DEF Clean

LEMMA OrderStep ==
  ASSUME TypeOK, OrderInv, [Next]_vars
  PROVE  OrderInv'
<1>1. SocketsInv' /\ CleanerInv'
  BY SocketsStep, CleanerStep DEF OrderInv
<1> SUFFICES ASSUME NEW c \in Clients, c \notin crossed' PROVE InOrder(c)'
  BY <1>1 DEF OrderInv
<1>0. handler \in [Handlers -> HandlerTasks] /\ listener \in [Sockets -> ListenerTasks]
  BY DEF TypeOK
<1>2. c \notin crossed /\ ~StopClear
  <2>1. ASSUME NEW d \in Clients, Receive(d) PROVE c \notin crossed
    BY <2>1 DEF Receive
  <2>2. ASSUME NEW h \in Handlers, Handle(h) PROVE crossed' = crossed
    BY <2>2, HandleEffect
  <2>3. ASSUME NEW s \in Sockets, Listen(s) PROVE crossed' = crossed
    BY <2>3, ListenEffect
  <2>4. ~StopClear
    BY DEF StopClear
  <2> QED
    BY <2>1, <2>2, <2>3, <2>4 DEF Next, vars, Start, Stop, ReceiveCheck, ReceiveError, Age,
       Clean, CleanFind,
       CleanRemove
<1>3. InOrder(c)
  BY <1>2 DEF OrderInv
<1>4. ASSUME UNCHANGED <<active_sessions, handler, listener>>,
             \A k \in Cleaners : cleaner'[k] = cleaner[k] \/ cleaner'[k].pc # "remove"
      PROVE  InOrder(c)'
  <2>1. /\ \A h \in Handlers : At(h, c)' <=> At(h, c)
        /\ ListeningSockets(c)' = ListeningSockets(c)
        /\ \A k \in Cleaners : Removes(k, c)' => Removes(k, c)
    BY <1>4 DEF At, ListeningSockets, Listening, Removes
  <2> QED
    BY <1>3, <1>4, <2>1, Undisturbed
<1>5. CASE UNCHANGED vars \/ Stop \/ ReceiveCheck \/ ReceiveError
  BY <1>4, <1>5 DEF vars, Stop, ReceiveCheck, ReceiveError
<1>6. CASE Start
  <2>1. \A k \in Cleaners : cleaner'[k] = cleaner[k] \/ cleaner'[k].pc # "remove"
    <3>1. \/ cleaner' = cleaner
          \/ \E k \in Cleaners : cleaner' = [cleaner EXCEPT ![k] = [pc |-> "sleep"]]
      BY <1>6 DEF Start
    <3>2. cleaner \in [Cleaners -> CleanerTasks]
      BY DEF TypeOK
    <3> QED
      BY <3>1, <3>2
  <2> QED
    BY <1>4, <1>6, <2>1 DEF Start
<1>7. ASSUME NEW d \in Clients, Receive(d) PROVE InOrder(c)'
  <2>1. PICK h \in Handlers :
          /\ handler[h] = NoHandler
          /\ handler' = [handler EXCEPT ![h] = [pc |-> "lookup", client |-> d]]
    BY <1>7 DEF Receive
  <2>2. /\ UNCHANGED <<active_sessions, listener, cleaner>>
        /\ d = c => \A g \in Handlers : handler[g] # NoHandler => handler[g].client # c
    BY <1>2, <1>7 DEF Receive
  <2>3. ~At(h, c) /\ \A g \in Handlers \ {h} : handler'[g] = handler[g]
    BY <1>0, <2>1 DEF At, NoHandler
  <2>4. /\ ListeningSockets(c)' = ListeningSockets(c)
        /\ \A k \in Cleaners : Removes(k, c)' <=> Removes(k, c)
    BY <2>2 DEF ListeningSockets, Listening, Removes
  <2>5. CASE d # c
    <3>1. ~At(h, c)'
      BY <1>0, <2>1, <2>5 DEF At
    <3>2. \A g \in Handlers : (At(g, c)' => At(g, c)) /\ (At(g, c) => handler'[g] = handler[g])
      BY <2>3, <3>1 DEF At
    <3> QED
      BY <1>3, <2>2, <2>4, <3>2, Undisturbed
  <2>6. CASE d = c
    <3>1. \A g \in Handlers : ~At(g, c)
      BY <2>2, <2>6 DEF At, NoHandler
    <3>2. /\ \A g \in Handlers : At(g, c)' => g = h
          /\ handler'[h].pc = "lookup"
      BY <1>0, <2>1, <2>3, <3>1 DEF At
    <3>3. HandlersInOrder(c)'
      BY <3>2 DEF HandlersInOrder, HasSession
    <3>4. \A s \in ListeningSockets(c)' : SocketInOrder(c, s)'
      BY <1>3, <2>2, <2>4, <3>1, <3>2 DEF InOrder, SocketInOrder, HasSession
    <3>5. CleanersInOrder(c)'
      BY <1>3, <2>2, <2>4 DEF InOrder, CleanersInOrder
    <3> QED
      BY <3>3, <3>4, <3>5 DEF InOrder
  <2> QED
    BY <2>5, <2>6
<1>8. ASSUME NEW d \in Clients, Age(d) PROVE InOrder(c)'
  <2>1. /\ c \in DOMAIN active_sessions' <=> c \in DOMAIN active_sessions
        /\ c \in DOMAIN active_sessions =>
             active_sessions'[c].socket = active_sessions[c].socket
    <3>1. \A e \in Sessions : [e EXCEPT !.old = TRUE].socket = e.socket
      BY DEF Sessions
    <3>2. d \in DOMAIN active_sessions /\ active_sessions[d] \in Sessions
      BY <1>8 DEF Age, TypeOK
    <3> QED
      BY <1>8, <3>1, <3>2 DEF Age, With
  <2>2. UNCHANGED <<handler, listener, cleaner>>
    BY <1>8 DEF Age
  <2>3. /\ \A h \in Handlers : At(h, c)' <=> At(h, c)
        /\ ListeningSockets(c)' = ListeningSockets(c)
        /\ \A k \in Cleaners : Removes(k, c)' <=> Removes(k, c)
    BY <2>2 DEF At, ListeningSockets, Listening, Removes
  <2> QED
    BY <1>3, <2>1, <2>2, <2>3, Undisturbed
<1>9. ASSUME NEW h \in Handlers, Handle(h) PROVE InOrder(c)'
  <2>1. CASE handler[h].client = c
    BY <1>3, <1>9, <2>1, HandlerKeepsOrder
  <2>2. CASE handler[h].client # c
    <3> DEFINE d == handler[h].client
    <3>0. /\ \A g \in Handlers \ {h} : handler'[g] = handler[g]
          /\ cleaner' = cleaner
          /\ handler'[h].pc = "none" \/ handler'[h].client = d
      BY <1>9, HandleEffect
    <3>1. ~At(h, c) /\ ~At(h, c)'
      BY <2>2, <3>0 DEF At
    <3>2. \A g \in Handlers : (At(g, c)' => At(g, c)) /\ (At(g, c) => handler'[g] = handler[g])
      BY <3>0, <3>1 DEF At
    <3>3. active_sessions' = active_sessions \/ \E e : active_sessions' = With(d, e)
      BY <1>9, HandleEffect
    <3>4. /\ c \in DOMAIN active_sessions' <=> c \in DOMAIN active_sessions
          /\ c \in DOMAIN active_sessions => active_sessions'[c] = active_sessions[c]
      BY <2>2, <3>3 DEF With
    <3>5. \/ listener' = listener
          \/ \E s \in Sockets : /\ listener[s] = Unopened
                                /\ listener' = [listener EXCEPT ![s] =
                                     [pc |-> "recv", client |-> d, session |-> NewSession(s)]]
      BY <1>9, HandleEffect
    <3>6. ListeningSockets(c)' = ListeningSockets(c)
      <4>1. CASE listener' = listener
        BY <4>1 DEF ListeningSockets, Listening
      <4>2. ASSUME NEW s \in Sockets, listener[s] = Unopened,
                   listener' = [listener EXCEPT ![s] =
                     [pc |-> "recv", client |-> d, session |-> NewSession(s)]]
            PROVE  ListeningSockets(c)' = ListeningSockets(c)
        <5>1. ~Listening(s) /\ listener'[s].client # c
          BY <1>0, <2>2, <4>2 DEF Listening, Unopened
        <5>2. \A r \in Sockets \ {s} : listener'[r] = listener[r]
          BY <1>0, <4>2
        <5> QED
          BY <5>1, <5>2 DEF ListeningSockets, Listening
      <4> QED
        BY <3>5, <4>1, <4>2
    <3>7. \A k \in Cleaners : Removes(k, c)' <=> Removes(k, c)
      BY <3>0 DEF Removes
    <3> QED
      BY <1>3, <3>2, <3>4, <3>6, <3>7, Undisturbed
  <2> QED
    BY <2>1, <2>2
<1>10. ASSUME NEW s \in Sockets, Listen(s) PROVE InOrder(c)'
  <2>1. CASE listener[s].client = c
    BY <1>3, <1>10, <2>1, ListenerKeepsOrder DEF OrderInv
  <2>2. CASE listener[s].client # c
    <3> DEFINE d == listener[s].client
    <3>1. /\ UNCHANGED <<handler, cleaner>>
          /\ \A r \in Sockets \ {s} : listener'[r] = listener[r]
          /\ listener'[s].client = d \/ listener'[s] = Closed
      BY <1>10, ListenEffect
    <3>2. \/ active_sessions' = active_sessions
          \/ \E e : active_sessions' = With(d, e)
          \/ active_sessions' = WithoutThose({d})
      BY <1>10, ListenEffect
    <3>3. /\ c \in DOMAIN active_sessions' <=> c \in DOMAIN active_sessions
          /\ c \in DOMAIN active_sessions => active_sessions'[c] = active_sessions[c]
      BY <2>2, <3>2 DEF With, WithoutThose
    <3>4. s \notin ListeningSockets(c) /\ s \notin ListeningSockets(c)'
      BY <2>2, <3>1 DEF ListeningSockets, Listening, Closed
    <3>5. ListeningSockets(c)' = ListeningSockets(c)
      BY <3>1, <3>4 DEF ListeningSockets, Listening
    <3>6. /\ \A h \in Handlers : At(h, c)' <=> At(h, c)
          /\ \A k \in Cleaners : Removes(k, c)' <=> Removes(k, c)
      BY <3>1 DEF At, Removes
    <3> QED
      BY <1>3, <3>1, <3>3, <3>5, <3>6, Undisturbed
  <2> QED
    BY <2>1, <2>2
<1>11. ASSUME NEW k \in Cleaners, Clean(k) PROVE InOrder(c)'
  BY <1>2, <1>3, <1>11, CleanerKeepsOrder DEF OrderInv
<1> QED
  BY <1>2, <1>5, <1>6, <1>7, <1>8, <1>9, <1>10, <1>11 DEF Next

LEMMA OrderHolds == Spec => []OrderInv
<1>1. Init => OrderInv
  <2> SUFFICES ASSUME Init PROVE OrderInv
    OBVIOUS
  <2>1. /\ \A h \in Handlers : handler[h].pc = "none"
        /\ \A s \in Sockets : listener[s].pc = "unopened"
        /\ \A k \in Cleaners : cleaner[k].pc = "unborn"
        /\ DOMAIN active_sessions = {}
    BY DEF Init, NoHandler, Unopened
  <2>2. SocketsInv /\ CleanerInv
    BY <2>1 DEF SocketsInv, CleanerInv, HasSession, Listening
  <2>3. \A c \in Clients : InOrder(c)
    BY <2>1 DEF InOrder, HandlersInOrder, CleanersInOrder, ListeningSockets, Listening, At,
       Removes
  <2> QED
    BY <2>2, <2>3 DEF OrderInv
<1> QED
  BY <1>1, OrderStep, Typing, PTL DEF Spec

(* For a client whose datagrams do not cross one backend socket at most is *)
(* open, for any number of clients, sockets and tasks.                     *)
THEOREM OneSocketAtATime == Spec => []OneSocketUnlessCrossed
<1>1. OrderInv => OneSocketUnlessCrossed
  <2> SUFFICES ASSUME OrderInv, NEW c \in Clients \ crossed,
                      NEW r \in HeldFor(c), NEW s \in HeldFor(c)
               PROVE  r = s
    BY DEF OneSocketUnlessCrossed
  <2>1. InOrder(c)
    BY DEF OrderInv
  <2>2. CASE ListeningSockets(c) # {}
    <3>1. PICK l \in ListeningSockets(c) : SocketInOrder(c, l)
      BY <2>1, <2>2 DEF InOrder
    <3>2. \A q \in HeldFor(c) : q = l
      BY <3>1 DEF HeldFor, SocketInOrder, At, HasSession
    <3> QED
      BY <3>2
  <2>3. CASE ListeningSockets(c) = {}
    <3>1. HandlersInOrder(c)
      BY <2>1 DEF InOrder
    <3> QED
      BY <2>3, <3>1 DEF HeldFor, HandlersInOrder, At, HasSession
  <2> QED
    BY <2>2, <2>3
<1> QED
  BY <1>1, OrderHolds, PTL

LEMMA SessionStays ==
  ASSUME TypeOK, OrderInv, [Next]_vars,
         NEW c \in DOMAIN active_sessions, c \in DOMAIN active_sessions', c \notin crossed'
  PROVE  active_sessions'[c].socket = active_sessions[c].socket
<1>0. c \in Clients /\ active_sessions \in [DOMAIN active_sessions -> Sessions]
  BY DEF TypeOK
<1>1. ASSUME NEW d \in Clients, Age(d)
      PROVE  active_sessions'[c].socket = active_sessions[c].socket
  <2>1. \A e \in Sessions : [e EXCEPT !.old = TRUE].socket = e.socket
    BY DEF Sessions
  <2> QED
    BY <1>0, <1>1, <2>1 DEF Age, With
<1>2. ASSUME NEW h \in Handlers, Handle(h)
      PROVE  active_sessions'[c].socket = active_sessions[c].socket
  <2>1. \/ active_sessions' = active_sessions
        \/ /\ handler[h].pc = "insert"
           /\ active_sessions' = With(handler[h].client, handler[h].session)
    BY <1>2, HandleEffect
  <2>2. crossed' = crossed
    BY <1>2, HandleEffect
  <2>3. CASE handler[h].pc = "insert" /\ handler[h].client = c
    <3>1. active_sessions[c].socket = handler[h].session.socket
      BY <1>0, <2>2, <2>3 DEF OrderInv, InOrder, HandlersInOrder, At, HasSession
    <3> QED
      BY <2>1, <2>3, <3>1 DEF With
  <2>4. CASE handler[h].client # c
    BY <2>1, <2>4 DEF With
  <2> QED
    BY <2>1, <2>3, <2>4
<1>3. ASSUME NEW s \in Sockets, Listen(s)
      PROVE  active_sessions'[c].socket = active_sessions[c].socket
  <2>1. \/ active_sessions' = active_sessions
        \/ active_sessions' = With(listener[s].client, listener[s].session)
        \/ active_sessions' = WithoutThose({listener[s].client})
    BY <1>3, ListenEffect
  <2>2. crossed' = crossed /\ Listening(s)
    BY <1>3, ListenEffect
  <2>3. CASE listener[s].client = c
    <3>1. active_sessions[c].socket = s /\ listener[s].session.socket = s
      BY <1>0, <2>2, <2>3 DEF OrderInv, SocketsInv, InOrder, SocketInOrder, ListeningSockets
    <3> QED
      BY <2>1, <2>3, <3>1 DEF With, WithoutThose
  <2>4. CASE listener[s].client # c
    BY <2>1, <2>4 DEF With, WithoutThose
  <2> QED
    BY <2>3, <2>4
<1> QED
  BY <1>1, <1>2, <1>3 DEF Next, vars, Start, Stop, StopClear, ReceiveCheck, ReceiveError,
     Receive, Clean,
     CleanFind, CleanRemove, WithoutThose

(* And its session never moves to another socket, and so to another        *)
(* backend, by a copy that is written back late.                           *)
THEOREM SessionsKeepTheirSocket == Spec => SessionKeepsSocket
<1>1. TypeOK /\ OrderInv /\ [Next]_vars =>
        [\A c \in DOMAIN active_sessions \cap DOMAIN active_sessions' :
           c \in crossed' \/ active_sessions'[c].socket = active_sessions[c].socket]_vars
  BY SessionStays
<1> QED
  BY <1>1, OrderHolds, Typing, PTL DEF Spec, SessionKeepsSocket

=============================================================================
