------------------------------ MODULE UdpProxy -------------------------------
(***************************************************************************)
(* src/proxy/udp.rs: the UdpProxy.  A receive loop spawns one task per     *)
(* datagram.  The task looks its client up in the table of sessions and    *)
(* either sends over a copy of the session it found, writing the copy back *)
(* afterwards, or opens a session: a socket of its own towards a backend   *)
(* and a listener task for the answers, which keeps a copy of the session  *)
(* too and writes it into the table after every answer.  A cleaner removes *)
(* what has been idle for too long.  The table is locked for single        *)
(* lookups and writes only, so all of them work on copies that may be      *)
(* stale.                                                                  *)
(*                                                                         *)
(* Every datagram has length one.  A last_activity is either recent or     *)
(* more than session_timeout ago (old).  That a route is found, a socket   *)
(* bound and a datagram sent may fail; RouterManager has the routing.      *)
(***************************************************************************)
EXTENDS Naturals

CONSTANTS
  Clients,          \* the addresses datagrams come from
  HandlerBound,     \* datagram tasks at work at once
  SocketBound,      \* sessions opened in all
  StartBound,       \* starts that succeed
  DatagramBound,    \* datagrams received in all
  AnswerBound       \* answers a backend sends over one socket

ASSUME BoundsAssumption ==
  {HandlerBound, SocketBound, StartBound, DatagramBound, AnswerBound} \subseteq Nat

Handlers == 1 .. HandlerBound
Sockets == 1 .. SocketBound
Cleaners == 1 .. StartBound

VARIABLES
  running,          \* running
  stopping,         \* a stop stands between its two locks
  receiver,         \* the receive loop
  active_sessions,  \* active_sessions: the table, by client
  handler,          \* the tasks that handle a datagram
  listener,         \* the listener of each backend socket
  cleaner,          \* the cleanup tasks
  sent, received,   \* history: datagrams that passed each backend socket
  datagrams,        \* history: datagrams received in all
  crossed           \* history: clients whose tasks were not one at a time

traffic == <<sent, received, datagrams>>
vars == <<running, stopping, receiver, active_sessions, handler, listener,
          cleaner, traffic, crossed>>

NoHandler == [pc |-> "none"]
Unopened == [pc |-> "unopened"]
Closed == [pc |-> "closed"]

(* The socket's listener is at work.  The socket itself is an Arc, and open *)
(* for as long as a copy of its session exists: see HeldFor.               *)
Listening(s) == listener[s].pc \in {"recv", "insert", "remove"}

(* MUTANT: a session is filed under its backend. *)
WithBackend(c, session) ==
  [k \in DOMAIN active_sessions \cup {session.socket} |->
     IF k = session.socket THEN session ELSE active_sessions[k]]

(* The table with a session for c, and without those of cs. *)
With(c, session) ==
  [k \in DOMAIN active_sessions \cup {c} |->
     IF k = c THEN session ELSE active_sessions[k]]
WithoutThose(cs) ==
  [k \in DOMAIN active_sessions \ cs |-> active_sessions[k]]

-----------------------------------------------------------------------------
(* start and stop *)

(* The proxy's socket is shared with its handlers and listeners: its       *)
(* address is free when all of them are done.                              *)
AddressFree == /\ receiver = "off"
               /\ \A h \in Handlers : handler[h] = NoHandler
               /\ \A s \in Sockets : ~Listening(s)

(* running is set before the socket is bound, and stays when that fails. *)
Start ==
  /\ ~running /\ ~stopping
  /\ running' = TRUE
  /\ \/ /\ AddressFree
        /\ receiver' = "check"
        /\ \E k \in Cleaners : /\ cleaner[k].pc = "unborn"
                               /\ cleaner' = [cleaner EXCEPT ![k] = [pc |-> "sleep"]]
     \/ UNCHANGED <<receiver, cleaner>>
  /\ UNCHANGED <<stopping, active_sessions, handler, listener, traffic, crossed>>

(* A stop clears the table, whether the proxy was running or not. *)
Stop ==
  /\ ~stopping
  /\ running' = FALSE /\ stopping' = TRUE
  /\ UNCHANGED <<receiver, active_sessions, handler, listener, cleaner, traffic, crossed>>

StopClear ==
  /\ stopping
  /\ stopping' = FALSE
  /\ active_sessions' = WithoutThose(DOMAIN active_sessions)
  /\ crossed' = Clients
  /\ UNCHANGED <<running, receiver, handler, listener, cleaner, traffic>>

-----------------------------------------------------------------------------
(* receive_loop *)

ReceiveCheck ==
  /\ receiver = "check"
  /\ receiver' = IF running THEN "recv" ELSE "off"
  /\ UNCHANGED <<running, stopping, active_sessions, handler, listener, cleaner,
                 traffic, crossed>>

(* A loop that waits for a datagram handles it, stopped or not. *)
Receive(c) ==
  /\ receiver = "recv" /\ datagrams < DatagramBound
  /\ receiver' = "check"
  /\ datagrams' = datagrams + 1
  /\ \E h \in Handlers :
       /\ handler[h] = NoHandler /\ \A g \in 1 .. h - 1 : handler[g] # NoHandler
       /\ handler' = [handler EXCEPT ![h] = [pc |-> "lookup", client |-> c]]
  /\ crossed' = IF \E h \in Handlers : handler[h] # NoHandler /\ handler[h].client = c
                  THEN crossed \cup {c} ELSE crossed
  /\ UNCHANGED <<running, stopping, active_sessions, listener, cleaner, sent, received>>

(* After an error it sleeps for a moment and looks at the flag again. *)
ReceiveError ==
  /\ receiver = "recv"
  /\ receiver' = "check"
  /\ UNCHANGED <<running, stopping, active_sessions, handler, listener, cleaner,
                 traffic, crossed>>

-----------------------------------------------------------------------------
(* handle_packet and create_new_session *)

Done(h) == handler' = [handler EXCEPT ![h] = NoHandler]

Used(session) == [socket |-> session.socket, sent |-> session.sent + 1,
                  received |-> session.received, old |-> FALSE]

(* MUTANT: every datagram opens a session. *)
LookupNothing(h) ==
  /\ handler[h].pc = "lookup"
  /\ handler' = [handler EXCEPT ![h].pc = "open"]
  /\ UNCHANGED <<running, stopping, receiver, active_sessions, listener, cleaner,
                 traffic, crossed>>

(* The copy of the session counts the datagram before it is sent. *)
Lookup(h) ==
  /\ handler[h].pc = "lookup"
  /\ LET c == handler[h].client
     IN  handler' = [handler EXCEPT ![h] =
           IF c \in DOMAIN active_sessions
             THEN [pc |-> "send", client |-> c,
                   session |-> Used(active_sessions[c])]
             ELSE [pc |-> "open", client |-> c]]
  /\ UNCHANGED <<running, stopping, receiver, active_sessions, listener, cleaner,
                 traffic, crossed>>

(* MUTANT: a datagram that could not be sent is counted. *)
SendCountsFailures(h) ==
  /\ handler[h].pc = "send"
  /\ \/ sent' = [sent EXCEPT ![handler[h].session.socket] = @ + 1]
     \/ UNCHANGED sent
  /\ handler' = [handler EXCEPT ![h].pc = "insert"]
  /\ UNCHANGED <<running, stopping, receiver, active_sessions, listener, cleaner,
                 received, datagrams, crossed>>

Send(h) ==
  /\ handler[h].pc = "send"
  /\ \/ /\ sent' = [sent EXCEPT ![handler[h].session.socket] = @ + 1]
        /\ handler' = [handler EXCEPT ![h].pc = "insert"]
     \/ Done(h) /\ UNCHANGED sent
  /\ UNCHANGED <<running, stopping, receiver, active_sessions, listener, cleaner,
                 received, datagrams, crossed>>

(* A fresh session has sent its first datagram when it is created; no      *)
(* route, no socket or no sending ends the task.                           *)
NewSession(s) == [socket |-> s, sent |-> 1, received |-> 0, old |-> FALSE]

Open(h) ==
  /\ handler[h].pc = "open"
  /\ LET c == handler[h].client
     IN  \/ \E s \in Sockets :
              /\ listener[s] = Unopened /\ \A r \in 1 .. s - 1 : listener[r] # Unopened
              /\ sent' = [sent EXCEPT ![s] = @ + 1]
              /\ listener' = [listener EXCEPT ![s] =
                                [pc |-> "recv", client |-> c, session |-> NewSession(s)]]
              /\ handler' = [handler EXCEPT ![h] =
                               [pc |-> "insert", client |-> c, session |-> NewSession(s)]]
         \/ Done(h) /\ UNCHANGED <<sent, listener>>
  /\ UNCHANGED <<running, stopping, receiver, active_sessions, cleaner, received,
                 datagrams, crossed>>

(* MUTANT: the session is never put into the table. *)
InsertNothing(h) ==
  /\ handler[h].pc = "insert"
  /\ Done(h)
  /\ UNCHANGED <<running, stopping, receiver, active_sessions, listener, cleaner,
                 traffic, crossed>>

Insert(h) ==
  /\ handler[h].pc = "insert"
  /\ active_sessions' = With(handler[h].client, handler[h].session)
  /\ Done(h)
  /\ UNCHANGED <<running, stopping, receiver, listener, cleaner, traffic, crossed>>

-----------------------------------------------------------------------------
(* listen_backend_response *)

Heard(session) == [session EXCEPT !.received = @ + 1]

(* An answer that reaches the client is counted in the listener's copy. *)
Answer(s) ==
  /\ listener[s].pc = "recv" /\ received[s] < AnswerBound
  /\ \/ /\ received' = [received EXCEPT ![s] = @ + 1]
        /\ listener' = [listener EXCEPT ![s] = [pc |-> "insert", client |-> @.client,
                                                 session |-> Heard(@.session)]]
     \/ /\ listener' = [listener EXCEPT ![s].pc = "remove"]
        /\ UNCHANGED received
  /\ UNCHANGED <<running, stopping, receiver, active_sessions, handler, cleaner,
                 sent, datagrams, crossed>>

ListenInsert(s) ==
  /\ listener[s].pc = "insert"
  /\ active_sessions' = With(listener[s].client, listener[s].session)
  /\ listener' = [listener EXCEPT ![s].pc = "recv"]
  /\ UNCHANGED <<running, stopping, receiver, handler, cleaner, traffic, crossed>>

(* MUTANT: the listener goes on listening after a timeout. *)
GiveUpLater(s) ==
  /\ listener[s].pc = "recv"
  /\ UNCHANGED vars

(* Thirty seconds without an answer, or an error. *)
GiveUp(s) ==
  /\ listener[s].pc = "recv"
  /\ listener' = [listener EXCEPT ![s].pc = "remove"]
  /\ UNCHANGED <<running, stopping, receiver, active_sessions, handler, cleaner,
                 traffic, crossed>>

(* The entry removed is the client's, whichever socket it names. *)
ListenRemove(s) ==
  /\ listener[s].pc = "remove"
  /\ active_sessions' = WithoutThose({listener[s].client})
  /\ listener' = [listener EXCEPT ![s] = Closed]
  /\ UNCHANGED <<running, stopping, receiver, handler, cleaner, traffic, crossed>>

-----------------------------------------------------------------------------
(* cleanup_sessions *)

(* MUTANT: the cleaner never finds an expired session. *)
CleanFindNothing(k) ==
  /\ cleaner[k].pc = "sleep" /\ ~running
  /\ cleaner' = [cleaner EXCEPT ![k] = [pc |-> "ended"]]
  /\ UNCHANGED <<running, stopping, receiver, active_sessions, handler, listener,
                 traffic, crossed>>

(* The cleaner wakes up; finding nothing it sleeps on. *)
CleanFind(k) ==
  /\ cleaner[k].pc = "sleep"
  /\ LET expired == {c \in DOMAIN active_sessions : active_sessions[c].old}
     IN  \/ ~running /\ cleaner' = [cleaner EXCEPT ![k] = [pc |-> "ended"]]
         \/ /\ running /\ expired # {}
            /\ cleaner' = [cleaner EXCEPT ![k] = [pc |-> "remove", expired |-> expired]]
  /\ UNCHANGED <<running, stopping, receiver, active_sessions, handler, listener,
                 traffic, crossed>>

(* What was idle when it was found is removed, even if used since. *)
CleanRemove(k) ==
  /\ cleaner[k].pc = "remove"
  /\ active_sessions' = WithoutThose(cleaner[k].expired)
  /\ cleaner' = [cleaner EXCEPT ![k] = [pc |-> "sleep"]]
  /\ UNCHANGED <<running, stopping, receiver, handler, listener, traffic, crossed>>

(* Five minutes pass without activity.  A listener at work has answers     *)
(* every thirty seconds, or it ends: sessions that grow old have none.     *)
Age(c) ==
  /\ c \in DOMAIN active_sessions
  /\ ~active_sessions[c].old /\ ~Listening(active_sessions[c].socket)
  /\ active_sessions' = With(c, [active_sessions[c] EXCEPT !.old = TRUE])
  /\ UNCHANGED <<running, stopping, receiver, handler, listener, cleaner, traffic, crossed>>

-----------------------------------------------------------------------------
Init ==
  /\ running = FALSE /\ stopping = FALSE /\ receiver = "off"
  /\ active_sessions = [c \in {} |-> NewSession(1)]
  /\ handler = [h \in Handlers |-> NoHandler]
  /\ listener = [s \in Sockets |-> Unopened]
  /\ cleaner = [k \in Cleaners |-> [pc |-> "unborn"]]
  /\ sent = [s \in Sockets |-> 0] /\ received = [s \in Sockets |-> 0]
  /\ datagrams = 0 /\ crossed = {}

Handle(h) == Lookup(h) \/ Send(h) \/ Open(h) \/ Insert(h)
Listen(s) == Answer(s) \/ ListenInsert(s) \/ GiveUp(s) \/ ListenRemove(s)
Clean(k) == CleanFind(k) \/ CleanRemove(k)

Next ==
  \/ Start \/ Stop \/ StopClear \/ ReceiveCheck \/ ReceiveError
  \/ \E c \in Clients : Receive(c) \/ Age(c)
  \/ \E h \in Handlers : Handle(h)
  \/ \E s \in Sockets : Listen(s)
  \/ \E k \in Cleaners : Clean(k)

Spec == Init /\ [][Next]_vars

(* tokio runs every task it spawned, timeouts and sleeps end, time passes. *)
FairSpec ==
  /\ Spec
  /\ WF_vars(StopClear) /\ WF_vars(ReceiveCheck)
  /\ \A c \in Clients : WF_vars(Age(c))
  /\ \A h \in Handlers : WF_vars(Handle(h))
  /\ \A s \in Sockets : WF_vars(Listen(s))
  /\ \A k \in Cleaners : WF_vars(Clean(k))

-----------------------------------------------------------------------------
(* Properties *)

Sessions == [socket : Sockets, sent : Nat, received : Nat, old : BOOLEAN]

HandlerTasks ==
  {NoHandler} \cup [pc : {"lookup", "open"}, client : Clients]
              \cup [pc : {"send", "insert"}, client : Clients, session : Sessions]
ListenerTasks ==
  {Unopened, Closed}
    \cup [pc : {"recv", "insert", "remove"}, client : Clients, session : Sessions]
CleanerTasks ==
  [pc : {"unborn", "sleep", "ended"}] \cup [pc : {"remove"}, expired : SUBSET Clients]

(* Every variable has its type; the table has sessions of clients only. *)
TypeOK ==
  /\ running \in BOOLEAN /\ stopping \in BOOLEAN
  /\ receiver \in {"off", "check", "recv"}
  /\ DOMAIN active_sessions \subseteq Clients
  /\ active_sessions \in [DOMAIN active_sessions -> Sessions]
  /\ handler \in [Handlers -> HandlerTasks]
  /\ listener \in [Sockets -> ListenerTasks]
  /\ cleaner \in [Cleaners -> CleanerTasks]
  /\ sent \in [Sockets -> Nat] /\ received \in [Sockets -> Nat]
  /\ datagrams \in 0 .. DatagramBound
  /\ crossed \subseteq Clients

(***************************************************************************)
(* The table never claims traffic that did not happen.  Handlers and the   *)
(* listener overwrite each other's counts with their own copies, so counts *)
(* get lost; but none is ever invented, not by a copy written back late    *)
(* nor by a datagram that could not be sent.                               *)
(***************************************************************************)
NeverOvercounts ==
  \A c \in DOMAIN active_sessions :
    LET e == active_sessions[c]
    IN  e.sent <= sent[e.socket] /\ e.received <= received[e.socket]

ListeningSockets(c) == {s \in Sockets : Listening(s) /\ listener[s].client = c}

(* The sockets kept open for c: an Arc of each is held by its listener, by *)
(* the session in the table or by a handler's copy of a session.           *)
HeldFor(c) ==
  ListeningSockets(c)
    \cup {active_sessions[k].socket : k \in DOMAIN active_sessions \cap {c}}
    \cup {handler[h].session.socket :
            h \in {g \in Handlers : handler[g].pc \in {"send", "insert"}
                                   /\ handler[g].client = c}}

(***************************************************************************)
(* For a client whose datagrams are handled one at a time one backend      *)
(* socket at most is open, although its handlers, listeners and the        *)
(* cleaner write to the table from stale copies, and a copy keeps its      *)
(* socket open.  Until a stop clears the table under the tasks.            *)
(***************************************************************************)
OneSocketUnlessCrossed ==
  \A c \in Clients \ crossed : \A r, s \in HeldFor(c) : r = s

(***************************************************************************)
(* No step moves a session to another socket (and so another backend):     *)
(* what the handlers and listeners of such a client write back late is     *)
(* never an earlier session of it.                                         *)
(***************************************************************************)
SessionKeepsSocket ==
  [][\A c \in DOMAIN active_sessions \cap DOMAIN active_sessions' :
       c \in crossed' \/ active_sessions'[c].socket = active_sessions[c].socket]_vars

(* When the listener of a session has cleaned up and logged that the      *)
(* session ended, the session is not in the table.                         *)
EndedSessionsAreGone ==
  \A c \in DOMAIN active_sessions : listener[active_sessions[c].socket] # Closed

(***************************************************************************)
(* Once the traffic has ended every listener ends.                         *)
(***************************************************************************)
ListenersEnd == <>[](\A s \in Sockets : ~Listening(s))

(***************************************************************************)
(* Once the traffic has ended and a cleaner stays at work, every socket is *)
(* closed and every session gone, those included that a late handler put   *)
(* back.  Without a cleaner (after a stop) a session that is put back      *)
(* stays, and its socket open.                                             *)
(***************************************************************************)
SessionsAreReclaimed ==
  <>[](running /\ \E k \in Cleaners : cleaner[k].pc \in {"sleep", "remove"})
    => <>[](\A c \in Clients : HeldFor(c) = {})

=============================================================================
