----------------------------- MODULE TcpClient -----------------------------
(***************************************************************************)
(* TCPClient (include/TcpClient.h): connecting without blocking, the       *)
(* connections it makes, and the life of the objects that the event loop   *)
(* has pointers to.                                                        *)
(*                                                                         *)
(* An attempt is a socket that Connect has created.  It is watched by a    *)
(* Handler of the client's, <<"attempt", k>>, while connect(2) is in       *)
(* progress, and by the Handler of a TcpConnection, <<"connection", k>>,   *)
(* after it.  That Handler and the socket are members of the connection:   *)
(* they go when the last TcpConnectionPtr does.  What a connection does    *)
(* with bytes is the subject of TcpConnection; here its output buffer is   *)
(* empty or not.                                                           *)
(*                                                                         *)
(* Memory is used after it was freed where the code does so: a write to it *)
(* is lost, and a call through it comes to nothing or crashes the process. *)
(***************************************************************************)
EXTENDS Integers, Sequences, FiniteSets

CONSTANTS
  None,
  Polite,       (* the application's discipline: it calls Connect only     *)
                (* when no connection is left, Disconnect only when there  *)
                (* is one, sends on the current one only, and calls Close  *)
                (* only on that, from the connection's own callbacks       *)
  Keeps,        (* whether it keeps the TcpConnectionPtr of a connection   *)
                (* until that is closed                                    *)
  Asserts,      (* whether the build evaluates assert()                    *)
  Refusals,     (* whether connections may be refused                      *)
  Urgent,       (* the descriptors on which peers send urgent bytes        *)
  Sends,        (* BOUND: the attempts whose connections are sent on       *)
  MaxAttempts,  (* BOUND: the attempts                                     *)
  MaxFds        (* the descriptors that the process has for them           *)

ASSUME ClientAssumption ==
  /\ Polite \in BOOLEAN /\ Keeps \in BOOLEAN /\ Asserts \in BOOLEAN /\ Refusals \in BOOLEAN
  /\ Urgent \subseteq Nat /\ Sends \subseteq Nat
  /\ MaxAttempts \in Nat /\ MaxFds \in Nat
  /\ None \notin Nat /\ None \notin {"attempt", "connection"} \X Nat

Attempts == 1 .. MaxAttempts
Fds      == 1 .. MaxFds
Handlers == {"attempt", "connection"} \X Attempts

At(k) == <<"attempt", k>>
Cn(k) == <<"connection", k>>

INSTANCE EpollTable

VARIABLES
  state,        (* TCPClient::_state                                       *)
  connHandler,  (* _connHandler: the attempt it belongs to                 *)
  conn,         (* _conn                                                   *)
  kept,         (* the pointers that the application keeps                 *)
  object,       (* the Handlers: whether alive, _fd and _events            *)
  connState,    (* the connections' _state                                 *)
  sock,         (* the kernel's sockets                                    *)
  poll,         (* the Epoller's map and the kernel's registrations        *)
  batch,        (* the events of the batch that are still to be handled    *)
  event,        (* the event that HandleEvent is handling                  *)
  calls,        (* the callbacks that have not returned, innermost first   *)
  proc,         (* the process: "up", "assert" or "crash"                  *)
  touched,      (* history: the freed Handlers that were used              *)
  told,         (* history: the callbacks called for each attempt          *)
  next          (* the number of the next attempt                          *)

client  == <<state, connHandler, conn>>
objects == <<object, connState, sock, poll>>
loop    == <<batch, event, calls>>
vars    == <<client, kept, objects, loop, proc, touched, told, next>>

(* urgent: where an urgent byte is among the bytes received. *)
NoSocket == [at |-> "free", data |-> FALSE, urgent |-> "none",
             peerFin |-> FALSE, fin |-> FALSE]
NoEvent  == [handler |-> None, trig |-> {}, phase |-> "read"]
Unborn   == [live |-> FALSE, fd |-> 0, events |-> {}]

Callbacks == {"connection", "message", "close", "failed"}

(* What epoll_wait may report of a descriptor. *)
Triggers == EventKinds \cup {"HUP", "ERR"}

TypeOK ==
  /\ state \in {"DIS_CONNECTED", "CONNECTING", "CONNECTED"}
  /\ connHandler \in Attempts \cup {None} /\ conn \in Attempts \cup {None}
  /\ kept \subseteq Attempts
  /\ object \in [Handlers -> [live : BOOLEAN, fd : Fds \cup {0}, events : SUBSET EventKinds]]
  /\ connState \in [Attempts -> {"NONE", "CONNECTED", "DIS_CONNECTING", "DIS_CONNECTED"}]
  /\ sock \in [Fds -> [at : {"free", "connecting", "refused", "up"},
                       data : BOOLEAN, urgent : {"none", "next", "behind"},
                       peerFin : BOOLEAN, fin : BOOLEAN]]
  /\ poll \in Poller
  /\ batch \subseteq [handler : Handlers, trig : SUBSET Triggers]
  /\ event \in [handler : Handlers \cup {None}, trig : SUBSET Triggers,
                phase : {"read", "write", "error"}]
  /\ calls \in Seq([callback : Callbacks, of : Attempts])
  /\ proc \in {"up", "assert", "crash"}
  /\ touched \subseteq Handlers
  /\ told \in [Attempts -> Seq(Callbacks)]
  /\ next \in Nat

Init ==
  /\ state = "DIS_CONNECTED" /\ connHandler = None /\ conn = None /\ kept = {}
  /\ object = [h \in Handlers |-> Unborn]
  /\ connState = [k \in Attempts |-> "NONE"]
  /\ sock = [fd \in Fds |-> NoSocket]
  /\ poll = NewPoller
  /\ batch = {} /\ event = NoEvent /\ calls = <<>>
  /\ proc = "up" /\ touched = {}
  /\ told = [k \in Attempts |-> <<>>]
  /\ next = 1

(* A critical error of the poller aborts the process. *)
Up == proc = "up" /\ ~poll.failed
-----------------------------------------------------------------------------
(* The life of a connection.                                               *)

Referenced_NotByApplication(k) ==
  \/ conn = k
  \/ \E i \in DOMAIN calls : calls[i].of = k /\ calls[i].callback # "failed"

(* What holds a connection: _conn, the application, and the temporary      *)
(* TcpConnectionPtr of a callback that has not returned.                   *)
Referenced(k) ==
  \/ conn = k
  \/ k \in kept
  \/ \E i \in DOMAIN calls : calls[i].of = k /\ calls[i].callback # "failed"

(* The connections of objs that nothing holds any more are destroyed, and  *)
(* their sockets closed; ~TcpConnection leaves the Epoller's map alone.    *)
Settle(objs, socks, p) ==
  LET dead == {k \in Attempts : objs[Cn(k)].live /\ ~Referenced(k)'}
      fds  == {objs[Cn(k)].fd : k \in dead}
  IN  /\ object' = [h \in Handlers |->
                      IF h \in {Cn(k) : k \in dead} THEN [objs[h] EXCEPT !.live = FALSE]
                                                    ELSE objs[h]]
      /\ sock' = [fd \in Fds |-> IF fd \in fds THEN NoSocket ELSE socks[fd]]
      /\ poll' = Closed(p, fds)

(* Handler h of the objects objs asks for events, and the rest of them. *)
Asks(objs, h, events) == [objs EXCEPT ![h].events = events]

(* A callback is called; a run of messages is told as one. *)
Calls(callback, k) ==
  /\ calls' = <<[callback |-> callback, of |-> k]>> \o calls
  /\ told' = [told EXCEPT ![k] =
                IF callback = "message" /\ @ # <<>> /\ @[Len(@)] = "message"
                THEN @ ELSE Append(@, callback)]

(* ConnEstablish: a connection on fd takes the place of the last one in    *)
(* _conn, and Start() begins with it; up to the connection callback.       *)
Establish(k, fd, objs, socks, p) ==
  /\ state' = "CONNECTED"
  /\ conn' = k
  /\ kept' = IF Keeps THEN kept \cup {k} ELSE kept
  /\ connState' = [connState EXCEPT ![k] = "CONNECTED"]
  /\ Calls("connection", k)
  /\ Settle([objs EXCEPT ![Cn(k)] = [live |-> TRUE, fd |-> fd, events |-> ReadEvents]],
            socks, Update(p, Cn(k), fd, ReadEvents))

Asserted_Always(k) == TRUE

Asserted(k) == Asserts => conn = k

DisablesAll_Not(k) == Settle(object, sock, poll)

DisablesAll(k) ==
  Settle(Asks(object, Cn(k), {}), sock, Update(poll, Cn(k), object[Cn(k)].fd, {}))

(* TcpConnection::Close and TCPClient::HandleClose, up to the disconnect   *)
(* callback, or to the assertion that fails.                               *)
CloseBegins(k) ==
  \/ /\ Asserted(k)
     /\ conn' = None
     /\ Calls("close", k)
     /\ UNCHANGED <<state, connHandler, kept, connState, proc, touched, next>>
     /\ DisablesAll(k)
  \/ /\ ~Asserted(k)
     /\ proc' = "assert"
     /\ UNCHANGED <<client, kept, objects, calls, touched, told, next>>
-----------------------------------------------------------------------------
(* The application.                                                        *)

(* Where its code runs: in the innermost callback, or in the callback of   *)
(* another handler between two events of the batch.                        *)
InApplication == Up /\ (calls # <<>> \/ event = NoEvent)

InCallbackOf(k) ==
  calls # <<>> /\ Head(calls).of = k /\ Head(calls).callback \in {"connection", "message"}

(* Connect, as far as the socket, which has the lowest free number. *)
CreatesSocket(fd) ==
  /\ InApplication
  /\ Polite => conn = None
  /\ state = "DIS_CONNECTED"
  /\ next <= MaxAttempts
  /\ sock[fd].at = "free" /\ \A low \in Fds : low < fd => sock[low].at # "free"
  /\ next' = next + 1

(* connect(2) succeeds at once.  (When it fails at once, and when there is *)
(* no descriptor, everything is as it was before the call.)                *)
ConnectAtOnce(fd) ==
  /\ CreatesSocket(fd)
  /\ Establish(next, fd, object, [sock EXCEPT ![fd].at = "up"], poll)
  /\ UNCHANGED <<connHandler, batch, event, proc, touched>>

ConnectEvents_None == {}

(* What the Handler of an attempt waits for. *)
ConnectEvents == {"OUT"}

(* EINPROGRESS, and Connecting: the new Handler takes the place of the old *)
(* one in _connHandler, if there is one.                                   *)
ConnectInProgress(fd) ==
  /\ CreatesSocket(fd)
  /\ state' = "CONNECTING"
  /\ connHandler' = next
  /\ object' = [h \in Handlers |->
                  IF h = At(next) THEN [live |-> TRUE, fd |-> fd, events |-> ConnectEvents]
                  ELSE IF connHandler # None /\ h = At(connHandler)
                       THEN [object[h] EXCEPT !.live = FALSE]
                       ELSE object[h]]
  /\ sock' = [sock EXCEPT ![fd].at = "connecting"]
  /\ poll' = Update(poll, At(next), fd, ConnectEvents)
  /\ UNCHANGED <<conn, kept, connState, loop, proc, touched, told>>

(* Disconnect, with ShutDown of the connection inlined. *)
Disconnect ==
  /\ InApplication
  /\ conn # None
  /\ state' = "DIS_CONNECTED"
  /\ connState' = [connState EXCEPT ![conn] = IF @ = "CONNECTED" THEN "DIS_CONNECTING" ELSE @]
  /\ sock' = IF connState[conn] = "CONNECTED" /\ "OUT" \notin object[Cn(conn)].events
             THEN [sock EXCEPT ![object[Cn(conn)].fd].fin = TRUE]
             ELSE sock
  /\ UNCHANGED <<connHandler, conn, kept, object, poll, loop, proc, touched, told, next>>

(* Disconnect without a connection: a call through a null pointer. *)
DisconnectsNothing ==
  /\ InApplication
  /\ ~Polite
  /\ conn = None
  /\ proc' = "crash"
  /\ UNCHANGED <<client, kept, objects, loop, touched, told, next>>

(* The connections it has a pointer to, apart from the client's own. *)
HasPointer(k) == k \in kept \/ InCallbackOf(k)

(* TCPClient::Send, or send on a connection the application has a pointer  *)
(* to, when the kernel does not take all of it.  A connection whose close  *)
(* callback has not returned is not DIS_CONNECTED.                         *)
SendLeavesBytes(k) ==
  /\ InApplication
  /\ k \in Sends
  /\ k = conn \/ HasPointer(k)
  /\ Polite => k = conn
  /\ connState[k] # "DIS_CONNECTED"
  /\ "OUT" \notin object[Cn(k)].events
  /\ LET events == object[Cn(k)].events \cup {"OUT"}
     IN  /\ object' = Asks(object, Cn(k), events)
         /\ poll' = Update(poll, Cn(k), object[Cn(k)].fd, events)
  /\ UNCHANGED <<client, kept, connState, sock, loop, proc, touched, told, next>>

(* Close() of a connection that the application has a pointer to. *)
Closes(k) ==
  /\ InApplication
  /\ HasPointer(k)
  /\ Polite => InCallbackOf(k) /\ k = conn
  /\ CloseBegins(k)
  /\ UNCHANGED <<batch, event>>

(* The application drops its pointer once it knows of the end. *)
Releases(k) ==
  /\ InApplication
  /\ calls = <<>>
  /\ k \in kept /\ connState[k] = "DIS_CONNECTED"
  /\ kept' = kept \ {k}
  /\ UNCHANGED <<client, connState, loop, proc, touched, told, next>>
  /\ Settle(object, sock, poll)

Application ==
  \/ \E fd \in Fds : ConnectAtOnce(fd) \/ ConnectInProgress(fd)
  \/ Disconnect \/ DisconnectsNothing
  \/ \E k \in Attempts : SendLeavesBytes(k) \/ Closes(k) \/ Releases(k)
-----------------------------------------------------------------------------
(* The event loop.                                                         *)

Trigger(fd) ==
  LET s == sock[fd]
  IN  {e \in poll.interest[fd].events :
         \/ e = "IN" /\ (s.data \/ s.peerFin)
         \/ e = "PRI" /\ s.urgent # "none"
         \/ e = "OUT" /\ s.at \in {"refused", "up"}}
      \cup {e \in {"HUP"} : s.at = "refused" \/ (s.fin /\ s.peerFin)}
      \cup {e \in {"ERR"} : s.at = "refused"}

(* epoll_wait: the event array has room for every descriptor. *)
Wait ==
  /\ Up /\ event = NoEvent /\ calls = <<>> /\ batch = {}
  /\ batch' = {[handler |-> poll.interest[fd].handler, trig |-> Trigger(fd)] :
                 fd \in {f \in Fds : poll.interest[f] # Unregistered /\ Trigger(f) # {}}}
  /\ batch' # {}
  /\ UNCHANGED <<client, kept, objects, event, calls, proc, touched, told, next>>

HandleEvent(e) ==
  /\ Up /\ event = NoEvent /\ calls = <<>>
  /\ e \in batch
  /\ batch' = batch \ {e}
  /\ event' = [handler |-> e.handler, trig |-> e.trig, phase |-> "read"]
  /\ UNCHANGED <<client, kept, objects, calls, proc, touched, told, next>>

(* HandleEvent is in a phase, in no callback, of a Handler of kind. *)
Handling(kind, k, phase) ==
  /\ Up /\ calls = <<>>
  /\ event # NoEvent /\ event.handler = <<kind, k>> /\ event.phase = phase

Alive == object[event.handler].live

EventGoesOn ==
  event' = CASE event.phase = "read"  -> [event EXCEPT !.phase = "write"]
             [] event.phase = "write" -> [event EXCEPT !.phase = "error"]
             [] OTHER -> NoEvent

(* HandleEvent looks for a callback in this phase. *)
Triggered ==
  CASE event.phase = "read"  -> event.trig \cap {"IN", "PRI", "HUP"} # {}
    [] event.phase = "write" -> "OUT" \in event.trig
    [] OTHER                 -> "ERR" \in event.trig

(* The callbacks that are set in the Handlers of a kind. *)
IsSet(kind) ==
  CASE event.phase = "read"  -> kind = "connection"
    [] event.phase = "write" -> TRUE
    [] OTHER                 -> kind = "attempt"

PhasePasses ==
  /\ Up /\ calls = <<>> /\ event # NoEvent
  /\ Triggered => Alive /\ ~IsSet(event.handler[1])
  /\ EventGoesOn
  /\ UNCHANGED <<client, kept, objects, batch, calls, proc, touched, told, next>>

(* The callback is looked for in a Handler that was freed. *)
PhaseOfFreedHandler ==
  /\ Up /\ calls = <<>> /\ event # NoEvent
  /\ Triggered /\ ~Alive
  /\ touched' = touched \cup {event.handler}
  /\ proc' \in {"up", "crash"}
  /\ EventGoesOn
  /\ UNCHANGED <<client, kept, objects, batch, calls, told, next>>

(* TcpConnection::HandleRead with bytes: the message callback.  One readv  *)
(* stops at an urgent byte, or skips the one it begins at.                 *)
HandleReadBytes(k) ==
  /\ Handling("connection", k, "read")
  /\ Triggered /\ Alive
  /\ sock[object[Cn(k)].fd].data
  /\ \E more \in BOOLEAN :
       /\ more => sock[object[Cn(k)].fd].urgent = "behind"
       /\ sock' = [sock EXCEPT ![object[Cn(k)].fd].data = more,
                              ![object[Cn(k)].fd].urgent =
                                IF @ = "behind" THEN "next" ELSE "none"]
  /\ Calls("message", k)
  /\ EventGoesOn
  /\ UNCHANGED <<client, kept, object, connState, poll, batch, proc, touched, next>>

HandleReadEof_Ignored(k) ==
  /\ Handling("connection", k, "read")
  /\ Triggered /\ Alive
  /\ ~sock[object[Cn(k)].fd].data /\ sock[object[Cn(k)].fd].peerFin
  /\ EventGoesOn
  /\ UNCHANGED <<client, kept, objects, batch, calls, proc, touched, told, next>>

(* ... with an urgent byte only, which readv skips: EAGAIN. *)
HandleReadAgain(k) ==
  /\ Handling("connection", k, "read")
  /\ Triggered /\ Alive
  /\ ~sock[object[Cn(k)].fd].data /\ ~sock[object[Cn(k)].fd].peerFin
  /\ sock' = [sock EXCEPT ![object[Cn(k)].fd].urgent = "none"]
  /\ EventGoesOn
  /\ UNCHANGED <<client, kept, object, connState, poll, batch, calls, proc, touched, told, next>>

(* ... at the end of the stream. *)
HandleReadEof(k) ==
  /\ Handling("connection", k, "read")
  /\ Triggered /\ Alive
  /\ ~sock[object[Cn(k)].fd].data /\ sock[object[Cn(k)].fd].peerFin
  /\ EventGoesOn
  /\ CloseBegins(k)
  /\ UNCHANGED batch

(* TcpConnection::HandleWrite, which empties the output buffer or does     *)
(* not, and does the shutdown that was put off.                            *)
HandleWriteBytes(k) ==
  /\ Handling("connection", k, "write")
  /\ Triggered /\ Alive
  /\ EventGoesOn
  /\ \/ UNCHANGED <<object, poll, sock>>
     \/ /\ "OUT" \in object[Cn(k)].events
        /\ LET events == object[Cn(k)].events \ {"OUT"}
               fd     == object[Cn(k)].fd
           IN  /\ object' = Asks(object, Cn(k), events)
               /\ poll' = Update(poll, Cn(k), fd, events)
               /\ sock' = IF connState[k] = "DIS_CONNECTING"
                          THEN [sock EXCEPT ![fd].fin = TRUE] ELSE sock
  /\ UNCHANGED <<client, kept, connState, batch, calls, proc, touched, told, next>>

(* TCPClient::HandleWrite, as far as connHandler.reset(): the Handler of   *)
(* the attempt is unregistered and freed, in its own callback.             *)
TakesFrom(k, fd) ==
  /\ state = "CONNECTING"
  /\ connHandler = k
  /\ fd = object[At(k)].fd
  /\ connHandler' = None

Freed_StaysAlive(k) == object

Freed(k) == [object EXCEPT ![At(k)] = [live |-> FALSE, fd |-> @.fd, events |-> {}]]

(* ... SO_ERROR is 0. *)
HandleWriteConnected(k, fd) ==
  /\ Handling("attempt", k, "write")
  /\ Triggered /\ Alive
  /\ TakesFrom(k, fd)
  /\ sock[fd].at = "up"
  /\ Establish(k, fd, Freed(k), sock, Update(poll, At(k), fd, {}))
  /\ EventGoesOn
  /\ UNCHANGED <<batch, proc, touched, next>>

(* ... SO_ERROR is an error: up to the disconnect callback.  The socket    *)
(* stays open, and the client's state CONNECTING.                          *)
HandleWriteFailed(k, fd) ==
  /\ Handling("attempt", k, "write")
  /\ Triggered /\ Alive
  /\ TakesFrom(k, fd)
  /\ sock[fd].at = "refused"
  /\ object' = Freed(k)
  /\ poll' = Update(poll, At(k), fd, {})
  /\ Calls("failed", k)
  /\ EventGoesOn
  /\ UNCHANGED <<state, conn, kept, sock, connState, batch, proc, touched, next>>

(* HandleWrite and HandleError find that the client is not connecting.     *)
(* (HandleError finds it connecting only if it is reached through a freed  *)
(* Handler: a refused socket is also writable, and HandleWrite is first.)  *)
AttemptIgnored(k) ==
  /\ \/ Handling("attempt", k, "write")
     \/ Handling("attempt", k, "error")
  /\ Triggered /\ Alive
  /\ state # "CONNECTING"
  /\ EventGoesOn
  /\ UNCHANGED <<client, kept, objects, batch, calls, proc, touched, told, next>>

(* A callback returns.  After the close callback Close() still writes      *)
(* _state, when its temporary pointer is gone.                             *)
CallbackReturns ==
  /\ Up /\ calls # <<>>
  /\ calls' = Tail(calls)
  /\ UNCHANGED <<conn, kept>>
  /\ \E call \in {Head(calls)} :
       IF call.callback = "close"
       THEN /\ connState' = [connState EXCEPT ![call.of] = "DIS_CONNECTED"]
            /\ touched' = IF Referenced(call.of)' THEN touched
                          ELSE touched \cup {Cn(call.of)}
       ELSE UNCHANGED <<connState, touched>>
  /\ Settle(object, sock, poll)
  /\ UNCHANGED <<state, connHandler, batch, event, proc, told, next>>

Loop ==
  \/ Wait
  \/ \E e \in batch : HandleEvent(e)
  \/ PhasePasses \/ PhaseOfFreedHandler
  \/ \E k \in Attempts :
       \/ HandleReadBytes(k) \/ HandleReadAgain(k) \/ HandleReadEof(k)
       \/ HandleWriteBytes(k) \/ AttemptIgnored(k)
  \/ \E k \in Attempts, fd \in Fds : HandleWriteConnected(k, fd) \/ HandleWriteFailed(k, fd)
  \/ CallbackReturns
-----------------------------------------------------------------------------
(* The network.                                                            *)

Answers(fd, answer) ==
  /\ Up /\ sock[fd].at = "connecting"
  /\ sock' = [sock EXCEPT ![fd].at = answer]

Accepts(fd) == Answers(fd, "up")

Refuses(fd) == Refusals /\ Answers(fd, "refused")

PeerSends(fd) ==
  /\ Up /\ sock[fd].at = "up" /\ ~sock[fd].peerFin
  /\ sock' = [sock EXCEPT ![fd].data = TRUE]

PeerUrges(fd) ==
  /\ fd \in Urgent
  /\ Up /\ sock[fd].at = "up" /\ ~sock[fd].peerFin
  /\ sock[fd].urgent = "none"
  /\ sock' = [sock EXCEPT ![fd].urgent = IF sock[fd].data THEN "behind" ELSE "next"]

PeerFinishes(fd) ==
  /\ Up /\ sock[fd].at = "up"
  /\ sock' = [sock EXCEPT ![fd].peerFin = TRUE]

Network ==
  /\ \E fd \in Fds :
       \/ Accepts(fd) \/ Refuses(fd)
       \/ PeerSends(fd) \/ PeerUrges(fd) \/ PeerFinishes(fd)
  /\ UNCHANGED <<client, kept, object, connState, poll, loop, proc, touched, told, next>>

Next == Application \/ Loop \/ Network

Spec == Init /\ [][Next]_vars

(* The loop runs on and callbacks return; connecting comes to an end (with *)
(* a timeout of the kernel's at the latest).                               *)
FairSpec ==
  /\ Spec
  /\ WF_vars(Loop)
  /\ \A fd \in Fds : WF_vars((Accepts(fd) \/ Refuses(fd)) /\ Network)
-----------------------------------------------------------------------------
(* Properties.                                                             *)

(* The assertion of HandleClose: what is closed is the current connection. *)
AssertHolds == proc # "assert"

(* Through attempts, connections, reconnections and the reuse of their     *)
(* descriptors, map, registrations and living Handlers agree, and no       *)
(* EPOLL_CTL_ADD or MOD fails.                                             *)
InStep == ~poll.failed /\ MapInStep(poll, object)

(* No freed Handler and no freed connection is used, but for the Handler   *)
(* of an attempt that was refused, in whose event the error callback is    *)
(* looked for after HandleWrite has freed it.                              *)
FreedUseOnlyWhenRefused ==
  \A h \in touched : h[1] = "attempt" /\ "failed" \in {told[h[2]][i] : i \in DOMAIN told[h[2]]}

Owner(fd) == {h \in Handlers : object[h].live /\ object[h].fd = fd}

(* A descriptor has one living Handler while it is open, and none when it  *)
(* is not: attempt and connection do not watch it together, and it does    *)
(* not outlive both.  Only the socket of a refused attempt is left open    *)
(* with no owner.                                                          *)
OnlyRefusedLeak ==
  \A fd \in Fds :
    /\ sock[fd].at \in {"connecting", "up"} => Cardinality(Owner(fd)) = 1
    /\ sock[fd].at = "free" => Owner(fd) = {}

(* The application hears of an attempt's failure, or of the connection and *)
(* then, once, of its end.                                                 *)
ToldOnce ==
  \A k \in Attempts : \A i \in DOMAIN told[k] :
    /\ told[k][i] = "failed" => Len(told[k]) = 1
    /\ told[k][i] = "connection" <=> i = 1 /\ told[k] # <<"failed">>
    /\ told[k][i] = "close" => \A j \in DOMAIN told[k] : told[k][j] = "close" => j = i

(* ... and of no message after the end. *)
EndIsLast ==
  \A k \in Attempts : \A i \in DOMAIN told[k] :
    told[k][i] = "close" => i = Len(told[k])

(* Every attempt is answered by a callback. *)
Answered ==
  \A k \in Attempts : next > k ~> told[k] # <<>> \/ ~Up

(* The end of the peer's stream leads to the disconnect callback. *)
EndIsTold ==
  \A fd \in Fds :
    sock[fd].peerFin ~> sock[fd].at = "free" \/ ~Up
                        \/ \E h \in Owner(fd) : "close" \in {told[h[2]][i] : i \in DOMAIN told[h[2]]}
=============================================================================
