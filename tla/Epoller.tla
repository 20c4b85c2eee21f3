------------------------------ MODULE Epoller ------------------------------
(***************************************************************************)
(* The event loop (Epoller.h, EpollerImp.cpp) and the Handler objects      *)
(* registered with it (HandlerImp.cpp), for users of any kind: what they   *)
(* do in their callbacks is left open, but for a rule.  A user closes the  *)
(* descriptor of a handler, and destroys the handler, only after           *)
(* DisableAll, does not enable a handler whose descriptor is closed, and   *)
(* does not destroy one whose event waits in the batch.  Acceptor and      *)
(* TCPClient's connecting handler follow the rule; connections do as long  *)
(* as Close() is what ends them (module TcpClient).                        *)
(*                                                                         *)
(* A batch is kept as the set of its handlers: which events they are       *)
(* called with is a matter of TcpConnection and TcpClient.                 *)
(***************************************************************************)
EXTENDS EpollTable, Integers, FiniteSets

CONSTANTS
  InitEventNum      (* Epoller::INIT_EVENT_NUM                             *)

ASSUME EpollerAssumption ==
  /\ InitEventNum \in Nat \ {0}
  /\ IsFiniteSet(Handlers)

VARIABLES
  object,   (* the Handlers: whether constructed, _fd and _events           *)
  open,     (* the open descriptors                                         *)
  ready,    (* what the kernel has for each descriptor                      *)
  poll,     (* _handlers and the registrations                              *)
  size,     (* _events.size()                                               *)
  num,      (* numEvents of the last epoll_wait                             *)
  batch,    (* its events that HandleEvent has not been called with         *)
  running   (* the handler whose HandleEvent runs                           *)

vars == <<object, open, ready, poll, size, num, batch, running>>

Object == [live : BOOLEAN, fd : Fds, events : SUBSET EventKinds]

TypeOK ==
  /\ object \in [Handlers -> Object]
  /\ open \subseteq Fds
  /\ ready \in [Fds -> SUBSET EventKinds]
  /\ poll \in Poller
  /\ size \in Nat \ {0}
  /\ num \in Nat
  /\ batch \in SUBSET Handlers
  /\ running \in Handlers \cup {None}

Init ==
  /\ object \in [Handlers -> [live : {FALSE}, fd : Fds, events : {{}}]]
  /\ open = {}
  /\ ready = [fd \in Fds |-> {}]
  /\ poll = NewPoller
  /\ size = InitEventNum
  /\ num = 0
  /\ batch = {}
  /\ running = None
-----------------------------------------------------------------------------
(* The users.  Their code runs in callbacks, and before Loop.              *)

Opens(fd) ==
  /\ ~poll.failed
  /\ fd \notin open
  /\ open' = open \cup {fd}
  /\ UNCHANGED <<object, ready, poll, size, num, batch, running>>

Creates(h, fd) ==
  /\ ~poll.failed
  /\ fd \in open
  /\ ~object[h].live
  /\ \A other \in Handlers : object[other].live => object[other].fd # fd
  /\ object' = [object EXCEPT ![h] = [live |-> TRUE, fd |-> fd, events |-> {}]]
  /\ UNCHANGED <<open, ready, poll, size, num, batch, running>>

SetEvents_NotUpdated(h, events) ==
  /\ ~poll.failed
  /\ object[h].live /\ object[h].fd \in open
  /\ object' = [object EXCEPT ![h].events = events]
  /\ UNCHANGED <<poll, open, ready, size, num, batch, running>>

(* EnableRead, EnableWrite, DisableWrite and DisableAll: the handler's own *)
(* _events, then Update.                                                   *)
SetEvents(h, events) ==
  /\ ~poll.failed
  /\ object[h].live /\ object[h].fd \in open
  /\ object' = [object EXCEPT ![h].events = events]
  /\ poll' = Update(poll, h, object[h].fd, events)
  /\ UNCHANGED <<open, ready, size, num, batch, running>>

EnableRead(h)   == SetEvents(h, object[h].events \cup ReadEvents)
EnableWrite(h)  == SetEvents(h, object[h].events \cup {"OUT"})

DisableWrite(h) == SetEvents(h, object[h].events \ {"OUT"})
DisableAll(h)   == SetEvents(h, {})

(* ~Handler does not touch the Epoller. *)
Destroys(h) ==
  /\ ~poll.failed
  /\ object[h].live
  /\ object[h].events = {} /\ h \notin batch
  /\ object' = [object EXCEPT ![h].live = FALSE]
  /\ UNCHANGED <<open, ready, poll, size, num, batch, running>>

Closes(fd) ==
  /\ ~poll.failed
  /\ fd \in open
  /\ \A h \in Handlers : object[h].live /\ object[h].fd = fd => object[h].events = {}
  /\ open' = open \ {fd}
  /\ ready' = [ready EXCEPT ![fd] = {}]
  /\ poll' = Closed(poll, {fd})
  /\ UNCHANGED <<object, size, num, batch, running>>

User ==
  \/ \E fd \in Fds : Opens(fd) \/ Closes(fd)
  \/ \E h \in Handlers, fd \in Fds : Creates(h, fd)
  \/ \E h \in Handlers :
       EnableRead(h) \/ EnableWrite(h) \/ DisableWrite(h) \/ DisableAll(h) \/ Destroys(h)
-----------------------------------------------------------------------------
(* The kernel finds something to report for a descriptor, and the calls of *)
(* a callback use it up.                                                   *)
Arrives(fd, e) ==
  /\ ~poll.failed
  /\ fd \in open
  /\ ready' = [ready EXCEPT ![fd] = @ \cup {e}]
  /\ UNCHANGED <<object, open, poll, size, num, batch, running>>

UsesUp(fd, e) ==
  /\ ~poll.failed
  /\ running # None /\ object[running].fd = fd
  /\ e \in ready[fd]
  /\ ready' = [ready EXCEPT ![fd] = @ \ {e}]
  /\ UNCHANGED <<object, open, poll, size, num, batch, running>>

(* The handlers whose descriptor has an event they are registered for. *)
Reportable ==
  {poll.interest[fd].handler :
     fd \in {f \in Fds : poll.interest[f].events \cap ready[f] # {}}}

Grown == IF num = size THEN 2 * size ELSE size

Wait_NoGrowth ==
  /\ ~poll.failed
  /\ running = None /\ batch = {}
  /\ batch' \in SUBSET Reportable \ {{}}
  /\ Cardinality(batch') =
       IF Cardinality(Reportable) < size THEN Cardinality(Reportable) ELSE size
  /\ num' = Cardinality(batch')
  /\ UNCHANGED <<object, open, ready, poll, size, running>>

(* The end of the batch: the array that was full grows; and epoll_wait,    *)
(* which fills it with any of the handlers that have something ready.      *)
Wait ==
  /\ ~poll.failed
  /\ running = None /\ batch = {}
  /\ size' = Grown
  /\ batch' \in SUBSET Reportable \ {{}}
  /\ Cardinality(batch') =
       IF Cardinality(Reportable) < size' THEN Cardinality(Reportable) ELSE size'
  /\ num' = Cardinality(batch')
  /\ UNCHANGED <<object, open, ready, poll, running>>

(* The loop comes to an event of the batch; they are in no order. *)
HandleEvent(h) ==
  /\ ~poll.failed
  /\ running = None /\ h \in batch
  /\ running' = h
  /\ batch' = batch \ {h}
  /\ UNCHANGED <<object, open, ready, poll, size, num>>

HandleEventReturns ==
  /\ ~poll.failed
  /\ running # None
  /\ running' = None
  /\ UNCHANGED <<object, open, ready, poll, size, num, batch>>

Loop == Wait \/ (\E h \in Handlers : HandleEvent(h)) \/ HandleEventReturns

Kernel == \E fd \in Fds, e \in EventKinds : Arrives(fd, e) \/ UsesUp(fd, e)

Next == User \/ Kernel \/ Loop

Spec == Init /\ [][Next]_vars

(* The loop's thread runs on, and callbacks return. *)
FairSpec == Spec /\ WF_vars(Loop)
-----------------------------------------------------------------------------
(* Users that follow the rule find the map and the kernel's registrations  *)
(* in step, also when descriptors and handlers are used again: what the    *)
(* map calls present is, with the handler and the events it should be.     *)
(* Hence no EPOLL_CTL_ADD or MOD, between which Update chooses by the map, *)
(* has failed, which would have aborted the process.                       *)
InStep == ~poll.failed /\ MapInStep(poll, object)

(* ... and every handler that asks for events has them watched. *)
Watched ==
  \A h \in Handlers :
    object[h].live /\ object[h].events # {} => poll.table[object[h].fd] = h

(* No handler starves, whichever of the ready ones the kernel reports when *)
(* they do not all fit: the array grows until they do.                     *)
Served ==
  \A h \in Handlers :
    h \in Reportable ~> running = h \/ h \notin Reportable \/ poll.failed
=============================================================================
