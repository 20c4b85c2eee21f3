----------------------------- MODULE EpollTable -----------------------------
(***************************************************************************)
(* Epoller::Update (EpollerImp.cpp): the map _handlers from descriptors to *)
(* handlers, which decides between EPOLL_CTL_ADD, MOD and DEL, and the     *)
(* registrations that the kernel keeps.  The two are separate: close(2)    *)
(* drops the kernel's registration and leaves the map alone.               *)
(*                                                                         *)
(* The operators return the new state of a poller p; the modules of the    *)
(* Epoller's users apply them.                                             *)
(***************************************************************************)
CONSTANTS
  Handlers,     (* the Handler objects                                     *)
  Fds,          (* the descriptors                                         *)
  None          (* the value of a pointer to no Handler                    *)

ASSUME EpollTableAssumption == None \notin Handlers

(* Handler's ReadEvent; the kernel reports the two by themselves. *)
ReadEvents == {"IN", "PRI"}

EventKinds == ReadEvents \cup {"OUT"}

Unregistered == [handler |-> None, events |-> {}]

(* failed: an EPOLL_CTL_ADD or MOD has failed, for which the code logs a   *)
(* critical error and aborts.                                              *)
Poller ==
  [table    : [Fds -> Handlers \cup {None}],
   interest : [Fds -> [handler : Handlers \cup {None}, events : SUBSET EventKinds]],
   failed   : BOOLEAN]

NewPoller ==
  [table    |-> [fd \in Fds |-> None],
   interest |-> [fd \in Fds |-> Unregistered],
   failed   |-> FALSE]

Registers(p, h, fd, events) ==
  [p EXCEPT !.interest[fd] = [handler |-> h, events |-> events]]

Add(p, h, fd, events) ==
  IF p.interest[fd] = Unregistered
  THEN Registers(p, h, fd, events)
  ELSE [p EXCEPT !.failed = TRUE]

Mod(p, h, fd, events) ==
  IF p.interest[fd] # Unregistered
  THEN Registers(p, h, fd, events)
  ELSE [p EXCEPT !.failed = TRUE]

(* A DEL that fails is only logged. *)
Del(p, fd) == [p EXCEPT !.interest[fd] = Unregistered]

Update_NeverForgets(p, h, fd, events) ==
  CASE p.table[fd] # None /\ events = {} -> Del(p, fd)
    [] p.table[fd] # None /\ events # {} -> Mod(p, h, fd, events)
    [] p.table[fd] = None /\ events # {} ->
         Add([p EXCEPT !.table[fd] = h], h, fd, events)
    [] OTHER -> p

(* Update of handler h on descriptor fd, which asks for events. *)
Update(p, h, fd, events) ==
  CASE p.table[fd] # None /\ events = {} -> [Del(p, fd) EXCEPT !.table[fd] = None]
    [] p.table[fd] # None /\ events # {} -> Mod(p, h, fd, events)
    [] p.table[fd] = None /\ events # {} ->
         Add([p EXCEPT !.table[fd] = h], h, fd, events)
    [] OTHER -> p

(* close(2) of the descriptors fds, of which no duplicates exist. *)
Closed(p, fds) ==
  [p EXCEPT !.interest =
     [fd \in Fds |-> IF fd \in fds THEN Unregistered ELSE @[fd]]]

(* The kernel watches for the handlers h, on the descriptors and with the  *)
(* events that the objects have, what the map says it does.                *)
MapInStep(p, object) ==
  \A fd \in Fds :
    /\ p.table[fd] = p.interest[fd].handler
    /\ p.table[fd] # None =>
         /\ object[p.table[fd]].live
         /\ object[p.table[fd]].fd = fd
         /\ object[p.table[fd]].events = p.interest[fd].events
         /\ object[p.table[fd]].events # {}
=============================================================================
