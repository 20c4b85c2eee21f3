--------------------------- MODULE Epoller_proofs ---------------------------
(***************************************************************************)
(* Proofs about the Epoller: for every set of handlers and descriptors the *)
(* map and the kernel's registrations stay in step, and no EPOLL_CTL_ADD   *)
(* or MOD fails.                                                           *)
(***************************************************************************)
EXTENDS Epoller, FiniteSetTheorems, TLAPS

(* What makes InStep inductive: an unregistered descriptor has no events   *)
(* left over, and two handlers do not share a descriptor.                  *)
Blank(p) == \A fd \in Fds : p.interest[fd].handler = None => p.interest[fd] = Unregistered

Mapped == MapInStep(poll, object)

CtlSucceeds == ~poll.failed

OneEach ==
  \A g, h \in Handlers : object[g].live /\ object[h].live /\ object[g].fd = object[h].fd => g = h

IInv == TypeOK /\ Mapped /\ Watched /\ CtlSucceeds /\ Blank(poll) /\ OneEach

-----------------------------------------------------------------------------
(* Update of the only handler on a descriptor, with the map in step there, *)
(* sets both entries of the descriptor and does not fail.                  *)
LEMMA UpdateEffect ==
  ASSUME NEW p \in Poller, NEW h \in Handlers, NEW fd \in Fds,
         NEW events \in SUBSET EventKinds,
         p.table[fd] \in {None, h}, p.table[fd] = p.interest[fd].handler,
         Blank(p), ~p.failed
  PROVE  /\ Update(p, h, fd, events) \in Poller
         /\ ~Update(p, h, fd, events).failed
         /\ Update(p, h, fd, events).table =
              [p.table EXCEPT ![fd] = IF events = {} THEN None ELSE h]
         /\ Update(p, h, fd, events).interest =
              [p.interest EXCEPT ![fd] = IF events = {} THEN Unregistered
                                         ELSE [handler |-> h, events |-> events]]
<1> DEFINE q == Update(p, h, fd, events)
<1>0. h # None
  BY EpollTableAssumption
<1>1. /\ p.table \in [Fds -> Handlers \cup {None}]
      /\ p.interest \in [Fds -> [handler : Handlers \cup {None}, events : SUBSET EventKinds]]
      /\ p.failed \in BOOLEAN
      /\ p = [table |-> p.table, interest |-> p.interest, failed |-> p.failed]
  BY DEF Poller
<1>2. CASE p.table[fd] = None /\ events = {}
  <2>1. q = p
    BY <1>2 DEF Update
  <2>2. p.interest[fd] = Unregistered
    BY <1>2 DEF Blank
  <2> QED
    BY <1>1, <1>2, <2>1, <2>2
<1>3. CASE p.table[fd] = None /\ events # {}
  <2> DEFINE p1 == [p EXCEPT !.table[fd] = h]
  <2>1. q = Add(p1, h, fd, events)
    BY <1>3 DEF Update
  <2>2. p1 = [table |-> [p.table EXCEPT ![fd] = h], interest |-> p.interest,
              failed |-> p.failed]
    <3>1. p = [table |-> p.table, interest |-> p.interest, failed |-> p.failed]
      BY <1>1
    <3> QED
      BY <3>1
  <2>3. p1.interest[fd] = Unregistered
    BY <1>3, <2>2 DEF Blank
  <2>4. q = Registers(p1, h, fd, events)
    BY <2>1, <2>3 DEF Add
  <2>5. q = [table |-> [p.table EXCEPT ![fd] = h],
             interest |-> [p.interest EXCEPT ![fd] = [handler |-> h, events |-> events]],
             failed |-> p.failed]
    BY <2>2, <2>4 DEF Registers
  <2>6. /\ [p.table EXCEPT ![fd] = h] \in [Fds -> Handlers \cup {None}]
        /\ [p.interest EXCEPT ![fd] = [handler |-> h, events |-> events]]
             \in [Fds -> [handler : Handlers \cup {None}, events : SUBSET EventKinds]]
    BY <1>1
  <2>7. q \in Poller
    BY <1>1, <2>5, <2>6 DEF Poller
  <2>8. /\ q.table = [p.table EXCEPT ![fd] = h]
        /\ q.interest = [p.interest EXCEPT ![fd] = [handler |-> h, events |-> events]]
        /\ q.failed = p.failed
    BY <2>5
  <2> QED
    BY <1>3, <2>7, <2>8
<1>4. CASE p.table[fd] = h /\ events # {}
  <2>1. q = Mod(p, h, fd, events)
    BY <1>0, <1>4 DEF Update
  <2>2. p.interest[fd] # Unregistered
    <3>1. Unregistered.handler = None
      BY DEF Unregistered
    <3> QED
      BY <1>0, <1>4, <3>1
  <2>3. q = Registers(p, h, fd, events)
    BY <2>1, <2>2 DEF Mod
  <2>4. q = [table |-> p.table,
             interest |-> [p.interest EXCEPT ![fd] = [handler |-> h, events |-> events]],
             failed |-> p.failed]
    BY <1>1, <2>3 DEF Registers
  <2>5. [p.interest EXCEPT ![fd] = [handler |-> h, events |-> events]]
          \in [Fds -> [handler : Handlers \cup {None}, events : SUBSET EventKinds]]
    BY <1>1
  <2>6. q \in Poller
    BY <1>1, <2>4, <2>5 DEF Poller
  <2>7. /\ q.interest = [p.interest EXCEPT ![fd] = [handler |-> h, events |-> events]]
        /\ q.table = p.table /\ q.failed = p.failed
    BY <2>4
  <2>8. p.table = [p.table EXCEPT ![fd] = h]
    BY <1>1, <1>4
  <2> QED
    BY <1>4, <2>6, <2>7, <2>8
<1>5. CASE p.table[fd] = h /\ events = {}
  <2>1. q = [Del(p, fd) EXCEPT !.table[fd] = None]
    BY <1>0, <1>5 DEF Update
  <2>2. Del(p, fd) = [table |-> p.table,
                      interest |-> [p.interest EXCEPT ![fd] = Unregistered],
                      failed |-> p.failed]
    BY <1>1 DEF Del
  <2>3. q = [table |-> [p.table EXCEPT ![fd] = None],
             interest |-> [p.interest EXCEPT ![fd] = Unregistered],
             failed |-> p.failed]
    BY <2>1, <2>2
  <2>4. Unregistered \in [handler : Handlers \cup {None}, events : SUBSET EventKinds]
    BY DEF Unregistered
  <2>5. /\ [p.table EXCEPT ![fd] = None] \in [Fds -> Handlers \cup {None}]
        /\ [p.interest EXCEPT ![fd] = Unregistered]
             \in [Fds -> [handler : Handlers \cup {None}, events : SUBSET EventKinds]]
    BY <1>1, <2>4
  <2>6. q \in Poller
    BY <1>1, <2>3, <2>5 DEF Poller
  <2>7. /\ q.table = [p.table EXCEPT ![fd] = None]
        /\ q.interest = [p.interest EXCEPT ![fd] = Unregistered]
        /\ q.failed = p.failed
    BY <2>3
  <2> QED
    BY <1>5, <2>6, <2>7
<1> QED
  BY <1>2, <1>3, <1>4, <1>5

-----------------------------------------------------------------------------
LEMMA InitOK == Init => IInv
<1> SUFFICES ASSUME Init PROVE IInv
  OBVIOUS
<1>1. /\ poll.table = [fd \in Fds |-> None]
      /\ poll.interest = [fd \in Fds |-> Unregistered]
      /\ poll.failed = FALSE
      /\ poll \in Poller
  BY DEF Init, NewPoller, Poller, Unregistered
<1>2. object \in [Handlers -> Object] /\ \A h \in Handlers : ~object[h].live
  BY DEF Init, Object
<1>3. TypeOK
  BY <1>1, <1>2, EpollerAssumption DEF Init, TypeOK
<1>4. Mapped
  BY <1>1 DEF Mapped, MapInStep, Unregistered
<1> QED
  BY <1>1, <1>2, <1>3, <1>4 DEF IInv, Watched, CtlSucceeds, Blank, OneEach

(* The steps that leave the handlers and the registrations alone.          *)
LEMMA OthersOK ==
  ASSUME IInv, TypeOK', UNCHANGED <<object, poll>>
  PROVE  IInv'
BY DEF IInv, Mapped, MapInStep, Watched, CtlSucceeds, Blank, OneEach

LEMMA CreatesOK ==
  ASSUME IInv, NEW h \in Handlers, NEW fd \in Fds, Creates(h, fd)
  PROVE  IInv'
<1> DEFINE new == [live |-> TRUE, fd |-> fd, events |-> {}]
<1>1. /\ object' = [object EXCEPT ![h] = new]
      /\ UNCHANGED <<open, ready, poll, size, num, batch, running>>
      /\ ~object[h].live
      /\ \A other \in Handlers : object[other].live => object[other].fd # fd
      /\ object \in [Handlers -> Object]
  BY DEF Creates, IInv, TypeOK
<1>2. object' \in [Handlers -> Object] /\ object'[h] = new
      /\ \A g \in Handlers : g # h => object'[g] = object[g]
  BY <1>1 DEF Object
<1>3. TypeOK'
  BY <1>1, <1>2 DEF IInv, TypeOK
<1>4. Mapped'
  <2> SUFFICES ASSUME NEW f \in Fds, poll.table[f] # None
               PROVE  poll.table[f] # h
    BY <1>1, <1>2 DEF IInv, TypeOK, Poller, Mapped, MapInStep
  <2> QED
    BY <1>1 DEF IInv, Mapped, MapInStep
<1>5. Watched' /\ OneEach'
  BY <1>1, <1>2 DEF IInv, Watched, OneEach
<1> QED
  BY <1>1, <1>3, <1>4, <1>5 DEF IInv, CtlSucceeds, Blank

LEMMA SetEventsOK ==
  ASSUME IInv, NEW h \in Handlers, NEW events \in SUBSET EventKinds, SetEvents(h, events)
  PROVE  IInv'
<1> DEFINE fd == object[h].fd
<1> DEFINE reg == IF events = {} THEN Unregistered ELSE [handler |-> h, events |-> events]
<1>1. /\ object' = [object EXCEPT ![h].events = events]
      /\ poll' = Update(poll, h, fd, events)
      /\ UNCHANGED <<open, ready, size, num, batch, running>>
      /\ object[h].live /\ fd \in Fds
      /\ object \in [Handlers -> Object]
      /\ poll \in Poller
  BY DEF SetEvents, IInv, TypeOK, Object
<1>2. poll.table[fd] \in {None, h} /\ poll.table[fd] = poll.interest[fd].handler
  BY <1>1 DEF IInv, Mapped, MapInStep, OneEach, Poller
<1>3. /\ poll' \in Poller
      /\ ~poll'.failed
      /\ poll'.table = [poll.table EXCEPT ![fd] = IF events = {} THEN None ELSE h]
      /\ poll'.interest = [poll.interest EXCEPT ![fd] = reg]
  BY <1>1, <1>2, UpdateEffect DEF IInv, CtlSucceeds
<1>4. /\ object' \in [Handlers -> Object]
      /\ object'[h] = [live |-> TRUE, fd |-> fd, events |-> events]
      /\ \A g \in Handlers : g # h => object'[g] = object[g]
  BY <1>1 DEF Object
<1>5. TypeOK'
  BY <1>1, <1>3, <1>4 DEF IInv, TypeOK
<1>6. /\ poll'.table[fd] = (IF events = {} THEN None ELSE h)
      /\ poll'.interest[fd] = reg
      /\ \A f \in Fds : f # fd => poll'.table[f] = poll.table[f]
                                  /\ poll'.interest[f] = poll.interest[f]
  BY <1>1, <1>3 DEF Poller
<1>7. \A f \in Fds : f # fd => poll.table[f] # h
  BY <1>1, EpollTableAssumption DEF IInv, Mapped, MapInStep
<1>8. Mapped'
  <2> SUFFICES ASSUME NEW f \in Fds
               PROVE  /\ poll'.table[f] = poll'.interest[f].handler
                      /\ poll'.table[f] # None =>
                           /\ object'[poll'.table[f]].live
                           /\ object'[poll'.table[f]].fd = f
                           /\ object'[poll'.table[f]].events = poll'.interest[f].events
                           /\ object'[poll'.table[f]].events # {}
    BY DEF Mapped, MapInStep
  <2>1. CASE f = fd
    BY <1>4, <1>6, <2>1 DEF Unregistered
  <2>2. CASE f # fd
    <3>1. poll.table[f] # None => poll.table[f] \in Handlers /\ poll.table[f] # h
      BY <1>1, <1>7, <2>2 DEF Poller
    <3> QED
      BY <1>4, <1>6, <2>2, <3>1 DEF IInv, Mapped, MapInStep
  <2> QED
    BY <2>1, <2>2
<1>9. Watched'
  <2> SUFFICES ASSUME NEW g \in Handlers, object'[g].live, object'[g].events # {}
               PROVE  poll'.table[object'[g].fd] = g
    BY DEF Watched
  <2>1. CASE g = h
    BY <1>4, <1>6, <2>1
  <2>2. CASE g # h
    <3>1. object[g].live /\ object[g].fd # fd /\ object[g].fd \in Fds
      BY <1>1, <1>4, <2>2 DEF IInv, OneEach, Object
    <3> QED
      BY <1>4, <1>6, <2>2, <3>1 DEF IInv, Watched
  <2> QED
    BY <2>1, <2>2
<1>10. OneEach'
  <2>1. ASSUME NEW g \in Handlers
        PROVE  object'[g].live = object[g].live /\ object'[g].fd = object[g].fd
    <3>1. CASE g = h
      BY <1>1, <1>4, <3>1
    <3>2. CASE g # h
      BY <1>4, <3>2
    <3> QED
      BY <3>1, <3>2
  <2> QED
    BY <2>1 DEF IInv, OneEach
<1>11. Blank(poll')
  <2> SUFFICES ASSUME NEW f \in Fds, poll'.interest[f].handler = None
               PROVE  poll'.interest[f] = Unregistered
    BY DEF Blank
  <2>1. CASE f = fd
    <3>1. h # None
      BY EpollTableAssumption
    <3>2. reg.handler = None => reg = Unregistered
      BY <3>1
    <3> QED
      BY <1>6, <2>1, <3>2
  <2>2. CASE f # fd
    BY <1>6, <2>2 DEF IInv, Blank
  <2> QED
    BY <2>1, <2>2
<1> QED
  BY <1>3, <1>5, <1>8, <1>9, <1>10, <1>11 DEF IInv, CtlSucceeds, Blank

LEMMA DestroysOK ==
  ASSUME IInv, NEW h \in Handlers, Destroys(h)
  PROVE  IInv'
<1>1. /\ object' = [object EXCEPT ![h].live = FALSE]
      /\ UNCHANGED <<open, ready, poll, size, num, batch, running>>
      /\ object[h].events = {}
      /\ object \in [Handlers -> Object]
  BY DEF Destroys, IInv, TypeOK
<1>2. /\ object' \in [Handlers -> Object]
      /\ ~object'[h].live
      /\ \A g \in Handlers : g # h => object'[g] = object[g]
  BY <1>1 DEF Object
<1>3. TypeOK'
  BY <1>1, <1>2 DEF IInv, TypeOK
<1>4. Mapped'
  <2> SUFFICES ASSUME NEW f \in Fds, poll.table[f] # None
               PROVE  poll.table[f] # h
    BY <1>1, <1>2 DEF IInv, TypeOK, Poller, Mapped, MapInStep
  <2> QED
    BY <1>1 DEF IInv, Mapped, MapInStep
<1>5. Watched' /\ OneEach'
  BY <1>1, <1>2 DEF IInv, Watched, OneEach
<1> QED
  BY <1>1, <1>3, <1>4, <1>5 DEF IInv, CtlSucceeds, Blank

LEMMA ClosesOK ==
  ASSUME IInv, NEW fd \in Fds, Closes(fd)
  PROVE  IInv'
<1>1. /\ poll' = Closed(poll, {fd})
      /\ UNCHANGED <<object, size, num, batch, running>>
      /\ \A h \in Handlers : object[h].live /\ object[h].fd = fd => object[h].events = {}
      /\ poll \in Poller
  BY DEF Closes, IInv, TypeOK
<1>2. poll.table[fd] = None
  BY <1>1 DEF IInv, Mapped, MapInStep, Poller
<1>3. poll.interest[fd] = Unregistered
  BY <1>2 DEF IInv, Mapped, MapInStep, Blank
<1>4. poll.interest = [f \in Fds |-> IF f \in {fd} THEN Unregistered ELSE poll.interest[f]]
  BY <1>1, <1>3 DEF Poller
<1>5. poll' = poll
  BY <1>1, <1>4 DEF Closed, Poller
<1>6. open' \subseteq Fds /\ ready' \in [Fds -> SUBSET EventKinds]
  BY DEF Closes, IInv, TypeOK
<1>7. TypeOK'
  BY <1>1, <1>5, <1>6 DEF IInv, TypeOK
<1> QED
  BY <1>1, <1>5, <1>7, OthersOK

LEMMA WaitOK ==
  ASSUME IInv, Wait
  PROVE  IInv'
<1>1. /\ size' = Grown
      /\ batch' \in SUBSET Reportable
      /\ num' = Cardinality(batch')
      /\ UNCHANGED <<object, open, ready, poll, running>>
  BY DEF Wait
<1>2. Reportable \subseteq Handlers
  <2> SUFFICES ASSUME NEW f \in Fds, poll.interest[f].events \cap ready[f] # {}
               PROVE  poll.interest[f].handler \in Handlers
    BY DEF Reportable
  <2>1. poll.interest[f] # Unregistered
    BY DEF Unregistered
  <2> QED
    BY <2>1 DEF IInv, TypeOK, Poller, Blank
<1>3. num' \in Nat
  BY <1>1, <1>2, EpollerAssumption, FS_Subset, FS_CardinalityType
<1>4. size' \in Nat \ {0}
  BY <1>1 DEF Grown, IInv, TypeOK
<1>5. TypeOK'
  BY <1>1, <1>2, <1>3, <1>4 DEF IInv, TypeOK
<1> QED
  BY <1>1, <1>5, OthersOK

LEMMA StepOK == IInv /\ [Next]_vars => IInv'
<1> SUFFICES ASSUME IInv, [Next]_vars PROVE IInv'
  OBVIOUS
<1>1. ASSUME NEW fd \in Fds, Opens(fd) PROVE IInv'
  <2>1. TypeOK'
    BY <1>1 DEF Opens, IInv, TypeOK
  <2> QED
    BY <1>1, <2>1, OthersOK DEF Opens
<1>2. ASSUME NEW fd \in Fds, Closes(fd) PROVE IInv'
  BY <1>2, ClosesOK
<1>3. ASSUME NEW h \in Handlers, NEW fd \in Fds, Creates(h, fd) PROVE IInv'
  BY <1>3, CreatesOK
<1>4. ASSUME NEW h \in Handlers,
             EnableRead(h) \/ EnableWrite(h) \/ DisableWrite(h) \/ DisableAll(h)
      PROVE  IInv'
  <2>1. object[h].events \subseteq EventKinds
    BY DEF IInv, TypeOK, Object
  <2>2. PICK events \in SUBSET EventKinds : SetEvents(h, events)
    BY <1>4, <2>1 DEF EnableRead, EnableWrite, DisableWrite, DisableAll, EventKinds
  <2> QED
    BY <2>2, SetEventsOK
<1>5. ASSUME NEW h \in Handlers, Destroys(h) PROVE IInv'
  BY <1>5, DestroysOK
<1>6. ASSUME NEW fd \in Fds, NEW e \in EventKinds, Arrives(fd, e) \/ UsesUp(fd, e)
      PROVE  IInv'
  <2>1. TypeOK'
    BY <1>6 DEF Arrives, UsesUp, IInv, TypeOK
  <2> QED
    BY <1>6, <2>1, OthersOK DEF Arrives, UsesUp
<1>7. CASE Wait
  BY <1>7, WaitOK
<1>8. ASSUME NEW h \in Handlers, HandleEvent(h) PROVE IInv'
  <2>1. TypeOK'
    BY <1>8 DEF HandleEvent, IInv, TypeOK
  <2> QED
    BY <1>8, <2>1, OthersOK DEF HandleEvent
<1>9. CASE HandleEventReturns
  <2>1. TypeOK'
    BY <1>9 DEF HandleEventReturns, IInv, TypeOK
  <2> QED
    BY <1>9, <2>1, OthersOK DEF HandleEventReturns
<1>10. CASE UNCHANGED vars
  <2>1. TypeOK'
    BY <1>10 DEF vars, IInv, TypeOK
  <2> QED
    BY <1>10, <2>1, OthersOK DEF vars
<1> QED
  BY <1>1, <1>2, <1>3, <1>4, <1>5, <1>6, <1>7, <1>8, <1>9, <1>10
     DEF Next, User, Kernel, Loop

THEOREM EpollerInvariant == Spec => []IInv
<1>1. IInv /\ [Next]_vars => IInv'
  BY StepOK
<1> QED
  BY InitOK, <1>1, PTL DEF Spec

(* The variables keep their types, for every set of handlers, descriptors  *)
(* and initial size of the event array.                                    *)
THEOREM EpollerTypeCorrect == Spec => []TypeOK
<1>1. IInv => TypeOK
  BY DEF IInv
<1> QED
  BY EpollerInvariant, <1>1, PTL

(* Epoller::Update keeps _handlers and the kernel's registrations in step, *)
(* and never makes epoll_ctl fail, which would abort the process.          *)
THEOREM EpollerInStep == Spec => []InStep
<1>1. IInv => InStep
  BY DEF IInv, InStep, Mapped, CtlSucceeds
<1> QED
  BY EpollerInvariant, <1>1, PTL

(* The kernel watches every handler that asks for events.                  *)
THEOREM EpollerWatched == Spec => []Watched
<1>1. IInv => Watched
  BY DEF IInv
<1> QED
  BY EpollerInvariant, <1>1, PTL
=============================================================================
