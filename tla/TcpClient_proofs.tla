--------------------------- MODULE TcpClient_proofs ---------------------------
(***************************************************************************)
(* Proofs about TCPClient: for every number of attempts and descriptors,   *)
(* what its callbacks tell the application, and for an application with    *)
(* the discipline of Polite, the life of the Handlers, the connections and *)
(* their descriptors.                                                      *)
(***************************************************************************)
EXTENDS TcpClient, FiniteSetTheorems, SequenceTheorems, TLAPS

-----------------------------------------------------------------------------
(* The Handlers.                                                           *)

LEMMA Kinds ==
  /\ \A k \in Attempts : At(k) \in Handlers /\ Cn(k) \in Handlers
  /\ \A h \in Handlers : \E k \in Attempts : h = At(k) \/ h = Cn(k)
  /\ \A j, k \in Attempts : At(j) # Cn(k) /\ (At(j) = At(k) => j = k) /\ (Cn(j) = Cn(k) => j = k)
  /\ \A k \in Attempts : At(k)[1] = "attempt" /\ At(k)[2] = k
                         /\ Cn(k)[1] = "connection" /\ Cn(k)[2] = k
BY DEF Handlers, At, Cn

LEMMA Constants ==
  /\ MaxAttempts \in Nat /\ MaxFds \in Nat
  /\ None \notin Handlers /\ None \notin Attempts /\ 0 \notin Fds
  /\ Fds \subseteq Nat /\ Attempts \subseteq Nat
BY ClientAssumption DEF Handlers, Attempts, Fds

HandlerType == [live : BOOLEAN, fd : Fds \cup {0}, events : SUBSET EventKinds]

SocketType == [at : {"free", "connecting", "refused", "up"},
               data : BOOLEAN, urgent : {"none", "next", "behind"},
               peerFin : BOOLEAN, fin : BOOLEAN]

InterestType == [handler : Handlers \cup {None}, events : SUBSET EventKinds]

CallType == [callback : Callbacks, of : Attempts]

(* The kernel's registrations name Handlers. *)
PollOK(p) ==
  /\ p \in Poller
  /\ \A fd \in Fds : p.interest[fd] # Unregistered => p.interest[fd].handler # None

LEMMA PollerFields ==
  ASSUME NEW p \in Poller
  PROVE  /\ p = [table |-> p.table, interest |-> p.interest, failed |-> p.failed]
         /\ p.table \in [Fds -> Handlers \cup {None}]
         /\ p.interest \in [Fds -> InterestType]
         /\ p.failed \in BOOLEAN
BY DEF Poller, InterestType

LEMMA PollerIs ==
  ASSUME NEW t \in [Fds -> Handlers \cup {None}], NEW i \in [Fds -> InterestType],
         NEW f \in BOOLEAN
  PROVE  [table |-> t, interest |-> i, failed |-> f] \in Poller
BY DEF Poller, InterestType

(* What Update does, whatever the map says. *)
LEMMA UpdateCases ==
  ASSUME NEW p \in Poller, NEW h \in Handlers, NEW fd, NEW events \in SUBSET EventKinds
  PROVE  /\ p.table[fd] # None /\ events = {} =>
              Update(p, h, fd, events) =
                [table |-> [p.table EXCEPT ![fd] = None],
                 interest |-> [p.interest EXCEPT ![fd] = Unregistered],
                 failed |-> p.failed]
         /\ p.table[fd] # None /\ events # {} =>
              Update(p, h, fd, events) =
                IF p.interest[fd] # Unregistered
                THEN [table |-> p.table,
                      interest |-> [p.interest EXCEPT ![fd] = [handler |-> h, events |-> events]],
                      failed |-> p.failed]
                ELSE [table |-> p.table, interest |-> p.interest, failed |-> TRUE]
         /\ p.table[fd] = None /\ events # {} =>
              Update(p, h, fd, events) =
                IF p.interest[fd] = Unregistered
                THEN [table |-> [p.table EXCEPT ![fd] = h],
                      interest |-> [p.interest EXCEPT ![fd] = [handler |-> h, events |-> events]],
                      failed |-> p.failed]
                ELSE [table |-> [p.table EXCEPT ![fd] = h],
                      interest |-> p.interest, failed |-> TRUE]
         /\ p.table[fd] = None /\ events = {} => Update(p, h, fd, events) = p
<1> DEFINE q == Update(p, h, fd, events)
           new == [handler |-> h, events |-> events]
<1>1. p = [table |-> p.table, interest |-> p.interest, failed |-> p.failed]
  BY PollerFields
<1>2. ASSUME p.table[fd] # None, events = {}
      PROVE  q = [table |-> [p.table EXCEPT ![fd] = None],
                  interest |-> [p.interest EXCEPT ![fd] = Unregistered],
                  failed |-> p.failed]
  <2>1. q = [Del(p, fd) EXCEPT !.table[fd] = None]
    BY <1>2 DEF Update
  <2>2. Del(p, fd) = [table |-> p.table,
                      interest |-> [p.interest EXCEPT ![fd] = Unregistered],
                      failed |-> p.failed]
    BY <1>1 DEF Del
  <2> QED
    BY <2>1, <2>2
<1>3. ASSUME p.table[fd] # None, events # {}
      PROVE  q = IF p.interest[fd] # Unregistered
                 THEN [table |-> p.table,
                       interest |-> [p.interest EXCEPT ![fd] = new],
                       failed |-> p.failed]
                 ELSE [table |-> p.table, interest |-> p.interest, failed |-> TRUE]
  <2>1. q = Mod(p, h, fd, events)
    BY <1>3 DEF Update
  <2>2. [p EXCEPT !.interest[fd] = new] = [table |-> p.table,
                       interest |-> [p.interest EXCEPT ![fd] = new],
                       failed |-> p.failed]
    BY <1>1
  <2>3. [p EXCEPT !.failed = TRUE] = [table |-> p.table, interest |-> p.interest, failed |-> TRUE]
    <3>1. \A f : [p EXCEPT !.failed = f] =
                   [table |-> p.table, interest |-> p.interest, failed |-> f]
      BY <1>1
    <3> QED
      BY <3>1, Zenon
  <2> QED
    BY <2>1, <2>2, <2>3 DEF Mod, Registers
<1>4. ASSUME p.table[fd] = None, events # {}
      PROVE  q = IF p.interest[fd] = Unregistered
                 THEN [table |-> [p.table EXCEPT ![fd] = h],
                       interest |-> [p.interest EXCEPT ![fd] = new],
                       failed |-> p.failed]
                 ELSE [table |-> [p.table EXCEPT ![fd] = h],
                       interest |-> p.interest, failed |-> TRUE]
  <2> DEFINE r == [p EXCEPT !.table[fd] = h]
  <2>1. q = Add(r, h, fd, events)
    BY <1>4 DEF Update
  <2>2. r = [table |-> [p.table EXCEPT ![fd] = h], interest |-> p.interest, failed |-> p.failed]
    BY <1>1
  <2> HIDE DEF r
  <2>3. [r EXCEPT !.interest[fd] = new] = [table |-> [p.table EXCEPT ![fd] = h],
                       interest |-> [p.interest EXCEPT ![fd] = new],
                       failed |-> p.failed]
    BY <2>2
  <2>4. [r EXCEPT !.failed = TRUE] =
          [table |-> [p.table EXCEPT ![fd] = h], interest |-> p.interest, failed |-> TRUE]
    <3>1. \A f : [r EXCEPT !.failed = f] =
                   [table |-> [p.table EXCEPT ![fd] = h], interest |-> p.interest, failed |-> f]
      BY <2>2
    <3> QED
      BY <3>1, Zenon
  <2>5. r.interest = p.interest
    BY <2>2
  <2> QED
    BY <2>1, <2>3, <2>4, <2>5 DEF Add, Registers
<1>5. p.table[fd] = None /\ events = {} => q = p
  BY DEF Update
<1> QED
  BY <1>2, <1>3, <1>4, <1>5

LEMMA UpdateOK ==
  ASSUME NEW p, PollOK(p), NEW h \in Handlers, NEW fd, NEW events \in SUBSET EventKinds
  PROVE  PollOK(Update(p, h, fd, events))
<1> DEFINE q == Update(p, h, fd, events)
           new == [handler |-> h, events |-> events]
<1>1. p \in Poller /\ h # None
  BY Constants DEF PollOK
<1>2. /\ p.table \in [Fds -> Handlers \cup {None}]
      /\ p.interest \in [Fds -> InterestType] /\ p.failed \in BOOLEAN
  BY <1>1, PollerFields
<1>3. new \in InterestType /\ new.handler = h /\ Unregistered \in InterestType
  BY DEF InterestType, Unregistered
<1> HIDE DEF new
<1>4. \E t \in {p.table, [p.table EXCEPT ![fd] = None], [p.table EXCEPT ![fd] = h]},
         i \in {p.interest, [p.interest EXCEPT ![fd] = Unregistered], [p.interest EXCEPT ![fd] = new]},
         f \in {p.failed, TRUE} : q = [table |-> t, interest |-> i, failed |-> f]
  <2>1. p = [table |-> p.table, interest |-> p.interest, failed |-> p.failed]
    BY <1>1, PollerFields
  <2> QED
    BY <1>1, <2>1, UpdateCases DEF new
<1>5. PICK t \in {p.table, [p.table EXCEPT ![fd] = None], [p.table EXCEPT ![fd] = h]},
           i \in {p.interest, [p.interest EXCEPT ![fd] = Unregistered], [p.interest EXCEPT ![fd] = new]},
           f \in {p.failed, TRUE} : q = [table |-> t, interest |-> i, failed |-> f]
  BY <1>4
<1> HIDE DEF q
<1>6. t \in [Fds -> Handlers \cup {None}] /\ i \in [Fds -> InterestType] /\ f \in BOOLEAN
  BY <1>2, <1>3
<1>7. q \in Poller
  BY <1>5, <1>6, PollerIs
<1>8. \A g \in Fds : i[g] \in {p.interest[g], Unregistered, new}
  BY <1>2
<1>9. q.interest = i
  BY <1>5
<1>10. \A g \in Fds : q.interest[g] # Unregistered => q.interest[g].handler # None
  BY <1>1, <1>3, <1>8, <1>9 DEF PollOK
<1> QED
  BY <1>7, <1>10 DEF PollOK, q
-----------------------------------------------------------------------------
(* The operators of the actions.                                           *)

(* The connections that Settle destroys. *)
Dying(objs) == {k \in Attempts : objs[Cn(k)].live /\ ~Referenced(k)'}

LEMMA SettleEffect ==
  ASSUME NEW objs \in [Handlers -> HandlerType], NEW socks \in [Fds -> SocketType],
         NEW p, PollOK(p), Settle(objs, socks, p)
  PROVE  /\ object' \in [Handlers -> HandlerType]
         /\ sock' \in [Fds -> SocketType]
         /\ PollOK(poll')
         /\ \A k \in Attempts : object'[At(k)] = objs[At(k)]
         /\ \A k \in Attempts \ Dying(objs) : object'[Cn(k)] = objs[Cn(k)]
         /\ \A k \in Dying(objs) :
              object'[Cn(k)] = [live |-> FALSE, fd |-> objs[Cn(k)].fd,
                                events |-> objs[Cn(k)].events]
         /\ \A fd \in Fds :
              IF \E k \in Dying(objs) : objs[Cn(k)].fd = fd
              THEN sock'[fd] = NoSocket /\ poll'.interest[fd] = Unregistered
              ELSE sock'[fd] = socks[fd] /\ poll'.interest[fd] = p.interest[fd]
         /\ poll'.table = p.table /\ poll'.failed = p.failed
<1> DEFINE dead == Dying(objs)
           fds  == {objs[Cn(k)].fd : k \in dead}
           gone == {Cn(k) : k \in dead}
<1>1. /\ object' = [h \in Handlers |-> IF h \in gone THEN [objs[h] EXCEPT !.live = FALSE]
                                                     ELSE objs[h]]
      /\ sock' = [fd \in Fds |-> IF fd \in fds THEN NoSocket ELSE socks[fd]]
      /\ poll' = Closed(p, fds)
  BY DEF Settle, Dying
<1>2. dead \subseteq Attempts
  BY DEF Dying
<1>3. \A k \in Attempts : At(k) \notin gone /\ (Cn(k) \in gone <=> k \in dead)
  BY <1>2, Kinds
<1>4. /\ p = [table |-> p.table, interest |-> p.interest, failed |-> p.failed]
      /\ p.table \in [Fds -> Handlers \cup {None}]
      /\ p.interest \in [Fds -> InterestType] /\ p.failed \in BOOLEAN
  BY PollerFields DEF PollOK
<1> DEFINE i == [fd \in Fds |-> IF fd \in fds THEN Unregistered ELSE p.interest[fd]]
<1>5. poll' = [table |-> p.table, interest |-> i, failed |-> p.failed]
  BY <1>1, <1>4 DEF Closed
<1>6. \A fd \in Fds : fd \in fds <=> \E k \in dead : objs[Cn(k)].fd = fd
  OBVIOUS
<1> HIDE DEF dead, fds, gone
<1>7. NoSocket \in SocketType /\ Unregistered \in InterestType
  BY DEF NoSocket, SocketType, Unregistered, InterestType
<1>8. \A h \in Handlers : objs[h] \in HandlerType
                          /\ objs[h] = [live |-> objs[h].live, fd |-> objs[h].fd,
                                        events |-> objs[h].events]
  BY DEF HandlerType
<1>9. \A h \in Handlers :
        /\ [objs[h] EXCEPT !.live = FALSE] =
             [live |-> FALSE, fd |-> objs[h].fd, events |-> objs[h].events]
        /\ [live |-> FALSE, fd |-> objs[h].fd, events |-> objs[h].events] \in HandlerType
  <2> TAKE h \in Handlers
  <2>1. \A b : [objs[h] EXCEPT !.live = b] =
                 [live |-> b, fd |-> objs[h].fd, events |-> objs[h].events]
    BY <1>8
  <2>2. [objs[h] EXCEPT !.live = FALSE] =
             [live |-> FALSE, fd |-> objs[h].fd, events |-> objs[h].events]
    BY <2>1, Zenon
  <2>3. objs[h].fd \in Fds \cup {0} /\ objs[h].events \in SUBSET EventKinds
    BY <1>8 DEF HandlerType
  <2>4. [live |-> FALSE, fd |-> objs[h].fd, events |-> objs[h].events] \in HandlerType
    BY <2>3 DEF HandlerType
  <2> QED
    BY <2>2, <2>4
<1>10. object' \in [Handlers -> HandlerType]
  BY <1>1, <1>8, <1>9
<1>11. sock' \in [Fds -> SocketType]
  BY <1>1, <1>7
<1>12. i \in [Fds -> InterestType]
  BY <1>4, <1>7
<1>13. poll' \in Poller
  BY <1>4, <1>5, <1>12, PollerIs
<1>14. poll'.interest = i /\ poll'.table = p.table /\ poll'.failed = p.failed
  BY <1>5
<1>15. \A fd \in Fds : i[fd] = IF fd \in fds THEN Unregistered ELSE p.interest[fd]
  OBVIOUS
<1> HIDE DEF i
<1>16. PollOK(poll')
  BY <1>13, <1>14, <1>15 DEF PollOK
<1>17. \A k \in Attempts : object'[At(k)] = objs[At(k)]
  BY <1>1, <1>3, Kinds
<1>18. \A k \in Attempts \ dead : object'[Cn(k)] = objs[Cn(k)]
  BY <1>1, <1>3, Kinds
<1>19. \A k \in dead : object'[Cn(k)] = [live |-> FALSE, fd |-> objs[Cn(k)].fd,
                                         events |-> objs[Cn(k)].events]
  BY <1>1, <1>2, <1>3, <1>9, Kinds
<1>20. \A fd \in Fds : IF \E k \in dead : objs[Cn(k)].fd = fd
                       THEN sock'[fd] = NoSocket /\ poll'.interest[fd] = Unregistered
                       ELSE sock'[fd] = socks[fd] /\ poll'.interest[fd] = p.interest[fd]
  BY <1>1, <1>6, <1>14, <1>15
<1> QED
  BY <1>10, <1>11, <1>14, <1>16, <1>17, <1>18, <1>19, <1>20, Zenon DEF dead

(* The callbacks that have not returned. *)
OnStack == {calls[i] : i \in DOMAIN calls}

LEMMA CallsEffect ==
  ASSUME calls \in Seq(CallType), told \in [Attempts -> Seq(Callbacks)],
         NEW callback \in Callbacks, NEW k \in Attempts, Calls(callback, k)
  PROVE  /\ calls' \in Seq(CallType) /\ told' \in [Attempts -> Seq(Callbacks)]
         /\ calls' # <<>>
         /\ OnStack' = OnStack \cup {[callback |-> callback, of |-> k]}
         /\ \A j \in Attempts \ {k} : told'[j] = told[j]
         /\ \/ told'[k] = Append(told[k], callback)
            \/ callback = "message" /\ told'[k] = told[k]
<1> DEFINE new == [callback |-> callback, of |-> k]
<1>1. new \in CallType
  BY DEF CallType
<1> HIDE DEF new
<1>2. calls' = <<new>> \o calls
  BY DEF Calls, new
<1>3. /\ calls' \in Seq(CallType) /\ Len(calls') = 1 + Len(calls) /\ Len(calls) \in Nat
      /\ \A i \in 1 .. 1 + Len(calls) : calls'[i] = IF i <= 1 THEN new ELSE calls[i - 1]
  <2>1. <<new>> \in Seq(CallType) /\ Len(<<new>>) = 1 /\ <<new>>[1] = new
    BY <1>1
  <2>2. /\ <<new>> \o calls \in Seq(CallType)
        /\ Len(<<new>> \o calls) = Len(<<new>>) + Len(calls)
        /\ \A i \in 1 .. Len(<<new>>) + Len(calls) :
             (<<new>> \o calls)[i] = IF i <= Len(<<new>>) THEN <<new>>[i] ELSE calls[i - Len(<<new>>)]
    BY <2>1, ConcatProperties
  <2>3. \A i \in 1 .. 1 + Len(calls) : i <= 1 => i = 1
    OBVIOUS
  <2> QED
    BY <1>2, <2>1, <2>2, <2>3, LenProperties
<1>4. DOMAIN calls' = 1 .. 1 + Len(calls) /\ DOMAIN calls = 1 .. Len(calls)
  BY <1>3, LenProperties
<1>5. calls' # <<>>
  BY <1>3
<1>6. OnStack' = OnStack \cup {new}
  <2>1. \A i \in 1 .. 1 + Len(calls) : calls'[i] \in OnStack \cup {new}
    <3> TAKE i \in 1 .. 1 + Len(calls)
    <3>1. i <= 1 \/ i - 1 \in 1 .. Len(calls)
      BY <1>3
    <3> QED
      BY <1>3, <1>4, <3>1 DEF OnStack
  <2>2. 1 \in 1 .. 1 + Len(calls) /\ calls'[1] = new
    BY <1>3
  <2>3. ASSUME NEW i \in 1 .. Len(calls) PROVE calls[i] \in OnStack'
    <3>1. i + 1 \in 1 .. 1 + Len(calls) /\ ~(i + 1 <= 1) /\ (i + 1) - 1 = i
      BY <1>3
    <3>2. calls'[i + 1] = calls[i]
      BY <1>3, <3>1
    <3> QED
      BY <1>4, <3>1, <3>2 DEF OnStack
  <2>4. new \in OnStack'
    BY <1>4, <2>2 DEF OnStack
  <2>5. OnStack \subseteq OnStack'
    BY <1>4, <2>3 DEF OnStack
  <2>6. OnStack' \subseteq OnStack \cup {new}
    BY <1>4, <2>1 DEF OnStack
  <2> QED
    BY <2>4, <2>5, <2>6
<1>7. told[k] \in Seq(Callbacks) /\ Append(told[k], callback) \in Seq(Callbacks)
  BY AppendProperties
<1>8. /\ \A j \in Attempts \ {k} : told'[j] = told[j]
      /\ told'[k] = IF callback = "message" /\ told[k] # <<>>
                       /\ told[k][Len(told[k])] = "message"
                    THEN told[k] ELSE Append(told[k], callback)
      /\ told' \in [Attempts -> Seq(Callbacks)]
  BY <1>7 DEF Calls
<1> QED
  BY <1>3, <1>5, <1>6, <1>8 DEF new

LEMMA ReturnEffect ==
  ASSUME calls \in Seq(CallType), calls # <<>>, calls' = Tail(calls)
  PROVE  /\ calls' \in Seq(CallType) /\ OnStack' \subseteq OnStack
         /\ Head(calls) \in OnStack /\ Head(calls) \in CallType
<1>1. /\ calls' \in Seq(CallType) /\ Len(calls') = Len(calls) - 1 /\ Len(calls) \in Nat \ {0}
      /\ \A i \in 1 .. Len(calls') : calls'[i] = calls[i + 1]
      /\ Head(calls) = calls[1] /\ Head(calls) \in CallType
  BY HeadTailProperties, EmptySeq
<1>2. DOMAIN calls = 1 .. Len(calls) /\ DOMAIN calls' = 1 .. Len(calls) - 1
  BY <1>1, LenProperties
<1>3. \A i \in 1 .. Len(calls) - 1 : i + 1 \in 1 .. Len(calls)
  BY <1>1
<1>4. 1 \in 1 .. Len(calls)
  BY <1>1
<1> QED
  BY <1>1, <1>2, <1>3, <1>4 DEF OnStack

LEMMA StackCases ==
  ASSUME calls \in Seq(CallType)
  PROVE  /\ \A c \in OnStack : c \in CallType
         /\ calls = <<>> => OnStack = {}
         /\ \A k \in Attempts :
              Referenced(k) <=> conn = k \/ k \in kept
                                \/ \E c \in OnStack : c.of = k /\ c.callback # "failed"
<1>1. \A i \in DOMAIN calls : calls[i] \in CallType
  BY LenProperties, ElementOfSeq
<1>2. calls = <<>> => DOMAIN calls = {}
  OBVIOUS
<1> QED
  BY <1>1, <1>2 DEF OnStack, Referenced

LEMMA SockAt ==
  ASSUME NEW socks \in [Fds -> SocketType], NEW x,
         NEW a \in {"free", "connecting", "refused", "up"}
  PROVE  /\ [socks EXCEPT ![x].at = a] \in [Fds -> SocketType]
         /\ \A fd \in Fds : [socks EXCEPT ![x].at = a][fd].at = IF fd = x THEN a ELSE socks[fd].at
<1>1. \A fd \in Fds : /\ [socks[fd] EXCEPT !.at = a] \in SocketType
                      /\ [socks[fd] EXCEPT !.at = a].at = a
  BY DEF SocketType
<1>2. \A fd \in Fds : [socks EXCEPT ![x].at = a][fd] = IF fd = x THEN [socks[fd] EXCEPT !.at = a]
                                                       ELSE socks[fd]
  OBVIOUS
<1>3. [socks EXCEPT ![x].at = a] = [fd \in Fds |-> [socks EXCEPT ![x].at = a][fd]]
  OBVIOUS
<1> QED
  BY <1>1, <1>2, <1>3

LEMMA SockBits ==
  ASSUME NEW socks \in [Fds -> SocketType], NEW x, NEW b \in BOOLEAN
  PROVE  /\ [socks EXCEPT ![x].fin = b] \in [Fds -> SocketType]
         /\ \A fd \in Fds : [socks EXCEPT ![x].fin = b][fd].at = socks[fd].at
         /\ [socks EXCEPT ![x].data = b] \in [Fds -> SocketType]
         /\ \A fd \in Fds : [socks EXCEPT ![x].data = b][fd].at = socks[fd].at
         /\ [socks EXCEPT ![x].peerFin = b] \in [Fds -> SocketType]
         /\ \A fd \in Fds : [socks EXCEPT ![x].peerFin = b][fd].at = socks[fd].at
<1>1. \A fd \in Fds : /\ [socks[fd] EXCEPT !.fin = b] \in SocketType
                      /\ [socks[fd] EXCEPT !.fin = b].at = socks[fd].at
                      /\ [socks[fd] EXCEPT !.data = b] \in SocketType
                      /\ [socks[fd] EXCEPT !.data = b].at = socks[fd].at
                      /\ [socks[fd] EXCEPT !.peerFin = b] \in SocketType
                      /\ [socks[fd] EXCEPT !.peerFin = b].at = socks[fd].at
  BY DEF SocketType
<1>2. \A fd \in Fds :
        /\ [socks EXCEPT ![x].fin = b][fd] = IF fd = x THEN [socks[fd] EXCEPT !.fin = b]
                                             ELSE socks[fd]
        /\ [socks EXCEPT ![x].data = b][fd] = IF fd = x THEN [socks[fd] EXCEPT !.data = b]
                                              ELSE socks[fd]
        /\ [socks EXCEPT ![x].peerFin = b][fd] = IF fd = x THEN [socks[fd] EXCEPT !.peerFin = b]
                                                 ELSE socks[fd]
  OBVIOUS
<1>3. /\ [socks EXCEPT ![x].fin = b] = [fd \in Fds |-> [socks EXCEPT ![x].fin = b][fd]]
      /\ [socks EXCEPT ![x].data = b] = [fd \in Fds |-> [socks EXCEPT ![x].data = b][fd]]
      /\ [socks EXCEPT ![x].peerFin = b] = [fd \in Fds |-> [socks EXCEPT ![x].peerFin = b][fd]]
  OBVIOUS
<1> QED
  BY <1>1, <1>2, <1>3

LEMMA SockUrgent ==
  ASSUME NEW socks \in [Fds -> SocketType], NEW x, NEW u \in {"none", "next", "behind"}
  PROVE  /\ [socks EXCEPT ![x].urgent = u] \in [Fds -> SocketType]
         /\ \A fd \in Fds : [socks EXCEPT ![x].urgent = u][fd].at = socks[fd].at
<1>1. \A fd \in Fds : /\ [socks[fd] EXCEPT !.urgent = u] \in SocketType
                      /\ [socks[fd] EXCEPT !.urgent = u].at = socks[fd].at
  BY DEF SocketType
<1>2. \A fd \in Fds :
        [socks EXCEPT ![x].urgent = u][fd] = IF fd = x THEN [socks[fd] EXCEPT !.urgent = u]
                                             ELSE socks[fd]
  OBVIOUS
<1>3. [socks EXCEPT ![x].urgent = u] = [fd \in Fds |-> [socks EXCEPT ![x].urgent = u][fd]]
  OBVIOUS
<1> QED
  BY <1>1, <1>2, <1>3

(* What one does to the kernel's sockets. *)
LEMMA ReadSocket ==
  ASSUME sock \in [Fds -> SocketType], NEW k \in Attempts,
         HandleReadBytes(k) \/ HandleReadAgain(k)
  PROVE  sock' \in [Fds -> SocketType] /\ \A fd \in Fds : sock'[fd].at = sock[fd].at
<1>1. ASSUME NEW x, NEW u \in {"none", "next", "behind"}, sock' = [sock EXCEPT ![x].urgent = u]
      PROVE  sock' \in [Fds -> SocketType] /\ \A fd \in Fds : sock'[fd].at = sock[fd].at
  <2>1. \A fd \in Fds :
          sock'[fd] = IF fd = x THEN [sock[fd] EXCEPT !.urgent = u] ELSE sock[fd]
    BY <1>1
  <2>2. sock' = [fd \in Fds |-> sock'[fd]]
    BY <1>1
  <2>3. \A fd \in Fds : /\ [sock[fd] EXCEPT !.urgent = u] \in SocketType
                        /\ [sock[fd] EXCEPT !.urgent = u].at = sock[fd].at
    BY DEF SocketType
  <2> QED
    BY <2>1, <2>2, <2>3
<1>2. ASSUME NEW x, NEW b \in BOOLEAN, NEW u \in {"none", "next", "behind"},
             sock' = [sock EXCEPT ![x].data = b, ![x].urgent = u]
      PROVE  sock' \in [Fds -> SocketType] /\ \A fd \in Fds : sock'[fd].at = sock[fd].at
  <2>1. \A fd \in Fds :
          sock'[fd] = IF fd = x THEN [sock[fd] EXCEPT !.data = b, !.urgent = u] ELSE sock[fd]
    BY <1>2
  <2>2. sock' = [fd \in Fds |-> sock'[fd]]
    BY <1>2
  <2>3. \A fd \in Fds : /\ [sock[fd] EXCEPT !.data = b, !.urgent = u] \in SocketType
                        /\ [sock[fd] EXCEPT !.data = b, !.urgent = u].at = sock[fd].at
    BY DEF SocketType
  <2> QED
    BY <2>1, <2>2, <2>3
<1>3. CASE HandleReadAgain(k)
  <2>1. sock' = [sock EXCEPT ![object[Cn(k)].fd].urgent = "none"]
    BY <1>3 DEF HandleReadAgain
  <2> QED
    BY <1>1, <2>1
<1>4. CASE HandleReadBytes(k)
  <2>1. PICK more \in BOOLEAN :
          sock' = [sock EXCEPT ![object[Cn(k)].fd].data = more,
                               ![object[Cn(k)].fd].urgent =
                                 IF @ = "behind" THEN "next" ELSE "none"]
    BY <1>4 DEF HandleReadBytes
  <2>2. PICK u \in {"none", "next", "behind"} :
          sock' = [sock EXCEPT ![object[Cn(k)].fd].data = more, ![object[Cn(k)].fd].urgent = u]
    BY <2>1
  <2> QED
    BY <1>2, <2>2
<1> QED
  BY <1>3, <1>4

LEMMA AsksEffect ==
  ASSUME NEW objs \in [Handlers -> HandlerType], NEW h \in Handlers,
         NEW events \in SUBSET EventKinds
  PROVE  /\ Asks(objs, h, events) \in [Handlers -> HandlerType]
         /\ Asks(objs, h, events)[h] = [live |-> objs[h].live, fd |-> objs[h].fd, events |-> events]
         /\ \A g \in Handlers \ {h} : Asks(objs, h, events)[g] = objs[g]
<1>1. objs[h] \in HandlerType
  OBVIOUS
<1>2. [objs[h] EXCEPT !.events = events] = [live |-> objs[h].live, fd |-> objs[h].fd, events |-> events]
  BY <1>1 DEF HandlerType
<1>3. [objs[h] EXCEPT !.events = events] \in HandlerType
  BY <1>1 DEF HandlerType
<1> QED
  BY <1>2, <1>3 DEF Asks

(* ... field by field. *)
LEMMA AsksFields ==
  ASSUME NEW objs \in [Handlers -> HandlerType], NEW h \in Handlers,
         NEW events \in SUBSET EventKinds
  PROVE  /\ Asks(objs, h, events) \in [Handlers -> HandlerType]
         /\ Asks(objs, h, events)[h].events = events
         /\ \A g \in Handlers : /\ Asks(objs, h, events)[g].live <=> objs[g].live
                                /\ Asks(objs, h, events)[g].fd = objs[g].fd
                                /\ g # h => Asks(objs, h, events)[g] = objs[g]
<1>1. /\ Asks(objs, h, events) \in [Handlers -> HandlerType]
      /\ Asks(objs, h, events)[h] = [live |-> objs[h].live, fd |-> objs[h].fd, events |-> events]
      /\ \A g \in Handlers \ {h} : Asks(objs, h, events)[g] = objs[g]
  BY AsksEffect
<1>2. /\ Asks(objs, h, events)[h].live <=> objs[h].live
      /\ Asks(objs, h, events)[h].fd = objs[h].fd
      /\ Asks(objs, h, events)[h].events = events
  BY <1>1
<1> QED
  BY <1>1, <1>2

(* To ask for events is not to live or die. *)
LEMMA AsksLives ==
  ASSUME NEW objs \in [Handlers -> HandlerType], NEW k \in Attempts,
         NEW events \in SUBSET EventKinds
  PROVE  /\ Asks(objs, Cn(k), events) \in [Handlers -> HandlerType]
         /\ \A j \in Attempts : Asks(objs, Cn(k), events)[Cn(j)].live = objs[Cn(j)].live
<1>1. \A j \in Attempts : Cn(j) \in Handlers
  BY Kinds
<1>2. /\ Asks(objs, Cn(k), events) \in [Handlers -> HandlerType]
      /\ Asks(objs, Cn(k), events)[Cn(k)] =
           [live |-> objs[Cn(k)].live, fd |-> objs[Cn(k)].fd, events |-> events]
      /\ \A g \in Handlers \ {Cn(k)} : Asks(objs, Cn(k), events)[g] = objs[g]
  BY <1>1, AsksEffect
<1>3. Asks(objs, Cn(k), events)[Cn(k)].live = objs[Cn(k)].live
  BY <1>2
<1> QED
  BY <1>1, <1>2, <1>3

EventType == [handler : Handlers \cup {None}, trig : SUBSET Triggers,
              phase : {"read", "write", "error"}]

LEMMA EventEffect ==
  ASSUME event \in EventType, EventGoesOn
  PROVE  /\ event' \in EventType
         /\ event.phase = "read" =>
              event' = [handler |-> event.handler, trig |-> event.trig, phase |-> "write"]
         /\ event.phase = "write" =>
              event' = [handler |-> event.handler, trig |-> event.trig, phase |-> "error"]
         /\ event.phase = "error" => event' = NoEvent
<1>1. /\ event = [handler |-> event.handler, trig |-> event.trig, phase |-> event.phase]
      /\ event.handler \in Handlers \cup {None}
      /\ event.trig \in SUBSET Triggers
      /\ event.phase \in {"read", "write", "error"}
  BY DEF EventType
<1>2. event.phase = "read" =>
        event' = [handler |-> event.handler, trig |-> event.trig, phase |-> "write"]
  BY <1>1 DEF EventGoesOn
<1>3. event.phase = "write" =>
        event' = [handler |-> event.handler, trig |-> event.trig, phase |-> "error"]
  BY <1>1 DEF EventGoesOn
<1>4. event.phase = "error" => event' = NoEvent
  BY DEF EventGoesOn
<1>5. NoEvent \in EventType
  BY DEF NoEvent, EventType
<1>6. ASSUME NEW ph \in {"read", "write", "error"}
      PROVE  [handler |-> event.handler, trig |-> event.trig, phase |-> ph] \in EventType
  BY <1>1 DEF EventType
<1> QED
  BY <1>1, <1>2, <1>3, <1>4, <1>5, <1>6
-----------------------------------------------------------------------------
(* Types.                                                                  *)

BatchType == [handler : Handlers, trig : SUBSET Triggers]

(* next numbers a new attempt, and events name Handlers. *)
Named ==
  /\ next >= 1
  /\ PollOK(poll)
  /\ event # NoEvent => event.handler # None

LEMMA Types ==
  TypeOK <=>
    /\ state \in {"DIS_CONNECTED", "CONNECTING", "CONNECTED"}
    /\ connHandler \in Attempts \cup {None} /\ conn \in Attempts \cup {None}
    /\ kept \in SUBSET Attempts
    /\ object \in [Handlers -> HandlerType]
    /\ connState \in [Attempts -> {"NONE", "CONNECTED", "DIS_CONNECTING", "DIS_CONNECTED"}]
    /\ sock \in [Fds -> SocketType]
    /\ poll \in Poller
    /\ batch \in SUBSET BatchType
    /\ event \in EventType
    /\ calls \in Seq(CallType)
    /\ proc \in {"up", "assert", "crash"}
    /\ touched \in SUBSET Handlers
    /\ told \in [Attempts -> Seq(Callbacks)]
    /\ next \in Nat
BY DEF TypeOK, HandlerType, SocketType, BatchType, EventType, CallType

LEMMA EstablishTypes ==
  ASSUME TypeOK, NEW k \in Attempts, NEW fd \in Fds, NEW objs \in [Handlers -> HandlerType],
         NEW socks \in [Fds -> SocketType], NEW p, PollOK(p), Establish(k, fd, objs, socks, p)
  PROVE  /\ state' = "CONNECTED" /\ conn' = k /\ kept' \in SUBSET Attempts
         /\ connState' \in [Attempts -> {"NONE", "CONNECTED", "DIS_CONNECTING", "DIS_CONNECTED"}]
         /\ calls' \in Seq(CallType) /\ told' \in [Attempts -> Seq(Callbacks)]
         /\ object' \in [Handlers -> HandlerType] /\ sock' \in [Fds -> SocketType]
         /\ PollOK(poll')
<1> DEFINE new == [live |-> TRUE, fd |-> fd, events |-> ReadEvents]
           objs2 == [objs EXCEPT ![Cn(k)] = new]
           q == Update(p, Cn(k), fd, ReadEvents)
<1>1. ReadEvents \in SUBSET EventKinds /\ Cn(k) \in Handlers
  BY Kinds DEF EventKinds, ReadEvents
<1>2. new \in HandlerType
  BY <1>1 DEF HandlerType
<1>3. objs2 \in [Handlers -> HandlerType]
  BY <1>1, <1>2
<1>4. PollOK(q)
  BY <1>1, UpdateOK
<1>5. Settle(objs2, socks, q)
  BY DEF Establish
<1> HIDE DEF new, objs2, q
<1>6. /\ object' \in [Handlers -> HandlerType] /\ sock' \in [Fds -> SocketType]
      /\ PollOK(poll')
  BY <1>3, <1>4, <1>5, SettleEffect
<1>7. calls' \in Seq(CallType) /\ told' \in [Attempts -> Seq(Callbacks)]
  <2>1. "connection" \in Callbacks /\ calls \in Seq(CallType) /\ told \in [Attempts -> Seq(Callbacks)]
    BY Types DEF Callbacks
  <2> QED
    BY <2>1, CallsEffect DEF Establish
<1>8. /\ state' = "CONNECTED" /\ conn' = k /\ kept' \in SUBSET Attempts
      /\ connState' \in [Attempts -> {"NONE", "CONNECTED", "DIS_CONNECTING", "DIS_CONNECTED"}]
  BY Types DEF Establish
<1> QED
  BY <1>6, <1>7, <1>8

LEMMA CloseTypes ==
  ASSUME TypeOK, PollOK(poll), NEW k \in Attempts, CloseBegins(k)
  PROVE  /\ UNCHANGED <<state, connHandler, kept, connState, touched, next>>
         /\ proc' \in {"up", "assert", "crash"} /\ conn' \in Attempts \cup {None}
         /\ calls' \in Seq(CallType) /\ told' \in [Attempts -> Seq(Callbacks)]
         /\ object' \in [Handlers -> HandlerType] /\ sock' \in [Fds -> SocketType]
         /\ PollOK(poll')
<1>1. /\ object \in [Handlers -> HandlerType] /\ sock \in [Fds -> SocketType]
      /\ calls \in Seq(CallType) /\ told \in [Attempts -> Seq(Callbacks)]
      /\ proc \in {"up", "assert", "crash"} /\ conn \in Attempts \cup {None}
  BY Types
<1>2. CASE ~Asserted(k) /\ proc' = "assert" /\ UNCHANGED <<client, kept, objects, calls, touched, told, next>>
  BY <1>1, <1>2 DEF client, objects
<1>3. CASE /\ conn' = None /\ Calls("close", k)
           /\ UNCHANGED <<state, connHandler, kept, connState, proc, touched, next>>
           /\ DisablesAll(k)
  <2> DEFINE objs2 == Asks(object, Cn(k), {})
             q == Update(poll, Cn(k), object[Cn(k)].fd, {})
  <2>1. Cn(k) \in Handlers /\ {} \in SUBSET EventKinds /\ "close" \in Callbacks
    BY Kinds DEF Callbacks
  <2>2. objs2 \in [Handlers -> HandlerType]
    BY <1>1, <2>1, AsksEffect
  <2>3. PollOK(q)
    BY <2>1, UpdateOK
  <2>4. Settle(objs2, sock, q)
    BY <1>3 DEF DisablesAll
  <2> HIDE DEF objs2, q
  <2>5. /\ object' \in [Handlers -> HandlerType] /\ sock' \in [Fds -> SocketType]
        /\ PollOK(poll')
    BY <1>1, <2>2, <2>3, <2>4, SettleEffect
  <2>6. calls' \in Seq(CallType) /\ told' \in [Attempts -> Seq(Callbacks)]
    BY <1>1, <1>3, <2>1, CallsEffect
  <2> QED
    BY <1>1, <1>3, <2>5, <2>6
<1> QED
  BY <1>2, <1>3 DEF CloseBegins

LEMMA TypesInit == Init => TypeOK /\ Named
<1> SUFFICES ASSUME Init PROVE TypeOK /\ Named
  OBVIOUS
<1>1. Unregistered \in InterestType /\ Unborn \in HandlerType /\ NoSocket \in SocketType
      /\ NoEvent \in EventType
  BY DEF Unregistered, InterestType, Unborn, HandlerType, NoSocket, SocketType, NoEvent,
     EventType
<1>2. <<>> \in Seq(CallType) /\ <<>> \in Seq(Callbacks)
  OBVIOUS
<1>3. poll \in Poller
  BY <1>1, PollerIs DEF Init, NewPoller
<1>4. \A fd \in Fds : poll.interest[fd] = Unregistered
  BY DEF Init, NewPoller
<1>5. TypeOK
  BY <1>1, <1>2, <1>3, Types DEF Init
<1> QED
  BY <1>3, <1>4, <1>5 DEF Named, PollOK, Init

LEMMA TypesNext ==
  ASSUME state' \in {"DIS_CONNECTED", "CONNECTING", "CONNECTED"},
         connHandler' \in Attempts \cup {None}, conn' \in Attempts \cup {None},
         kept' \in SUBSET Attempts,
         object' \in [Handlers -> HandlerType],
         connState' \in [Attempts -> {"NONE", "CONNECTED", "DIS_CONNECTING", "DIS_CONNECTED"}],
         sock' \in [Fds -> SocketType],
         poll' \in Poller,
         batch' \in SUBSET BatchType,
         event' \in EventType,
         calls' \in Seq(CallType),
         proc' \in {"up", "assert", "crash"},
         touched' \in SUBSET Handlers,
         told' \in [Attempts -> Seq(Callbacks)],
         next' \in Nat
  PROVE  TypeOK'
BY DEF TypeOK, HandlerType, SocketType, BatchType, EventType, CallType

LEMMA TypesStep == ASSUME TypeOK, Named, [Next]_vars PROVE TypeOK' /\ Named'
<1>1. /\ state \in {"DIS_CONNECTED", "CONNECTING", "CONNECTED"}
      /\ connHandler \in Attempts \cup {None} /\ conn \in Attempts \cup {None}
      /\ kept \in SUBSET Attempts
      /\ object \in [Handlers -> HandlerType]
      /\ connState \in [Attempts -> {"NONE", "CONNECTED", "DIS_CONNECTING", "DIS_CONNECTED"}]
      /\ sock \in [Fds -> SocketType]
      /\ poll \in Poller
      /\ batch \in SUBSET BatchType
      /\ event \in EventType
      /\ calls \in Seq(CallType)
      /\ proc \in {"up", "assert", "crash"}
      /\ touched \in SUBSET Handlers
      /\ told \in [Attempts -> Seq(Callbacks)]
      /\ next \in Nat
  BY Types
<1>2. next >= 1 /\ PollOK(poll) /\ (event # NoEvent => event.handler # None)
  BY DEF Named
<1>3. /\ "connection" \in Callbacks /\ "message" \in Callbacks /\ "close" \in Callbacks
      /\ "failed" \in Callbacks
      /\ \A k \in Attempts : At(k) \in Handlers /\ Cn(k) \in Handlers
  BY Kinds DEF Callbacks
(* A phase of HandleEvent keeps the Handler. *)
<1>5. ASSUME event # NoEvent, EventGoesOn
      PROVE  event' \in EventType /\ (event' # NoEvent => event'.handler # None)
  <2>1. event.phase \in {"read", "write", "error"} /\ event.handler # None
    BY <1>1, <1>2, <1>5 DEF EventType
  <2> QED
    BY <1>1, <1>5, <2>1, EventEffect
<1>6. ASSUME NEW fd \in Fds, CreatesSocket(fd)
      PROVE  next \in Attempts /\ next' \in Nat /\ next' >= 1
  BY <1>1, <1>2, <1>6, Constants DEF CreatesSocket, Attempts
<1>7. ASSUME NEW fd \in Fds, ConnectAtOnce(fd) PROVE TypeOK' /\ Named'
  <2> DEFINE socks == [sock EXCEPT ![fd].at = "up"]
  <2>1. next \in Attempts /\ next' \in Nat /\ next' >= 1
    BY <1>6, <1>7 DEF ConnectAtOnce
  <2>2. socks \in [Fds -> SocketType]
    BY <1>1, SockAt
  <2>3. Establish(next, fd, object, socks, poll)
    BY <1>7 DEF ConnectAtOnce
  <2> HIDE DEF socks
  <2>4. /\ state' = "CONNECTED" /\ conn' = next /\ kept' \in SUBSET Attempts
        /\ connState' \in [Attempts -> {"NONE", "CONNECTED", "DIS_CONNECTING", "DIS_CONNECTED"}]
        /\ calls' \in Seq(CallType) /\ told' \in [Attempts -> Seq(Callbacks)]
        /\ object' \in [Handlers -> HandlerType] /\ sock' \in [Fds -> SocketType]
        /\ PollOK(poll')
    BY <1>1, <1>2, <2>1, <2>2, <2>3, EstablishTypes
  <2>5. UNCHANGED <<connHandler, batch, event, proc, touched>>
    BY <1>7 DEF ConnectAtOnce
  <2>6. TypeOK'
    BY <1>1, <2>1, <2>4, <2>5, TypesNext DEF PollOK
  <2> QED
    BY <1>2, <2>1, <2>4, <2>5, <2>6 DEF Named
<1>8. ASSUME NEW fd \in Fds, ConnectInProgress(fd) PROVE TypeOK' /\ Named'
  <2>1. next \in Attempts /\ next' \in Nat /\ next' >= 1
    BY <1>6, <1>8 DEF ConnectInProgress
  <2>2. ConnectEvents \in SUBSET EventKinds
    BY DEF ConnectEvents, EventKinds, ReadEvents
  <2>3. [live |-> TRUE, fd |-> fd, events |-> ConnectEvents] \in HandlerType
    BY <2>2 DEF HandlerType
  <2>4. \A h \in Handlers : [object[h] EXCEPT !.live = FALSE] \in HandlerType
    <3> TAKE h \in Handlers
    <3>1. object[h] \in HandlerType
      BY <1>1
    <3>2. \A b \in BOOLEAN : [object[h] EXCEPT !.live = b] \in HandlerType
      BY <3>1 DEF HandlerType
    <3> QED
      BY <3>2
  <2>5. object' \in [Handlers -> HandlerType]
    BY <1>1, <1>8, <2>3, <2>4 DEF ConnectInProgress
  <2>6. sock' \in [Fds -> SocketType]
    BY <1>1, <1>8, SockAt DEF ConnectInProgress
  <2>7. PollOK(poll')
    BY <1>2, <1>3, <1>8, <2>1, <2>2, UpdateOK DEF ConnectInProgress
  <2>8. /\ state' = "CONNECTING" /\ connHandler' = next
        /\ UNCHANGED <<conn, kept, connState, batch, event, calls, proc, touched, told>>
    BY <1>8 DEF ConnectInProgress, loop
  <2>9. TypeOK'
    BY <1>1, <2>1, <2>5, <2>6, <2>7, <2>8, TypesNext DEF PollOK
  <2> QED
    BY <1>2, <2>1, <2>7, <2>8, <2>9 DEF Named
<1>9. ASSUME Disconnect PROVE TypeOK' /\ Named'
  <2>1. sock' \in [Fds -> SocketType]
    BY <1>1, <1>9, SockBits DEF Disconnect
  <2>2. /\ state' = "DIS_CONNECTED"
        /\ connState' \in [Attempts -> {"NONE", "CONNECTED", "DIS_CONNECTING", "DIS_CONNECTED"}]
        /\ UNCHANGED <<connHandler, conn, kept, object, poll, batch, event, calls, proc, touched, told, next>>
    BY <1>1, <1>9 DEF Disconnect, loop
  <2>3. TypeOK'
    BY <1>1, <2>1, <2>2, TypesNext
  <2> QED
    BY <1>2, <2>2, <2>3 DEF Named
<1>10. ASSUME DisconnectsNothing PROVE TypeOK' /\ Named'
  <2>1. proc' = "crash" /\ UNCHANGED <<state, connHandler, conn, kept, object, connState, sock,
                                       poll, batch, event, calls, touched, told, next>>
    BY <1>10 DEF DisconnectsNothing, client, objects, loop
  <2>2. TypeOK'
    BY <1>1, <2>1, TypesNext
  <2> QED
    BY <1>2, <2>1, <2>2 DEF Named
<1>11. ASSUME NEW k \in Attempts, SendLeavesBytes(k) PROVE TypeOK' /\ Named'
  <2> DEFINE events == object[Cn(k)].events \cup {"OUT"}
  <2>1. Cn(k) \in Handlers
    BY <1>3
  <2>2. events \in SUBSET EventKinds
    BY <1>1, <2>1 DEF HandlerType, EventKinds, ReadEvents
  <2>3. /\ object' = Asks(object, Cn(k), events)
        /\ poll' = Update(poll, Cn(k), object[Cn(k)].fd, events)
        /\ UNCHANGED <<state, connHandler, conn, kept, connState, sock, batch, event, calls,
                       proc, touched, told, next>>
    BY <1>11 DEF SendLeavesBytes, client, loop
  <2> HIDE DEF events
  <2>4. object' \in [Handlers -> HandlerType] /\ PollOK(poll')
    BY <1>1, <1>2, <2>1, <2>2, <2>3, AsksEffect, UpdateOK
  <2>5. TypeOK'
    BY <1>1, <2>3, <2>4, TypesNext DEF PollOK
  <2> QED
    BY <1>2, <2>3, <2>4, <2>5 DEF Named
<1>12. ASSUME NEW k \in Attempts, CloseBegins(k), UNCHANGED batch,
              UNCHANGED event \/ (event # NoEvent /\ EventGoesOn)
       PROVE  TypeOK' /\ Named'
  <2>1. event' \in EventType /\ (event' # NoEvent => event'.handler # None)
    BY <1>1, <1>2, <1>5, <1>12
  <2>2. /\ UNCHANGED <<state, connHandler, kept, connState, touched, next>>
        /\ proc' \in {"up", "assert", "crash"} /\ conn' \in Attempts \cup {None}
        /\ calls' \in Seq(CallType) /\ told' \in [Attempts -> Seq(Callbacks)]
        /\ object' \in [Handlers -> HandlerType] /\ sock' \in [Fds -> SocketType]
        /\ PollOK(poll')
    BY <1>2, <1>12, CloseTypes
  <2>3. TypeOK'
    BY <1>1, <1>12, <2>1, <2>2, TypesNext DEF PollOK
  <2> QED
    BY <1>2, <2>1, <2>2, <2>3 DEF Named
<1>13. ASSUME NEW k \in Attempts, Releases(k) PROVE TypeOK' /\ Named'
  <2>1. /\ kept' \in SUBSET Attempts
        /\ UNCHANGED <<state, connHandler, conn, connState, batch, event, calls,
                       proc, touched, told, next>>
        /\ Settle(object, sock, poll)
    BY <1>1, <1>13 DEF Releases, client, loop
  <2>2. /\ object' \in [Handlers -> HandlerType] /\ sock' \in [Fds -> SocketType]
        /\ PollOK(poll')
    BY <1>1, <1>2, <2>1, SettleEffect
  <2>3. TypeOK'
    BY <1>1, <2>1, <2>2, TypesNext DEF PollOK
  <2> QED
    BY <1>2, <2>1, <2>2, <2>3 DEF Named
<1>14. ASSUME Wait PROVE TypeOK' /\ Named'
  <2>1. ASSUME NEW fd \in Fds, poll.interest[fd] # Unregistered
        PROVE  [handler |-> poll.interest[fd].handler, trig |-> Trigger(fd)] \in BatchType
    <3>1. poll.interest[fd] \in InterestType
      BY <1>1, PollerFields
    <3>2. poll.interest[fd].handler \in Handlers
      BY <1>2, <2>1, <3>1 DEF PollOK, InterestType
    <3>3. poll.interest[fd].events \in SUBSET EventKinds
      BY <3>1 DEF InterestType
    <3>4. Trigger(fd) \in SUBSET Triggers
      BY <3>3 DEF Trigger, Triggers
    <3> QED
      BY <3>2, <3>4 DEF BatchType
  <2>2. batch' \in SUBSET BatchType
    BY <1>14, <2>1 DEF Wait
  <2>3. UNCHANGED <<state, connHandler, conn, kept, object, connState, sock, poll, event, calls,
                    proc, touched, told, next>>
    BY <1>14 DEF Wait, client, objects
  <2>4. TypeOK'
    BY <1>1, <2>2, <2>3, TypesNext
  <2> QED
    BY <1>2, <2>3, <2>4 DEF Named
<1>15. ASSUME NEW e \in batch, HandleEvent(e) PROVE TypeOK' /\ Named'
  <2>1. /\ e \in BatchType /\ batch' \in SUBSET BatchType
        /\ event' = [handler |-> e.handler, trig |-> e.trig, phase |-> "read"]
        /\ UNCHANGED <<state, connHandler, conn, kept, object, connState, sock, poll, calls,
                       proc, touched, told, next>>
    BY <1>1, <1>15 DEF HandleEvent, client, objects
  <2>2. event' \in EventType /\ event'.handler # None
    BY <2>1, Constants DEF BatchType, EventType
  <2>3. TypeOK'
    BY <1>1, <2>1, <2>2, TypesNext
  <2> QED
    BY <1>2, <2>1, <2>2, <2>3 DEF Named
<1>16. ASSUME \/ PhasePasses \/ PhaseOfFreedHandler
              \/ \E k \in Attempts : AttemptIgnored(k)
       PROVE  TypeOK' /\ Named'
  <2>1. event # NoEvent /\ EventGoesOn
    BY <1>16 DEF PhasePasses, PhaseOfFreedHandler, AttemptIgnored, Handling
  <2>2. event' \in EventType /\ (event' # NoEvent => event'.handler # None)
    BY <1>5, <2>1
  <2>3. event.handler \in Handlers
    BY <1>1, <1>2, <2>1 DEF EventType
  <2>4. /\ UNCHANGED <<state, connHandler, conn, kept, object, connState, sock, poll, batch, calls,
                       told, next>>
        /\ proc' \in {proc, "up", "crash"} /\ touched' \in {touched, touched \cup {event.handler}}
    BY <1>16 DEF PhasePasses, PhaseOfFreedHandler, AttemptIgnored, client, objects
  <2>5. TypeOK'
    BY <1>1, <2>2, <2>3, <2>4, TypesNext
  <2> QED
    BY <1>2, <2>2, <2>4, <2>5 DEF Named
<1>17. ASSUME NEW k \in Attempts, HandleReadBytes(k) PROVE TypeOK' /\ Named'
  <2>1. /\ event # NoEvent /\ EventGoesOn /\ Calls("message", k)
        /\ UNCHANGED <<state, connHandler, conn, kept, object, connState, poll, batch,
                       proc, touched, next>>
    BY <1>17 DEF HandleReadBytes, Handling, client
  <2>2. event' \in EventType /\ (event' # NoEvent => event'.handler # None)
    BY <1>5, <2>1
  <2>3. calls' \in Seq(CallType) /\ told' \in [Attempts -> Seq(Callbacks)]
    BY <1>1, <1>3, <2>1, CallsEffect
  <2>4. sock' \in [Fds -> SocketType]
    BY <1>1, <1>17, ReadSocket
  <2>5. TypeOK'
    BY <1>1, <2>1, <2>2, <2>3, <2>4, TypesNext
  <2> QED
    BY <1>2, <2>1, <2>2, <2>5 DEF Named
<1>18. ASSUME NEW k \in Attempts, HandleWriteBytes(k) PROVE TypeOK' /\ Named'
  <2> DEFINE events == object[Cn(k)].events \ {"OUT"}
  <2>1. /\ event # NoEvent /\ EventGoesOn
        /\ UNCHANGED <<state, connHandler, conn, kept, connState, batch, calls,
                       proc, touched, told, next>>
    BY <1>18 DEF HandleWriteBytes, Handling, client
  <2>2. event' \in EventType /\ (event' # NoEvent => event'.handler # None)
    BY <1>5, <2>1
  <2>3. events \in SUBSET EventKinds
    BY <1>1, <1>3 DEF HandlerType
  <2>4. /\ object' = object \/ object' = Asks(object, Cn(k), events)
        /\ poll' = poll \/ poll' = Update(poll, Cn(k), object[Cn(k)].fd, events)
        /\ sock' = sock \/ sock' = [sock EXCEPT ![object[Cn(k)].fd].fin = TRUE]
    BY <1>18 DEF HandleWriteBytes
  <2> HIDE DEF events
  <2>5. /\ object' \in [Handlers -> HandlerType] /\ sock' \in [Fds -> SocketType]
        /\ PollOK(poll')
    <3>1. Asks(object, Cn(k), events) \in [Handlers -> HandlerType]
      BY <1>1, <1>3, <2>3, AsksEffect
    <3>2. PollOK(Update(poll, Cn(k), object[Cn(k)].fd, events))
      BY <1>2, <1>3, <2>3, UpdateOK
    <3>3. [sock EXCEPT ![object[Cn(k)].fd].fin = TRUE] \in [Fds -> SocketType]
      BY <1>1, SockBits
    <3> QED
      BY <1>1, <1>2, <2>4, <3>1, <3>2, <3>3
  <2>6. TypeOK'
    BY <1>1, <2>1, <2>2, <2>5, TypesNext DEF PollOK
  <2> QED
    BY <1>2, <2>1, <2>2, <2>5, <2>6 DEF Named
(* The Handler of an attempt is freed. *)
<1>19. ASSUME NEW k \in Attempts
       PROVE  Freed(k) \in [Handlers -> HandlerType] /\ PollOK(Update(poll, At(k), object[At(k)].fd, {}))
  <2>1. object[At(k)].fd \in Fds \cup {0}
    BY <1>1, <1>3 DEF HandlerType
  <2>2. [live |-> FALSE, fd |-> object[At(k)].fd, events |-> {}] \in HandlerType
    BY <2>1 DEF HandlerType
  <2>3. Freed(k) \in [Handlers -> HandlerType]
    BY <1>1, <2>2 DEF Freed
  <2> QED
    BY <1>2, <1>3, <2>3, UpdateOK
<1>20. ASSUME NEW k \in Attempts, NEW fd \in Fds, HandleWriteConnected(k, fd)
       PROVE  TypeOK' /\ Named'
  <2> DEFINE p == Update(poll, At(k), object[At(k)].fd, {})
  <2>1. /\ event # NoEvent /\ EventGoesOn
        /\ connHandler' = None /\ Establish(k, fd, Freed(k), sock, p)
        /\ UNCHANGED <<batch, proc, touched, next>>
    BY <1>20 DEF HandleWriteConnected, Handling, TakesFrom
  <2>2. event' \in EventType /\ (event' # NoEvent => event'.handler # None)
    BY <1>5, <2>1
  <2>3. Freed(k) \in [Handlers -> HandlerType] /\ PollOK(p)
    BY <1>19
  <2> HIDE DEF p
  <2>4. /\ state' = "CONNECTED" /\ conn' = k /\ kept' \in SUBSET Attempts
        /\ connState' \in [Attempts -> {"NONE", "CONNECTED", "DIS_CONNECTING", "DIS_CONNECTED"}]
        /\ calls' \in Seq(CallType) /\ told' \in [Attempts -> Seq(Callbacks)]
        /\ object' \in [Handlers -> HandlerType] /\ sock' \in [Fds -> SocketType]
        /\ PollOK(poll')
    BY <1>1, <2>1, <2>3, EstablishTypes
  <2>5. TypeOK'
    BY <1>1, <2>1, <2>2, <2>4, TypesNext DEF PollOK
  <2> QED
    BY <1>2, <2>1, <2>2, <2>4, <2>5 DEF Named
<1>21. ASSUME NEW k \in Attempts, NEW fd \in Fds, HandleWriteFailed(k, fd)
       PROVE  TypeOK' /\ Named'
  <2>1. /\ event # NoEvent /\ EventGoesOn
        /\ connHandler' = None /\ object' = Freed(k) /\ Calls("failed", k)
        /\ poll' = Update(poll, At(k), object[At(k)].fd, {})
        /\ UNCHANGED <<state, conn, kept, sock, connState, batch, proc, touched, next>>
    BY <1>21 DEF HandleWriteFailed, Handling, TakesFrom
  <2>2. event' \in EventType /\ (event' # NoEvent => event'.handler # None)
    BY <1>5, <2>1
  <2>3. object' \in [Handlers -> HandlerType] /\ PollOK(poll')
    BY <1>19, <2>1
  <2>4. calls' \in Seq(CallType) /\ told' \in [Attempts -> Seq(Callbacks)]
    BY <1>1, <1>3, <2>1, CallsEffect
  <2>5. TypeOK'
    BY <1>1, <2>1, <2>2, <2>3, <2>4, TypesNext DEF PollOK
  <2> QED
    BY <1>2, <2>1, <2>2, <2>3, <2>5 DEF Named
<1>22. ASSUME CallbackReturns PROVE TypeOK' /\ Named'
  <2>1. calls' \in Seq(CallType) /\ Head(calls) \in CallType
    BY <1>1, <1>22, ReturnEffect DEF CallbackReturns
  <2>2. Head(calls).of \in Attempts
    BY <2>1 DEF CallType
  <2>3. /\ connState' \in [Attempts -> {"NONE", "CONNECTED", "DIS_CONNECTING", "DIS_CONNECTED"}]
        /\ touched' \in SUBSET Handlers
    <3>1. \/ /\ connState' = [connState EXCEPT ![Head(calls).of] = "DIS_CONNECTED"]
             /\ touched' = touched \/ touched' = touched \cup {Cn(Head(calls).of)}
          \/ UNCHANGED <<connState, touched>>
      BY <1>22 DEF CallbackReturns
    <3> QED
      BY <1>1, <1>3, <2>2, <3>1
  <2>4. /\ UNCHANGED <<conn, kept, state, connHandler, batch, event, proc, told, next>>
        /\ Settle(object, sock, poll)
    BY <1>22 DEF CallbackReturns
  <2>5. /\ object' \in [Handlers -> HandlerType] /\ sock' \in [Fds -> SocketType]
        /\ PollOK(poll')
    BY <1>1, <1>2, <2>4, SettleEffect
  <2>6. TypeOK'
    BY <1>1, <2>1, <2>3, <2>4, <2>5, TypesNext DEF PollOK
  <2> QED
    BY <1>2, <2>4, <2>5, <2>6 DEF Named
<1>23. ASSUME Network PROVE TypeOK' /\ Named'
  <2>1. UNCHANGED <<state, connHandler, conn, kept, object, connState, poll, batch, event, calls,
                    proc, touched, told, next>>
    BY <1>23 DEF Network, client, loop
  <2>2. PICK fd \in Fds : \/ Accepts(fd) \/ Refuses(fd)
                        \/ PeerSends(fd) \/ PeerUrges(fd) \/ PeerFinishes(fd)
    BY <1>23 DEF Network
  <2>3. /\ [sock EXCEPT ![fd].at = "up"] \in [Fds -> SocketType]
        /\ [sock EXCEPT ![fd].at = "refused"] \in [Fds -> SocketType]
        /\ [sock EXCEPT ![fd].data = TRUE] \in [Fds -> SocketType]
        /\ [sock EXCEPT ![fd].peerFin = TRUE] \in [Fds -> SocketType]
        /\ [sock EXCEPT ![fd].urgent = "next"] \in [Fds -> SocketType]
        /\ [sock EXCEPT ![fd].urgent = "behind"] \in [Fds -> SocketType]
    BY <1>1, SockAt, SockBits, SockUrgent
  <2>4. sock' \in [Fds -> SocketType]
    <3>1. CASE PeerUrges(fd)
      BY <2>3, <3>1 DEF PeerUrges
    <3>2. CASE ~PeerUrges(fd)
      BY <2>2, <2>3, <3>2, Zenon DEF Accepts, Refuses, Answers, PeerSends, PeerFinishes
    <3> QED
      BY <3>1, <3>2
  <2>5. TypeOK'
    BY <1>1, <2>1, <2>4, TypesNext
  <2> QED
    BY <1>2, <2>1, <2>5 DEF Named
<1>24. CASE UNCHANGED vars
  <2>1. UNCHANGED <<state, connHandler, conn, kept, object, connState, sock, poll, batch, event,
                    calls, proc, touched, told, next>>
    BY <1>24 DEF vars, client, objects, loop
  <2>2. TypeOK'
    BY <1>1, <2>1, TypesNext
  <2> QED
    BY <1>2, <2>1, <2>2 DEF Named
<1>25. CASE Application
  BY <1>7, <1>8, <1>9, <1>10, <1>11, <1>12, <1>13, <1>25 DEF Application, Closes
<1>26. CASE Loop
  <2>1. ASSUME NEW k \in Attempts, HandleReadEof(k) PROVE TypeOK' /\ Named'
    BY <1>12, <2>1 DEF HandleReadEof, Handling
  <2>2. ASSUME NEW k \in Attempts, HandleReadAgain(k) PROVE TypeOK' /\ Named'
    <3>1. /\ event # NoEvent /\ EventGoesOn
          /\ UNCHANGED <<state, connHandler, conn, kept, object, connState, poll, batch, calls,
                         proc, touched, told, next>>
      BY <2>2 DEF HandleReadAgain, Handling, client
    <3>2. event' \in EventType /\ (event' # NoEvent => event'.handler # None)
      BY <1>5, <3>1
    <3>3. sock' \in [Fds -> SocketType]
      BY <1>1, <2>2, ReadSocket
    <3>4. TypeOK'
      BY <1>1, <3>1, <3>2, <3>3, TypesNext
    <3> QED
      BY <1>2, <3>1, <3>2, <3>4 DEF Named
  <2> QED
    BY <1>14, <1>15, <1>16, <1>17, <1>18, <1>20, <1>21, <1>22, <1>26, <2>1, <2>2 DEF Loop
<1> QED
  BY <1>23, <1>24, <1>25, <1>26 DEF Next
-----------------------------------------------------------------------------
(* What the callbacks tell, for every application.                         *)

(* What has been told, t, begins with a connection. *)
Begun(t) ==
  /\ t # <<>> /\ t[1] = "connection"
  /\ \A i \in DOMAIN t : i # 1 => t[i] \in {"message", "close"}

Ended(t) == \E i \in DOMAIN t : t[i] = "close"

EndedOnce(t) == \A i, j \in DOMAIN t : t[i] = "close" /\ t[j] = "close" => i = j

(* The connection of attempt k was made, and has left a trace. *)
Made(k) ==
  \/ conn = k
  \/ k \in kept
  \/ object[Cn(k)].live
  \/ connState[k] # "NONE"
  \/ \E c \in OnStack : c.of = k /\ c.callback # "failed"

Untold ==
  \A k \in Attempts :
    /\ k >= next => told[k] = <<>>
    /\ connHandler = k => told[k] = <<>> /\ k < next

ToldWell ==
  \A k \in Attempts :
    /\ told[k] = <<>> \/ told[k] = <<"failed">> \/ Begun(told[k])
    /\ Made(k) => Begun(told[k])

(* What makes ToldOnce inductive: a connection that is still current has   *)
(* not ended, so that an assertion that holds lets only one close pass.    *)
EndsOnce ==
  \A k \in Attempts : EndedOnce(told[k]) /\ (conn = k => ~Ended(told[k]))

BasicInv == TypeOK /\ Named /\ Untold /\ ToldWell /\ (Asserts => EndsOnce)

LEMMA AppendTold ==
  ASSUME NEW t \in Seq(Callbacks), NEW c \in Callbacks
  PROVE  /\ Append(t, c) # <<>>
         /\ DOMAIN t = 1 .. Len(t) /\ Len(t) \in Nat
         /\ DOMAIN Append(t, c) = 1 .. Len(t) + 1
         /\ \A i \in 1 .. Len(t) : Append(t, c)[i] = t[i]
         /\ Append(t, c)[Len(t) + 1] = c
<1>1. Append(t, c) \in Seq(Callbacks) /\ Len(Append(t, c)) = Len(t) + 1 /\ Len(t) \in Nat
      /\ (\A i \in 1 .. Len(t) : Append(t, c)[i] = t[i]) /\ Append(t, c)[Len(t) + 1] = c
  BY AppendProperties, LenProperties
<1> QED
  BY <1>1, LenProperties, EmptySeq

LEMMA ToldFirst ==
  ASSUME NEW c \in Callbacks
  PROVE  /\ Append(<<>>, c) = <<c>>
         /\ Begun(<<"connection">>)
         /\ \A t : t = <<c>> /\ c # "close" => ~Ended(t) /\ EndedOnce(t)
<1>1. Append(<<>>, c) = <<c>>
  OBVIOUS
<1>2. Begun(<<"connection">>)
  <2>1. <<"connection">> # <<>> /\ <<"connection">>[1] = "connection"
        /\ \A i \in DOMAIN <<"connection">> : i = 1
    OBVIOUS
  <2> QED
    BY <2>1 DEF Begun
<1>3. \A t : t = <<c>> /\ c # "close" => ~Ended(t) /\ EndedOnce(t)
  BY DEF Ended, EndedOnce
<1> QED
  BY <1>1, <1>2, <1>3

LEMMA ToldMore ==
  ASSUME NEW t \in Seq(Callbacks), NEW c \in Callbacks
  PROVE  /\ Begun(t) /\ c \in {"message", "close"} => Begun(Append(t, c))
         /\ c # "close" => (Ended(Append(t, c)) <=> Ended(t))
         /\ c # "close" /\ EndedOnce(t) => EndedOnce(Append(t, c))
         /\ ~Ended(t) => EndedOnce(Append(t, c))
<1> DEFINE u == Append(t, c)
<1>1. /\ u # <<>> /\ DOMAIN t = 1 .. Len(t) /\ Len(t) \in Nat /\ DOMAIN u = 1 .. Len(t) + 1
      /\ \A i \in 1 .. Len(t) : u[i] = t[i]
      /\ u[Len(t) + 1] = c
  BY AppendTold
<1>2. \A i \in DOMAIN u : i \in DOMAIN t \/ i = Len(t) + 1
  BY <1>1
<1>3. \A i \in DOMAIN t : i \in DOMAIN u /\ u[i] = t[i]
  BY <1>1
<1>4. t # <<>> => 1 \in DOMAIN t
  BY <1>1, EmptySeq
<1> HIDE DEF u
<1>5. Begun(t) /\ c \in {"message", "close"} => Begun(u)
  BY <1>1, <1>2, <1>3, <1>4 DEF Begun
<1>6. c # "close" => (Ended(u) <=> Ended(t))
  BY <1>1, <1>2, <1>3 DEF Ended
<1>7. c # "close" /\ EndedOnce(t) => EndedOnce(u)
  BY <1>1, <1>2, <1>3 DEF EndedOnce
<1>8. ~Ended(t) => EndedOnce(u)
  BY <1>1, <1>2, <1>3 DEF EndedOnce, Ended
<1> QED
  BY <1>5, <1>6, <1>7, <1>8 DEF u

(* What a step may tell: nothing, or one callback, of an attempt that      *)
(* waits for it or a connection that was made.                             *)
Narrows == \A j \in Attempts : Made(j)' => Made(j)

Quiet ==
  /\ told' = told /\ conn' \in {conn, None} /\ next' >= next
  /\ connHandler' \in {connHandler, None} \/ (connHandler' = next /\ next' = next + 1)
  /\ Narrows

Tells(k, callback) ==
  /\ told'[k] = Append(told[k], callback) \/ (callback = "message" /\ told'[k] = told[k])
  /\ \A j \in Attempts \ {k} : told'[j] = told[j]

Begins(k) ==
  /\ Tells(k, "connection")
  /\ conn' = k
  /\ \/ k = next /\ next' = next + 1 /\ connHandler' = connHandler
     \/ k = connHandler /\ connHandler' = None /\ next' = next
  /\ \A j \in Attempts \ {k} : Made(j)' => Made(j)

(* The event being handled is the first phase of one of connection k. *)
Reads(k) == event # NoEvent /\ event.phase = "read" /\ event.handler = Cn(k)

Hears(k) ==
  /\ Tells(k, "message") /\ Made(k)
  /\ Reads(k)
  /\ UNCHANGED <<conn, connHandler, next>> /\ Narrows

Ends(k) ==
  /\ Tells(k, "close") /\ Made(k)
  /\ Asserts => conn = k
  /\ (Polite => conn = k) \/ Reads(k)
  /\ conn' = None /\ UNCHANGED <<connHandler, next>> /\ Narrows

Fails(k) ==
  /\ Tells(k, "failed")
  /\ connHandler = k /\ connHandler' = None /\ UNCHANGED <<conn, next>> /\ Narrows

LEMMA NarrationKeeps ==
  ASSUME BasicInv, TypeOK', Named',
         Quiet \/ \E k \in Attempts : Begins(k) \/ Hears(k) \/ Ends(k) \/ Fails(k)
  PROVE  Untold' /\ ToldWell' /\ (Asserts => EndsOnce')
<1>1. /\ told \in [Attempts -> Seq(Callbacks)] /\ next \in Nat /\ next' \in Nat
      /\ connHandler \in Attempts \cup {None} /\ conn \in Attempts \cup {None}
      /\ None \notin Attempts /\ Attempts \subseteq Nat
      /\ "connection" \in Callbacks /\ "message" \in Callbacks /\ "close" \in Callbacks
      /\ "failed" \in Callbacks
  BY Constants, Types DEF BasicInv, TypeOK, Callbacks
<1>2. Untold /\ ToldWell /\ (Asserts => EndsOnce)
  BY DEF BasicInv
<1>3. CASE Quiet
  <2>1. Untold'
    BY <1>1, <1>2, <1>3 DEF Quiet, Untold
  <2>2. ToldWell'
    BY <1>2, <1>3 DEF Quiet, Narrows, ToldWell
  <2>3. ASSUME Asserts PROVE EndsOnce'
    BY <1>1, <1>2, <1>3, <2>3 DEF Quiet, EndsOnce
  <2> QED
    BY <2>1, <2>2, <2>3
<1>4. ASSUME NEW k \in Attempts, Begins(k) PROVE Untold' /\ ToldWell' /\ (Asserts => EndsOnce')
  <2>1. told[k] = <<>>
    BY <1>1, <1>2, <1>4 DEF Begins, Untold
  <2>2. told'[k] = <<"connection">> /\ \A j \in Attempts \ {k} : told'[j] = told[j]
    BY <1>1, <1>4, <2>1, ToldFirst DEF Begins, Tells
  <2>3. Begun(told'[k]) /\ ~Ended(told'[k]) /\ EndedOnce(told'[k])
    BY <1>1, <2>2, ToldFirst
  <2>4. Untold'
    <3>1. ASSUME NEW j \in Attempts, j >= next' PROVE told'[j] = <<>>
      <4>1. j # k /\ j >= next
        BY <1>1, <1>2, <1>4, <3>1 DEF Begins, Untold
      <4> QED
        BY <1>2, <2>2, <4>1 DEF Untold
    <3>2. ASSUME NEW j \in Attempts, connHandler' = j PROVE told'[j] = <<>> /\ j < next'
      <4>1. connHandler = j /\ k = next /\ next' = next + 1
        BY <1>1, <1>4, <3>2 DEF Begins
      <4>2. told[j] = <<>> /\ j < next
        BY <1>2, <4>1 DEF Untold
      <4> QED
        BY <1>1, <2>2, <4>1, <4>2
    <3> QED
      BY <3>1, <3>2 DEF Untold
  <2>5. ToldWell'
    BY <1>2, <1>4, <2>2, <2>3 DEF Begins, ToldWell
  <2>6. ASSUME Asserts PROVE EndsOnce'
    BY <1>1, <1>2, <1>4, <2>2, <2>3, <2>6 DEF Begins, EndsOnce
  <2> QED
    BY <2>4, <2>5, <2>6
<1>5. ASSUME NEW k \in Attempts, Hears(k) PROVE Untold' /\ ToldWell' /\ (Asserts => EndsOnce')
  <2>1. Begun(told[k]) /\ told[k] \in Seq(Callbacks)
    BY <1>1, <1>2, <1>5 DEF Hears, ToldWell
  <2>2. /\ told'[k] = Append(told[k], "message") \/ told'[k] = told[k]
        /\ \A j \in Attempts \ {k} : told'[j] = told[j]
    BY <1>5 DEF Hears, Tells
  <2>3. /\ Begun(told'[k]) /\ (Ended(told'[k]) <=> Ended(told[k]))
        /\ EndedOnce(told[k]) => EndedOnce(told'[k])
    <3>1. /\ Begun(Append(told[k], "message"))
          /\ Ended(Append(told[k], "message")) <=> Ended(told[k])
          /\ EndedOnce(told[k]) => EndedOnce(Append(told[k], "message"))
      BY <1>1, <2>1, ToldMore
    <3> QED
      BY <2>1, <2>2, <3>1, Zenon
  <2>4. told[k] # <<>>
    BY <2>1 DEF Begun
  <2>5. Untold'
    BY <1>2, <1>5, <2>2, <2>4 DEF Hears, Untold
  <2>6. ToldWell'
    BY <1>2, <1>5, <2>2, <2>3 DEF Hears, Narrows, ToldWell
  <2>7. ASSUME Asserts PROVE EndsOnce'
    BY <1>2, <1>5, <2>2, <2>3, <2>7 DEF Hears, EndsOnce
  <2> QED
    BY <2>5, <2>6, <2>7
<1>6. ASSUME NEW k \in Attempts, Ends(k) PROVE Untold' /\ ToldWell' /\ (Asserts => EndsOnce')
  <2>1. Begun(told[k]) /\ told[k] \in Seq(Callbacks)
    BY <1>1, <1>2, <1>6 DEF Ends, ToldWell
  <2>2. /\ told'[k] = Append(told[k], "close")
        /\ \A j \in Attempts \ {k} : told'[j] = told[j]
    BY <1>6 DEF Ends, Tells
  <2>3. Begun(told'[k]) /\ (~Ended(told[k]) => EndedOnce(told'[k]))
    BY <1>1, <2>1, <2>2, ToldMore
  <2>4. told[k] # <<>>
    BY <2>1 DEF Begun
  <2>5. Untold'
    BY <1>2, <1>6, <2>2, <2>4 DEF Ends, Untold
  <2>6. ToldWell'
    BY <1>2, <1>6, <2>2, <2>3 DEF Ends, Narrows, ToldWell
  <2>7. ASSUME Asserts PROVE EndsOnce'
    BY <1>1, <1>2, <1>6, <2>2, <2>3, <2>7 DEF Ends, EndsOnce
  <2> QED
    BY <2>5, <2>6, <2>7
<1>7. ASSUME NEW k \in Attempts, Fails(k) PROVE Untold' /\ ToldWell' /\ (Asserts => EndsOnce')
  <2>1. told[k] = <<>> /\ k < next
    BY <1>2, <1>7 DEF Fails, Untold
  <2>2. told'[k] = <<"failed">> /\ \A j \in Attempts \ {k} : told'[j] = told[j]
    BY <1>1, <1>7, <2>1, ToldFirst DEF Fails, Tells
  <2>3. ~Ended(told'[k]) /\ EndedOnce(told'[k])
    BY <1>1, <2>2, ToldFirst
  <2>4. ~Made(k)
    BY <1>2, <2>1 DEF ToldWell, Begun
  <2>5. Untold'
    <3>1. \A j \in Attempts : j >= next => j # k
      BY <1>1, <2>1
    <3> QED
      BY <1>1, <1>2, <1>7, <2>2, <3>1 DEF Fails, Untold
  <2>6. ToldWell'
    BY <1>2, <1>7, <2>2, <2>4 DEF Fails, Narrows, ToldWell
  <2>7. ASSUME Asserts PROVE EndsOnce'
    BY <1>2, <1>7, <2>2, <2>3, <2>7 DEF Fails, EndsOnce
  <2> QED
    BY <2>5, <2>6, <2>7
<1> QED
  BY <1>3, <1>4, <1>5, <1>6, <1>7

LEMMA StackSame ==
  ASSUME calls' = calls
  PROVE  OnStack' = OnStack
BY DEF OnStack

(* Every step is one of those. *)
LEMMA NextNarrates ==
  ASSUME TypeOK, Named, [Next]_vars, TypeOK'
  PROVE  Quiet \/ \E k \in Attempts : Begins(k) \/ Hears(k) \/ Ends(k) \/ Fails(k)
<1>1. /\ conn \in Attempts \cup {None} /\ connHandler \in Attempts \cup {None}
      /\ object \in [Handlers -> HandlerType]
      /\ connState \in [Attempts -> {"NONE", "CONNECTED", "DIS_CONNECTING", "DIS_CONNECTED"}]
      /\ sock \in [Fds -> SocketType] /\ calls \in Seq(CallType)
      /\ told \in [Attempts -> Seq(Callbacks)] /\ next \in Nat /\ PollOK(poll)
      /\ next' \in Nat /\ None \notin Attempts
  BY Constants, Types DEF TypeOK, Named
<1>2. /\ "connection" \in Callbacks /\ "message" \in Callbacks /\ "close" \in Callbacks
      /\ "failed" \in Callbacks
      /\ \A k \in Attempts : At(k) \in Handlers /\ Cn(k) \in Handlers
      /\ \A j, k \in Attempts : At(j) # Cn(k) /\ (Cn(j) = Cn(k) => j = k)
  BY Kinds DEF Callbacks
<1>3. ASSUME NEW objs \in [Handlers -> HandlerType], NEW socks \in [Fds -> SocketType],
             NEW p, PollOK(p), Settle(objs, socks, p)
      PROVE  \A k \in Attempts : object'[Cn(k)].live => objs[Cn(k)].live
  <2> TAKE k \in Attempts
  <2>1. \/ object'[Cn(k)] = objs[Cn(k)]
        \/ object'[Cn(k)] = [live |-> FALSE, fd |-> objs[Cn(k)].fd, events |-> objs[Cn(k)].events]
    BY <1>3, SettleEffect DEF Dying
  <2> QED
    BY <2>1
(* A step that tells nothing. *)
<1>4. ASSUME UNCHANGED <<conn, connHandler, calls, told>>, next' >= next, kept' \subseteq kept,
             \A k \in Attempts : object'[Cn(k)].live => object[Cn(k)].live,
             \A k \in Attempts : connState'[k] # "NONE" => connState[k] # "NONE" \/ conn = k
      PROVE  Quiet
  <2>1. OnStack' = OnStack
    BY <1>4, StackSame
  <2>2. Narrows
    BY <1>4, <2>1 DEF Narrows, Made
  <2> QED
    BY <1>4, <2>2 DEF Quiet
<1>5. ASSUME NEW k \in Attempts, NEW callback \in Callbacks, Calls(callback, k)
      PROVE  /\ Tells(k, callback)
             /\ OnStack' = OnStack \cup {[callback |-> callback, of |-> k]}
  BY <1>1, <1>5, CallsEffect DEF Tells
<1>6. ASSUME NEW k \in Attempts, NEW fd \in Fds, NEW objs \in [Handlers -> HandlerType],
             NEW socks \in [Fds -> SocketType], NEW p, PollOK(p),
             Establish(k, fd, objs, socks, p),
             \A j \in Attempts : objs[Cn(j)] = object[Cn(j)]
      PROVE  /\ Tells(k, "connection") /\ conn' = k
             /\ \A j \in Attempts \ {k} : Made(j)' => Made(j)
  <2> DEFINE new == [live |-> TRUE, fd |-> fd, events |-> ReadEvents]
             objs2 == [objs EXCEPT ![Cn(k)] = new]
             q == Update(p, Cn(k), fd, ReadEvents)
  <2>1. ReadEvents \in SUBSET EventKinds
    BY DEF EventKinds, ReadEvents
  <2>2. new \in HandlerType
    BY <2>1 DEF HandlerType
  <2>3. objs2 \in [Handlers -> HandlerType]
    BY <1>2, <2>2
  <2>4. PollOK(q)
    BY <1>2, <1>6, <2>1, UpdateOK
  <2>5. \A j \in Attempts \ {k} : objs2[Cn(j)] = object[Cn(j)]
    BY <1>2, <1>6
  <2>6. Settle(objs2, socks, q)
    BY <1>6 DEF Establish
  <2> HIDE DEF new, objs2, q
  <2>7. \A j \in Attempts \ {k} : object'[Cn(j)].live => object[Cn(j)].live
    <3>1. \A j \in Attempts : object'[Cn(j)].live => objs2[Cn(j)].live
      BY <1>3, <2>3, <2>4, <2>6
    <3> QED
      BY <2>5, <3>1
  <2>8. /\ Calls("connection", k) /\ conn' = k /\ kept' \subseteq kept \cup {k}
        /\ connState' = [connState EXCEPT ![k] = "CONNECTED"]
    BY <1>6 DEF Establish
  <2>9. /\ Tells(k, "connection")
        /\ OnStack' = OnStack \cup {[callback |-> "connection", of |-> k]}
    BY <1>2, <1>5, <2>8
  <2>10. ASSUME NEW j \in Attempts \ {k}, Made(j)' PROVE Made(j)
    <3>1. /\ connState'[j] = connState[j] /\ conn' # j /\ (j \in kept' => j \in kept)
          /\ object'[Cn(j)].live => object[Cn(j)].live
      BY <1>1, <2>7, <2>8
    <3>2. [callback |-> "connection", of |-> k].of # j
      OBVIOUS
    <3> QED
      BY <2>9, <2>10, <3>1, <3>2 DEF Made
  <2> QED
    BY <2>8, <2>9, <2>10
<1>7. ASSUME NEW k \in Attempts, CloseBegins(k), Made(k), (Polite => conn = k) \/ Reads(k)
      PROVE  Quiet \/ Ends(k)
  <2>1. CASE ~Asserted(k) /\ proc' = "assert" /\ UNCHANGED <<client, kept, objects, calls, touched, told, next>>
    BY <1>1, <1>4, <2>1 DEF client, objects
  <2>2. CASE /\ Asserted(k) /\ conn' = None /\ Calls("close", k)
             /\ UNCHANGED <<state, connHandler, kept, connState, proc, touched, next>>
             /\ DisablesAll(k)
    <3> DEFINE objs2 == Asks(object, Cn(k), {})
               q == Update(poll, Cn(k), object[Cn(k)].fd, {})
    <3>1. objs2 \in [Handlers -> HandlerType] /\ PollOK(q)
          /\ \A j \in Attempts : objs2[Cn(j)].live = object[Cn(j)].live
      <4>1. {} \in SUBSET EventKinds
        OBVIOUS
      <4>2. PollOK(q)
        BY <1>1, <1>2, <4>1, UpdateOK
      <4>3. /\ objs2 \in [Handlers -> HandlerType]
            /\ \A j \in Attempts : objs2[Cn(j)].live = object[Cn(j)].live
        BY <1>1, <4>1, AsksLives
      <4> QED
        BY <4>2, <4>3
    <3>2. Settle(objs2, sock, q)
      BY <2>2 DEF DisablesAll
    <3> HIDE DEF objs2, q
    <3>3. \A j \in Attempts : object'[Cn(j)].live => object[Cn(j)].live
      BY <1>1, <1>3, <3>1, <3>2
    <3>4. Tells(k, "close") /\ OnStack' = OnStack \cup {[callback |-> "close", of |-> k]}
      BY <1>2, <1>5, <2>2
    <3>5. Narrows
      <4>1. \A j \in Attempts : [callback |-> "close", of |-> k].of = j => Made(j)
        BY <1>7
      <4> QED
        BY <1>1, <2>2, <3>3, <3>4, <4>1 DEF Narrows, Made
    <3> QED
      BY <1>7, <2>2, <3>4, <3>5 DEF Ends, Asserted
  <2> QED
    BY <1>7, <2>1, <2>2 DEF CloseBegins
<1>8. ASSUME NEW k \in Attempts, object[Cn(k)].live PROVE Made(k)
  BY <1>8 DEF Made
<1>9. ASSUME NEW fd \in Fds, ConnectAtOnce(fd) PROVE \E k \in Attempts : Begins(k)
  <2>1. next \in Attempts /\ next' = next + 1 /\ connHandler' = connHandler
        /\ Establish(next, fd, object, [sock EXCEPT ![fd].at = "up"], poll)
    <3>1. next >= 1
      BY DEF Named
    <3> QED
      BY <1>1, <1>9, <3>1, Constants DEF ConnectAtOnce, CreatesSocket, Attempts
  <2>2. [sock EXCEPT ![fd].at = "up"] \in [Fds -> SocketType]
    BY <1>1, SockAt
  <2>3. /\ Tells(next, "connection") /\ conn' = next
        /\ \A j \in Attempts \ {next} : Made(j)' => Made(j)
    BY <1>1, <1>6, <2>1, <2>2
  <2> QED
    BY <2>1, <2>3 DEF Begins
<1>10. ASSUME NEW fd \in Fds, ConnectInProgress(fd) PROVE Quiet
  <2>1. /\ next' = next + 1 /\ connHandler' = next
        /\ UNCHANGED <<conn, kept, connState, calls, told>>
    BY <1>10 DEF ConnectInProgress, CreatesSocket, loop
  <2>2. \A k \in Attempts : object'[Cn(k)] = object[Cn(k)]
    <3> TAKE k \in Attempts
    <3>1. Cn(k) # At(next) /\ Cn(k) # At(connHandler) /\ Cn(k) \in Handlers
      BY <1>2 DEF Cn, At
    <3> QED
      BY <1>10, <3>1 DEF ConnectInProgress
  <2>3. OnStack' = OnStack
    BY <2>1, StackSame
  <2>4. Narrows
    BY <2>1, <2>2, <2>3 DEF Narrows, Made
  <2> QED
    BY <1>1, <2>1, <2>4 DEF Quiet
<1>11. CASE Disconnect
  <2>1. UNCHANGED <<conn, connHandler, kept, calls, told, object, next>> /\ conn # None
    BY <1>11 DEF Disconnect, loop
  <2>2. \A k \in Attempts : connState'[k] # "NONE" => connState[k] # "NONE" \/ conn = k
    BY <1>1, <1>11 DEF Disconnect
  <2> QED
    BY <1>1, <1>4, <2>1, <2>2
<1>12. CASE DisconnectsNothing
  BY <1>1, <1>4, <1>12 DEF DisconnectsNothing, client, objects, loop
<1>13. ASSUME NEW k \in Attempts, SendLeavesBytes(k) PROVE Quiet
  <2> DEFINE events == object[Cn(k)].events \cup {"OUT"}
  <2>1. /\ object' = Asks(object, Cn(k), events)
        /\ UNCHANGED <<conn, connHandler, kept, connState, calls, told, next>>
    BY <1>1, <1>13 DEF SendLeavesBytes, client, loop
  <2>2. events \in SUBSET EventKinds
    <3>1. object[Cn(k)].events \in SUBSET EventKinds
      BY <1>1, <1>2, <2>1 DEF HandlerType
    <3> QED
      BY <3>1 DEF EventKinds, ReadEvents
  <2> HIDE DEF events
  <2>3. \A j \in Attempts : object'[Cn(j)].live = object[Cn(j)].live
    <3>1. \A j \in Attempts : Asks(object, Cn(k), events)[Cn(j)].live = object[Cn(j)].live
      BY <1>1, <2>1, <2>2, AsksLives
    <3> QED
      BY <2>1, <3>1
  <2> QED
    BY <1>1, <1>4, <2>1, <2>3
<1>14. ASSUME NEW k \in Attempts, Closes(k) PROVE Quiet \/ Ends(k)
  <2>1. CloseBegins(k) /\ (Polite => conn = k)
    BY <1>14 DEF Closes
  <2>2. Made(k)
    <3>1. CASE k \in kept
      BY <3>1 DEF Made
    <3>2. CASE InCallbackOf(k)
      <4>1. /\ calls # <<>> /\ Head(calls).of = k
            /\ Head(calls).callback \in {"connection", "message"}
        BY <3>2 DEF InCallbackOf
      <4>2. 1 \in DOMAIN calls /\ Head(calls) = calls[1]
        BY <1>1, <4>1, EmptySeq, HeadTailProperties, LenProperties
      <4>3. Head(calls) \in OnStack
        BY <4>2 DEF OnStack
      <4> QED
        BY <4>1, <4>3 DEF Made
    <3> QED
      BY <1>14, <3>1, <3>2 DEF Closes, HasPointer
  <2> QED
    BY <1>7, <2>1, <2>2
<1>15. ASSUME NEW k \in Attempts, Releases(k) PROVE Quiet
  <2>1. /\ UNCHANGED <<conn, connHandler, connState, calls, told, next>>
        /\ kept' \subseteq kept /\ Settle(object, sock, poll)
    BY <1>15 DEF Releases, client, loop
  <2>2. \A j \in Attempts : object'[Cn(j)].live => object[Cn(j)].live
    BY <1>1, <1>3, <2>1
  <2> QED
    BY <1>1, <1>4, <2>1, <2>2
<1>16. ASSUME \/ Wait \/ PhasePasses \/ PhaseOfFreedHandler \/ Network \/ UNCHANGED vars
              \/ \E e \in batch : HandleEvent(e)
              \/ \E k \in Attempts : AttemptIgnored(k) \/ HandleReadAgain(k)
       PROVE  Quiet
  <2>1. UNCHANGED <<conn, connHandler, kept, object, connState, calls, told, next>>
    BY <1>16 DEF Wait, PhasePasses, PhaseOfFreedHandler, Network, HandleEvent, AttemptIgnored,
       HandleReadAgain, vars, client, objects, loop
  <2> QED
    BY <1>1, <1>4, <2>1
<1>17. ASSUME NEW k \in Attempts, HandleReadBytes(k) PROVE Hears(k)
  <2>1. /\ Calls("message", k) /\ UNCHANGED <<conn, connHandler, kept, object, connState, next>>
        /\ event.handler = Cn(k) /\ Alive /\ Reads(k)
    BY <1>17 DEF HandleReadBytes, Handling, client, Cn, Reads
  <2>2. Made(k)
    BY <1>8, <2>1 DEF Alive
  <2>3. Tells(k, "message") /\ OnStack' = OnStack \cup {[callback |-> "message", of |-> k]}
    BY <1>2, <1>5, <2>1
  <2>4. \A j \in Attempts : [callback |-> "message", of |-> k].of = j => Made(j)
    BY <2>2
  <2>5. Narrows
    BY <2>1, <2>3, <2>4 DEF Narrows, Made
  <2> QED
    BY <2>1, <2>2, <2>3, <2>5 DEF Hears
<1>18. ASSUME NEW k \in Attempts, HandleReadEof(k) PROVE Quiet \/ Ends(k)
  <2>1. event.handler = Cn(k) /\ Alive /\ CloseBegins(k) /\ Reads(k)
    BY <1>18 DEF HandleReadEof, Handling, Cn, Reads
  <2> QED
    BY <1>7, <1>8, <2>1 DEF Alive
<1>19. ASSUME NEW k \in Attempts, HandleWriteBytes(k) PROVE Quiet
  <2> DEFINE events == object[Cn(k)].events \ {"OUT"}
  <2>1. /\ object' = object \/ object' = Asks(object, Cn(k), events)
        /\ UNCHANGED <<conn, connHandler, kept, connState, calls, told, next>>
    BY <1>19 DEF HandleWriteBytes, client
  <2>2. events \in SUBSET EventKinds
    BY <1>1, <1>2 DEF HandlerType
  <2> HIDE DEF events
  <2>3. \A j \in Attempts : object'[Cn(j)].live = object[Cn(j)].live
    <3>1. \A j \in Attempts : Asks(object, Cn(k), events)[Cn(j)].live = object[Cn(j)].live
      BY <1>1, <2>2, AsksLives
    <3> QED
      BY <2>1, <3>1
  <2> QED
    BY <1>1, <1>4, <2>1, <2>3
<1>20. ASSUME NEW k \in Attempts
       PROVE  /\ Freed(k) \in [Handlers -> HandlerType]
              /\ PollOK(Update(poll, At(k), object[At(k)].fd, {}))
              /\ \A j \in Attempts : Freed(k)[Cn(j)] = object[Cn(j)]
  <2>1. object[At(k)].fd \in Fds \cup {0}
    BY <1>1, <1>2 DEF HandlerType
  <2>2. [live |-> FALSE, fd |-> object[At(k)].fd, events |-> {}] \in HandlerType
    BY <2>1 DEF HandlerType
  <2>3. Freed(k) \in [Handlers -> HandlerType] /\ \A j \in Attempts : Freed(k)[Cn(j)] = object[Cn(j)]
    BY <1>1, <1>2, <2>2 DEF Freed
  <2> QED
    BY <1>1, <1>2, <2>3, UpdateOK
<1>21. ASSUME NEW k \in Attempts, NEW fd \in Fds, HandleWriteConnected(k, fd) PROVE Begins(k)
  <2>1. /\ Establish(k, fd, Freed(k), sock, Update(poll, At(k), object[At(k)].fd, {}))
        /\ connHandler = k /\ connHandler' = None /\ next' = next
    BY <1>21 DEF HandleWriteConnected, TakesFrom
  <2>2. /\ Tells(k, "connection") /\ conn' = k
        /\ \A j \in Attempts \ {k} : Made(j)' => Made(j)
    BY <1>1, <1>6, <1>20, <2>1
  <2> QED
    BY <2>1, <2>2 DEF Begins
<1>22. ASSUME NEW k \in Attempts, NEW fd \in Fds, HandleWriteFailed(k, fd) PROVE Fails(k)
  <2>1. /\ Calls("failed", k) /\ UNCHANGED <<conn, kept, connState, next>> /\ object' = Freed(k)
        /\ connHandler = k /\ connHandler' = None
    BY <1>22 DEF HandleWriteFailed, TakesFrom
  <2>2. Tells(k, "failed") /\ OnStack' = OnStack \cup {[callback |-> "failed", of |-> k]}
    BY <1>2, <1>5, <2>1
  <2>3. [callback |-> "failed", of |-> k].callback = "failed"
    OBVIOUS
  <2>4. \A j \in Attempts : object'[Cn(j)] = object[Cn(j)]
    BY <1>20, <2>1
  <2>5. Narrows
    BY <2>1, <2>2, <2>3, <2>4 DEF Narrows, Made
  <2> QED
    BY <2>1, <2>2, <2>5 DEF Fails
<1>23. CASE CallbackReturns
  <2>1. /\ calls # <<>> /\ calls' = Tail(calls) /\ Settle(object, sock, poll)
        /\ UNCHANGED <<conn, connHandler, kept, told, next>>
    BY <1>23 DEF CallbackReturns
  <2>2. OnStack' \subseteq OnStack /\ Head(calls) \in OnStack
    BY <1>1, <2>1, ReturnEffect
  <2>3. \A k \in Attempts : object'[Cn(k)].live => object[Cn(k)].live
    BY <1>1, <1>3, <2>1
  <2>4. \A k \in Attempts : connState'[k] = connState[k]
                            \/ (Head(calls).of = k /\ Head(calls).callback = "close")
    BY <1>1, <1>23 DEF CallbackReturns
  <2>5. \A k \in Attempts : Head(calls).of = k /\ Head(calls).callback = "close" => Made(k)
    BY <2>2 DEF Made
  <2>6. Narrows
    <3> SUFFICES ASSUME NEW k \in Attempts, Made(k)' PROVE Made(k)
      BY DEF Narrows
    <3>1. conn' = k \/ k \in kept' => Made(k)
      BY <2>1 DEF Made
    <3>2. object'[Cn(k)].live => Made(k)
      BY <2>3 DEF Made
    <3>3. connState'[k] # "NONE" => Made(k)
      BY <2>4, <2>5 DEF Made
    <3>4. (\E c \in OnStack' : c.of = k /\ c.callback # "failed") => Made(k)
      BY <2>2 DEF Made
    <3> QED
      BY <3>1, <3>2, <3>3, <3>4 DEF Made
  <2> QED
    BY <1>1, <2>1, <2>6 DEF Quiet
<1>24. CASE Application
  BY <1>9, <1>10, <1>11, <1>12, <1>13, <1>14, <1>15, <1>24 DEF Application
<1>25. CASE Loop
  BY <1>16, <1>17, <1>18, <1>19, <1>21, <1>22, <1>23, <1>25 DEF Loop
<1> QED
  BY <1>16, <1>24, <1>25 DEF Next

LEMMA BasicInit == Init => BasicInv
<1> SUFFICES ASSUME Init PROVE BasicInv
  OBVIOUS
<1>1. TypeOK /\ Named
  BY TypesInit
<1>2. \A k \in Attempts : /\ told[k] = <<>> /\ ~(connHandler = k) /\ ~(conn = k) /\ k \notin kept
                          /\ ~object[Cn(k)].live /\ connState[k] = "NONE"
  BY Constants, Kinds DEF Init, Unborn
<1>3. OnStack = {}
  BY DEF Init, OnStack
<1>4. \A k \in Attempts : ~Made(k)
  BY <1>2, <1>3 DEF Made
<1>5. ~Ended(<<>>) /\ EndedOnce(<<>>)
  BY DEF Ended, EndedOnce
<1>6. Untold /\ ToldWell /\ EndsOnce
  BY <1>2, <1>4, <1>5 DEF Untold, ToldWell, EndsOnce
<1> QED
  BY <1>1, <1>6 DEF BasicInv

LEMMA BasicStep == ASSUME BasicInv, [Next]_vars PROVE BasicInv'
<1>1. TypeOK' /\ Named'
  BY TypesStep DEF BasicInv
<1>2. Quiet \/ \E k \in Attempts : Begins(k) \/ Hears(k) \/ Ends(k) \/ Fails(k)
  BY <1>1, NextNarrates DEF BasicInv
<1>3. Untold' /\ ToldWell' /\ (Asserts => EndsOnce')
  BY <1>1, <1>2, NarrationKeeps
<1> QED
  BY <1>1, <1>3 DEF BasicInv

THEOREM BasicInvariance == Spec => []BasicInv
<1>1. Init => BasicInv
  BY BasicInit
<1>2. BasicInv /\ [Next]_vars => BasicInv'
  BY BasicStep
<1> QED
  BY <1>1, <1>2, PTL DEF Spec

(* The state of the client, its Handlers and connections, the kernel's     *)
(* sockets and the Epoller's map have the types that the code declares.    *)
THEOREM ClientTypeCorrect == Spec => []TypeOK
<1>1. BasicInv => TypeOK
  BY DEF BasicInv
<1> QED
  BY <1>1, BasicInvariance, PTL

(* In a build that evaluates assert(), whatever the application does in    *)
(* its callbacks, it hears of an attempt's failure, or of its connection   *)
(* and then, at most once, of the end.  (The assertion of HandleClose is   *)
(* what keeps a second Close from telling the end again.)                  *)
THEOREM ToldOnceCorrect == ASSUME Asserts PROVE Spec => []ToldOnce
<1>1. BasicInv => ToldOnce
  <2> SUFFICES ASSUME BasicInv, NEW k \in Attempts, NEW i \in DOMAIN told[k]
               PROVE  /\ told[k][i] = "failed" => Len(told[k]) = 1
                      /\ told[k][i] = "connection" <=> i = 1 /\ told[k] # <<"failed">>
                      /\ told[k][i] = "close" =>
                           \A j \in DOMAIN told[k] : told[k][j] = "close" => j = i
    BY DEF ToldOnce
  <2>1. EndedOnce(told[k]) /\ (told[k] = <<>> \/ told[k] = <<"failed">> \/ Begun(told[k]))
    BY DEF BasicInv, ToldWell, EndsOnce
  <2>2. told[k] # <<>>
    OBVIOUS
  <2>3. CASE told[k] = <<"failed">>
    BY <2>3
  <2>4. CASE Begun(told[k])
    BY <2>1, <2>4 DEF Begun, EndedOnce
  <2> QED
    BY <2>1, <2>2, <2>3, <2>4
<1> QED
  BY <1>1, BasicInvariance, PTL
-----------------------------------------------------------------------------
(* An application with the discipline of Polite.                           *)

(* The client's state, and where its connection is. *)
Phases ==
  /\ connHandler # None => state = "CONNECTING"
  /\ state = "CONNECTING" => conn = None
  /\ \A k \in Attempts : conn = k => connState[k] \in {"CONNECTED", "DIS_CONNECTING"}
  /\ \A c \in OnStack : c.callback = "close" => conn # c.of
  /\ proc # "assert"

(* Who lives, and what they wait for, when c and a are the current         *)
(* connection and attempt: a connection that was closed waits for nothing. *)
Current(obj, c, a) ==
  \A k \in Attempts :
    /\ obj[At(k)].live <=> a = k
    /\ a = k => obj[At(k)].events = {"OUT"}
    /\ c = k => obj[Cn(k)].live /\ "IN" \in obj[Cn(k)].events
    /\ obj[Cn(k)].live /\ c # k => obj[Cn(k)].events = {}

(* The living Handlers have descriptors of their own, and the descriptors  *)
(* that are in use, but for those of spare, have living Handlers.          *)
OwnedBut(obj, soc, spare) ==
  /\ \A h \in Handlers : obj[h].live =>
       /\ obj[h].fd \in Fds
       /\ soc[obj[h].fd].at # "free"
       /\ h[1] = "connection" => soc[obj[h].fd].at = "up"
  /\ \A h, g \in Handlers : obj[h].live /\ obj[g].live /\ obj[h].fd = obj[g].fd => h = g
  /\ \A fd \in Fds \ spare : soc[fd].at \in {"connecting", "up"} =>
       \E h \in Handlers : obj[h].live /\ obj[h].fd = fd

Owned(obj, soc) == OwnedBut(obj, soc, {})

(* The map and the kernel's registrations are those of the living Handlers *)
(* that wait for something.                                                *)
Registered(obj, p) ==
  /\ ~p.failed
  /\ \A fd \in Fds :
       /\ p.table[fd] = p.interest[fd].handler
       /\ p.table[fd] = None => p.interest[fd] = Unregistered
       /\ p.table[fd] # None =>
            /\ obj[p.table[fd]].live
            /\ obj[p.table[fd]].fd = fd
            /\ obj[p.table[fd]].events = p.interest[fd].events
            /\ obj[p.table[fd]].events # {}
  /\ \A h \in Handlers : obj[h].live /\ obj[h].events # {} => p.table[obj[h].fd] = h

Structure ==
  Current(object, conn, connHandler) /\ Owned(object, sock) /\ Registered(object, poll)

(* Handler h is that of the attempt or the connection of now. *)
OfNow(h) == \A k \in Attempts : (h = At(k) => connHandler = k) /\ (h = Cn(k) => conn = k)

RefusedIf(h, trig) ==
  "ERR" \in trig => \A k \in Attempts : h = At(k) => sock[object[h].fd].at = "refused"

(* The events that are still to be handled are of the Handlers of now, and *)
(* of no Handler whose event is being handled or whose connection is in a  *)
(* callback.                                                               *)
BatchNow ==
  /\ \A e \in batch : OfNow(e.handler) /\ RefusedIf(e.handler, e.trig)
  /\ \A e, f \in batch : e.handler = f.handler => e = f
  /\ event # NoEvent => \A e \in batch : e.handler # event.handler
  /\ \A c \in OnStack : c.callback \in {"connection", "message"} =>
       \A e \in batch : e.handler # Cn(c.of)

(* The event being handled is, as far as the write phase for an attempt,   *)
(* of a Handler of now; the error phase finds the Handler of an attempt    *)
(* freed only when that was refused.                                       *)
EventNow ==
  event # NoEvent =>
    /\ event.phase = "read" =>
         OfNow(event.handler) /\ calls = <<>> /\ RefusedIf(event.handler, event.trig)
    /\ \A k \in Attempts : event.handler = At(k) =>
         /\ event.phase = "write" =>
              OfNow(event.handler) /\ calls = <<>> /\ RefusedIf(event.handler, event.trig)
         /\ event.phase = "error" /\ "ERR" \in event.trig /\ ~object[At(k)].live =>
              told[k] = <<"failed">>

(* A connection that is current has not ended, and what has ended is told  *)
(* nothing more.                                                           *)
LastEnd ==
  \A k \in Attempts :
    /\ conn = k => ~Ended(told[k])
    /\ \A i \in DOMAIN told[k] : told[k][i] = "close" => i = Len(told[k])

PoliteInv == Phases /\ Structure /\ BatchNow /\ EventNow /\ LastEnd

(* ... that keeps its pointers, too. *)
KeptInv ==
  /\ \A k \in Attempts : object[Cn(k)].live => k \in kept
  /\ \A c \in OnStack : c.callback # "failed" => c.of \in kept
  /\ event # NoEvent => \A k \in Attempts : event.handler = Cn(k) => object[Cn(k)].live
  /\ FreedUseOnlyWhenRefused

ClientInv == BasicInv /\ (Polite => PoliteInv) /\ (Polite /\ Keeps => KeptInv)

(* Whoever is in the map is alive, and on its descriptor. *)
LEMMA TableOwner ==
  ASSUME NEW obj \in [Handlers -> HandlerType], NEW p, PollOK(p), Registered(obj, p),
         NEW fd \in Fds, p.table[fd] # None
  PROVE  p.table[fd] \in Handlers /\ obj[p.table[fd]].live /\ obj[p.table[fd]].fd = fd
         /\ obj[p.table[fd]].events # {}
<1>1. p.table[fd] \in Handlers \cup {None}
  BY PollerFields DEF PollOK
<1> QED
  BY <1>1 DEF Registered

(* A registered Handler asks for other events. *)
LEMMA AsksKeeps ==
  ASSUME NEW obj \in [Handlers -> HandlerType], NEW soc \in [Fds -> SocketType],
         NEW p, PollOK(p), Owned(obj, soc), Registered(obj, p),
         NEW h \in Handlers, obj[h].live, obj[h].events # {},
         NEW events \in SUBSET EventKinds,
         NEW asked \in [Handlers -> HandlerType],
         asked[h].events = events,
         \A g \in Handlers : /\ asked[g].live <=> obj[g].live
                             /\ asked[g].fd = obj[g].fd
                             /\ g # h => asked[g] = obj[g]
  PROVE  Owned(asked, soc) /\ Registered(asked, Update(p, h, obj[h].fd, events))
<1> DEFINE fd == obj[h].fd
           q  == Update(p, h, fd, events)
<1>2. /\ fd \in Fds /\ p.table[fd] = h /\ h # None
      /\ p.table \in [Fds -> Handlers \cup {None}] /\ p.interest \in [Fds -> InterestType]
  <2>1. fd \in Fds
    BY DEF Owned, OwnedBut
  <2>2. p.table[fd] = h
    BY DEF Registered
  <2>3. p.table \in [Fds -> Handlers \cup {None}] /\ p.interest \in [Fds -> InterestType]
    BY PollerFields DEF PollOK
  <2> QED
    BY <2>1, <2>2, <2>3, Constants
<1>3. p.interest[fd] # Unregistered
  BY <1>2 DEF Registered, Unregistered
<1>5. \A g \in Handlers : obj[g].live /\ obj[g].fd = fd => g = h
  BY DEF Owned, OwnedBut
<1>6. Owned(asked, soc)
  BY DEF Owned, OwnedBut
<1>7. CASE events = {}
  <2>1. q = [table |-> [p.table EXCEPT ![fd] = None],
             interest |-> [p.interest EXCEPT ![fd] = Unregistered],
             failed |-> p.failed]
    <3>1. p \in Poller /\ p.table[fd] # None
      BY <1>2 DEF PollOK
    <3> HIDE DEF fd
    <3> QED
      BY <1>7, <3>1, UpdateCases
  <2>2. /\ ~q.failed /\ q.table[fd] = None /\ q.interest[fd] = Unregistered
        /\ \A f \in Fds \ {fd} : q.table[f] = p.table[f] /\ q.interest[f] = p.interest[f]
    BY <1>2, <2>1 DEF Registered
  <2>3. \A f \in Fds \ {fd} : p.table[f] # None => p.table[f] \in Handlers \ {h}
    BY <1>2, TableOwner
  <2>4. \A g \in Handlers : asked[g].live /\ asked[g].events # {} =>
          g # h /\ obj[g].live /\ obj[g].fd \in Fds \ {fd} /\ p.table[obj[g].fd] = g
    BY <1>5, <1>7 DEF Owned, OwnedBut, Registered
  <2> HIDE DEF q, fd
  <2>5. ASSUME NEW f \in Fds
        PROVE  /\ q.table[f] = q.interest[f].handler
               /\ q.table[f] = None => q.interest[f] = Unregistered
               /\ q.table[f] # None =>
                    /\ asked[q.table[f]].live /\ asked[q.table[f]].fd = f
                    /\ asked[q.table[f]].events = q.interest[f].events
                    /\ asked[q.table[f]].events # {}
    <3>1. CASE f = fd
      BY <2>2, <3>1 DEF Unregistered
    <3>2. CASE f # fd
      <4>1. q.table[f] = p.table[f] /\ q.interest[f] = p.interest[f]
        BY <2>2, <3>2
      <4>2. p.table[f] # None => /\ p.table[f] \in Handlers /\ p.table[f] # h
                                 /\ asked[p.table[f]] = obj[p.table[f]]
        BY <2>3, <3>2
      <4> QED
        BY <4>1, <4>2 DEF Registered
    <3> QED
      BY <3>1, <3>2
  <2>6. Registered(asked, q)
    BY <2>2, <2>4, <2>5 DEF Registered
  <2> QED
    BY <1>6, <2>6 DEF q, fd
<1>8. CASE events # {}
  <2> DEFINE new == [handler |-> h, events |-> events]
  <2>1. q = [table |-> p.table, interest |-> [p.interest EXCEPT ![fd] = new], failed |-> p.failed]
    BY <1>2, <1>3, <1>8, UpdateCases DEF PollOK
  <2>2. /\ ~q.failed /\ q.table = p.table /\ q.interest[fd] = new
        /\ \A f \in Fds \ {fd} : q.interest[f] = p.interest[f]
    BY <1>2, <2>1 DEF Registered
  <2>3. \A f \in Fds \ {fd} : p.table[f] # None => p.table[f] \in Handlers \ {h}
    BY <1>2, TableOwner
  <2>4. \A g \in Handlers : asked[g].live /\ asked[g].events # {} => q.table[asked[g].fd] = g
    BY <1>2, <2>2 DEF Registered
  <2>5. new.handler = h /\ new.events = events
    OBVIOUS
  <2> HIDE DEF q, fd, new
  <2>6. ASSUME NEW f \in Fds
        PROVE  /\ q.table[f] = q.interest[f].handler
               /\ q.table[f] = None => q.interest[f] = Unregistered
               /\ q.table[f] # None =>
                    /\ asked[q.table[f]].live /\ asked[q.table[f]].fd = f
                    /\ asked[q.table[f]].events = q.interest[f].events
                    /\ asked[q.table[f]].events # {}
    <3>1. CASE f = fd
      <4>1. q.table[f] = h /\ q.interest[f] = new
        BY <1>2, <2>2, <3>1 DEF fd
      <4>2. asked[h].live /\ asked[h].fd = f /\ asked[h].events = events
        BY <3>1 DEF fd
      <4> QED
        BY <1>2, <1>8, <2>5, <4>1, <4>2
    <3>2. CASE f # fd
      <4>1. q.table[f] = p.table[f] /\ q.interest[f] = p.interest[f]
        BY <2>2, <3>2
      <4>2. p.table[f] # None => /\ p.table[f] \in Handlers /\ p.table[f] # h
                                 /\ asked[p.table[f]] = obj[p.table[f]]
        BY <2>3, <3>2
      <4> QED
        BY <4>1, <4>2 DEF Registered
    <3> QED
      BY <3>1, <3>2
  <2>7. Registered(asked, q)
    BY <2>2, <2>4, <2>6 DEF Registered
  <2> QED
    BY <1>6, <2>7 DEF q, fd
<1> QED
  BY <1>7, <1>8

(* A new Handler h takes a descriptor that no living Handler has. *)
LEMMA BornKeeps ==
  ASSUME NEW obj \in [Handlers -> HandlerType], NEW soc \in [Fds -> SocketType],
         NEW p, PollOK(p), Registered(obj, p),
         NEW fd \in Fds, OwnedBut(obj, soc, {fd}),
         \A g \in Handlers : obj[g].live => obj[g].fd # fd,
         NEW h \in Handlers, ~obj[h].live,
         NEW events \in SUBSET EventKinds, events # {},
         soc[fd].at \in {"connecting", "up"}, h[1] = "connection" => soc[fd].at = "up",
         NEW objs \in [Handlers -> HandlerType],
         objs[h] = [live |-> TRUE, fd |-> fd, events |-> events],
         \A g \in Handlers \ {h} : objs[g] = obj[g]
  PROVE  Owned(objs, soc) /\ Registered(objs, Update(p, h, fd, events))
<1> DEFINE new == [handler |-> h, events |-> events]
           q   == Update(p, h, fd, events)
<1>1. /\ h # None
      /\ p.table \in [Fds -> Handlers \cup {None}] /\ p.interest \in [Fds -> InterestType]
  BY Constants, PollerFields DEF PollOK
<1>2. p.table[fd] = None /\ p.interest[fd] = Unregistered
  <2>1. ASSUME p.table[fd] # None PROVE FALSE
    <3>1. p.table[fd] \in Handlers /\ obj[p.table[fd]].live /\ obj[p.table[fd]].fd = fd
      BY <2>1, TableOwner
    <3> QED
      BY <3>1
  <2> QED
    BY <2>1 DEF Registered
<1>3. q = [table |-> [p.table EXCEPT ![fd] = h],
           interest |-> [p.interest EXCEPT ![fd] = new], failed |-> p.failed]
  BY <1>2, UpdateCases DEF PollOK
<1>4. /\ ~q.failed /\ q.table[fd] = h /\ q.interest[fd] = new
      /\ \A f \in Fds \ {fd} : q.table[f] = p.table[f] /\ q.interest[f] = p.interest[f]
  BY <1>1, <1>3 DEF Registered
<1>5. new.handler = h /\ new.events = events /\ objs[h].live /\ objs[h].fd = fd
      /\ objs[h].events = events
  OBVIOUS
<1>6. \A f \in Fds : p.table[f] # None => p.table[f] \in Handlers \ {h}
  BY TableOwner
<1> HIDE DEF new, q
<1>7. Owned(objs, soc)
  <2>1. ASSUME NEW g \in Handlers, objs[g].live
        PROVE  /\ objs[g].fd \in Fds /\ soc[objs[g].fd].at # "free"
               /\ g[1] = "connection" => soc[objs[g].fd].at = "up"
    <3>1. CASE g = h
      BY <1>5, <3>1
    <3>2. CASE g # h
      BY <2>1, <3>2 DEF OwnedBut
    <3> QED
      BY <3>1, <3>2
  <2>2. ASSUME NEW g \in Handlers, NEW i \in Handlers, objs[g].live, objs[i].live,
               objs[g].fd = objs[i].fd
        PROVE  g = i
    <3>1. CASE g # h /\ i # h
      BY <2>2, <3>1 DEF OwnedBut
    <3>2. CASE g = h \/ i = h
      BY <1>5, <2>2, <3>2
    <3> QED
      BY <3>1, <3>2
  <2>3. ASSUME NEW f \in Fds, soc[f].at \in {"connecting", "up"}
        PROVE  \E g \in Handlers : objs[g].live /\ objs[g].fd = f
    <3>1. CASE f = fd
      BY <1>5, <3>1
    <3>2. CASE f # fd
      <4>1. PICK g \in Handlers : obj[g].live /\ obj[g].fd = f
        BY <2>3, <3>2 DEF OwnedBut
      <4> QED
        BY <4>1
    <3> QED
      BY <3>1, <3>2
  <2> QED
    BY <2>1, <2>2, <2>3 DEF Owned, OwnedBut
<1>8. Registered(objs, q)
  <2>1. ASSUME NEW f \in Fds
        PROVE  /\ q.table[f] = q.interest[f].handler
               /\ q.table[f] = None => q.interest[f] = Unregistered
               /\ q.table[f] # None =>
                    /\ objs[q.table[f]].live /\ objs[q.table[f]].fd = f
                    /\ objs[q.table[f]].events = q.interest[f].events
                    /\ objs[q.table[f]].events # {}
    <3>1. CASE f = fd
      BY <1>1, <1>4, <1>5, <3>1
    <3>2. CASE f # fd
      BY <1>4, <1>6, <3>2 DEF Registered
    <3> QED
      BY <3>1, <3>2
  <2>2. ASSUME NEW g \in Handlers, objs[g].live, objs[g].events # {} PROVE q.table[objs[g].fd] = g
    <3>1. CASE g = h
      BY <1>4, <1>5, <3>1
    <3>2. CASE g # h
      <4>1. obj[g].live /\ obj[g].events # {} /\ objs[g].fd = obj[g].fd /\ obj[g].fd # fd
            /\ obj[g].fd \in Fds
        BY <2>2, <3>2 DEF OwnedBut
      <4> QED
        BY <1>4, <4>1 DEF Registered
    <3> QED
      BY <3>1, <3>2
  <2> QED
    BY <1>4, <2>1, <2>2 DEF Registered
<1> QED
  BY <1>7, <1>8 DEF q

(* A registered Handler is unregistered and freed. *)
LEMMA FreedKeeps ==
  ASSUME NEW obj \in [Handlers -> HandlerType], NEW soc \in [Fds -> SocketType],
         NEW p, PollOK(p), Owned(obj, soc), Registered(obj, p),
         NEW h \in Handlers, obj[h].live, obj[h].events # {},
         NEW freed \in [Handlers -> HandlerType],
         ~freed[h].live,
         \A g \in Handlers \ {h} : freed[g] = obj[g]
  PROVE  /\ OwnedBut(freed, soc, {obj[h].fd})
         /\ \A g \in Handlers : freed[g].live => freed[g].fd # obj[h].fd
         /\ Registered(freed, Update(p, h, obj[h].fd, {}))
<1> DEFINE fd == obj[h].fd
           q  == Update(p, h, fd, {})
<1>1. /\ fd \in Fds /\ p.table[fd] = h /\ h # None
      /\ p.table \in [Fds -> Handlers \cup {None}] /\ p.interest \in [Fds -> InterestType]
  <2>1. fd \in Fds
    BY DEF Owned, OwnedBut
  <2>2. p.table[fd] = h
    BY DEF Registered
  <2>3. p.table \in [Fds -> Handlers \cup {None}] /\ p.interest \in [Fds -> InterestType]
    BY PollerFields DEF PollOK
  <2> QED
    BY <2>1, <2>2, <2>3, Constants
<1>2. \A g \in Handlers : obj[g].live /\ obj[g].fd = fd => g = h
  BY DEF Owned, OwnedBut
<1>3. \A g \in Handlers : freed[g].live => g # h /\ freed[g] = obj[g] /\ obj[g].fd # fd
  BY <1>2
<1>4. OwnedBut(freed, soc, {fd})
  <2>1. ASSUME NEW f \in Fds \ {fd}, soc[f].at \in {"connecting", "up"}
        PROVE  \E g \in Handlers : freed[g].live /\ freed[g].fd = f
    <3>1. PICK g \in Handlers : obj[g].live /\ obj[g].fd = f
      BY <2>1 DEF Owned, OwnedBut
    <3> QED
      BY <2>1, <3>1
  <2>2. \A g \in Handlers : freed[g].live =>
          /\ freed[g].fd \in Fds /\ soc[freed[g].fd].at # "free"
          /\ g[1] = "connection" => soc[freed[g].fd].at = "up"
    BY <1>3 DEF Owned, OwnedBut
  <2>3. \A g, i \in Handlers : freed[g].live /\ freed[i].live /\ freed[g].fd = freed[i].fd => g = i
    BY <1>3 DEF Owned, OwnedBut
  <2> QED
    BY <2>1, <2>2, <2>3 DEF OwnedBut
<1>5. q = [table |-> [p.table EXCEPT ![fd] = None],
           interest |-> [p.interest EXCEPT ![fd] = Unregistered],
           failed |-> p.failed]
  <2>1. p \in Poller /\ p.table[fd] # None /\ {} \in SUBSET EventKinds
    BY <1>1 DEF PollOK
  <2> HIDE DEF fd
  <2> QED
    BY <2>1, UpdateCases
<1>6. /\ ~q.failed /\ q.table[fd] = None /\ q.interest[fd] = Unregistered
      /\ \A f \in Fds \ {fd} : q.table[f] = p.table[f] /\ q.interest[f] = p.interest[f]
  BY <1>1, <1>5 DEF Registered
<1>7. \A f \in Fds \ {fd} : p.table[f] # None => p.table[f] \in Handlers \ {h}
  BY <1>1, TableOwner
<1>8. \A g \in Handlers : freed[g].live /\ freed[g].events # {} =>
        freed[g].fd \in Fds \ {fd} /\ p.table[freed[g].fd] = g
  BY <1>3 DEF Owned, OwnedBut, Registered
<1> HIDE DEF q, fd
<1>9. ASSUME NEW f \in Fds
      PROVE  /\ q.table[f] = q.interest[f].handler
             /\ q.table[f] = None => q.interest[f] = Unregistered
             /\ q.table[f] # None =>
                  /\ freed[q.table[f]].live /\ freed[q.table[f]].fd = f
                  /\ freed[q.table[f]].events = q.interest[f].events
                  /\ freed[q.table[f]].events # {}
  <2>1. CASE f = fd
    BY <1>6, <2>1 DEF Unregistered
  <2>2. CASE f # fd
    <3>1. q.table[f] = p.table[f] /\ q.interest[f] = p.interest[f]
      BY <1>6, <2>2
    <3>2. p.table[f] # None => freed[p.table[f]] = obj[p.table[f]]
      BY <1>7, <2>2
    <3> QED
      BY <3>1, <3>2 DEF Registered
  <2> QED
    BY <2>1, <2>2
<1>10. Registered(freed, q)
  BY <1>6, <1>8, <1>9 DEF Registered
<1> QED
  BY <1>3, <1>4, <1>10 DEF q, fd

(* When the last pointers to closed connections go, their Handlers are not *)
(* in the map, and their descriptors become free.                          *)
LEMMA SettleKeeps ==
  ASSUME NEW objs \in [Handlers -> HandlerType], NEW socks \in [Fds -> SocketType],
         NEW p, PollOK(p), Settle(objs, socks, p),
         conn' \in Attempts \cup {None}, connHandler' \in Attempts \cup {None},
         Current(objs, conn', connHandler'), Owned(objs, socks), Registered(objs, p)
  PROVE  /\ Structure'
         /\ \A k \in Attempts : object'[At(k)] = objs[At(k)]
         /\ \A k \in Attempts : objs[At(k)].live => sock'[objs[At(k)].fd] = socks[objs[At(k)].fd]
         /\ \A k \in Attempts : object'[Cn(k)].live <=> objs[Cn(k)].live /\ Referenced(k)'
<1> DEFINE dead == Dying(objs)
           gone == {Cn(k) : k \in dead}
<1>1. /\ \A k \in Attempts : object'[At(k)] = objs[At(k)]
      /\ \A k \in Attempts \ dead : object'[Cn(k)] = objs[Cn(k)]
      /\ \A k \in dead : object'[Cn(k)] = [live |-> FALSE, fd |-> objs[Cn(k)].fd,
                                           events |-> objs[Cn(k)].events]
      /\ \A fd \in Fds :
           IF \E k \in dead : objs[Cn(k)].fd = fd
           THEN sock'[fd] = NoSocket /\ poll'.interest[fd] = Unregistered
           ELSE sock'[fd] = socks[fd] /\ poll'.interest[fd] = p.interest[fd]
      /\ poll'.table = p.table /\ poll'.failed = p.failed
      /\ object' \in [Handlers -> HandlerType]
  BY SettleEffect
<1>2. /\ dead \subseteq Attempts
      /\ \A k \in Attempts : k \in dead <=> objs[Cn(k)].live /\ ~Referenced(k)'
      /\ \A k \in dead : conn' # k
  BY DEF Dying, Referenced
<1> HIDE DEF dead
<1>0. \A k \in dead : ~object'[Cn(k)].live
  <2> SUFFICES ASSUME NEW k \in dead PROVE ~object'[Cn(k)].live
    OBVIOUS
  <2>1. object'[Cn(k)] = [live |-> FALSE, fd |-> objs[Cn(k)].fd, events |-> objs[Cn(k)].events]
    BY <1>1
  <2> QED
    BY <2>1
<1>3. /\ \A h \in Handlers : \E k \in Attempts : h = At(k) \/ h = Cn(k)
      /\ \A k \in Attempts : At(k) \in Handlers /\ Cn(k) \in Handlers /\ At(k) \notin gone
                             /\ (Cn(k) \in gone <=> k \in dead)
      /\ gone \subseteq Handlers
  BY <1>2, Kinds
<1>4. \A h \in gone : ~object'[h].live /\ objs[h].live /\ objs[h].events = {}
  <2>1. \A k \in dead : ~object'[Cn(k)].live /\ objs[Cn(k)].live /\ objs[Cn(k)].events = {}
    BY <1>0, <1>2 DEF Current
  <2> QED
    BY <2>1
<1>5. \A h \in Handlers \ gone : object'[h] = objs[h]
  BY <1>1, <1>3
<1>6. \A fd \in Fds : (\E k \in dead : objs[Cn(k)].fd = fd) <=> (\E h \in gone : objs[h].fd = fd)
  OBVIOUS
<1> HIDE DEF gone
(* What is destroyed is not registered. *)
<1>7. \A h \in gone : objs[h].fd \in Fds /\ p.table[objs[h].fd] = None
  <2> SUFFICES ASSUME NEW h \in gone PROVE objs[h].fd \in Fds /\ p.table[objs[h].fd] = None
    OBVIOUS
  <2>1. h \in Handlers /\ objs[h].live /\ objs[h].events = {}
    BY <1>3, <1>4
  <2>2. objs[h].fd \in Fds
    BY <2>1 DEF Owned, OwnedBut
  <2> DEFINE g == p.table[objs[h].fd]
  <2>3. ASSUME g # None PROVE FALSE
    <3>1. g \in Handlers /\ objs[g].live /\ objs[g].fd = objs[h].fd /\ objs[g].events # {}
      BY <2>2, <2>3, TableOwner
    <3> HIDE DEF g
    <3>2. g = h
      BY <2>1, <3>1 DEF Owned, OwnedBut
    <3> QED
      BY <2>1, <3>1, <3>2
  <2> QED
    BY <2>2, <2>3
<1>8. \A fd \in Fds : poll'.interest[fd] = p.interest[fd]
  BY <1>1, <1>6, <1>7 DEF Registered
<1>9. \A h \in Handlers : object'[h].live => /\ h \notin gone /\ object'[h] = objs[h] /\ objs[h].live
                                            /\ sock'[objs[h].fd] = socks[objs[h].fd]
  <2> SUFFICES ASSUME NEW h \in Handlers, object'[h].live
               PROVE  /\ h \notin gone /\ object'[h] = objs[h] /\ objs[h].live
                      /\ sock'[objs[h].fd] = socks[objs[h].fd]
    OBVIOUS
  <2>1. h \notin gone /\ object'[h] = objs[h]
    BY <1>4, <1>5
  <2>2. objs[h].live
    BY <2>1
  <2>3. \A g \in gone : objs[g].fd # objs[h].fd
    BY <1>3, <1>4, <2>1, <2>2 DEF Owned, OwnedBut
  <2>4. objs[h].fd \in Fds
    BY <2>2 DEF Owned, OwnedBut
  <2> QED
    BY <1>1, <1>6, <2>1, <2>2, <2>3, <2>4
<1>10. Owned(object', sock')
  <2>1. \A h \in Handlers : object'[h].live =>
          /\ object'[h].fd \in Fds /\ sock'[object'[h].fd].at # "free"
          /\ h[1] = "connection" => sock'[object'[h].fd].at = "up"
    BY <1>9 DEF Owned, OwnedBut
  <2>2. \A h, g \in Handlers : object'[h].live /\ object'[g].live /\ object'[h].fd = object'[g].fd
                               => h = g
    BY <1>9 DEF Owned, OwnedBut
  <2>3. ASSUME NEW fd \in Fds, sock'[fd].at \in {"connecting", "up"}
        PROVE  \E h \in Handlers : object'[h].live /\ object'[h].fd = fd
    <3>1. sock'[fd] # NoSocket
      BY <2>3 DEF NoSocket
    <3>2. sock'[fd] = socks[fd] /\ \A h \in gone : objs[h].fd # fd
      BY <1>1, <1>6, <3>1
    <3>3. PICK h \in Handlers : objs[h].live /\ objs[h].fd = fd
      BY <2>3, <3>2 DEF Owned, OwnedBut
    <3> QED
      BY <1>5, <3>2, <3>3
  <2> QED
    BY <2>1, <2>2, <2>3 DEF Owned, OwnedBut
<1>11. Registered(object', poll')
  <2>1. \A fd \in Fds : p.table[fd] # None =>
          p.table[fd] \in Handlers \ gone /\ object'[p.table[fd]] = objs[p.table[fd]]
    <3> SUFFICES ASSUME NEW fd \in Fds, p.table[fd] # None
                 PROVE  p.table[fd] \in Handlers \ gone /\ object'[p.table[fd]] = objs[p.table[fd]]
      OBVIOUS
    <3>1. p.table[fd] \in Handlers /\ objs[p.table[fd]].events # {}
      BY TableOwner
    <3> QED
      BY <1>4, <1>5, <3>1
  <2>2. ASSUME NEW fd \in Fds
        PROVE  /\ poll'.table[fd] = poll'.interest[fd].handler
               /\ poll'.table[fd] = None => poll'.interest[fd] = Unregistered
               /\ poll'.table[fd] # None =>
                    /\ object'[poll'.table[fd]].live /\ object'[poll'.table[fd]].fd = fd
                    /\ object'[poll'.table[fd]].events = poll'.interest[fd].events
                    /\ object'[poll'.table[fd]].events # {}
    BY <1>1, <1>8, <2>1 DEF Registered
  <2>3. \A h \in Handlers : object'[h].live /\ object'[h].events # {} => poll'.table[object'[h].fd] = h
    BY <1>1, <1>9 DEF Registered
  <2> QED
    BY <1>1, <2>2, <2>3 DEF Registered
<1>12. Current(object', conn', connHandler')
  <2> SUFFICES ASSUME NEW k \in Attempts
               PROVE  /\ object'[At(k)].live <=> connHandler' = k
                      /\ connHandler' = k => object'[At(k)].events = {"OUT"}
                      /\ conn' = k => object'[Cn(k)].live /\ "IN" \in object'[Cn(k)].events
                      /\ object'[Cn(k)].live /\ conn' # k => object'[Cn(k)].events = {}
    BY DEF Current
  <2>1. /\ object'[At(k)].live <=> connHandler' = k
        /\ connHandler' = k => object'[At(k)].events = {"OUT"}
    BY <1>1 DEF Current
  <2>2. conn' = k => object'[Cn(k)].live /\ "IN" \in object'[Cn(k)].events
    <3>1. conn' = k => k \notin dead
      BY <1>2
    <3> QED
      BY <1>1, <3>1 DEF Current
  <2>3. object'[Cn(k)].live /\ conn' # k => object'[Cn(k)].events = {}
    BY <1>3, <1>9 DEF Current
  <2> QED
    BY <2>1, <2>2, <2>3
<1>13. \A k \in Attempts : objs[At(k)].live => sock'[objs[At(k)].fd] = socks[objs[At(k)].fd]
  BY <1>1, <1>3, <1>9
<1>14. \A k \in Attempts : object'[Cn(k)].live <=> objs[Cn(k)].live /\ Referenced(k)'
  <2> SUFFICES ASSUME NEW k \in Attempts
               PROVE  object'[Cn(k)].live <=> objs[Cn(k)].live /\ Referenced(k)'
    OBVIOUS
  <2>1. CASE k \in dead
    BY <1>0, <1>2, <2>1
  <2>2. CASE k \notin dead
    BY <1>1, <1>2, <2>2
  <2> QED
    BY <2>1, <2>2
<1> QED
  BY <1>1, <1>10, <1>11, <1>12, <1>13, <1>14 DEF Structure

(* A new connection takes a descriptor that is up, while no attempt is     *)
(* under way and the connections that are left wait for nothing.           *)
LEMMA EstablishKeeps ==
  ASSUME NEW k \in Attempts, NEW fd \in Fds, NEW obj \in [Handlers -> HandlerType],
         NEW socks \in [Fds -> SocketType], NEW p, PollOK(p),
         Establish(k, fd, obj, socks, p), connHandler' = None,
         OwnedBut(obj, socks, {fd}), Registered(obj, p),
         \A h \in Handlers : obj[h].live => obj[h].fd # fd,
         socks[fd].at = "up",
         \A j \in Attempts : ~obj[At(j)].live,
         \A j \in Attempts : obj[Cn(j)].live => obj[Cn(j)].events = {},
         ~obj[Cn(k)].live
  PROVE  /\ Structure'
         /\ \A j \in Attempts : /\ obj[Cn(j)].live /\ Referenced(j)' => object'[Cn(j)].live
                                /\ object'[Cn(j)].live => obj[Cn(j)].live \/ conn' = j
<1> DEFINE new  == [live |-> TRUE, fd |-> fd, events |-> ReadEvents]
           objs == [obj EXCEPT ![Cn(k)] = new]
           q    == Update(p, Cn(k), fd, ReadEvents)
<1>1. /\ ReadEvents \in SUBSET EventKinds /\ Cn(k) \in Handlers /\ None \notin Attempts
      /\ \A j \in Attempts : At(j) \in Handlers /\ Cn(j) \in Handlers /\ At(j) # Cn(k)
                             /\ (Cn(j) = Cn(k) => j = k)
  BY Constants, Kinds DEF EventKinds, ReadEvents
<1>2. new \in HandlerType
  BY <1>1 DEF HandlerType
<1>3. objs \in [Handlers -> HandlerType] /\ objs[Cn(k)] = new
      /\ \A g \in Handlers \ {Cn(k)} : objs[g] = obj[g]
  BY <1>1, <1>2
<1>4. PollOK(q)
  BY <1>1, UpdateOK
<1>5. Settle(objs, socks, q) /\ conn' = k
  BY DEF Establish
<1>6. objs[Cn(k)].live /\ objs[Cn(k)].events = ReadEvents
  BY <1>3
<1> HIDE DEF objs
<1>7. Owned(objs, socks) /\ Registered(objs, q)
  BY <1>1, <1>3, BornKeeps DEF ReadEvents
<1> HIDE DEF q
<1>8. Current(objs, conn', connHandler')
  <2>1. \A j \in Attempts : objs[At(j)] = obj[At(j)] /\ (j # k => objs[Cn(j)] = obj[Cn(j)])
    BY <1>1, <1>3
  <2>2. ASSUME NEW j \in Attempts
        PROVE  /\ ~objs[At(j)].live /\ connHandler' # j
               /\ conn' = j => objs[Cn(j)].live /\ "IN" \in objs[Cn(j)].events
               /\ objs[Cn(j)].live /\ conn' # j => objs[Cn(j)].events = {}
    BY <1>1, <1>5, <1>6, <2>1 DEF ReadEvents
  <2> QED
    BY <2>2 DEF Current
<1>9. /\ Structure'
      /\ \A j \in Attempts : object'[Cn(j)].live <=> objs[Cn(j)].live /\ Referenced(j)'
  BY <1>3, <1>4, <1>5, <1>7, <1>8, SettleKeeps
<1>10. \A j \in Attempts \ {k} : objs[Cn(j)] = obj[Cn(j)]
  BY <1>1, <1>3
<1> QED
  BY <1>5, <1>9, <1>10

(* The attempt of now is what it was; refused, it stays so. *)
StaysRefused ==
  \A k \in Attempts : connHandler = k /\ connHandler' = k =>
    /\ object'[At(k)] = object[At(k)]
    /\ sock[object[At(k)].fd].at = "refused" => sock'[object[At(k)].fd].at = "refused"

(* No connection goes that something holds, and none comes but the new one.*)
LivesOn ==
  \A k \in Attempts :
    /\ object[Cn(k)].live /\ Referenced(k)' => object'[Cn(k)].live
    /\ object'[Cn(k)].live => object[Cn(k)].live \/ conn' = k

(* Closing the current connection. *)
LEMMA CloseKeeps ==
  ASSUME TypeOK, Named, Structure, NEW k \in Attempts, conn = k, CloseBegins(k)
  PROVE  Structure' /\ StaysRefused /\ LivesOn
<1>1. /\ object \in [Handlers -> HandlerType] /\ sock \in [Fds -> SocketType] /\ PollOK(poll)
      /\ connHandler \in Attempts \cup {None} /\ None \notin Attempts
  BY Types, Constants DEF Named
<1>2. /\ Cn(k) \in Handlers /\ {} \in SUBSET EventKinds
      /\ \A j \in Attempts : At(j) \in Handlers /\ Cn(j) \in Handlers /\ At(j) # Cn(k)
                             /\ (Cn(j) = Cn(k) => j = k)
  BY Kinds
<1>3. /\ conn' = None /\ UNCHANGED connHandler
      /\ Settle(Asks(object, Cn(k), {}), sock, Update(poll, Cn(k), object[Cn(k)].fd, {}))
  BY DEF CloseBegins, Asserted, DisablesAll
<1> DEFINE objs == Asks(object, Cn(k), {})
           q    == Update(poll, Cn(k), object[Cn(k)].fd, {})
<1>4. /\ objs \in [Handlers -> HandlerType]
      /\ objs[Cn(k)].events = {}
      /\ \A g \in Handlers : /\ objs[g].live <=> object[g].live
                             /\ objs[g].fd = object[g].fd
                             /\ g # Cn(k) => objs[g] = object[g]
  BY <1>1, <1>2, AsksFields
<1>5. PollOK(q)
  BY <1>1, <1>2, UpdateOK
<1> HIDE DEF objs
<1>6. object[Cn(k)].live /\ object[Cn(k)].events # {}
  BY DEF Structure, Current
<1>7. Owned(objs, sock) /\ Registered(objs, q)
  BY <1>1, <1>2, <1>4, <1>6, AsksKeeps DEF Structure
<1>8. \A j \in Attempts : objs[At(j)] = object[At(j)] /\ (j # k => objs[Cn(j)] = object[Cn(j)])
  BY <1>2, <1>4
<1>9. Current(objs, conn', connHandler')
  <2>1. ASSUME NEW j \in Attempts
        PROVE  /\ objs[At(j)].live <=> connHandler' = j
               /\ connHandler' = j => objs[At(j)].events = {"OUT"}
               /\ conn' # j
               /\ objs[Cn(j)].live => objs[Cn(j)].events = {}
    <3>1. objs[At(j)] = object[At(j)] /\ connHandler' = connHandler /\ conn' # j
      BY <1>1, <1>3, <1>8
    <3>2. CASE j = k
      BY <1>4, <3>1, <3>2 DEF Structure, Current
    <3>3. CASE j # k
      BY <1>8, <3>1, <3>3 DEF Structure, Current
    <3> QED
      BY <3>2, <3>3
  <2> QED
    BY <2>1 DEF Current
<1> HIDE DEF q
<1>10. Settle(objs, sock, q)
  BY <1>3 DEF objs, q
<1>11. conn' \in Attempts \cup {None} /\ connHandler' \in Attempts \cup {None}
  BY <1>1, <1>3
<1>12. /\ Structure'
       /\ \A j \in Attempts : object'[At(j)] = objs[At(j)]
       /\ \A j \in Attempts : objs[At(j)].live => sock'[objs[At(j)].fd] = sock[objs[At(j)].fd]
       /\ \A j \in Attempts : object'[Cn(j)].live <=> objs[Cn(j)].live /\ Referenced(j)'
  BY <1>1, <1>4, <1>5, <1>7, <1>9, <1>10, <1>11, SettleKeeps
<1>13. StaysRefused
  BY <1>3, <1>8, <1>12 DEF StaysRefused, Structure, Current
<1>14. LivesOn
  BY <1>2, <1>4, <1>12 DEF LivesOn
<1> QED
  BY <1>12, <1>13, <1>14

LEMMA StructureStep ==
  ASSUME Polite, BasicInv, Phases, Structure, EventNow, [Next]_vars, TypeOK', Named'
  PROVE  Structure' /\ StaysRefused /\ LivesOn
<1>1. /\ object \in [Handlers -> HandlerType] /\ sock \in [Fds -> SocketType] /\ PollOK(poll)
      /\ connHandler \in Attempts \cup {None} /\ conn \in Attempts \cup {None}
      /\ None \notin Attempts /\ next \in Nat /\ next >= 1
      /\ calls \in Seq(CallType)
  BY Types, Constants DEF Named, BasicInv
<1>2. /\ connHandler' \in Attempts \cup {None} /\ conn' \in Attempts \cup {None}
      /\ object' \in [Handlers -> HandlerType] /\ sock' \in [Fds -> SocketType]
  BY DEF TypeOK, HandlerType, SocketType
<1>3. /\ \A j \in Attempts : At(j) \in Handlers /\ Cn(j) \in Handlers
      /\ \A j, k \in Attempts : At(j) # Cn(k) /\ (At(j) = At(k) => j = k) /\ (Cn(j) = Cn(k) => j = k)
      /\ \A h \in Handlers : \E k \in Attempts : h = At(k) \/ h = Cn(k)
      /\ \A j \in Attempts : At(j)[1] = "attempt" /\ Cn(j)[1] = "connection"
  BY Kinds
<1>4. Current(object, conn, connHandler) /\ Owned(object, sock) /\ Registered(object, poll)
  BY DEF Structure
(* A step that leaves the Handlers and the map alone, and the sockets as   *)
(* far as Handlers depend on them.                                         *)
<1>5. ASSUME UNCHANGED <<conn, connHandler, object, poll>>,
             \A fd \in Fds : sock'[fd].at = sock[fd].at
                             \/ (sock[fd].at = "connecting" /\ sock'[fd].at \in {"up", "refused"})
      PROVE  Structure' /\ StaysRefused /\ LivesOn
  <2>1. \A fd \in Fds : /\ sock[fd].at # "free" => sock'[fd].at # "free"
                        /\ sock[fd].at \in {"up", "refused"} => sock'[fd].at = sock[fd].at
                        /\ sock'[fd].at \in {"connecting", "up"} =>
                             sock[fd].at \in {"connecting", "up"}
    BY <1>5
  <2>2. Owned(object, sock')
    <3>1. \A h \in Handlers : object[h].live =>
            /\ object[h].fd \in Fds /\ sock'[object[h].fd].at # "free"
            /\ h[1] = "connection" => sock'[object[h].fd].at = "up"
      BY <1>4, <2>1 DEF Owned, OwnedBut
    <3>2. \A fd \in Fds : sock'[fd].at \in {"connecting", "up"} =>
            \E h \in Handlers : object[h].live /\ object[h].fd = fd
      BY <1>4, <2>1 DEF Owned, OwnedBut
    <3> QED
      BY <1>4, <3>1, <3>2 DEF Owned, OwnedBut
  <2>3. StaysRefused
    <3> SUFFICES ASSUME NEW k \in Attempts, connHandler = k, sock[object[At(k)].fd].at = "refused"
                 PROVE  sock'[object[At(k)].fd].at = "refused"
      BY <1>5 DEF StaysRefused
    <3>1. object[At(k)].live
      BY <1>4 DEF Current
    <3>2. object[At(k)].fd \in Fds
      BY <1>3, <1>4, <3>1 DEF Owned, OwnedBut
    <3> QED
      BY <2>1, <3>2
  <2>4. LivesOn
    BY <1>5 DEF LivesOn
  <2> QED
    BY <1>4, <1>5, <2>2, <2>3, <2>4 DEF Structure
<1>6. ASSUME UNCHANGED <<conn, connHandler, object, poll, sock>>
      PROVE  Structure' /\ StaysRefused /\ LivesOn
  BY <1>5, <1>6
(* The new attempt, its descriptor and its Handlers. *)
<1>7. ASSUME NEW fd \in Fds, CreatesSocket(fd), NEW a \in {"connecting", "up"}
      PROVE  /\ conn = None /\ connHandler = None /\ next \in Attempts
             /\ ~object[At(next)].live /\ ~object[Cn(next)].live
             /\ \A h \in Handlers : object[h].live => object[h].fd # fd
             /\ [sock EXCEPT ![fd].at = a] \in [Fds -> SocketType]
             /\ [sock EXCEPT ![fd].at = a][fd].at = a
             /\ OwnedBut(object, [sock EXCEPT ![fd].at = a], {fd})
  <2>1. conn = None /\ state = "DIS_CONNECTED" /\ next \in Attempts /\ sock[fd].at = "free"
    BY <1>1, <1>7, Constants DEF CreatesSocket, Attempts
  <2>2. connHandler = None
    BY <2>1 DEF Phases
  <2>3. ~object[At(next)].live
    BY <1>1, <1>4, <2>1, <2>2 DEF Current
  <2>4. told[next] = <<>>
    BY <1>1, <2>1 DEF BasicInv, Untold
  <2>5. ~object[Cn(next)].live
    BY <2>1, <2>4 DEF BasicInv, ToldWell, Made, Begun
  <2>6. \A h \in Handlers : object[h].live => object[h].fd # fd
    BY <1>4, <2>1 DEF Owned, OwnedBut
  <2> DEFINE socks == [sock EXCEPT ![fd].at = a]
  <2>7. /\ socks \in [Fds -> SocketType] /\ socks[fd].at = a
        /\ \A f \in Fds \ {fd} : socks[f].at = sock[f].at
    <3>1. /\ socks \in [Fds -> SocketType]
          /\ \A f \in Fds : socks[f].at = IF f = fd THEN a ELSE sock[f].at
      <4>1. /\ [sock EXCEPT ![fd].at = "up"] \in [Fds -> SocketType]
            /\ \A f \in Fds : [sock EXCEPT ![fd].at = "up"][f].at =
                               IF f = fd THEN "up" ELSE sock[f].at
        BY <1>1, SockAt
      <4>2. /\ [sock EXCEPT ![fd].at = "connecting"] \in [Fds -> SocketType]
            /\ \A f \in Fds : [sock EXCEPT ![fd].at = "connecting"][f].at =
                               IF f = fd THEN "connecting" ELSE sock[f].at
        BY <1>1, SockAt
      <4>3. CASE a = "up"
        BY <4>1, <4>3
      <4>4. CASE a = "connecting"
        BY <4>2, <4>4
      <4> QED
        BY <4>3, <4>4
    <3> HIDE DEF socks
    <3> QED
      BY <3>1
  <2> HIDE DEF socks
  <2>8. OwnedBut(object, socks, {fd})
    <3>1. \A h \in Handlers : object[h].live =>
            /\ object[h].fd \in Fds \ {fd} /\ socks[object[h].fd].at = sock[object[h].fd].at
      BY <1>4, <2>6, <2>7 DEF Owned, OwnedBut
    <3>2. \A h \in Handlers : object[h].live =>
            /\ object[h].fd \in Fds /\ socks[object[h].fd].at # "free"
            /\ h[1] = "connection" => socks[object[h].fd].at = "up"
      BY <1>4, <3>1 DEF Owned, OwnedBut
    <3>3. \A f \in Fds \ {fd} : socks[f].at \in {"connecting", "up"} =>
            \E h \in Handlers : object[h].live /\ object[h].fd = f
      BY <1>4, <2>7 DEF Owned, OwnedBut
    <3> QED
      BY <1>4, <3>2, <3>3 DEF Owned, OwnedBut
  <2> QED
    BY <2>1, <2>2, <2>3, <2>5, <2>6, <2>7, <2>8 DEF socks
<1>8. ASSUME NEW fd \in Fds, ConnectAtOnce(fd) PROVE Structure' /\ StaysRefused /\ LivesOn
  <2> DEFINE socks == [sock EXCEPT ![fd].at = "up"]
  <2>1. CreatesSocket(fd) /\ Establish(next, fd, object, socks, poll) /\ connHandler' = connHandler
    BY <1>8 DEF ConnectAtOnce
  <2>2. /\ conn = None /\ connHandler = None /\ next \in Attempts /\ ~object[Cn(next)].live
        /\ \A h \in Handlers : object[h].live => object[h].fd # fd
        /\ socks \in [Fds -> SocketType] /\ socks[fd].at = "up"
        /\ OwnedBut(object, socks, {fd})
    BY <1>7, <2>1
  <2> HIDE DEF socks
  <2>3. /\ \A j \in Attempts : ~object[At(j)].live
        /\ \A j \in Attempts : object[Cn(j)].live => object[Cn(j)].events = {}
    BY <1>1, <1>4, <2>2 DEF Current
  <2>4. /\ Structure'
        /\ \A j \in Attempts : /\ object[Cn(j)].live /\ Referenced(j)' => object'[Cn(j)].live
                               /\ object'[Cn(j)].live => object[Cn(j)].live \/ conn' = j
    BY <1>1, <1>4, <2>1, <2>2, <2>3, EstablishKeeps
  <2> QED
    BY <1>1, <2>2, <2>4 DEF StaysRefused, LivesOn
<1>9. ASSUME NEW fd \in Fds, ConnectInProgress(fd) PROVE Structure' /\ StaysRefused /\ LivesOn
  <2> DEFINE socks == [sock EXCEPT ![fd].at = "connecting"]
             new   == [live |-> TRUE, fd |-> fd, events |-> {"OUT"}]
  <2>1. /\ CreatesSocket(fd) /\ connHandler' = next /\ UNCHANGED conn /\ sock' = socks
        /\ poll' = Update(poll, At(next), fd, {"OUT"})
    BY <1>9 DEF ConnectInProgress, ConnectEvents
  <2>2. /\ conn = None /\ connHandler = None /\ next \in Attempts /\ ~object[At(next)].live
        /\ \A h \in Handlers : object[h].live => object[h].fd # fd
        /\ socks \in [Fds -> SocketType] /\ socks[fd].at = "connecting"
        /\ OwnedBut(object, socks, {fd})
    BY <1>7, <2>1
  <2>3. object'[At(next)] = new /\ \A g \in Handlers \ {At(next)} : object'[g] = object[g]
    BY <1>3, <1>9, <2>2 DEF ConnectInProgress, ConnectEvents
  <2>4. {"OUT"} \in SUBSET EventKinds /\ {"OUT"} # {}
    BY DEF EventKinds, ReadEvents
  <2>5. At(next) \in Handlers /\ At(next)[1] # "connection"
    BY <1>3, <2>2
  <2> HIDE DEF socks
  <2>6. Owned(object', socks) /\ Registered(object', Update(poll, At(next), fd, {"OUT"}))
    BY <1>1, <1>2, <1>4, <2>2, <2>3, <2>4, <2>5, BornKeeps
  <2>7. /\ object'[At(next)].live /\ object'[At(next)].events = {"OUT"}
        /\ \A j \in Attempts : /\ object'[Cn(j)] = object[Cn(j)]
                               /\ j # next => object'[At(j)] = object[At(j)]
    BY <1>3, <2>2, <2>3
  <2>8. Current(object', conn', connHandler')
    <3>1. ASSUME NEW j \in Attempts
          PROVE  /\ object'[At(j)].live <=> connHandler' = j
                 /\ connHandler' = j => object'[At(j)].events = {"OUT"}
                 /\ conn' # j
                 /\ object'[Cn(j)].live => object'[Cn(j)].events = {}
      BY <1>1, <1>4, <2>1, <2>2, <2>7 DEF Current
    <3> QED
      BY <3>1 DEF Current
  <2>9. Structure'
    BY <2>1, <2>6, <2>8 DEF Structure
  <2> QED
    BY <1>1, <2>2, <2>7, <2>9 DEF StaysRefused, LivesOn
<1>10. CASE Disconnect
  <2>1. UNCHANGED <<conn, connHandler, object, poll>>
    BY <1>10 DEF Disconnect
  <2>2. \A fd \in Fds : sock'[fd].at = sock[fd].at
    <3>1. sock' = sock \/ sock' = [sock EXCEPT ![object[Cn(conn)].fd].fin = TRUE]
      BY <1>10 DEF Disconnect
    <3>2. \A fd \in Fds : [sock EXCEPT ![object[Cn(conn)].fd].fin = TRUE][fd].at = sock[fd].at
      BY <1>1, SockBits
    <3> QED
      BY <3>1, <3>2
  <2> QED
    BY <1>5, <2>1, <2>2
(* A registered connection asks for other events, of which IN is one. *)
<1>11. ASSUME NEW k \in Attempts, conn = k, NEW events \in SUBSET EventKinds, "IN" \in events,
              object' = Asks(object, Cn(k), events),
              poll' = Update(poll, Cn(k), object[Cn(k)].fd, events),
              UNCHANGED <<conn, connHandler>>,
              \A fd \in Fds : sock'[fd].at = sock[fd].at
       PROVE  Structure' /\ StaysRefused /\ LivesOn
  <2>1. /\ object' \in [Handlers -> HandlerType]
        /\ object'[Cn(k)].events = events
        /\ \A g \in Handlers : /\ object'[g].live <=> object[g].live
                               /\ object'[g].fd = object[g].fd
                               /\ g # Cn(k) => object'[g] = object[g]
    BY <1>1, <1>3, <1>11, AsksFields
  <2>2. object[Cn(k)].live /\ object[Cn(k)].events # {}
    BY <1>4, <1>11 DEF Current
  <2>3. Owned(object', sock) /\ Registered(object', Update(poll, Cn(k), object[Cn(k)].fd, events))
    <3>1. Cn(k) \in Handlers
      BY <1>3
    <3> QED
      BY <1>1, <1>4, <2>1, <2>2, <3>1, AsksKeeps
  <2>4. Owned(object', sock')
    BY <1>11, <2>3 DEF Owned, OwnedBut
  <2>5. \A j \in Attempts : object'[At(j)] = object[At(j)] /\ (j # k => object'[Cn(j)] = object[Cn(j)])
    BY <1>3, <2>1
  <2>6. Current(object', conn', connHandler')
    <3>1. ASSUME NEW j \in Attempts
          PROVE  /\ object'[At(j)].live <=> connHandler' = j
                 /\ connHandler' = j => object'[At(j)].events = {"OUT"}
                 /\ conn' = j => object'[Cn(j)].live /\ "IN" \in object'[Cn(j)].events
                 /\ object'[Cn(j)].live /\ conn' # j => object'[Cn(j)].events = {}
      <4>1. CASE j = k
        BY <1>4, <1>11, <2>1, <2>2, <2>5, <1>3, <4>1 DEF Current
      <4>2. CASE j # k
        BY <1>4, <1>11, <2>5, <4>2 DEF Current
      <4> QED
        BY <4>1, <4>2
    <3> QED
      BY <3>1 DEF Current
  <2>7. Structure'
    BY <1>11, <2>3, <2>4, <2>6 DEF Structure
  <2>8. StaysRefused
    <3> SUFFICES ASSUME NEW j \in Attempts, connHandler = j
                 PROVE  /\ object'[At(j)] = object[At(j)]
                        /\ sock'[object[At(j)].fd].at = sock[object[At(j)].fd].at
      BY DEF StaysRefused
    <3>1. object[At(j)].fd \in Fds
      BY <1>3, <1>4 DEF Current, Owned, OwnedBut
    <3> QED
      BY <1>11, <2>5, <3>1
  <2>9. LivesOn
    BY <1>3, <2>1 DEF LivesOn
  <2> QED
    BY <2>7, <2>8, <2>9
<1>12. ASSUME NEW k \in Attempts, SendLeavesBytes(k) PROVE Structure' /\ StaysRefused /\ LivesOn
  <2> DEFINE events == object[Cn(k)].events \cup {"OUT"}
  <2>1. /\ conn = k /\ object' = Asks(object, Cn(k), events)
        /\ poll' = Update(poll, Cn(k), object[Cn(k)].fd, events)
        /\ UNCHANGED <<conn, connHandler, sock>>
    BY <1>1, <1>12 DEF SendLeavesBytes, client
  <2>2. events \in SUBSET EventKinds /\ "IN" \in events
    <3>1. object[Cn(k)].events \in SUBSET EventKinds /\ "IN" \in object[Cn(k)].events
      BY <1>1, <1>3, <1>4, <2>1 DEF HandlerType, Current
    <3> QED
      BY <3>1 DEF EventKinds, ReadEvents
  <2> HIDE DEF events
  <2> QED
    BY <1>11, <2>1, <2>2
<1>13. ASSUME NEW k \in Attempts, HandleWriteBytes(k) PROVE Structure' /\ StaysRefused /\ LivesOn
  <2> DEFINE events == object[Cn(k)].events \ {"OUT"}
  <2>1. CASE UNCHANGED <<object, poll, sock>>
    BY <1>6, <1>13, <2>1 DEF HandleWriteBytes, client
  <2>2. CASE /\ "OUT" \in object[Cn(k)].events
             /\ object' = Asks(object, Cn(k), events)
             /\ poll' = Update(poll, Cn(k), object[Cn(k)].fd, events)
             /\ sock' = sock \/ sock' = [sock EXCEPT ![object[Cn(k)].fd].fin = TRUE]
    <3>1. object[Cn(k)].live /\ UNCHANGED <<conn, connHandler>>
      BY <1>13 DEF HandleWriteBytes, Handling, Alive, Cn, client
    <3>2. conn = k
      BY <1>4, <2>2, <3>1 DEF Current
    <3>3. events \in SUBSET EventKinds /\ "IN" \in events
      BY <1>1, <1>3, <1>4, <3>2 DEF HandlerType, Current
    <3>4. \A fd \in Fds : sock'[fd].at = sock[fd].at
      <4>1. \A fd \in Fds : [sock EXCEPT ![object[Cn(k)].fd].fin = TRUE][fd].at = sock[fd].at
        BY <1>1, SockBits
      <4> QED
        BY <2>2, <4>1
    <3> HIDE DEF events
    <3> QED
      BY <1>11, <2>2, <3>1, <3>2, <3>3, <3>4
  <2> QED
    BY <1>13, <2>1, <2>2 DEF HandleWriteBytes
<1>14. ASSUME NEW k \in Attempts, conn = k, CloseBegins(k) PROVE Structure' /\ StaysRefused /\ LivesOn
  BY <1>14, CloseKeeps DEF BasicInv
<1>15. ASSUME NEW k \in Attempts, Closes(k) PROVE Structure' /\ StaysRefused /\ LivesOn
  BY <1>14, <1>15 DEF Closes
<1>16. ASSUME NEW k \in Attempts, HandleReadEof(k) PROVE Structure' /\ StaysRefused /\ LivesOn
  <2>1. event # NoEvent /\ event.phase = "read" /\ event.handler = Cn(k) /\ CloseBegins(k)
    BY <1>16 DEF HandleReadEof, Handling, Cn
  <2>2. conn = k
    BY <2>1 DEF EventNow, OfNow
  <2> QED
    BY <1>14, <2>1, <2>2
(* Pointers go, and nothing else happens. *)
<1>17. ASSUME UNCHANGED <<conn, connHandler>>, Settle(object, sock, poll)
       PROVE  Structure' /\ StaysRefused /\ LivesOn
  <2>1. /\ Structure'
        /\ \A k \in Attempts : object'[At(k)] = object[At(k)]
        /\ \A k \in Attempts : object[At(k)].live => sock'[object[At(k)].fd] = sock[object[At(k)].fd]
        /\ \A k \in Attempts : object'[Cn(k)].live <=> object[Cn(k)].live /\ Referenced(k)'
    BY <1>1, <1>2, <1>4, <1>17, SettleKeeps
  <2> QED
    BY <1>4, <2>1 DEF StaysRefused, LivesOn, Current
<1>18. ASSUME NEW k \in Attempts, Releases(k) PROVE Structure' /\ StaysRefused /\ LivesOn
  BY <1>17, <1>18 DEF Releases, client
<1>19. CASE CallbackReturns
  BY <1>17, <1>19 DEF CallbackReturns
<1>20. ASSUME \/ Wait \/ PhasePasses \/ PhaseOfFreedHandler \/ UNCHANGED vars
              \/ \E e \in batch : HandleEvent(e)
              \/ \E k \in Attempts : AttemptIgnored(k)
       PROVE  Structure' /\ StaysRefused /\ LivesOn
  <2>1. UNCHANGED <<conn, connHandler, object, poll, sock>>
    BY <1>20 DEF Wait, PhasePasses, PhaseOfFreedHandler, HandleEvent, AttemptIgnored,
       vars, client, objects
  <2> QED
    BY <1>6, <2>1
<1>21. ASSUME NEW k \in Attempts, HandleReadBytes(k) \/ HandleReadAgain(k)
       PROVE  Structure' /\ StaysRefused /\ LivesOn
  <2>1. UNCHANGED <<conn, connHandler, object, poll>>
    BY <1>21 DEF HandleReadBytes, HandleReadAgain, client
  <2>2. \A fd \in Fds : sock'[fd].at = sock[fd].at
    BY <1>1, <1>21, ReadSocket
  <2> QED
    BY <1>5, <2>1, <2>2
<1>22. CASE Network
  <2>1. UNCHANGED <<conn, connHandler, object, poll>>
    BY <1>22 DEF Network, client
  <2>2. PICK fd \in Fds : \/ Accepts(fd) \/ Refuses(fd)
                        \/ PeerSends(fd) \/ PeerUrges(fd) \/ PeerFinishes(fd)
    BY <1>22 DEF Network
  <2>3. CASE Accepts(fd) \/ Refuses(fd)
    <3>1. PICK a \in {"up", "refused"} : Answers(fd, a)
      BY <2>3 DEF Accepts, Refuses
    <3>2. \A f \in Fds : sock'[f].at = IF f = fd THEN a ELSE sock[f].at
      BY <1>1, <3>1, SockAt DEF Answers
    <3>3. sock[fd].at = "connecting"
      BY <3>1 DEF Answers
    <3> QED
      BY <1>5, <2>1, <3>2, <3>3
  <2>4. CASE PeerUrges(fd)
    <3>1. PICK u \in {"next", "behind"} : sock' = [sock EXCEPT ![fd].urgent = u]
      BY <2>4 DEF PeerUrges
    <3>2. \A f \in Fds : sock'[f].at = sock[f].at
      BY <1>1, <3>1, SockUrgent
    <3> QED
      BY <1>5, <2>1, <3>2
  <2>5. CASE PeerSends(fd) \/ PeerFinishes(fd)
    <3>1. sock' = [sock EXCEPT ![fd].data = TRUE] \/ sock' = [sock EXCEPT ![fd].peerFin = TRUE]
      BY <2>5 DEF PeerSends, PeerFinishes
    <3>2. \A f \in Fds : /\ [sock EXCEPT ![fd].data = TRUE][f].at = sock[f].at
                         /\ [sock EXCEPT ![fd].peerFin = TRUE][f].at = sock[f].at
      BY <1>1, SockBits
    <3>3. \A f \in Fds : sock'[f].at = sock[f].at
      BY <3>1, <3>2, Zenon
    <3> QED
      BY <1>5, <2>1, <3>3
  <2> QED
    BY <2>2, <2>3, <2>4, <2>5
(* The Handler of the attempt is freed. *)
<1>23. ASSUME NEW k \in Attempts, connHandler = k
       PROVE  /\ object[At(k)].live /\ object[At(k)].fd \in Fds
              /\ conn = None
              /\ Freed(k) \in [Handlers -> HandlerType]
              /\ PollOK(Update(poll, At(k), object[At(k)].fd, {}))
              /\ OwnedBut(Freed(k), sock, {object[At(k)].fd})
              /\ \A h \in Handlers : Freed(k)[h].live => Freed(k)[h].fd # object[At(k)].fd
              /\ Registered(Freed(k), Update(poll, At(k), object[At(k)].fd, {}))
              /\ \A j \in Attempts : ~Freed(k)[At(j)].live /\ Freed(k)[Cn(j)] = object[Cn(j)]
  <2>1. object[At(k)].live /\ object[At(k)].events # {} /\ object[At(k)].fd \in Fds
    BY <1>3, <1>4, <1>23 DEF Current, Owned, OwnedBut
  <2>2. conn = None
    BY <1>1, <1>23 DEF Phases
  <2> DEFINE new == [live |-> FALSE, fd |-> object[At(k)].fd, events |-> {}]
             freed == Freed(k)
  <2>3. new \in HandlerType /\ ~new.live
    BY <2>1 DEF HandlerType
  <2>4. freed = [object EXCEPT ![At(k)] = new]
    BY DEF Freed
  <2> HIDE DEF new, freed
  <2>5. /\ freed \in [Handlers -> HandlerType] /\ ~freed[At(k)].live
        /\ \A g \in Handlers \ {At(k)} : freed[g] = object[g]
    BY <1>1, <1>3, <2>3, <2>4
  <2>6. /\ OwnedBut(freed, sock, {object[At(k)].fd})
        /\ \A g \in Handlers : freed[g].live => freed[g].fd # object[At(k)].fd
        /\ Registered(freed, Update(poll, At(k), object[At(k)].fd, {}))
    BY <1>1, <1>3, <1>4, <2>1, <2>5, FreedKeeps
  <2>7. PollOK(Update(poll, At(k), object[At(k)].fd, {}))
    BY <1>1, <1>3, UpdateOK
  <2>8. \A j \in Attempts : ~freed[At(j)].live /\ freed[Cn(j)] = object[Cn(j)]
    <3> SUFFICES ASSUME NEW j \in Attempts PROVE ~freed[At(j)].live /\ freed[Cn(j)] = object[Cn(j)]
      OBVIOUS
    <3>1. freed[Cn(j)] = object[Cn(j)]
      BY <1>3, <2>5
    <3>2. CASE j = k
      BY <2>5, <3>1, <3>2
    <3>3. CASE j # k
      BY <1>3, <1>4, <1>23, <2>5, <3>1, <3>3 DEF Current
    <3> QED
      BY <3>2, <3>3
  <2> QED
    BY <2>1, <2>2, <2>5, <2>6, <2>7, <2>8 DEF freed
<1>24. ASSUME NEW k \in Attempts, NEW fd \in Fds, HandleWriteConnected(k, fd)
       PROVE  Structure' /\ StaysRefused /\ LivesOn
  <2>1. /\ Establish(k, fd, Freed(k), sock, Update(poll, At(k), fd, {}))
        /\ connHandler = k /\ fd = object[At(k)].fd /\ connHandler' = None /\ sock[fd].at = "up"
    BY <1>24 DEF HandleWriteConnected, TakesFrom
  <2> DEFINE q == Update(poll, At(k), fd, {})
             freed == Freed(k)
  <2>2. /\ conn = None
        /\ freed \in [Handlers -> HandlerType] /\ PollOK(q)
        /\ OwnedBut(freed, sock, {fd})
        /\ \A h \in Handlers : freed[h].live => freed[h].fd # fd
        /\ Registered(freed, q)
        /\ \A j \in Attempts : ~freed[At(j)].live /\ freed[Cn(j)] = object[Cn(j)]
    BY <1>23, <2>1
  <2>3. told[k] = <<>>
    BY <2>1 DEF BasicInv, Untold
  <2>4. ~object[Cn(k)].live
    BY <2>3 DEF BasicInv, ToldWell, Made, Begun
  <2>5. \A j \in Attempts : object[Cn(j)].live => object[Cn(j)].events = {}
    BY <1>1, <1>4, <2>2 DEF Current
  <2>6. Establish(k, fd, freed, sock, q)
    BY <2>1
  <2> HIDE DEF q, freed
  <2>7. /\ Structure'
        /\ \A j \in Attempts : /\ freed[Cn(j)].live /\ Referenced(j)' => object'[Cn(j)].live
                               /\ object'[Cn(j)].live => freed[Cn(j)].live \/ conn' = j
    <3>1. /\ \A j \in Attempts : freed[Cn(j)].live => freed[Cn(j)].events = {}
          /\ \A j \in Attempts : ~freed[At(j)].live
          /\ ~freed[Cn(k)].live
      BY <2>2, <2>4, <2>5
    <3> QED
      BY <1>1, <2>1, <2>2, <2>6, <3>1, EstablishKeeps
  <2> QED
    BY <1>1, <2>1, <2>2, <2>7 DEF StaysRefused, LivesOn
<1>25. ASSUME NEW k \in Attempts, NEW fd \in Fds, HandleWriteFailed(k, fd)
       PROVE  Structure' /\ StaysRefused /\ LivesOn
  <2>1. /\ object' = Freed(k) /\ poll' = Update(poll, At(k), fd, {})
        /\ connHandler = k /\ fd = object[At(k)].fd /\ connHandler' = None
        /\ UNCHANGED <<conn, sock>> /\ sock[fd].at = "refused"
    BY <1>25 DEF HandleWriteFailed, TakesFrom
  <2>2. /\ conn = None
        /\ OwnedBut(object', sock, {fd})
        /\ Registered(object', poll')
        /\ \A j \in Attempts : ~object'[At(j)].live /\ object'[Cn(j)] = object[Cn(j)]
    BY <1>23, <2>1
  <2>3. Owned(object', sock')
    BY <2>1, <2>2 DEF Owned, OwnedBut
  <2>4. Current(object', conn', connHandler')
    BY <1>1, <1>4, <2>1, <2>2 DEF Current
  <2> QED
    BY <1>1, <2>1, <2>2, <2>3, <2>4 DEF Structure, StaysRefused, LivesOn
<1>26. CASE Application
  <2>1. ~DisconnectsNothing
    BY DEF DisconnectsNothing
  <2> QED
    BY <1>8, <1>9, <1>10, <1>12, <1>15, <1>18, <1>26, <2>1 DEF Application
<1>27. CASE Loop
  BY <1>13, <1>16, <1>19, <1>20, <1>21, <1>24, <1>25, <1>27 DEF Loop
<1> QED
  BY <1>20, <1>22, <1>26, <1>27 DEF Next

(* An attempt that was told nothing has no connection. *)
LEMMA Unmade ==
  ASSUME BasicInv, NEW k \in Attempts, told[k] = <<>>
  PROVE  /\ conn # k /\ ~object[Cn(k)].live
         /\ \A c \in OnStack : c.of = k => c.callback = "failed"
BY DEF BasicInv, ToldWell, Made, Begun

LEMMA PhasesStep ==
  ASSUME Polite, BasicInv, PoliteInv, [Next]_vars, TypeOK'
  PROVE  Phases'
<1>1. /\ conn \in Attempts \cup {None} /\ connHandler \in Attempts \cup {None}
      /\ connState \in [Attempts -> {"NONE", "CONNECTED", "DIS_CONNECTING", "DIS_CONNECTED"}]
      /\ calls \in Seq(CallType) /\ told \in [Attempts -> Seq(Callbacks)]
      /\ next \in Nat /\ next >= 1 /\ None \notin Attempts
  BY Constants, Types DEF BasicInv, Named
<1>2. Phases /\ Current(object, conn, connHandler) /\ EventNow
  BY DEF PoliteInv, Structure
<1>3. /\ "connection" \in Callbacks /\ "message" \in Callbacks /\ "close" \in Callbacks
      /\ "failed" \in Callbacks
  BY DEF Callbacks
<1>4. ASSUME UNCHANGED <<state, connHandler, conn, connState>>, proc' # "assert",
             \A c \in OnStack' : c.callback = "close" => c \in OnStack
      PROVE  Phases'
  BY <1>2, <1>4 DEF Phases
<1>5. ASSUME NEW k \in Attempts, conn = k, CloseBegins(k) PROVE Phases'
  <2>1. conn' = None /\ UNCHANGED <<state, connHandler, proc>>
    BY <1>5 DEF CloseBegins, Asserted
  <2>2. connHandler = None /\ state # "CONNECTING"
    BY <1>1, <1>2, <1>5 DEF Phases
  <2>3. \A c \in OnStack' : c.of \in Attempts
    <3>1. calls' \in Seq(CallType)
      BY DEF TypeOK, CallType
    <3>2. \A i \in DOMAIN calls' : calls'[i] \in CallType
      BY <3>1, LenProperties, ElementOfSeq
    <3> QED
      BY <3>2 DEF OnStack, CallType
  <2> QED
    BY <1>1, <1>2, <2>1, <2>2, <2>3 DEF Phases
(* A connection is made. *)
<1>6. ASSUME NEW k \in Attempts, NEW fd \in Fds, NEW objs, NEW socks, NEW p,
             Establish(k, fd, objs, socks, p), told[k] = <<>>, connHandler' = None, UNCHANGED proc
      PROVE  Phases'
  <2>1. /\ state' = "CONNECTED" /\ conn' = k /\ connState'[k] = "CONNECTED"
        /\ Calls("connection", k)
    BY <1>1, <1>6 DEF Establish
  <2>2. OnStack' = OnStack \cup {[callback |-> "connection", of |-> k]}
    BY <1>1, <1>3, <2>1, CallsEffect
  <2>3. \A c \in OnStack : c.of = k => c.callback = "failed"
    BY <1>6, Unmade
  <2>4. ASSUME NEW c \in OnStack', c.callback = "close" PROVE c.of # k
    <3>1. [callback |-> "connection", of |-> k].callback # "close"
      OBVIOUS
    <3>2. c \in OnStack
      BY <2>2, <2>4, <3>1
    <3> QED
      BY <2>3, <2>4, <3>2
  <2> QED
    BY <1>2, <1>6, <2>1, <2>4 DEF Phases
<1>7. ASSUME NEW fd \in Fds, ConnectAtOnce(fd) PROVE Phases'
  <2>1. /\ next \in Attempts /\ state = "DIS_CONNECTED"
        /\ Establish(next, fd, object, [sock EXCEPT ![fd].at = "up"], poll)
        /\ UNCHANGED <<connHandler, proc>>
    BY <1>1, <1>7, Constants DEF ConnectAtOnce, CreatesSocket, Attempts
  <2>2. connHandler' = None
    BY <1>2, <2>1 DEF Phases
  <2>3. told[next] = <<>>
    BY <1>1, <2>1 DEF BasicInv, Untold
  <2> QED
    BY <1>6, <2>1, <2>2, <2>3
<1>8. ASSUME NEW fd \in Fds, ConnectInProgress(fd) PROVE Phases'
  <2>1. state' = "CONNECTING" /\ conn = None /\ UNCHANGED <<conn, connState, calls, proc>>
    BY <1>8 DEF ConnectInProgress, CreatesSocket, loop
  <2>2. OnStack' = OnStack
    BY <2>1, StackSame
  <2>3. \A k \in Attempts : conn' # k
    BY <1>1, <2>1
  <2> QED
    BY <1>2, <2>1, <2>2, <2>3 DEF Phases
<1>9. CASE Disconnect
  <2>1. /\ conn \in Attempts /\ state' = "DIS_CONNECTED"
        /\ UNCHANGED <<connHandler, conn, calls, proc>>
        /\ connState' = [connState EXCEPT ![conn] = IF @ = "CONNECTED" THEN "DIS_CONNECTING" ELSE @]
    BY <1>1, <1>9 DEF Disconnect, loop
  <2>2. connHandler = None
    BY <1>1, <1>2, <2>1 DEF Phases
  <2>3. connState'[conn] \in {"CONNECTED", "DIS_CONNECTING"}
    BY <1>1, <1>2, <2>1 DEF Phases
  <2>4. OnStack' = OnStack
    BY <2>1, StackSame
  <2> QED
    BY <1>2, <2>1, <2>2, <2>3, <2>4 DEF Phases
<1>10. ASSUME \/ Wait \/ PhasePasses \/ PhaseOfFreedHandler \/ Network
              \/ UNCHANGED vars
              \/ \E e \in batch : HandleEvent(e)
              \/ \E k \in Attempts :
                   \/ SendLeavesBytes(k) \/ Releases(k)
                   \/ HandleReadAgain(k) \/ HandleWriteBytes(k) \/ AttemptIgnored(k)
       PROVE  Phases'
  <2>1. UNCHANGED <<state, connHandler, conn, connState, calls>> /\ proc' \in {proc, "up", "crash"}
    BY <1>10 DEF SendLeavesBytes, Wait, PhasePasses, PhaseOfFreedHandler, Network, HandleEvent,
       Releases, HandleReadAgain, HandleWriteBytes, AttemptIgnored, vars, client, objects, loop
  <2>2. OnStack' = OnStack
    BY <2>1, StackSame
  <2> QED
    BY <1>2, <1>4, <2>1, <2>2 DEF Phases
<1>11. ASSUME NEW k \in Attempts, Closes(k) PROVE Phases'
  BY <1>5, <1>11 DEF Closes
<1>12. ASSUME NEW k \in Attempts, HandleReadEof(k) PROVE Phases'
  <2>1. event # NoEvent /\ event.phase = "read" /\ event.handler = Cn(k) /\ CloseBegins(k)
    BY <1>12 DEF HandleReadEof, Handling, Cn
  <2>2. conn = k
    BY <1>2, <2>1 DEF EventNow, OfNow
  <2> QED
    BY <1>5, <2>1, <2>2
<1>13. ASSUME NEW k \in Attempts, HandleReadBytes(k) PROVE Phases'
  <2>1. UNCHANGED <<state, connHandler, conn, connState, proc>> /\ Calls("message", k)
    BY <1>13 DEF HandleReadBytes, client
  <2>2. OnStack' = OnStack \cup {[callback |-> "message", of |-> k]}
    BY <1>1, <1>3, <2>1, CallsEffect
  <2>3. [callback |-> "message", of |-> k].callback # "close"
    OBVIOUS
  <2>4. \A c \in OnStack' : c.callback = "close" => c \in OnStack
    BY <2>2, <2>3
  <2> QED
    BY <1>2, <1>4, <2>1, <2>4 DEF Phases
<1>14. ASSUME NEW k \in Attempts, NEW fd \in Fds, HandleWriteConnected(k, fd) PROVE Phases'
  <2>1. /\ Establish(k, fd, Freed(k), sock, Update(poll, At(k), fd, {}))
        /\ connHandler = k /\ connHandler' = None /\ UNCHANGED proc
    BY <1>14 DEF HandleWriteConnected, TakesFrom
  <2>2. told[k] = <<>>
    BY <2>1 DEF BasicInv, Untold
  <2> QED
    BY <1>6, <2>1, <2>2
<1>15. ASSUME NEW k \in Attempts, NEW fd \in Fds, HandleWriteFailed(k, fd) PROVE Phases'
  <2>1. /\ connHandler = k /\ connHandler' = None /\ UNCHANGED <<conn, state, proc>>
        /\ state = "CONNECTING"
    BY <1>15 DEF HandleWriteFailed, TakesFrom
  <2>2. conn' = None
    BY <1>2, <2>1 DEF Phases
  <2>3. \A c \in OnStack' : c.of \in Attempts
    <3>1. calls' \in Seq(CallType)
      BY DEF TypeOK, CallType
    <3>2. \A i \in DOMAIN calls' : calls'[i] \in CallType
      BY <3>1, LenProperties, ElementOfSeq
    <3> QED
      BY <3>2 DEF OnStack, CallType
  <2> QED
    BY <1>1, <1>2, <2>1, <2>2, <2>3 DEF Phases
<1>16. CASE CallbackReturns
  <2>1. /\ calls # <<>> /\ calls' = Tail(calls)
        /\ UNCHANGED <<conn, connHandler, state, proc>>
    BY <1>16 DEF CallbackReturns
  <2>2. OnStack' \subseteq OnStack /\ Head(calls) \in OnStack
    BY <1>1, <2>1, ReturnEffect
  <2>3. \A k \in Attempts : connState'[k] = connState[k]
                            \/ (Head(calls).of = k /\ Head(calls).callback = "close")
    BY <1>1, <1>16 DEF CallbackReturns
  <2>4. \A k \in Attempts : conn = k => connState'[k] = connState[k]
    BY <1>2, <2>2, <2>3 DEF Phases
  <2> QED
    BY <1>2, <2>1, <2>2, <2>4 DEF Phases
<1>17. CASE Application
  <2>1. ~DisconnectsNothing
    BY DEF DisconnectsNothing
  <2> QED
    BY <1>7, <1>8, <1>9, <1>10, <1>11, <1>17, <2>1 DEF Application
<1>18. CASE Loop
  BY <1>10, <1>12, <1>13, <1>14, <1>15, <1>16, <1>18 DEF Loop
<1> QED
  BY <1>10, <1>17, <1>18 DEF Next

LEMMA LastEndStep ==
  ASSUME Polite, BasicInv, PoliteInv, [Next]_vars, TypeOK'
  PROVE  LastEnd'
<1>1. /\ conn \in Attempts \cup {None} /\ connHandler \in Attempts \cup {None}
      /\ told \in [Attempts -> Seq(Callbacks)] /\ next \in Nat /\ None \notin Attempts
      /\ "connection" \in Callbacks /\ "message" \in Callbacks /\ "close" \in Callbacks
      /\ "failed" \in Callbacks
  BY Constants, Types DEF BasicInv, Callbacks
<1>2. LastEnd /\ EventNow
  BY DEF PoliteInv
<1>3. Quiet \/ \E k \in Attempts : Begins(k) \/ Hears(k) \/ Ends(k) \/ Fails(k)
  BY NextNarrates DEF BasicInv
<1>4. ASSUME NEW k \in Attempts, Reads(k) PROVE conn = k
  BY <1>2, <1>4 DEF Reads, EventNow, OfNow
(* What is told of k, which has not ended, goes on. *)
<1>5. ASSUME NEW k \in Attempts, NEW c \in Callbacks, ~Ended(told[k])
      PROVE  \A i \in DOMAIN Append(told[k], c) :
               Append(told[k], c)[i] = "close" => i = Len(Append(told[k], c))
  <2>1. /\ DOMAIN told[k] = 1 .. Len(told[k]) /\ Len(told[k]) \in Nat
        /\ DOMAIN Append(told[k], c) = 1 .. Len(told[k]) + 1
        /\ \A i \in 1 .. Len(told[k]) : Append(told[k], c)[i] = told[k][i]
    BY <1>1, AppendTold
  <2>2. Len(Append(told[k], c)) = Len(told[k]) + 1
    BY <1>1, AppendProperties
  <2>3. \A i \in 1 .. Len(told[k]) : told[k][i] # "close"
    BY <1>5, <2>1 DEF Ended
  <2>4. \A i \in 1 .. Len(told[k]) + 1 : i \in 1 .. Len(told[k]) \/ i = Len(told[k]) + 1
    BY <2>1
  <2> QED
    BY <2>1, <2>2, <2>3, <2>4
<1>6. ASSUME NEW k \in Attempts, NEW c \in Callbacks, Tells(k, c), ~Ended(told[k]),
             conn' \in {None, conn, k}, conn' = k => c # "close"
      PROVE  LastEnd'
  <2>1. told'[k] = Append(told[k], c) \/ (c # "close" /\ told'[k] = told[k])
    BY <1>6 DEF Tells
  <2>2. \A i \in DOMAIN told'[k] : told'[k][i] = "close" => i = Len(told'[k])
    BY <1>2, <1>5, <1>6, <2>1 DEF LastEnd
  <2>3. conn' = k => ~Ended(told'[k])
    BY <1>1, <1>6, <2>1, ToldMore
  <2>4. ASSUME NEW j \in Attempts, j # k
        PROVE  /\ conn' = j => ~Ended(told'[j])
               /\ \A i \in DOMAIN told'[j] : told'[j][i] = "close" => i = Len(told'[j])
    <3>1. told'[j] = told[j]
      BY <1>6, <2>4 DEF Tells
    <3> QED
      BY <1>1, <1>2, <1>6, <2>4, <3>1 DEF LastEnd
  <2> QED
    BY <2>2, <2>3, <2>4 DEF LastEnd
<1>7. ~Ended(<<>>)
  BY DEF Ended
<1>8. CASE Quiet
  BY <1>1, <1>2, <1>8 DEF Quiet, LastEnd
<1>9. ASSUME NEW k \in Attempts, Begins(k) PROVE LastEnd'
  <2>1. told[k] = <<>>
    BY <1>1, <1>9 DEF Begins, BasicInv, Untold
  <2> QED
    BY <1>1, <1>6, <1>7, <1>9, <2>1 DEF Begins
<1>10. ASSUME NEW k \in Attempts, Hears(k) PROVE LastEnd'
  <2>1. conn = k
    BY <1>4, <1>10 DEF Hears
  <2> QED
    BY <1>1, <1>2, <1>6, <1>10, <2>1 DEF Hears, LastEnd
<1>11. ASSUME NEW k \in Attempts, Ends(k) PROVE LastEnd'
  <2>1. conn = k
    BY <1>4, <1>11 DEF Ends
  <2> QED
    BY <1>1, <1>2, <1>6, <1>11, <2>1 DEF Ends, LastEnd
<1>12. ASSUME NEW k \in Attempts, Fails(k) PROVE LastEnd'
  <2>1. told[k] = <<>>
    BY <1>1, <1>12 DEF Fails, BasicInv, Untold
  <2> QED
    BY <1>1, <1>6, <1>7, <1>12, <2>1 DEF Fails
<1> QED
  BY <1>3, <1>8, <1>9, <1>10, <1>11, <1>12

(* Who was told of a failure is told nothing more. *)
LEMMA FailedStays ==
  ASSUME BasicInv, [Next]_vars, TypeOK', NEW k \in Attempts, told[k] = <<"failed">>
  PROVE  told'[k] = told[k]
<1>1. Quiet \/ \E j \in Attempts : Begins(j) \/ Hears(j) \/ Ends(j) \/ Fails(j)
  BY NextNarrates DEF BasicInv
<1>2. ~Made(k)
  <2>1. <<"failed">>[1] # "connection"
    OBVIOUS
  <2>2. ~Begun(<<"failed">>)
    BY <2>1 DEF Begun
  <2> QED
    BY <2>2 DEF BasicInv, ToldWell
<1>3. told[k] # <<>>
  OBVIOUS
<1>4. connHandler # k /\ k # next
  <2>1. next \in Nat
    BY Types DEF BasicInv
  <2> QED
    BY <1>3, <2>1, Constants DEF BasicInv, Untold
<1>5. CASE Quiet
  BY <1>5 DEF Quiet
<1>6. ASSUME NEW j \in Attempts, Begins(j) \/ Hears(j) \/ Ends(j) \/ Fails(j)
      PROVE  told'[k] = told[k]
  <2>1. j # k
    BY <1>2, <1>4, <1>6 DEF Begins, Hears, Ends, Fails
  <2>2. \E c \in Callbacks : Tells(j, c)
    BY <1>6 DEF Begins, Hears, Ends, Fails, Callbacks
  <2> QED
    BY <2>1, <2>2 DEF Tells
<1> QED
  BY <1>1, <1>5, <1>6

(* An event that is of now before a step and after it. *)
LEMMA RefusedStays ==
  ASSUME StaysRefused, NEW h, NEW trig, OfNow(h), OfNow(h)', RefusedIf(h, trig)
  PROVE  RefusedIf(h, trig)'
<1> SUFFICES ASSUME "ERR" \in trig, NEW k \in Attempts, h = At(k)
             PROVE  sock'[object'[h].fd].at = "refused"
  BY DEF RefusedIf
<1>1. connHandler = k /\ connHandler' = k
  BY DEF OfNow
<1>2. sock[object[At(k)].fd].at = "refused"
  BY DEF RefusedIf
<1> QED
  BY <1>1, <1>2 DEF StaysRefused

(* What is left of a batch stays of now. *)
LEMMA BatchShrinks ==
  ASSUME BatchNow, StaysRefused, batch' \subseteq batch,
         \A e \in batch' : OfNow(e.handler)',
         event' # NoEvent => \A e \in batch' : e.handler # event'.handler,
         \A c \in OnStack' : c.callback \in {"connection", "message"} =>
           c \in OnStack \/ \A e \in batch' : e.handler # Cn(c.of)
  PROVE  BatchNow'
<1>1. \A e \in batch' : OfNow(e.handler)' /\ RefusedIf(e.handler, e.trig)'
  BY RefusedStays DEF BatchNow
<1> QED
  BY <1>1 DEF BatchNow

(* The event goes from one phase to the next. *)
LEMMA EventStays ==
  ASSUME event \in EventType, event # NoEvent, EventGoesOn, BatchNow, batch' \subseteq batch
  PROVE  event' # NoEvent => \A e \in batch' : e.handler # event'.handler
<1>1. event.phase \in {"read", "write", "error"}
  BY DEF EventType
<1>2. event' # NoEvent => event'.handler = event.handler
  BY <1>1, EventEffect
<1> QED
  BY <1>2 DEF BatchNow

LEMMA PendingStep ==
  ASSUME Polite, BasicInv, PoliteInv, [Next]_vars, TypeOK', Structure', StaysRefused
  PROVE  BatchNow' /\ EventNow'
<1>1. /\ conn \in Attempts \cup {None} /\ connHandler \in Attempts \cup {None}
      /\ object \in [Handlers -> HandlerType] /\ sock \in [Fds -> SocketType] /\ PollOK(poll)
      /\ batch \in SUBSET BatchType /\ event \in EventType
      /\ calls \in Seq(CallType) /\ told \in [Attempts -> Seq(Callbacks)]
      /\ next \in Nat /\ None \notin Attempts
  BY Constants, Types DEF BasicInv, Named
<1>2. /\ \A j \in Attempts : At(j) \in Handlers /\ Cn(j) \in Handlers
      /\ \A j, k \in Attempts : At(j) # Cn(k) /\ (At(j) = At(k) => j = k) /\ (Cn(j) = Cn(k) => j = k)
      /\ \A h \in Handlers : \E k \in Attempts : h = At(k) \/ h = Cn(k)
  BY Kinds
<1>3. /\ Phases /\ Structure /\ BatchNow /\ EventNow
      /\ Current(object, conn, connHandler) /\ Current(object', conn', connHandler')
  BY DEF PoliteInv, Structure
<1>4. ASSUME conn' = conn, connHandler' = connHandler, NEW h PROVE OfNow(h)' <=> OfNow(h)
  BY <1>4 DEF OfNow
<1>5. /\ "connection" \in Callbacks /\ "message" \in Callbacks /\ "close" \in Callbacks
      /\ "failed" \in Callbacks
  BY DEF Callbacks
(* Neither attempt nor connection: the batch is empty. *)
<1>6. ASSUME conn = None, connHandler = None PROVE batch = {}
  <2> SUFFICES ASSUME NEW e \in batch PROVE FALSE
    OBVIOUS
  <2>1. e.handler \in Handlers
    BY <1>1 DEF BatchType
  <2>2. PICK k \in Attempts : e.handler = At(k) \/ e.handler = Cn(k)
    BY <1>2, <2>1
  <2> QED
    BY <1>1, <1>3, <1>6, <2>2 DEF BatchNow, OfNow
<1>7. ASSUME batch' = {} PROVE BatchNow'
  BY <1>7 DEF BatchNow
(* The application's steps, and returns, leave the event as it is. *)
<1>8. ASSUME event' = event, event = NoEvent \/ calls # <<>>,
             connHandler' = connHandler \/ connHandler = None
      PROVE  EventNow'
  <2> SUFFICES ASSUME event # NoEvent PROVE EventNow'
    BY <1>8 DEF EventNow
  <2>1. event.phase # "read" /\ \A k \in Attempts : event.handler = At(k) => event.phase # "write"
    BY <1>3, <1>8 DEF EventNow
  <2>2. ASSUME NEW k \in Attempts, event.handler = At(k), event.phase = "error",
               "ERR" \in event.trig, ~object'[At(k)].live
        PROVE  told'[k] = <<"failed">>
    <3>1. connHandler' # k
      BY <1>3, <2>2 DEF Current
    <3>2. connHandler # k
      BY <1>1, <1>8, <3>1
    <3>3. ~object[At(k)].live
      BY <1>3, <3>2 DEF Current
    <3>4. told[k] = <<"failed">>
      BY <1>3, <2>2, <3>3 DEF EventNow
    <3> QED
      BY <3>4, FailedStays
  <2> QED
    BY <1>8, <2>1, <2>2 DEF EventNow
(* A step of nobody's. *)
<1>9. ASSUME UNCHANGED <<conn, connHandler, calls, event, batch, told>>
      PROVE  BatchNow' /\ EventNow'
  <2>1. OnStack' = OnStack
    BY <1>9, StackSame
  <2>2. BatchNow'
    BY <1>3, <1>4, <1>9, <2>1, BatchShrinks DEF BatchNow
  <2>3. EventNow'
    <3> SUFFICES ASSUME event # NoEvent PROVE EventNow'
      BY <1>9 DEF EventNow
    <3>1. event.phase = "read" =>
            OfNow(event.handler)' /\ calls' = <<>> /\ RefusedIf(event.handler, event.trig)'
      BY <1>3, <1>4, <1>9, RefusedStays DEF EventNow
    <3>2. ASSUME NEW k \in Attempts, event.handler = At(k)
          PROVE  /\ event.phase = "write" =>
                      OfNow(event.handler)' /\ calls' = <<>> /\ RefusedIf(event.handler, event.trig)'
                 /\ event.phase = "error" /\ "ERR" \in event.trig /\ ~object'[At(k)].live =>
                      told'[k] = <<"failed">>
      <4>1. event.phase = "write" =>
              OfNow(event.handler)' /\ calls' = <<>> /\ RefusedIf(event.handler, event.trig)'
        BY <1>3, <1>4, <1>9, <3>2, RefusedStays DEF EventNow
      <4>2. object'[At(k)].live <=> object[At(k)].live
        BY <1>3, <1>9 DEF Current
      <4> QED
        BY <1>3, <1>9, <3>2, <4>1, <4>2 DEF EventNow
    <3> QED
      BY <1>9, <3>1, <3>2 DEF EventNow
  <2> QED
    BY <2>2, <2>3
(* The same, with an event of nobody or callbacks under way. *)
<1>10. ASSUME UNCHANGED <<conn, connHandler, event, batch>>, event = NoEvent \/ calls # <<>>,
              OnStack' \subseteq OnStack
       PROVE  BatchNow' /\ EventNow'
  <2>1. BatchNow'
    BY <1>3, <1>4, <1>10, BatchShrinks DEF BatchNow
  <2> QED
    BY <1>8, <1>10, <2>1
(* A new attempt. *)
<1>11. ASSUME NEW fd \in Fds, ConnectAtOnce(fd) \/ ConnectInProgress(fd) PROVE BatchNow' /\ EventNow'
  <2>1. /\ conn = None /\ state = "DIS_CONNECTED" /\ UNCHANGED <<batch, event>>
        /\ event = NoEvent \/ calls # <<>>
    BY <1>11 DEF ConnectAtOnce, ConnectInProgress, CreatesSocket, InApplication, loop
  <2>2. connHandler = None
    BY <1>3, <2>1 DEF Phases
  <2> QED
    BY <1>6, <1>7, <1>8, <2>1, <2>2
<1>12. ASSUME Disconnect \/ \E k \in Attempts : SendLeavesBytes(k) PROVE BatchNow' /\ EventNow'
  <2>1. /\ UNCHANGED <<conn, connHandler, event, batch, calls>>
        /\ event = NoEvent \/ calls # <<>>
    BY <1>12 DEF Disconnect, SendLeavesBytes, InApplication, loop, client
  <2> QED
    BY <1>10, <2>1, StackSame
<1>13. ASSUME NEW k \in Attempts, Closes(k) PROVE BatchNow' /\ EventNow'
  <2>1. /\ UNCHANGED <<batch, event>> /\ calls # <<>>
        /\ conn = k /\ CloseBegins(k)
        /\ Head(calls).of = k /\ Head(calls).callback \in {"connection", "message"}
    BY <1>13 DEF Closes, InCallbackOf
  <2>2. conn' = None /\ UNCHANGED connHandler /\ Calls("close", k)
    BY <2>1 DEF CloseBegins, Asserted
  <2>3. OnStack' = OnStack \cup {[callback |-> "close", of |-> k]}
    BY <1>1, <1>5, <2>2, CallsEffect
  <2>4. Head(calls) \in OnStack
    <3>1. 1 \in DOMAIN calls /\ Head(calls) = calls[1]
      BY <1>1, <2>1, EmptySeq, HeadTailProperties, LenProperties
    <3> QED
      BY <3>1 DEF OnStack
  <2>5. \A e \in batch : e.handler # Cn(k)
    BY <1>3, <2>1, <2>4 DEF BatchNow
  <2>6. \A e \in batch : OfNow(e.handler)'
    <3> SUFFICES ASSUME NEW e \in batch, NEW j \in Attempts
                 PROVE  (e.handler = At(j) => connHandler' = j) /\ (e.handler = Cn(j) => conn' = j)
      BY DEF OfNow
    <3>1. OfNow(e.handler)
      BY <1>3 DEF BatchNow
    <3> QED
      BY <2>1, <2>2, <2>5, <3>1 DEF OfNow
  <2>7. [callback |-> "close", of |-> k].callback \notin {"connection", "message"}
    OBVIOUS
  <2>8. /\ event' # NoEvent => \A e \in batch' : e.handler # event'.handler
        /\ \A c \in OnStack' : c.callback \in {"connection", "message"} => c \in OnStack
    BY <1>3, <2>1, <2>3, <2>7 DEF BatchNow
  <2>9. BatchNow'
    BY <1>3, <2>1, <2>6, <2>8, BatchShrinks
  <2> QED
    BY <1>8, <2>1, <2>2, <2>9
<1>14. ASSUME NEW k \in Attempts, Releases(k) PROVE BatchNow' /\ EventNow'
  <2>1. /\ UNCHANGED <<conn, connHandler, event, batch, calls>>
        /\ event = NoEvent \/ calls # <<>>
    BY <1>14 DEF Releases, InApplication, loop, client
  <2> QED
    BY <1>10, <2>1, StackSame
<1>15. CASE CallbackReturns
  <2>1. UNCHANGED <<conn, connHandler, event, batch>> /\ calls # <<>> /\ calls' = Tail(calls)
    BY <1>15 DEF CallbackReturns
  <2>2. OnStack' \subseteq OnStack
    BY <1>1, <2>1, ReturnEffect
  <2> QED
    BY <1>10, <2>1, <2>2
<1>16. CASE Network \/ UNCHANGED vars
  <2>1. UNCHANGED <<conn, connHandler, calls, event, batch, told>>
    BY <1>16 DEF Network, vars, client, loop
  <2> QED
    BY <1>9, <2>1
(* A new batch. *)
<1>17. CASE Wait
  <2>1. /\ event = NoEvent /\ calls = <<>>
        /\ UNCHANGED <<conn, connHandler, object, sock, poll, event, calls>>
    BY <1>17 DEF Wait, client, objects
  <2>2. \A e \in batch' : \E fd \in Fds :
          /\ poll.interest[fd] # Unregistered
          /\ e = [handler |-> poll.interest[fd].handler, trig |-> Trigger(fd)]
    BY <1>17 DEF Wait
  <2>3. ASSUME NEW fd \in Fds, poll.interest[fd] # Unregistered
        PROVE  /\ poll.interest[fd].handler \in Handlers
               /\ object[poll.interest[fd].handler].fd = fd
               /\ OfNow(poll.interest[fd].handler)
               /\ RefusedIf(poll.interest[fd].handler, Trigger(fd))
    <3> DEFINE h == poll.interest[fd].handler
    <3>1. poll.table[fd] = h /\ poll.table[fd] # None
      BY <1>3, <2>3 DEF Structure, Registered
    <3>2. h \in Handlers /\ object[h].live /\ object[h].fd = fd /\ object[h].events # {}
      <4> HIDE DEF h
      <4>1. Registered(object, poll)
        BY <1>3 DEF Structure
      <4>2. /\ poll.table[fd] \in Handlers /\ object[poll.table[fd]].live
            /\ object[poll.table[fd]].fd = fd /\ object[poll.table[fd]].events # {}
        <5>1. object \in [Handlers -> HandlerType] /\ PollOK(poll) /\ poll.table[fd] # None
          BY <1>1, <3>1
        <5> QED
          BY <4>1, <5>1, TableOwner
      <4> QED
        BY <3>1, <4>2, Zenon
    <3> HIDE DEF h
    <3>3. OfNow(h)
      BY <1>3, <3>2 DEF OfNow, Current
    <3>4. "ERR" \in Trigger(fd) => sock[fd].at = "refused"
      <4>1. poll.interest[fd].events \in SUBSET EventKinds
        BY <1>1, PollerFields DEF PollOK, InterestType
      <4>2. "ERR" \notin EventKinds
        BY DEF EventKinds, ReadEvents
      <4> QED
        BY <4>1, <4>2 DEF Trigger
    <3>5. RefusedIf(h, Trigger(fd))
      BY <3>2, <3>4 DEF RefusedIf
    <3> QED
      BY <3>2, <3>3, <3>5 DEF h
  <2>4. \A e \in batch' : OfNow(e.handler) /\ RefusedIf(e.handler, e.trig)
    <3> SUFFICES ASSUME NEW e \in batch' PROVE OfNow(e.handler) /\ RefusedIf(e.handler, e.trig)
      OBVIOUS
    <3>1. PICK fd \in Fds :
            /\ poll.interest[fd] # Unregistered
            /\ e = [handler |-> poll.interest[fd].handler, trig |-> Trigger(fd)]
      BY <2>2
    <3>2. e.handler = poll.interest[fd].handler /\ e.trig = Trigger(fd)
      BY <3>1
    <3> QED
      BY <2>3, <3>1, <3>2
  <2>5. \A e, f \in batch' : e.handler = f.handler => e = f
    <3> SUFFICES ASSUME NEW e \in batch', NEW f \in batch', e.handler = f.handler PROVE e = f
      OBVIOUS
    <3>1. PICK fd \in Fds :
            /\ poll.interest[fd] # Unregistered
            /\ e = [handler |-> poll.interest[fd].handler, trig |-> Trigger(fd)]
      BY <2>2
    <3>2. PICK gd \in Fds :
            /\ poll.interest[gd] # Unregistered
            /\ f = [handler |-> poll.interest[gd].handler, trig |-> Trigger(gd)]
      BY <2>2
    <3>3. poll.interest[fd].handler = poll.interest[gd].handler
      BY <3>1, <3>2
    <3>4. fd = gd
      BY <2>3, <3>1, <3>2, <3>3
    <3> QED
      BY <3>1, <3>2, <3>4
  <2>6. OnStack' = {}
    BY <2>1 DEF OnStack
  <2>7. \A e \in batch' : OfNow(e.handler)' /\ RefusedIf(e.handler, e.trig)'
    BY <1>4, <2>1, <2>4 DEF RefusedIf
  <2> QED
    BY <2>1, <2>5, <2>6, <2>7 DEF BatchNow, EventNow
<1>18. ASSUME NEW e \in batch, HandleEvent(e) PROVE BatchNow' /\ EventNow'
  <2>1. /\ event = NoEvent /\ calls = <<>> /\ batch' = batch \ {e}
        /\ event' = [handler |-> e.handler, trig |-> e.trig, phase |-> "read"]
        /\ UNCHANGED <<conn, connHandler, object, sock, calls>>
    BY <1>18 DEF HandleEvent, client, objects
  <2>2. /\ event'.handler = e.handler /\ event'.trig = e.trig /\ event'.phase = "read"
    BY <2>1
  <2>3. OfNow(e.handler) /\ RefusedIf(e.handler, e.trig)
        /\ \A f \in batch' : f \in batch /\ f.handler # e.handler
    BY <1>3, <2>1 DEF BatchNow
  <2>4. OnStack' = OnStack
    BY <2>1, StackSame
  <2>5. \A f \in batch' : OfNow(f.handler)'
    BY <1>3, <1>4, <2>1, <2>3 DEF BatchNow
  <2>6. BatchNow'
    BY <1>3, <2>1, <2>2, <2>3, <2>4, <2>5, BatchShrinks
  <2>7. OfNow(e.handler)' /\ RefusedIf(e.handler, e.trig)'
    BY <1>4, <2>1, <2>3, RefusedStays
  <2>8. EventNow'
    BY <2>1, <2>2, <2>7 DEF EventNow
  <2> QED
    BY <2>6, <2>8
(* A phase of the event of a connection. *)
<1>19. ASSUME NEW k \in Attempts, event # NoEvent, event.handler = Cn(k), EventGoesOn
       PROVE  EventNow'
  <2>1. event.phase \in {"read", "write", "error"}
    BY <1>1 DEF EventType
  <2>2. event' # NoEvent => event'.handler = Cn(k) /\ event'.phase # "read"
    BY <1>1, <1>19, <2>1, EventEffect
  <2> QED
    BY <1>2, <2>2 DEF EventNow
(* A phase in which nothing happens. *)
<1>20. ASSUME \/ PhasePasses \/ PhaseOfFreedHandler
              \/ \E k \in Attempts : AttemptIgnored(k)
       PROVE  BatchNow' /\ EventNow'
  <2>1. /\ event # NoEvent /\ calls = <<>> /\ EventGoesOn
        /\ UNCHANGED <<conn, connHandler, object, sock, batch, calls>>
    BY <1>20 DEF PhasePasses, PhaseOfFreedHandler, AttemptIgnored, Handling, client, objects
  <2>2. OnStack' = OnStack
    BY <2>1, StackSame
  <2>3. \A f \in batch' : OfNow(f.handler)'
    BY <1>3, <1>4, <2>1 DEF BatchNow
  <2>4. event' # NoEvent => \A f \in batch' : f.handler # event'.handler
    BY <1>1, <1>3, <2>1, EventStays
  <2>5. BatchNow'
    BY <1>3, <2>1, <2>2, <2>3, <2>4, BatchShrinks
  <2>6. event.phase \in {"read", "write", "error"}
    BY <1>1 DEF EventType
  <2>7. CASE event.phase = "read"
    <3>1. event' = [handler |-> event.handler, trig |-> event.trig, phase |-> "write"]
      BY <1>1, <2>1, <2>7, EventEffect
    <3>2. event'.handler = event.handler /\ event'.trig = event.trig /\ event'.phase = "write"
      BY <3>1
    <3>3. OfNow(event.handler) /\ RefusedIf(event.handler, event.trig)
      BY <1>3, <2>1, <2>7 DEF EventNow
    <3>4. OfNow(event.handler)' /\ RefusedIf(event.handler, event.trig)'
      <4>1. OfNow(event.handler)' <=> \A j \in Attempts :
              (event'.handler = At(j) => connHandler' = j) /\ (event'.handler = Cn(j) => conn' = j)
        BY DEF OfNow
      <4>2. RefusedIf(event.handler, event.trig)' <=>
              ("ERR" \in event'.trig => \A j \in Attempts :
                 event'.handler = At(j) => sock'[object'[event'.handler].fd].at = "refused")
        BY DEF RefusedIf
      <4> QED
        BY <2>1, <3>2, <3>3, <4>1, <4>2 DEF OfNow, RefusedIf
    <3> QED
      BY <2>1, <2>5, <3>2, <3>4 DEF EventNow
  <2>8. CASE event.phase = "write"
    <3>1. event' = [handler |-> event.handler, trig |-> event.trig, phase |-> "error"]
      BY <1>1, <2>1, <2>8, EventEffect
    <3>2. event'.handler = event.handler /\ event'.trig = event.trig /\ event'.phase = "error"
      BY <3>1
    <3>3. ASSUME NEW k \in Attempts, event.handler = At(k) PROVE object'[At(k)].live
      BY <1>3, <2>1, <2>8, <3>3 DEF EventNow, OfNow, Current
    <3> QED
      BY <2>5, <3>2, <3>3 DEF EventNow
  <2>9. CASE event.phase = "error"
    BY <1>1, <2>1, <2>5, <2>9, EventEffect DEF EventNow
  <2> QED
    BY <2>6, <2>7, <2>8, <2>9
<1>21. ASSUME NEW k \in Attempts, HandleReadBytes(k) PROVE BatchNow' /\ EventNow'
  <2>1. /\ event # NoEvent /\ event.handler = Cn(k) /\ EventGoesOn /\ Calls("message", k)
        /\ UNCHANGED <<conn, connHandler, batch>>
    BY <1>21 DEF HandleReadBytes, Handling, client, Cn
  <2>2. OnStack' = OnStack \cup {[callback |-> "message", of |-> k]}
    BY <1>1, <1>5, <2>1, CallsEffect
  <2>3. \A c \in OnStack' : c \in OnStack \/ \A f \in batch' : f.handler # Cn(c.of)
    <3>1. [callback |-> "message", of |-> k].of = k
      OBVIOUS
    <3>2. \A f \in batch' : f.handler # Cn(k)
      BY <1>3, <2>1 DEF BatchNow
    <3> QED
      BY <2>2, <3>1, <3>2
  <2>4. \A f \in batch' : OfNow(f.handler)'
    BY <1>3, <1>4, <2>1 DEF BatchNow
  <2>5. event' # NoEvent => \A f \in batch' : f.handler # event'.handler
    BY <1>1, <1>3, <2>1, EventStays
  <2>6. BatchNow'
    BY <1>3, <2>1, <2>3, <2>4, <2>5, BatchShrinks
  <2> QED
    BY <1>19, <2>1, <2>6
<1>22. ASSUME NEW k \in Attempts, HandleReadEof(k) PROVE BatchNow' /\ EventNow'
  <2>1. /\ event # NoEvent /\ event.handler = Cn(k) /\ event.phase = "read" /\ EventGoesOn
        /\ CloseBegins(k) /\ UNCHANGED batch
    BY <1>22 DEF HandleReadEof, Handling, Cn
  <2>2. conn = k
    BY <1>3, <2>1 DEF EventNow, OfNow
  <2>3. conn' = None /\ UNCHANGED connHandler /\ Calls("close", k)
    BY <2>1, <2>2 DEF CloseBegins, Asserted
  <2>4. OnStack' = OnStack \cup {[callback |-> "close", of |-> k]}
    BY <1>1, <1>5, <2>3, CallsEffect
  <2>5. \A c \in OnStack' : c.callback \in {"connection", "message"} => c \in OnStack
    <3>1. [callback |-> "close", of |-> k].callback \notin {"connection", "message"}
      OBVIOUS
    <3> QED
      BY <2>4, <3>1
  <2>6. \A e \in batch' : OfNow(e.handler)'
    <3> SUFFICES ASSUME NEW e \in batch, NEW j \in Attempts
                 PROVE  (e.handler = At(j) => connHandler' = j) /\ (e.handler = Cn(j) => conn' = j)
      BY <2>1 DEF OfNow
    <3>1. OfNow(e.handler) /\ e.handler # Cn(k)
      BY <1>3, <2>1 DEF BatchNow
    <3> QED
      BY <2>2, <2>3, <3>1 DEF OfNow
  <2>7. event' # NoEvent => \A f \in batch' : f.handler # event'.handler
    BY <1>1, <1>3, <2>1, EventStays
  <2>8. BatchNow'
    BY <1>3, <2>1, <2>5, <2>6, <2>7, BatchShrinks
  <2> QED
    BY <1>19, <2>1, <2>8
<1>23. ASSUME NEW k \in Attempts, HandleWriteBytes(k) \/ HandleReadAgain(k)
       PROVE  BatchNow' /\ EventNow'
  <2>1. /\ event # NoEvent /\ event.handler = Cn(k) /\ EventGoesOn
        /\ UNCHANGED <<conn, connHandler, batch, calls>>
    BY <1>23 DEF HandleWriteBytes, HandleReadAgain, Handling, client, Cn
  <2>2. OnStack' = OnStack
    BY <2>1, StackSame
  <2>3. \A f \in batch' : OfNow(f.handler)'
    BY <1>3, <1>4, <2>1 DEF BatchNow
  <2>4. event' # NoEvent => \A f \in batch' : f.handler # event'.handler
    BY <1>1, <1>3, <2>1, EventStays
  <2>5. BatchNow'
    BY <1>3, <2>1, <2>2, <2>3, <2>4, BatchShrinks
  <2> QED
    BY <1>19, <2>1, <2>5
(* The outcome of the attempt. *)
<1>24. ASSUME NEW k \in Attempts, event # NoEvent, event.handler = At(k), event.phase = "write",
              EventGoesOn, connHandler = k, UNCHANGED batch,
              sock[object[At(k)].fd].at # "refused" \/ told'[k] = <<"failed">>
       PROVE  BatchNow' /\ EventNow'
  <2>1. conn = None
    BY <1>1, <1>3, <1>24 DEF Phases
  <2>2. batch = {}
    <3> SUFFICES ASSUME NEW e \in batch PROVE FALSE
      OBVIOUS
    <3>1. e.handler \in Handlers /\ OfNow(e.handler) /\ e.handler # At(k)
      BY <1>1, <1>3, <1>24 DEF BatchType, BatchNow
    <3>2. PICK j \in Attempts : e.handler = At(j) \/ e.handler = Cn(j)
      BY <1>2, <3>1
    <3> QED
      BY <1>1, <1>24, <2>1, <3>1, <3>2 DEF OfNow
  <2>3. event' = [handler |-> event.handler, trig |-> event.trig, phase |-> "error"]
    BY <1>1, <1>24, EventEffect
  <2>4. event'.handler = At(k) /\ event'.trig = event.trig /\ event'.phase = "error"
    BY <1>24, <2>3
  <2>5. "ERR" \in event.trig => told'[k] = <<"failed">>
    BY <1>3, <1>24 DEF EventNow, RefusedIf
  <2>6. EventNow'
    BY <1>2, <2>4, <2>5 DEF EventNow
  <2> QED
    BY <1>7, <1>24, <2>2, <2>6
<1>25. ASSUME NEW k \in Attempts, NEW fd \in Fds, HandleWriteConnected(k, fd)
       PROVE  BatchNow' /\ EventNow'
  <2>1. /\ event # NoEvent /\ event.handler = At(k) /\ event.phase = "write"
        /\ EventGoesOn /\ connHandler = k /\ UNCHANGED batch
        /\ sock[object[At(k)].fd].at # "refused"
    BY <1>25 DEF HandleWriteConnected, Handling, TakesFrom, At
  <2> QED
    BY <1>24, <2>1
<1>26. ASSUME NEW k \in Attempts, NEW fd \in Fds, HandleWriteFailed(k, fd)
       PROVE  BatchNow' /\ EventNow'
  <2>1. /\ event # NoEvent /\ event.handler = At(k) /\ event.phase = "write"
        /\ EventGoesOn /\ connHandler = k /\ UNCHANGED batch /\ Calls("failed", k)
    BY <1>26 DEF HandleWriteFailed, Handling, TakesFrom, At
  <2>2. told[k] = <<>>
    BY <2>1 DEF BasicInv, Untold
  <2>3. told'[k] = Append(told[k], "failed")
    BY <1>1, <1>5, <2>1, CallsEffect
  <2>4. told'[k] = <<"failed">>
    BY <1>5, <2>2, <2>3, ToldFirst
  <2> QED
    BY <1>24, <2>1, <2>4
<1>27. CASE Application
  <2>1. ~DisconnectsNothing
    BY DEF DisconnectsNothing
  <2> QED
    BY <1>11, <1>12, <1>13, <1>14, <1>27, <2>1 DEF Application
<1>28. CASE Loop
  BY <1>15, <1>17, <1>18, <1>20, <1>21, <1>22, <1>23, <1>25, <1>26, <1>28 DEF Loop
<1> QED
  BY <1>16, <1>27, <1>28 DEF Next

LEMMA PoliteInit == Init => PoliteInv
<1> SUFFICES ASSUME Init PROVE PoliteInv
  OBVIOUS
<1>1. /\ state = "DIS_CONNECTED" /\ connHandler = None /\ conn = None /\ proc = "up"
      /\ batch = {} /\ event = NoEvent /\ calls = <<>>
      /\ \A k \in Attempts : told[k] = <<>>
      /\ \A h \in Handlers : ~object[h].live
      /\ \A fd \in Fds : sock[fd].at = "free"
      /\ ~poll.failed
      /\ \A fd \in Fds : poll.table[fd] = None /\ poll.interest[fd] = Unregistered
  BY DEF Init, Unborn, NoSocket, NewPoller
<1>2. None \notin Attempts /\ \A k \in Attempts : At(k) \in Handlers /\ Cn(k) \in Handlers
  BY Constants, Kinds
<1>3. OnStack = {}
  BY <1>1 DEF OnStack
<1>4. Phases
  BY <1>1, <1>2, <1>3 DEF Phases
<1>5. Current(object, conn, connHandler)
  BY <1>1, <1>2 DEF Current
<1>6. Owned(object, sock)
  BY <1>1 DEF Owned, OwnedBut
<1>7. Registered(object, poll)
  <2>1. Unregistered.handler = None
    BY DEF Unregistered
  <2> QED
    BY <1>1, <2>1 DEF Registered
<1>8. BatchNow /\ EventNow
  BY <1>1, <1>3 DEF BatchNow, EventNow
<1>9. LastEnd
  BY <1>1, <1>2 DEF LastEnd
<1> QED
  BY <1>4, <1>5, <1>6, <1>7, <1>8, <1>9 DEF PoliteInv, Structure

LEMMA PoliteStep ==
  ASSUME Polite, BasicInv, PoliteInv, [Next]_vars
  PROVE  PoliteInv' /\ LivesOn
<1>1. TypeOK' /\ Named'
  BY TypesStep DEF BasicInv
<1>2. Structure' /\ StaysRefused /\ LivesOn
  BY <1>1, StructureStep DEF PoliteInv
<1>3. Phases'
  BY <1>1, PhasesStep
<1>4. BatchNow' /\ EventNow'
  BY <1>1, <1>2, PendingStep
<1>5. LastEnd'
  BY <1>1, LastEndStep
<1> QED
  BY <1>2, <1>3, <1>4, <1>5 DEF PoliteInv
-----------------------------------------------------------------------------
(* ... and that keeps its pointers until a connection has ended.           *)

LEMMA KeptInit == Init => KeptInv
<1> SUFFICES ASSUME Init PROVE KeptInv
  OBVIOUS
<1>1. event = NoEvent /\ calls = <<>> /\ touched = {} /\ \A h \in Handlers : ~object[h].live
  BY DEF Init, Unborn
<1>2. OnStack = {}
  BY <1>1 DEF OnStack
<1> QED
  BY <1>1, <1>2, Kinds DEF KeptInv, FreedUseOnlyWhenRefused

(* What was told of a failure was told nothing else. *)
LEMMA ToldOfFailure ==
  ASSUME BasicInv, NEW k \in Attempts, NEW i \in DOMAIN told[k], told[k][i] = "failed"
  PROVE  told[k] = <<"failed">>
<1>1. told[k] = <<>> \/ told[k] = <<"failed">> \/ Begun(told[k])
  BY DEF BasicInv, ToldWell
<1>2. told[k] # <<>>
  OBVIOUS
<1>3. ~Begun(told[k])
  BY DEF Begun
<1> QED
  BY <1>1, <1>2, <1>3

LEMMA KeptStep ==
  ASSUME Polite, Keeps, BasicInv, PoliteInv, KeptInv, [Next]_vars
  PROVE  KeptInv'
<1>1. /\ conn \in Attempts \cup {None} /\ connHandler \in Attempts \cup {None}
      /\ kept \in SUBSET Attempts
      /\ object \in [Handlers -> HandlerType] /\ sock \in [Fds -> SocketType] /\ PollOK(poll)
      /\ batch \in SUBSET BatchType /\ event \in EventType
      /\ calls \in Seq(CallType) /\ told \in [Attempts -> Seq(Callbacks)]
      /\ touched \in SUBSET Handlers /\ next \in Nat /\ None \notin Attempts
  BY Constants, Types DEF BasicInv, Named
<1>2. /\ TypeOK' /\ Named' /\ LivesOn
  BY TypesStep, PoliteStep DEF BasicInv
<1>3. /\ \A j \in Attempts : At(j) \in Handlers /\ Cn(j) \in Handlers
      /\ \A j, k \in Attempts : At(j) # Cn(k) /\ (At(j) = At(k) => j = k) /\ (Cn(j) = Cn(k) => j = k)
      /\ \A h \in Handlers : \E k \in Attempts : h = At(k) \/ h = Cn(k)
      /\ \A j \in Attempts : At(j)[1] = "attempt" /\ At(j)[2] = j
  BY Kinds
<1>4. /\ Phases /\ Current(object, conn, connHandler) /\ BatchNow /\ EventNow
  BY DEF PoliteInv, Structure
<1>5. /\ "connection" \in Callbacks /\ "message" \in Callbacks /\ "close" \in Callbacks
      /\ "failed" \in Callbacks
  BY DEF Callbacks
<1>6. \A k \in Attempts : conn = k => object[Cn(k)].live /\ k \in kept
  BY <1>4 DEF Current, KeptInv
<1>7. \A k \in Attempts : k \in kept' => Referenced(k)'
  BY DEF Referenced
(* The parts of the invariant, for a step that drops no pointer. *)
<1>8. ASSUME \A h \in touched' : h \in touched
                                 \/ \E k \in Attempts : h = At(k) /\ told[k] = <<"failed">>
      PROVE  FreedUseOnlyWhenRefused'
  <2> SUFFICES ASSUME NEW h \in touched'
               PROVE  h[1] = "attempt" /\ \E i \in DOMAIN told'[h[2]] : told'[h[2]][i] = "failed"
    BY DEF FreedUseOnlyWhenRefused
  <2>1. \E k \in Attempts : h = At(k) /\ told[k] = <<"failed">>
    <3>1. CASE h \in touched
      <4>1. h[1] = "attempt" /\ \E i \in DOMAIN told[h[2]] : told[h[2]][i] = "failed"
        BY <3>1 DEF KeptInv, FreedUseOnlyWhenRefused
      <4>2. PICK k \in Attempts : h = At(k) \/ h = Cn(k)
        BY <1>1, <1>3, <3>1
      <4>3. h = At(k)
        BY <4>1, <4>2 DEF Cn
      <4>4. told[k] = <<"failed">>
        BY <1>3, <4>1, <4>3, ToldOfFailure
      <4> QED
        BY <4>3, <4>4
    <3> QED
      BY <1>8, <3>1
  <2>2. PICK k \in Attempts : h = At(k) /\ told[k] = <<"failed">>
    BY <2>1
  <2>3. told'[k] = <<"failed">>
    BY <1>2, <2>2, FailedStays
  <2>4. h[1] = "attempt" /\ told'[h[2]] = <<"failed">>
    BY <1>3, <2>2, <2>3
  <2>5. 1 \in DOMAIN <<"failed">> /\ <<"failed">>[1] = "failed"
    OBVIOUS
  <2> QED
    BY <2>4, <2>5
<1>9. ASSUME kept \subseteq kept',
             \A k \in Attempts : conn' = k => conn = k \/ k \in kept',
             event' # NoEvent => event # NoEvent /\ event'.handler = event.handler,
             \A c \in OnStack' : c.callback # "failed" => c \in OnStack \/ c.of \in kept',
             touched' = touched
      PROVE  KeptInv'
  <2>1. \A k \in Attempts : object'[Cn(k)].live => k \in kept'
    BY <1>2, <1>6, <1>9 DEF LivesOn, KeptInv
  <2>2. \A c \in OnStack' : c.callback # "failed" => c.of \in kept'
    BY <1>9 DEF KeptInv
  <2>3. ASSUME event' # NoEvent, NEW k \in Attempts, event'.handler = Cn(k)
        PROVE  object'[Cn(k)].live
    <3>1. object[Cn(k)].live /\ k \in kept
      BY <1>9, <2>3 DEF KeptInv
    <3> QED
      BY <1>2, <1>7, <1>9, <3>1 DEF LivesOn
  <2>4. FreedUseOnlyWhenRefused'
    BY <1>8, <1>9
  <2> QED
    BY <2>1, <2>2, <2>3, <2>4 DEF KeptInv
<1>10. ASSUME event # NoEvent, EventGoesOn
       PROVE  event' # NoEvent => event # NoEvent /\ event'.handler = event.handler
  <2>1. event.phase \in {"read", "write", "error"}
    BY <1>1 DEF EventType
  <2> QED
    BY <1>1, <1>10, <2>1, EventEffect
(* A connection is made, and its pointer kept. *)
<1>11. ASSUME NEW k \in Attempts, NEW fd \in Fds, NEW objs, NEW socks, NEW p,
              Establish(k, fd, objs, socks, p), UNCHANGED touched,
              event' # NoEvent => event # NoEvent /\ event'.handler = event.handler
       PROVE  KeptInv'
  <2>1. kept' = kept \cup {k} /\ conn' = k /\ Calls("connection", k)
    BY <1>11 DEF Establish
  <2>2. OnStack' = OnStack \cup {[callback |-> "connection", of |-> k]}
    BY <1>1, <1>5, <2>1, CallsEffect
  <2>3. [callback |-> "connection", of |-> k].of = k
    OBVIOUS
  <2>4. \A c \in OnStack' : c \in OnStack \/ c.of \in kept'
    BY <2>1, <2>2, <2>3
  <2> QED
    BY <1>9, <1>11, <2>1, <2>4
<1>12. ASSUME NEW fd \in Fds, ConnectAtOnce(fd) PROVE KeptInv'
  <2>1. /\ next \in Attempts
        /\ Establish(next, fd, object, [sock EXCEPT ![fd].at = "up"], poll)
        /\ UNCHANGED <<event, touched>>
    <3>1. next >= 1
      BY DEF BasicInv, Named
    <3> QED
      BY <1>1, <1>12, <3>1, Constants DEF ConnectAtOnce, CreatesSocket, Attempts
  <2> QED
    BY <1>11, <2>1
<1>13. ASSUME NEW k \in Attempts, NEW fd \in Fds, HandleWriteConnected(k, fd) PROVE KeptInv'
  <2>1. /\ Establish(k, fd, Freed(k), sock, Update(poll, At(k), fd, {}))
        /\ event # NoEvent /\ EventGoesOn /\ UNCHANGED touched
    BY <1>13 DEF HandleWriteConnected, Handling
  <2> QED
    BY <1>10, <1>11, <2>1
(* The current connection is closed. *)
<1>14. ASSUME NEW k \in Attempts, conn = k, CloseBegins(k),
              event' # NoEvent => event # NoEvent /\ event'.handler = event.handler
       PROVE  KeptInv'
  <2>1. conn' = None /\ UNCHANGED <<kept, touched>> /\ Calls("close", k)
    BY <1>14 DEF CloseBegins, Asserted
  <2>2. OnStack' = OnStack \cup {[callback |-> "close", of |-> k]}
    BY <1>1, <1>5, <2>1, CallsEffect
  <2>3. [callback |-> "close", of |-> k].of = k
    OBVIOUS
  <2>4. \A c \in OnStack' : c \in OnStack \/ c.of \in kept'
    BY <1>6, <1>14, <2>1, <2>2, <2>3
  <2> QED
    BY <1>1, <1>9, <1>14, <2>1, <2>4
<1>15. ASSUME NEW k \in Attempts, Closes(k) PROVE KeptInv'
  BY <1>14, <1>15 DEF Closes
<1>16. ASSUME NEW k \in Attempts, HandleReadEof(k) PROVE KeptInv'
  <2>1. event # NoEvent /\ event.phase = "read" /\ event.handler = Cn(k) /\ CloseBegins(k)
        /\ EventGoesOn
    BY <1>16 DEF HandleReadEof, Handling, Cn
  <2>2. conn = k
    BY <1>4, <2>1 DEF EventNow, OfNow
  <2> QED
    BY <1>10, <1>14, <2>1, <2>2
<1>17. ASSUME NEW k \in Attempts, HandleReadBytes(k) PROVE KeptInv'
  <2>1. /\ event # NoEvent /\ event.handler = Cn(k) /\ EventGoesOn /\ Calls("message", k)
        /\ UNCHANGED <<conn, kept, touched>>
    BY <1>17 DEF HandleReadBytes, Handling, client, Cn
  <2>2. OnStack' = OnStack \cup {[callback |-> "message", of |-> k]}
    BY <1>1, <1>5, <2>1, CallsEffect
  <2>3. [callback |-> "message", of |-> k].of = k
    OBVIOUS
  <2>4. k \in kept
    BY <2>1 DEF KeptInv
  <2>5. \A c \in OnStack' : c \in OnStack \/ c.of \in kept'
    BY <2>1, <2>2, <2>3, <2>4
  <2> QED
    BY <1>9, <1>10, <2>1, <2>5
<1>18. ASSUME NEW k \in Attempts, NEW fd \in Fds, HandleWriteFailed(k, fd) PROVE KeptInv'
  <2>1. /\ event # NoEvent /\ EventGoesOn /\ Calls("failed", k)
        /\ UNCHANGED <<conn, kept, touched>>
    BY <1>18 DEF HandleWriteFailed, Handling
  <2>2. OnStack' = OnStack \cup {[callback |-> "failed", of |-> k]}
    BY <1>1, <1>5, <2>1, CallsEffect
  <2>3. [callback |-> "failed", of |-> k].callback = "failed"
    OBVIOUS
  <2>4. \A c \in OnStack' : c.callback # "failed" => c \in OnStack
    BY <2>2, <2>3
  <2> QED
    BY <1>9, <1>10, <2>1, <2>4
<1>19. ASSUME NEW k \in Attempts, HandleReadAgain(k) \/ HandleWriteBytes(k) \/ AttemptIgnored(k)
       PROVE  KeptInv'
  <2>1. /\ event # NoEvent /\ EventGoesOn
        /\ UNCHANGED <<conn, kept, calls, touched>>
    BY <1>19 DEF HandleReadAgain, HandleWriteBytes, AttemptIgnored, Handling, client
  <2>2. OnStack' = OnStack
    BY <2>1, StackSame
  <2> QED
    BY <1>9, <1>10, <2>1, <2>2
<1>20. CASE PhasePasses
  <2>1. /\ event # NoEvent /\ EventGoesOn
        /\ UNCHANGED <<conn, kept, calls, touched>>
    BY <1>20 DEF PhasePasses, client
  <2>2. OnStack' = OnStack
    BY <2>1, StackSame
  <2> QED
    BY <1>9, <1>10, <2>1, <2>2
<1>21. ASSUME \/ Disconnect \/ Wait \/ Network \/ UNCHANGED vars
              \/ \E k \in Attempts : SendLeavesBytes(k)
              \/ \E fd \in Fds : ConnectInProgress(fd)
       PROVE  KeptInv'
  <2>1. UNCHANGED <<conn, kept, event, calls, touched>>
    BY <1>21 DEF Disconnect, SendLeavesBytes, Wait, Network, ConnectInProgress, vars, client,
       objects, loop
  <2>2. OnStack' = OnStack
    BY <2>1, StackSame
  <2> QED
    BY <1>9, <2>1, <2>2
(* An event of now is of a living Handler. *)
<1>22. ASSUME NEW e \in batch, HandleEvent(e) PROVE KeptInv'
  <2>1. /\ event' = [handler |-> e.handler, trig |-> e.trig, phase |-> "read"]
        /\ UNCHANGED <<conn, kept, object, calls, touched>>
    BY <1>22 DEF HandleEvent, client, objects
  <2>2. event'.handler = e.handler
    BY <2>1
  <2>3. \A k \in Attempts : event'.handler = Cn(k) => object'[Cn(k)].live
    BY <1>4, <1>6, <2>1, <2>2 DEF BatchNow, OfNow
  <2>4. OnStack' = OnStack
    BY <2>1, StackSame
  <2>5. FreedUseOnlyWhenRefused'
    BY <1>8, <2>1
  <2> QED
    BY <2>1, <2>3, <2>4, <2>5 DEF KeptInv
(* What is looked at after it was freed is the Handler of a refused attempt. *)
<1>23. CASE PhaseOfFreedHandler
  <2>1. /\ event # NoEvent /\ EventGoesOn /\ Triggered /\ ~Alive
        /\ touched' = touched \cup {event.handler}
        /\ UNCHANGED <<conn, kept, object, calls>>
    BY <1>23 DEF PhaseOfFreedHandler, client, objects
  <2>2. event.handler \in Handlers /\ event.phase \in {"read", "write", "error"}
    BY <1>1, <2>1 DEF EventType, BasicInv, Named
  <2>3. PICK k \in Attempts : event.handler = At(k) \/ event.handler = Cn(k)
    BY <1>3, <2>2
  <2>4. event.handler = At(k) /\ ~object[At(k)].live
    BY <2>1, <2>3 DEF Alive, KeptInv
  <2>5. connHandler # k
    BY <1>4, <2>4 DEF Current
  <2>6. event.phase = "error"
    BY <1>4, <2>1, <2>2, <2>4, <2>5 DEF EventNow, OfNow
  <2>7. "ERR" \in event.trig
    BY <2>1, <2>6 DEF Triggered
  <2>8. told[k] = <<"failed">>
    BY <1>4, <2>1, <2>4, <2>6, <2>7 DEF EventNow
  <2>9. FreedUseOnlyWhenRefused'
    BY <1>8, <2>1, <2>4, <2>8
  <2>10. OnStack' = OnStack
    BY <2>1, StackSame
  <2>11. event' = NoEvent
    BY <1>1, <2>1, <2>6, EventEffect
  <2> QED
    BY <2>1, <2>9, <2>10, <2>11 DEF KeptInv
(* A pointer is dropped: the connection goes with it. *)
<1>24. ASSUME NEW k \in Attempts, Releases(k) PROVE KeptInv'
  <2>1. /\ calls = <<>> /\ event = NoEvent /\ connState[k] = "DIS_CONNECTED"
        /\ kept' = kept \ {k} /\ UNCHANGED <<conn, event, calls, touched>>
        /\ Settle(object, sock, poll)
    BY <1>24 DEF Releases, InApplication, client, loop
  <2>2. conn # k
    BY <1>4, <2>1 DEF Phases
  <2>3. OnStack' = {}
    BY <2>1 DEF OnStack
  <2>4. ~Referenced(k)'
    BY <2>1, <2>2 DEF Referenced
  <2>5. ~object'[Cn(k)].live
    <3>1. CASE k \in Dying(object)
      <4>1. object'[Cn(k)] = [live |-> FALSE, fd |-> object[Cn(k)].fd,
                              events |-> object[Cn(k)].events]
        BY <1>1, <2>1, <3>1, SettleEffect
      <4> QED
        BY <4>1
    <3>2. CASE k \notin Dying(object)
      <4>1. object'[Cn(k)] = object[Cn(k)]
        BY <1>1, <2>1, <3>2, SettleEffect
      <4> QED
        BY <2>4, <3>2, <4>1 DEF Dying
    <3> QED
      BY <3>1, <3>2
  <2>6. \A j \in Attempts : object'[Cn(j)].live => j \in kept'
    BY <1>2, <1>6, <2>1, <2>5 DEF LivesOn, KeptInv
  <2>7. FreedUseOnlyWhenRefused'
    BY <1>8, <2>1
  <2> QED
    BY <2>1, <2>3, <2>6, <2>7 DEF KeptInv
<1>25. CASE CallbackReturns
  <2>1. calls # <<>> /\ calls' = Tail(calls) /\ UNCHANGED <<conn, kept, event>>
    BY <1>25 DEF CallbackReturns
  <2>2. /\ OnStack' \subseteq OnStack /\ Head(calls) \in OnStack /\ Head(calls) \in CallType
    BY <1>1, <2>1, ReturnEffect
  <2>3. \A c \in OnStack : c \in CallType /\ c.callback = "close" => Referenced(c.of)'
    <3> SUFFICES ASSUME NEW c \in OnStack, c \in CallType, c.callback = "close"
                 PROVE  Referenced(c.of)'
      OBVIOUS
    <3>1. c.of \in Attempts
      BY DEF CallType
    <3>2. c.of \in kept'
      BY <2>1 DEF KeptInv
    <3> QED
      BY <1>7, <3>1, <3>2
  <2>4. ASSUME NEW c \in {Head(calls)},
               IF c.callback = "close"
               THEN touched' = IF Referenced(c.of)' THEN touched ELSE touched \cup {Cn(c.of)}
               ELSE touched' = touched
        PROVE  touched' = touched
    <3>1. c \in OnStack /\ c \in CallType
      BY <2>2
    <3> QED
      BY <2>3, <2>4, <3>1
  <2>5. touched' = touched
    <3>1. PICK c \in {Head(calls)} :
            IF c.callback = "close"
            THEN touched' = IF Referenced(c.of)' THEN touched ELSE touched \cup {Cn(c.of)}
            ELSE touched' = touched
      BY <1>25 DEF CallbackReturns
    <3> QED
      BY <2>4, <3>1
  <2> QED
    BY <1>9, <2>1, <2>2, <2>5
<1>26. CASE Application
  <2>1. ~DisconnectsNothing
    BY DEF DisconnectsNothing
  <2> QED
    BY <1>12, <1>15, <1>21, <1>24, <1>26, <2>1 DEF Application
<1>27. CASE Loop
  BY <1>13, <1>16, <1>17, <1>18, <1>19, <1>20, <1>21, <1>22, <1>23, <1>25, <1>27 DEF Loop
<1> QED
  BY <1>21, <1>26, <1>27 DEF Next
-----------------------------------------------------------------------------
(* The inductive invariant, and what follows from it.                      *)

THEOREM ClientInvariance == Spec => []ClientInv
<1>1. Init => ClientInv
  BY BasicInit, PoliteInit, KeptInit DEF ClientInv
<1>2. ClientInv /\ [Next]_vars => ClientInv'
  BY BasicStep, PoliteStep, KeptStep DEF ClientInv
<1> QED
  BY <1>1, <1>2, PTL DEF Spec

(* An application with the discipline of Polite meets no failed assertion  *)
(* of HandleClose: what is closed is the current connection.               *)
THEOREM AssertCorrect == ASSUME Polite PROVE Spec => []AssertHolds
<1>1. ClientInv => AssertHolds
  BY DEF ClientInv, PoliteInv, Phases, AssertHolds
<1> QED
  BY <1>1, ClientInvariance, PTL

(* With such an application, the Epoller's map, the kernel's registrations *)
(* and the living Handlers agree through attempts, connections, failures   *)
(* and the reuse of descriptors, and no EPOLL_CTL_ADD or MOD fails.        *)
THEOREM ClientInStepCorrect == ASSUME Polite PROVE Spec => []InStep
<1>1. ClientInv => InStep
  BY DEF ClientInv, PoliteInv, Structure, Registered, InStep, MapInStep
<1> QED
  BY <1>1, ClientInvariance, PTL

(* ... a descriptor that is connecting or connected has one living         *)
(* Handler, that of the attempt or that of the connection, and a free one  *)
(* has none; only the socket of a refused attempt has no owner.            *)
THEOREM OwnersCorrect == ASSUME Polite PROVE Spec => []OnlyRefusedLeak
<1>1. ASSUME Owned(object, sock) PROVE OnlyRefusedLeak
  <2> SUFFICES ASSUME NEW fd \in Fds
               PROVE  /\ sock[fd].at \in {"connecting", "up"} => Cardinality(Owner(fd)) = 1
                      /\ sock[fd].at = "free" => Owner(fd) = {}
    BY DEF OnlyRefusedLeak
  <2>1. ASSUME sock[fd].at \in {"connecting", "up"} PROVE Cardinality(Owner(fd)) = 1
    <3>1. PICK h \in Handlers : object[h].live /\ object[h].fd = fd
      BY <1>1, <2>1 DEF Owned, OwnedBut
    <3>2. Owner(fd) = {h}
      BY <1>1, <3>1 DEF Owned, OwnedBut, Owner
    <3> QED
      BY <3>2, FS_Singleton
  <2>2. ASSUME sock[fd].at = "free" PROVE Owner(fd) = {}
    BY <1>1, <2>2 DEF Owned, OwnedBut, Owner
  <2> QED
    BY <2>1, <2>2
<1>2. ClientInv => OnlyRefusedLeak
  BY <1>1 DEF ClientInv, PoliteInv, Structure
<1> QED
  BY <1>2, ClientInvariance, PTL

(* ... and it hears of no message after the end of a connection.           *)
THEOREM EndCorrect == ASSUME Polite PROVE Spec => []EndIsLast
<1>1. ClientInv => EndIsLast
  BY DEF ClientInv, PoliteInv, LastEnd, EndIsLast
<1> QED
  BY <1>1, ClientInvariance, PTL

(* When it also keeps the TcpConnectionPtr of a connection until that is   *)
(* closed, no freed connection and no freed Handler is used, but for the   *)
(* Handler of a refused attempt, whose error callback HandleEvent looks    *)
(* for after HandleWrite has freed it.                                     *)
THEOREM FreedUseCorrect == ASSUME Polite, Keeps PROVE Spec => []FreedUseOnlyWhenRefused
<1>1. ClientInv => FreedUseOnlyWhenRefused
  BY DEF ClientInv, KeptInv
<1> QED
  BY <1>1, ClientInvariance, PTL
=============================================================================
