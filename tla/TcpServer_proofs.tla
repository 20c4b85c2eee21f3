-------------------------- MODULE TcpServer_proofs --------------------------
(***************************************************************************)
(* Proofs about the server: for every limit of descriptors and number of   *)
(* connections each descriptor is accounted for, and the acceptor's spare  *)
(* descriptor is always got back when no other thread opens any.           *)
(***************************************************************************)
EXTENDS TcpServer, FiniteSetTheorems, TLAPS

USE DEF otherThreads

(* The connections that have arrived wait, were accepted, are being turned *)
(* away or were turned away.                                               *)
Counted == arrived = backlog + (connId - 1) + Count(spare) + turned

Numbered == \A c \in Alive : c < connId

Phases ==
  /\ current # 0 <=> pc = "callback"
  /\ spare => pc = "accepted"
  /\ pc \in {"given", "accepted", "closed"} => ~idlefd

(* What the acceptor has when it comes to each of the calls, if no other   *)
(* thread takes it away.                                                   *)
SparePhases ==
  /\ others = 0
  /\ pc \in {"loop", "callback", "short"} => idlefd
  /\ pc = "short" => free = 0
  /\ pc \in {"short", "given"} => backlog > 0
  /\ pc \in {"given", "closed"} => free = 1 /\ ~idlefd
  /\ pc = "accepted" => free = 0 /\ spare /\ ~idlefd

IInv ==
  /\ TypeOK /\ Accounted /\ Counted /\ Numbered /\ Phases
  /\ ~meddled => SparePhases
-----------------------------------------------------------------------------
(* The connections that are held form a finite set. *)
LEMMA AliveFinite ==
  ASSUME TypeOK
  PROVE  IsFiniteSet(Alive) /\ Cardinality(Alive) \in Nat
<1>1. IsFiniteSet(Conns)
  BY FS_Interval, ServerAssumption DEF Conns
<1>2. Alive \subseteq Conns
  BY DEF TypeOK, Alive
<1> QED
  BY <1>1, <1>2, FS_Subset, FS_CardinalityType

(* The sockets that are held when a connection is accepted, and when the   *)
(* last pointer to one is dropped.                                         *)
LEMMA OneMore ==
  ASSUME TypeOK, NEW x, x \notin Alive, Alive' = Alive \cup {x}
  PROVE  Cardinality(Alive') = Cardinality(Alive) + 1
BY AliveFinite, FS_AddElement

LEMMA OneFewer ==
  ASSUME TypeOK, NEW x, x \in Alive, Alive' = Alive \ {x}
  PROVE  Cardinality(Alive') = Cardinality(Alive) - 1
BY AliveFinite, FS_RemoveElement

(* Counting flags. *)
LEMMA Flags == Count(TRUE) = 1 /\ Count(FALSE) = 0
BY DEF Count

LEMMA InitIInv == Init => IInv
<1> SUFFICES ASSUME Init PROVE IInv
  OBVIOUS
<1>1. TypeOK
  <2>1. free \in 0 .. MaxFds /\ others \in 0 .. MaxFds /\ arrived \in 0 .. MaxConns
    BY ServerAssumption DEF Init
  <2>2. conns \in SUBSET Conns /\ kept \in SUBSET Conns
    BY DEF Init
  <2>3. backlog \in Nat /\ connId \in Nat \ {0} /\ turned \in Nat
    BY DEF Init
  <2>4. /\ idlefd \in BOOLEAN /\ spare \in BOOLEAN /\ meddled \in BOOLEAN
        /\ current \in Conns \cup {0}
    BY DEF Init
  <2>5. pc = "loop"
    BY DEF Init
  <2> QED BY <2>1, <2>2, <2>3, <2>4, <2>5 DEF TypeOK
<1>2. Alive = {} /\ Cardinality(Alive) = 0
  <2>1. Alive = {}
    BY DEF Init, Alive
  <2> QED BY <2>1, FS_EmptySet
<1>3. Count(idlefd) = 1 /\ Count(spare) = 0
  BY Zenon, Flags DEF Init
<1>4. Accounted
  BY <1>2, <1>3, ServerAssumption DEF Init, Accounted
<1>5. Counted
  BY <1>3 DEF Init, Counted
<1>6. Numbered
  BY <1>2 DEF Numbered
<1>7. Phases
  BY Zenon DEF Init, Phases
<1>8. SparePhases
  <2>1. others = 0 /\ pc = "loop" /\ idlefd
    BY Zenon DEF Init
  <2> QED BY <2>1 DEF SparePhases
<1> QED
  BY <1>1, <1>4, <1>5, <1>6, <1>7, <1>8 DEF IInv
-----------------------------------------------------------------------------
(* Each step keeps the sum of the descriptors.                             *)

LEMMA AcceptsAccounted ==
  ASSUME IInv, Accepts
  PROVE  Accounted' /\ connId \in Conns
<1>1. connId \in Conns
  BY Flags, ServerAssumption DEF IInv, TypeOK, Counted, Accepts, Conns, Count
<1>2. Alive' = Alive \cup {connId} /\ connId \notin Alive
  <2>1. connId # 0 /\ current = 0
    BY DEF IInv, TypeOK, Phases, Accepts
  <2>2. Alive' = Alive \cup {connId}
    BY <2>1 DEF Alive, Accepts
  <2>3. connId \notin Alive
    BY DEF IInv, Numbered, TypeOK
  <2> QED BY <2>2, <2>3
<1>3. Cardinality(Alive') = Cardinality(Alive) + 1
  BY <1>2, OneMore DEF IInv
<1>4. Count(idlefd)' = Count(idlefd) /\ Count(spare)' = Count(spare)
  BY DEF Accepts, Count
<1>5. Count(idlefd) \in Nat /\ Count(spare) \in Nat
  BY DEF Count
<1>6. Cardinality(Alive) \in Nat
  BY AliveFinite DEF IInv
<1> QED
  BY <1>1, <1>3, <1>4, <1>5, <1>6 DEF IInv, TypeOK, Accounted, Accepts

(* A step that changes who holds connections, and gives one descriptor     *)
(* back exactly if one is not held any more.                               *)
LEMMA ReleaseAccounted ==
  ASSUME IInv, UNCHANGED <<others, idlefd, spare>>, NEW x,
         \/ Alive' = Alive /\ free' = free
         \/ x \in Alive /\ Alive' = Alive \ {x} /\ free' = free + 1
  PROVE  Accounted'
<1>1. Count(idlefd)' = Count(idlefd) /\ Count(spare)' = Count(spare)
  BY DEF Count
<1>2. Count(idlefd) \in Nat /\ Count(spare) \in Nat
  BY DEF Count
<1>3. Cardinality(Alive) \in Nat
  BY AliveFinite DEF IInv
<1>4. Cardinality(Alive') = Cardinality(Alive) + free - free'
  <2>1. CASE Alive' = Alive /\ free' = free
    BY <2>1, <1>3 DEF IInv, TypeOK
  <2>2. CASE x \in Alive /\ Alive' = Alive \ {x} /\ free' = free + 1
    <3>1. Cardinality(Alive') = Cardinality(Alive) - 1
      BY <2>2, OneFewer DEF IInv
    <3> QED BY <3>1, <2>2, <1>3 DEF IInv, TypeOK
  <2> QED BY <2>1, <2>2
<1>5. free' \in Nat
  BY DEF IInv, TypeOK
<1> QED
  BY <1>1, <1>2, <1>3, <1>4, <1>5 DEF IInv, TypeOK, Accounted

(* A step that leaves the connections alone. *)
LEMMA CallAccounted ==
  ASSUME IInv, UNCHANGED <<conns, kept, current>>,
         free' + others' + Count(idlefd)' + Count(spare)'
           = free + others + Count(idlefd) + Count(spare),
         free' \in Int, others' \in Int
  PROVE  Accounted'
<1>1. Alive' = Alive
  BY DEF Alive
<1>2. Cardinality(Alive') = Cardinality(Alive) /\ Cardinality(Alive) \in Nat
  BY <1>1, AliveFinite DEF IInv
<1>3. Count(idlefd)' \in Nat /\ Count(spare)' \in Nat
  BY DEF Count
<1>4. Count(idlefd) \in Nat /\ Count(spare) \in Nat
  BY DEF Count
<1> QED
  BY <1>2, <1>3, <1>4 DEF IInv, TypeOK, Accounted

(* From the sum, that the numbers of descriptors stay in their range. *)
LEMMA FdsInRange ==
  ASSUME Accounted', Alive' \subseteq Conns, free' \in Int, others' \in Int,
         free' >= 0, others' >= 0
  PROVE  free' \in 0 .. MaxFds /\ others' \in 0 .. MaxFds
<1>1. IsFiniteSet(Conns)
  BY FS_Interval, ServerAssumption DEF Conns
<1>2. Cardinality(Alive') \in Nat
  BY <1>1, FS_Subset, FS_CardinalityType
<1>3. Count(idlefd)' \in Nat /\ Count(spare)' \in Nat
  BY DEF Count
<1> QED
  BY <1>2, <1>3, ServerAssumption DEF Accounted
-----------------------------------------------------------------------------
(* Each step keeps the invariant.                                          *)

(* The type invariant and the sum, without the range of the descriptors. *)
LEMMA Typed ==
  ASSUME Accounted',
         free' \in Nat, others' \in Nat, backlog' \in Nat, turned' \in Nat,
         idlefd' \in BOOLEAN, spare' \in BOOLEAN, meddled' \in BOOLEAN,
         connId' \in Nat \ {0},
         conns' \in SUBSET Conns, kept' \in SUBSET Conns, current' \in Conns \cup {0},
         pc' \in {"loop", "callback", "short", "given", "accepted", "closed"},
         arrived' \in 0 .. MaxConns
  PROVE  TypeOK'
<1>1. Alive' \subseteq Conns
  BY DEF Alive
<1>2. free' \in 0 .. MaxFds /\ others' \in 0 .. MaxFds
  BY <1>1, FdsInRange
<1> QED
  BY <1>2 DEF TypeOK

LEMMA AcceptsIInv ==
  ASSUME IInv, Accepts
  PROVE  IInv'
<1>1. Accounted' /\ connId \in Conns
  BY AcceptsAccounted
<1>2. connId \in Nat \ {0} /\ connId + 1 \in Nat \ {0}
  BY DEF IInv, TypeOK
<1>3. free' \in Nat /\ backlog' \in Nat
  BY DEF IInv, TypeOK, Accepts
<1>4. TypeOK'
  BY <1>1, <1>2, <1>3, Typed DEF IInv, TypeOK, Accepts
<1>5. Counted'
  <2>1. Count(spare)' = Count(spare) /\ Count(spare) \in Nat
    BY DEF Accepts, Count
  <2> QED BY <2>1 DEF IInv, TypeOK, Counted, Accepts
<1>6. Numbered'
  <2>1. Alive' \subseteq Alive \cup {connId}
    BY <1>2 DEF Alive, Accepts
  <2>2. Alive \subseteq Nat
    BY DEF Alive, Conns, IInv, TypeOK
  <2> QED BY <2>1, <2>2, <1>2 DEF IInv, Numbered, Accepts
<1>7. Phases'
  BY <1>2 DEF IInv, Phases, Accepts
<1>8. (~meddled => SparePhases)'
  BY DEF IInv, SparePhases, Accepts
<1> QED
  BY <1>1, <1>4, <1>5, <1>6, <1>7, <1>8 DEF IInv

LEMMA ReturnsIInv ==
  ASSUME IInv, Returns
  PROVE  IInv'
<1>1. current # 0 /\ current \in Alive
  BY DEF IInv, Phases, Returns, Alive
<1>2. \/ Alive' = Alive /\ free' = free
      \/ current \in Alive /\ Alive' = Alive \ {current} /\ free' = free + 1
  BY <1>1 DEF Alive, Returns, IInv, TypeOK, Conns
<1>3. Accounted'
  BY <1>2, ReleaseAccounted DEF Returns
<1>4. TypeOK'
  BY <1>3, Typed DEF IInv, TypeOK, Returns
<1>5. Counted'
  BY DEF IInv, Counted, Returns, Count
<1>6. Numbered'
  BY <1>2 DEF IInv, Numbered, Returns
<1>7. Phases'
  BY DEF IInv, Phases, Returns
<1>8. (~meddled => SparePhases)'
  BY DEF IInv, SparePhases, Returns
<1> QED
  BY <1>3, <1>4, <1>5, <1>6, <1>7, <1>8 DEF IInv

(* The calls that turn a connection away. *)
TurningAway == FindsNone \/ GivesIdle \/ AcceptsSpare \/ ClosesSpare \/ ReopensIdle

LEMMA TurningAwayIInv ==
  ASSUME IInv, TurningAway
  PROVE  IInv'
<1>1. free \in Nat /\ others \in Nat /\ backlog \in Nat /\ turned \in Nat
  BY DEF IInv, TypeOK
<1>2. UNCHANGED <<others, meddled, connId, conns, kept, current, arrived>>
  BY DEF TurningAway, FindsNone, GivesIdle, AcceptsSpare, ClosesSpare, ReopensIdle, server
<1>3. Count(idlefd)' \in Nat /\ Count(spare)' \in Nat /\ Count(idlefd) \in Nat /\ Count(spare) \in Nat
  BY DEF Count
<1>4. /\ pc # "accepted" => ~spare
      /\ pc \in {"given", "accepted", "closed"} => ~idlefd
      /\ idlefd \in BOOLEAN /\ spare \in BOOLEAN
  BY Zenon DEF IInv, Phases, TypeOK
<1>5. /\ idlefd' \in BOOLEAN /\ spare' \in BOOLEAN
      /\ pc' \in {"loop", "short", "given", "accepted", "closed"}
  BY <1>4, Zenon DEF TurningAway, FindsNone, GivesIdle, AcceptsSpare, ClosesSpare, ReopensIdle
<1>6. /\ free' \in Nat /\ backlog' \in Nat /\ turned' \in Nat
      /\ free' + Count(idlefd)' + Count(spare)' = free + Count(idlefd) + Count(spare)
      /\ backlog' + Count(spare)' + turned' = backlog + Count(spare) + turned
  <2>1. CASE FindsNone
    <3>1. Count(idlefd)' = Count(idlefd) /\ Count(spare)' = Count(spare)
      BY <2>1 DEF FindsNone, Count
    <3> QED BY <3>1, <2>1, <1>1 DEF FindsNone
  <2>2. CASE GivesIdle
    <3>1. Count(idlefd)' = 0 /\ Count(spare)' = Count(spare)
      BY <2>2, Zenon DEF GivesIdle, Count
    <3>2. CASE idlefd
      <4>1. Count(idlefd) = 1 /\ free' = free + 1
        BY <2>2, <3>2, Zenon DEF GivesIdle, Count
      <4> QED BY <4>1, <3>1, <2>2, <1>1, <1>3 DEF GivesIdle
    <3>3. CASE ~idlefd
      <4>1. Count(idlefd) = 0 /\ free' = free
        BY <2>2, <3>3, Zenon DEF GivesIdle, Count
      <4> QED BY <4>1, <3>1, <2>2, <1>1, <1>3 DEF GivesIdle
    <3> QED BY <3>2, <3>3
  <2>3. CASE AcceptsSpare
    <3>1. Count(idlefd)' = Count(idlefd) /\ Count(spare) = 0 /\ turned' = turned
      BY <2>3, <1>4, Zenon DEF AcceptsSpare, Count
    <3>2. CASE backlog > 0 /\ free > 0
      <4>1. Count(spare)' = 1 /\ free' = free - 1 /\ backlog' = backlog - 1
        BY <2>3, <3>2, Zenon DEF AcceptsSpare, Count
      <4> QED BY <4>1, <3>1, <3>2, <1>1, <1>3
    <3>3. CASE ~(backlog > 0 /\ free > 0)
      <4>1. Count(spare)' = Count(spare) /\ free' = free /\ backlog' = backlog
        BY <2>3, <3>3, Zenon DEF AcceptsSpare, Count
      <4> QED BY <4>1, <3>1, <1>1, <1>3
    <3> QED BY <3>2, <3>3
  <2>4. CASE ClosesSpare
    <3>1. Count(idlefd)' = Count(idlefd) /\ backlog' = backlog
      BY <2>4, Zenon DEF ClosesSpare, Count
    <3>2. CASE spare
      <4>1. /\ Count(spare) = 1 /\ Count(spare)' = 0
            /\ free' = free + 1 /\ turned' = turned + 1
        BY <2>4, <3>2, Zenon DEF ClosesSpare, Count
      <4> QED BY <4>1, <3>1, <1>1, <1>3
    <3>3. CASE ~spare
      <4>1. Count(spare)' = Count(spare) /\ free' = free /\ turned' = turned
        BY <2>4, <3>3, Zenon DEF ClosesSpare, Count
      <4> QED BY <4>1, <3>1, <1>1, <1>3
    <3> QED BY <3>2, <3>3
  <2>5. CASE ReopensIdle
    <3>1. Count(spare)' = Count(spare) /\ backlog' = backlog /\ turned' = turned
      BY <2>5, Zenon DEF ReopensIdle, Count
    <3>2. Count(idlefd) = 0
      BY <2>5, <1>4, Zenon DEF ReopensIdle, Count
    <3>3. CASE free > 0
      <4>1. Count(idlefd)' = 1 /\ free' = free - 1
        BY <2>5, <3>3, Zenon DEF ReopensIdle, Count
      <4> QED BY <4>1, <3>1, <3>2, <3>3, <1>1, <1>3
    <3>4. CASE ~(free > 0)
      <4>1. Count(idlefd)' = Count(idlefd) /\ free' = free
        BY <2>5, <3>4, Zenon DEF ReopensIdle, Count
      <4> QED BY <4>1, <3>1, <1>1, <1>3
    <3> QED BY <3>3, <3>4
  <2> QED BY <2>1, <2>2, <2>3, <2>4, <2>5 DEF TurningAway
<1>7. Accounted'
  BY <1>1, <1>2, <1>6, <1>3, CallAccounted
<1>8. TypeOK'
  BY <1>1, <1>2, <1>5, <1>6, <1>7, Typed DEF IInv, TypeOK
<1>9. Counted'
  BY <1>1, <1>2, <1>6, <1>3 DEF IInv, TypeOK, Counted
<1>10. Numbered'
  BY <1>2 DEF IInv, Numbered, Alive
<1>11. Phases'
  BY <1>4 DEF IInv, Phases, TurningAway, FindsNone, GivesIdle, AcceptsSpare, ClosesSpare,
             ReopensIdle, server
<1>12. (~meddled => SparePhases)'
  BY <1>1, <1>4 DEF IInv, SparePhases, TurningAway, FindsNone, GivesIdle, AcceptsSpare,
                    ClosesSpare, ReopensIdle, server
<1> QED
  BY <1>7, <1>8, <1>9, <1>10, <1>11, <1>12 DEF IInv
(* Where Close() is called, current is 0 or the connection it is called on. *)
LEMMA RemoveConnIInv ==
  ASSUME IInv, NEW c \in conns, RemoveConn(c),
         pc = "loop" \/ current = c,
         UNCHANGED <<backlog, acceptor, otherThreads, connId, kept, current, arrived, turned>>
  PROVE  IInv'
<1>1. c \in Conns /\ c # 0 /\ c \in Alive
  BY DEF IInv, TypeOK, Conns, Alive
<1>2. pc = "loop" => current = 0
  BY DEF IInv, Phases
<1>3. \/ Alive' = Alive /\ free' = free
      \/ c \in Alive /\ Alive' = Alive \ {c} /\ free' = free + 1
  <2>1. CASE c \in kept \/ c = current
    BY <2>1, <1>1 DEF Alive, RemoveConn
  <2>2. CASE ~(c \in kept \/ c = current)
    BY <2>2, <1>1, <1>2 DEF Alive, RemoveConn
  <2> QED BY <2>1, <2>2
<1>4. Accounted'
  BY <1>3, ReleaseAccounted DEF acceptor
<1>5. free' \in Nat /\ conns' \in SUBSET Conns
  BY DEF RemoveConn, IInv, TypeOK
<1>6. TypeOK'
  BY <1>4, <1>5, Typed DEF IInv, TypeOK, acceptor
<1>7. Counted'
  BY DEF IInv, Counted, acceptor, Count
<1>8. Numbered'
  BY <1>3 DEF IInv, Numbered
<1>9. Phases'
  BY DEF IInv, Phases, acceptor
<1>10. (~meddled => SparePhases)'
  <2>1. pc \in {"loop", "callback"}
    BY DEF IInv, Phases, TypeOK, Conns
  <2> QED BY <2>1 DEF IInv, SparePhases, acceptor
<1> QED
  BY <1>4, <1>6, <1>7, <1>8, <1>9, <1>10 DEF IInv

LEMMA KeepsIInv ==
  ASSUME IInv, NEW c \in Conns, Keeps(c)
  PROVE  IInv'
<1>1. Alive' = Alive
  BY DEF Alive, Keeps, InCallback, Conns
<1>2. Accounted'
  BY <1>1, ReleaseAccounted DEF Keeps, acceptor
<1>3. TypeOK'
  BY <1>2, Typed DEF IInv, TypeOK, Keeps, acceptor
<1>4. Counted'
  BY DEF IInv, Counted, Keeps, acceptor, Count
<1>5. Numbered'
  BY <1>1 DEF IInv, Numbered, Keeps
<1>6. Phases' /\ (~meddled => SparePhases)'
  BY DEF IInv, Phases, SparePhases, Keeps, acceptor
<1> QED
  BY <1>2, <1>3, <1>4, <1>5, <1>6 DEF IInv

LEMMA ReleasesIInv ==
  ASSUME IInv, NEW c \in Conns, Releases(c)
  PROVE  IInv'
<1>1. c # 0 /\ c \in Alive /\ current = 0
  BY DEF Alive, Releases, Conns, IInv, Phases
<1>2. \/ Alive' = Alive /\ free' = free
      \/ c \in Alive /\ Alive' = Alive \ {c} /\ free' = free + 1
  <2>1. CASE c \in conns
    BY <2>1, <1>1 DEF Alive, Releases
  <2>2. CASE c \notin conns
    BY <2>2, <1>1 DEF Alive, Releases
  <2> QED BY <2>1, <2>2
<1>3. Accounted'
  BY <1>2, ReleaseAccounted DEF Releases, acceptor
<1>4. free' \in Nat /\ kept' \in SUBSET Conns
  BY DEF Releases, IInv, TypeOK
<1>5. TypeOK'
  BY <1>3, <1>4, Typed DEF IInv, TypeOK, Releases, acceptor
<1>6. Counted'
  BY DEF IInv, Counted, Releases, acceptor, Count
<1>7. Numbered'
  BY <1>2 DEF IInv, Numbered, Releases
<1>8. Phases'
  BY DEF IInv, Phases, Releases, acceptor
<1>9. (~meddled => SparePhases)'
  BY DEF IInv, SparePhases, Releases, acceptor
<1> QED
  BY <1>3, <1>5, <1>6, <1>7, <1>8, <1>9 DEF IInv

LEMMA ArrivesIInv ==
  ASSUME IInv, Arrives
  PROVE  IInv'
<1>1. Accounted'
  BY CallAccounted DEF Arrives, IInv, TypeOK, acceptor, server, Count
<1>2. TypeOK'
  <2>1. backlog' \in Nat /\ arrived' \in 0 .. MaxConns
    BY ServerAssumption DEF IInv, TypeOK, Arrives
  <2>2. free' \in Nat /\ others' \in Nat /\ turned' \in Nat
    BY DEF IInv, TypeOK, Arrives
  <2> QED
    BY <1>1, <2>1, <2>2, Typed DEF IInv, TypeOK, Arrives, acceptor, server
<1>3. Counted'
  <2>1. Count(spare)' = Count(spare) /\ Count(spare) \in Nat
    BY DEF Arrives, acceptor, Count
  <2> QED BY <2>1 DEF IInv, TypeOK, Counted, Arrives, server
<1>4. Numbered' /\ Phases' /\ (~meddled => SparePhases)'
  BY DEF IInv, TypeOK, Numbered, Alive, Phases, SparePhases, Arrives, acceptor, server
<1> QED
  BY <1>1, <1>2, <1>3, <1>4 DEF IInv

LEMMA OthersIInv ==
  ASSUME IInv, OtherOpens \/ OtherCloses
  PROVE  IInv'
<1>1. /\ UNCHANGED <<backlog, acceptor, server, arrived, turned>>
      /\ free' \in Nat /\ others' \in Nat /\ free' + others' = free + others
  BY DEF OtherOpens, OtherCloses, IInv, TypeOK
<1>0. meddled' \in BOOLEAN
  BY Zenon DEF OtherOpens, OtherCloses, IInv, TypeOK
<1>2. Count(idlefd)' = Count(idlefd) /\ Count(spare)' = Count(spare)
  BY <1>1 DEF acceptor, Count
<1>3. Count(idlefd) \in Nat /\ Count(spare) \in Nat
  BY DEF Count
<1>4. Accounted'
  <2>1. free \in Nat /\ others \in Nat
    BY DEF IInv, TypeOK
  <2>2. UNCHANGED <<conns, kept, current>>
    BY <1>1 DEF server
  <2>3. free' + others' + Count(idlefd)' + Count(spare)'
          = free + others + Count(idlefd) + Count(spare)
    BY <1>1, <1>2, <1>3, <2>1
  <2>4. free' \in Int /\ others' \in Int
    BY <1>1
  <2> QED BY <2>2, <2>3, <2>4, CallAccounted
<1>5. TypeOK'
  BY <1>0, <1>1, <1>4, Typed DEF IInv, TypeOK, acceptor, server
<1>6. Counted' /\ Numbered' /\ Phases'
  BY <1>1, <1>2 DEF IInv, Counted, Numbered, Alive, Phases, acceptor, server
<1>7. meddled \/ others = 0
  BY DEF IInv, SparePhases
<1>8. meddled'
  BY <1>7 DEF OtherOpens, OtherCloses
<1> QED
  BY <1>4, <1>5, <1>6, <1>8 DEF IInv

LEMMA NextIInv == IInv /\ [Next]_vars => IInv'
<1> SUFFICES ASSUME IInv, [Next]_vars PROVE IInv'
  OBVIOUS
<1>1. CASE Accepts
  BY <1>1, AcceptsIInv
<1>2. CASE Returns
  BY <1>2, ReturnsIInv
<1>3. CASE TurningAway
  BY <1>3, TurningAwayIInv
<1>4. ASSUME NEW c \in Conns, Ends(c) PROVE IInv'
  BY <1>4, RemoveConnIInv DEF Ends
<1>5. ASSUME NEW c \in Conns, Closes(c) PROVE IInv'
  BY <1>5, RemoveConnIInv DEF Closes, InCallback
<1>6. ASSUME NEW c \in Conns, Keeps(c) PROVE IInv'
  BY <1>6, KeepsIInv
<1>7. ASSUME NEW c \in Conns, Releases(c) PROVE IInv'
  BY <1>7, ReleasesIInv
<1>8. CASE Arrives
  BY <1>8, ArrivesIInv
<1>9. CASE OtherOpens \/ OtherCloses
  BY <1>9, OthersIInv
<1>10. CASE UNCHANGED vars
  <2> USE <1>10
  <2>1. Accounted'
    BY DEF IInv, Accounted, Alive, Count, vars, acceptor, server
  <2>2. TypeOK' /\ Counted' /\ Numbered' /\ Phases' /\ (~meddled => SparePhases)'
    BY DEF IInv, TypeOK, Counted, Numbered, Alive, Count, Phases, SparePhases, vars,
           acceptor, server
  <2> QED BY <2>1, <2>2 DEF IInv
<1> QED
  BY <1>1, <1>2, <1>3, <1>4, <1>5, <1>6, <1>7, <1>8, <1>9, <1>10
     DEF Next, HandleRead, TurningAway
-----------------------------------------------------------------------------
(* The theorems.                                                           *)

(* The inductive invariant holds. *)
THEOREM ServerInvariant == Spec => []IInv
BY InitIInv, NextIInv, PTL DEF Spec

(* Every variable keeps its type: no count of descriptors goes below zero  *)
(* or above the limit, and no connection is numbered twice.                *)
THEOREM ServerTypeCorrect == Spec => []TypeOK
<1>1. IInv => TypeOK
  BY DEF IInv
<1> QED BY <1>1, ServerInvariant, PTL

(* Every descriptor is accounted for, with or without other threads. *)
THEOREM ServerAccounted == Spec => []Accounted
<1>1. IInv => Accounted
  BY DEF IInv
<1> QED BY <1>1, ServerInvariant, PTL

(* While no other thread has opened a descriptor the acceptor gets its     *)
(* spare one back whenever it has turned a connection away.                *)
THEOREM ServerIdleKept == Spec => []IdleKept
<1>1. IInv => IdleKept
  BY DEF IInv, SparePhases, IdleKept
<1> QED BY <1>1, ServerInvariant, PTL

(* While no other thread has opened a descriptor a connection is turned    *)
(* away only when the others have all but the spare one.                   *)
THEOREM ServerTurnsAwayOnlyWhenShort == Spec => TurnsAwayOnlyWhenShort
<1>1. ASSUME IInv, [Next]_vars, turned' # turned, ~meddled
      PROVE  Cardinality(Alive) = MaxFds - 1
  <2>1. pc = "accepted"
    BY <1>1 DEF Next, HandleRead, Accepts, Returns, FindsNone, GivesIdle, AcceptsSpare,
                ClosesSpare, ReopensIdle, Ends, Closes, Keeps, Releases, Arrives,
                OtherOpens, OtherCloses, vars
  <2>2. free = 0 /\ others = 0 /\ Count(spare) = 1 /\ Count(idlefd) = 0
    BY <1>1, <2>1, Zenon DEF IInv, SparePhases, Count
  <2>3. Cardinality(Alive) \in Nat
    BY <1>1, AliveFinite DEF IInv
  <2> QED BY <1>1, <2>2, <2>3, ServerAssumption DEF IInv, Accounted
<1>2. IInv /\ [Next]_vars =>
        [turned' # turned /\ ~meddled => Cardinality(Alive) = MaxFds - 1]_vars
  BY <1>1
<1> QED BY <1>2, ServerInvariant, PTL DEF Spec, TurnsAwayOnlyWhenShort
=============================================================================
