------------------------- MODULE TcpConnection_proofs -------------------------
(***************************************************************************)
(* Proofs about TcpConnection.tla.                                         *)
(***************************************************************************)
EXTENDS TcpConnection, SequenceTheorems, TLAPS

LEMMA WordIsNat == ASSUME NEW n \in Int PROVE Word(n) \in Nat
BY ConnectionAssumption DEF Word

LEMMA RemainderIsSeq ==
  ASSUME NEW data \in Seq(Byte), NEW nwrite \in Int
  PROVE  Remainder(data, nwrite) \in Seq(Byte)
<1>1. Len(data) \in Nat /\ \A i \in 1 .. Len(data) : data[i] \in Byte
  BY LenProperties, ElementOfSeq
<1>2. PICK n \in Nat : n = Word(Len(data) - nwrite)
  BY <1>1, WordIsNat
<1>3. ASSUME NEW i \in 1 .. n
      PROVE  (LET at == Word(nwrite + i - 1)
              IN  IF at < Len(data) THEN data[at + 1] ELSE Stray) \in Byte
  <2>1. PICK at \in Nat : at = Word(nwrite + i - 1)
    BY WordIsNat
  <2>2. CASE at < Len(data)
    <3>1. at + 1 \in 1 .. Len(data)
      BY <1>1, <2>2
    <3>2. QED
      BY <1>1, <2>1, <2>2, <3>1
  <2>3. CASE ~(at < Len(data))
    BY <2>1, <2>3 DEF Stray, Byte
  <2>4. QED
    BY <2>2, <2>3
<1>4. Remainder(data, nwrite) \in [1 .. n -> Byte]
  BY <1>2, <1>3 DEF Remainder
<1>5. QED
  BY <1>4

LEMMA Concat ==
  ASSUME NEW s \in Seq(Byte), NEW t \in Seq(Byte)
  PROVE  /\ s \o t \in Seq(Byte)
         /\ Len(s \o t) = Len(s) + Len(t)
         /\ s \o t = <<>> <=> s = <<>> /\ t = <<>>
<1>1. s \o t \in Seq(Byte) /\ Len(s \o t) = Len(s) + Len(t)
  BY ConcatProperties
<1>2. Len(s) \in Nat /\ Len(t) \in Nat
  BY LenProperties
<1>3. ASSUME NEW r \in Seq(Byte) PROVE r = <<>> <=> Len(r) = 0
  BY EmptySeq
<1>4. QED
  BY <1>1, <1>2, <1>3

LEMMA Part ==
  ASSUME NEW s \in Seq(Byte), NEW m \in Nat, NEW n \in Nat, m <= n, n <= Len(s)
  PROVE  /\ SubSeq(s, m + 1, n) \in Seq(Byte)
         /\ Len(SubSeq(s, m + 1, n)) = n - m
<1>1. \A i \in m + 1 .. n : s[i] \in Byte
  BY ElementOfSeq, LenProperties
<1>2. QED
  BY <1>1, SubSeqProperties

LEMMA NewBytesIsSeq ==
  ASSUME nsent \in Nat, NEW n \in Nat
  PROVE  NewBytes(n) \in Seq(Byte) /\ Len(NewBytes(n)) = n
<1>1. NewBytes(n) \in [1 .. n -> Byte]
  BY DEF NewBytes, Byte
<1>2. QED
  BY <1>1

LEMMA QueueOutTypes ==
  ASSUME TypeOK, NEW bytes \in Seq(Byte), QueueOut(bytes)
  PROVE  out' \in Seq(Byte) /\ events' \subseteq {"IN", "PRI", "OUT"}
<1>1. out' \in Seq(Byte)
  BY Concat DEF TypeOK, QueueOut
<1>2. events' \subseteq {"IN", "PRI", "OUT"}
  BY DEF TypeOK, QueueOut
<1>3. QED
  BY <1>1, <1>2

(* A write of at most n bytes leaves the send queue within its bound. *)
LEMMA TransferTypes ==
  ASSUME TypeOK, NEW bytes \in Seq(Byte), NEW m \in Nat, m <= Len(bytes),
         NEW n \in RoomFor(Len(bytes) - m),
         sndq' = sndq \o SubSeq(bytes, m + 1, m + n)
  PROVE  /\ sndq' \in Seq(Byte) /\ Len(sndq') <= SendCap
         /\ n \in Nat /\ m + n <= Len(bytes)
<1>1. /\ Len(bytes) \in Nat /\ Len(sndq) \in Nat /\ sndq \in Seq(Byte)
      /\ Len(sndq) <= SendCap
  BY LenProperties DEF TypeOK
<1>2. n \in Nat /\ m + n <= Len(bytes) /\ n <= SendCap - Len(sndq)
  BY <1>1, ConnectionAssumption DEF RoomFor
<1>3. PICK part : part = SubSeq(bytes, m + 1, m + n)
  OBVIOUS
<1>4. part \in Seq(Byte) /\ Len(part) = n
  <2>1. m + n \in Nat /\ m <= m + n /\ m + n - m = n
    BY <1>2
  <2>2. QED
    BY <1>2, <1>3, <2>1, Part
<1>5. sndq' \in Seq(Byte) /\ Len(sndq') = Len(sndq) + n
  <2>1. sndq' = sndq \o part
    BY <1>3
  <2>2. sndq \o part \in Seq(Byte) /\ Len(sndq \o part) = Len(sndq) + Len(part)
    BY <1>1, <1>4, Concat
  <2>3. QED
    BY <1>4, <2>1, <2>2
<1>6. QED
  BY <1>1, <1>2, <1>5, ConnectionAssumption

LEMMA TypeInit == Init => TypeOK
<1> SUFFICES ASSUME Init PROVE TypeOK
  OBVIOUS
<1>1. <<>> \in Seq(Byte) /\ Len(<<>>) = 0
  BY EmptySeq
<1>2. call = [data |-> <<>>, done |-> 0, back |-> "idle"]
  BY DEF Init, NoCall
<1>3. /\ call \in [data : Seq(Byte), done : Nat,
                  back : {"connection", "idle", "batch", "message", "close"}]
      /\ call.done <= Len(call.data)
  BY <1>1, <1>2
<1>4. Len(sndq) <= SendCap
  BY <1>1, ConnectionAssumption DEF Init
<1>5. rcvq = 0 /\ mark \in NoMark .. rcvq
  BY DEF Init, NoMark
<1>6. /\ state = "CONNECTING" /\ events = {} /\ out = <<>> /\ inb = 0 /\ sndq = <<>>
      /\ fin = FALSE /\ peerFin = FALSE /\ rst = FALSE /\ gotFin = FALSE /\ err = NoError
      /\ got = <<>> /\ pc = "start" /\ back = "idle" /\ trig = {}
      /\ nsent = 0 /\ closes = 0 /\ asked = 0 /\ proc = "up"
  BY DEF Init
<1>7. QED
  BY <1>1, <1>3, <1>4, <1>5, <1>6 DEF TypeOK

LEMMA TypeSend == ASSUME TypeOK, NEW n \in 1 .. MaxLen, Send(n) PROVE TypeOK'
<1> USE DEF TypeOK, object, socket, peer, loop
<1>1. PICK data \in Seq(Byte) : data = NewBytes(n) /\ Len(data) = n
  BY NewBytesIsSeq, ConnectionAssumption
<1>2. nsent' \in Nat /\ UNCHANGED <<state, inb, peer, closes, asked>> /\ pc \in Contexts \cup {"idle", "batch"}
  BY ConnectionAssumption DEF Send, Context
<1>9. Remainder(data, WordSize - 1) \in Seq(Byte)
  <2>1. WordSize - 1 \in Int
    BY ConnectionAssumption
  <2>2. QED
    BY <1>1, <2>1, RemainderIsSeq
<1>3. CASE SendQueued(data)
  <2>1. out' \in Seq(Byte) /\ events' \subseteq {"IN", "PRI", "OUT"}
    BY <1>1, <1>3, QueueOutTypes DEF SendQueued
  <2>2. QED
    BY <1>2, <1>3, <2>1 DEF SendQueued
<1>4. CASE SendDirect(data)
  <2>1. PICK k \in RoomFor(Len(data)) :
          sndq' = sndq \o SubSeq(data, 1, k) /\ QueueOut(Remainder(data, k))
    BY <1>4 DEF SendDirect
  <2>2. /\ Len(data) - 0 = Len(data) /\ 0 + k = k /\ 0 + 1 = 1
        /\ 0 <= Len(data) /\ k \in Int
    BY <1>1, LenProperties, ConnectionAssumption DEF RoomFor
  <2>3. sndq' \in Seq(Byte) /\ Len(sndq') <= SendCap
    BY <1>1, <2>1, <2>2, TransferTypes
  <2>4. out' \in Seq(Byte) /\ events' \subseteq {"IN", "PRI", "OUT"}
    BY <1>1, <2>1, <2>2, RemainderIsSeq, QueueOutTypes
  <2>5. QED
    BY <1>2, <1>4, <2>3, <2>4 DEF SendDirect
<1>5. CASE SendAgain(data)
  <2>1. out' \in Seq(Byte) /\ events' \subseteq {"IN", "PRI", "OUT"}
    BY <1>5, <1>9, QueueOutTypes DEF SendAgain
  <2>2. QED
    BY <1>2, <1>5, <2>1 DEF SendAgain
<1>6. CASE SendRefused(data)
  <2>1. out' \in Seq(Byte) /\ events' \subseteq {"IN", "PRI", "OUT"}
    <3>1. CASE QueueOut(Remainder(data, WordSize - 1))
      BY <1>9, <3>1, QueueOutTypes
    <3>2. CASE UNCHANGED <<out, events>>
      BY <3>2
    <3>3. QED
      BY <1>6, <3>1, <3>2 DEF SendRefused
  <2>2. QED
    BY <1>2, <1>6, <2>1 DEF SendRefused, RefuseWrite, NoError
<1>7. CASE SendBlocks(data)
  <2>1. pc \in {"connection", "idle", "batch", "message", "close"}
    BY <1>2 DEF Contexts, Context
  <2>2. 0 <= Len(data)
    BY <1>1, ConnectionAssumption
  <2>3. QED
    BY <1>1, <1>2, <1>7, <2>1, <2>2 DEF SendBlocks
<1>8. QED
  BY <1>1, <1>3, <1>4, <1>5, <1>6, <1>7 DEF Send

LEMMA TypeWriteBytes == ASSUME TypeOK, WriteBytes PROVE TypeOK'
<1>1. PICK n \in RoomFor(Len(out)) : /\ sndq' = sndq \o SubSeq(out, 1, n)
                                     /\ out' = SubSeq(out, n + 1, Len(out))
  BY DEF WriteBytes, LastByteWritten
<1>2. out \in Seq(Byte) /\ Len(out) \in Nat
  BY LenProperties DEF TypeOK
<1>3. /\ sndq' \in Seq(Byte) /\ Len(sndq') <= SendCap
      /\ n \in Nat /\ n <= Len(out)
  <2>1. n \in Int
    BY DEF RoomFor
  <2>2. 0 \in Nat /\ 0 <= Len(out) /\ Len(out) - 0 = Len(out) /\ 0 + 1 = 1 /\ 0 + n = n
    BY <1>2, <2>1
  <2>3. QED
    BY <1>1, <1>2, <2>2, TransferTypes
<1>4. out' \in Seq(Byte)
  BY <1>1, <1>2, <1>3, Part
<1>5. events' \subseteq {"IN", "PRI", "OUT"}
  BY DEF WriteBytes, LastByteWritten, TypeOK
<1>6. fin' \in BOOLEAN /\ proc' \in {"up", "abort", "sigpipe"}
  BY DEF WriteBytes, LastByteWritten, ShutdownWrite, TypeOK
<1>7. QED
  BY <1>3, <1>4, <1>5, <1>6 DEF WriteBytes, LastByteWritten, HandleEventWrites, TypeOK, peer

LEMMA TypeBlockedTransfers == ASSUME TypeOK, BlockedTransfers PROVE TypeOK'
<1>1. PICK n \in RoomFor(Len(call.data) - call.done) :
        /\ sndq' = sndq \o SubSeq(call.data, call.done + 1, call.done + n)
        /\ call' = [call EXCEPT !.done = @ + n]
  BY DEF BlockedTransfers
<1>2. /\ call.data \in Seq(Byte) /\ call.done \in Nat /\ call.done <= Len(call.data)
      /\ Len(call.data) \in Nat
  BY LenProperties DEF TypeOK
<1>3. /\ sndq' \in Seq(Byte) /\ Len(sndq') <= SendCap
      /\ n \in Nat /\ call.done + n <= Len(call.data)
  BY <1>1, <1>2, TransferTypes
<1>4. call' = [data |-> call.data, done |-> call.done + n, back |-> call.back]
  BY <1>1 DEF TypeOK
<1>5. /\ call' \in [data : Seq(Byte), done : Nat,
                   back : {"connection", "idle", "batch", "message", "close"}]
      /\ call'.done <= Len(call'.data)
  BY <1>2, <1>3, <1>4 DEF TypeOK
<1>6. UNCHANGED <<state, events, out, inb, fin, rcvq, mark, peerFin, rst, err, got,
                  gotFin, pc, trig, back, nsent, closes, asked, proc>>
  BY DEF BlockedTransfers, object, peer
<1>7. QED
  BY <1>3, <1>5, <1>6 DEF TypeOK

LEMMA TypeBlockedReturns == ASSUME TypeOK, BlockedReturns \/ BlockedFails PROVE TypeOK'
<1>1. PICK rem1, rem2 : /\ rem1 = Remainder(call.data, call.done)
                        /\ rem2 = Remainder(call.data, WordSize - 1)
  OBVIOUS
<1>2. rem1 \in Seq(Byte) /\ rem2 \in Seq(Byte)
  <2>1. call.done \in Int /\ WordSize - 1 \in Int /\ call.data \in Seq(Byte)
    BY ConnectionAssumption DEF TypeOK
  <2>2. QED
    BY <1>1, <2>1, RemainderIsSeq
<1>3. QueueOut(rem1) \/ QueueOut(rem2) \/ UNCHANGED <<out, events>>
  BY <1>1 DEF BlockedReturns, BlockedFails
<1>4. out' \in Seq(Byte) /\ events' \subseteq {"IN", "PRI", "OUT"}
  <2>1. CASE UNCHANGED <<out, events>>
    BY <2>1 DEF TypeOK
  <2>2. QED
    BY <1>2, <1>3, <2>1, QueueOutTypes
<1>5. /\ call' \in [data : Seq(Byte), done : Nat,
                   back : {"connection", "idle", "batch", "message", "close"}]
      /\ call'.done <= Len(call'.data)
  <2>1. call' = [data |-> <<>>, done |-> 0, back |-> "idle"]
    BY DEF BlockedReturns, BlockedFails, NoCall
  <2>2. QED
    BY <2>1, EmptySeq
<1>6. pc' \in {"connection", "idle", "batch", "message", "close"}
  BY DEF BlockedReturns, BlockedFails, TypeOK
<1>7. err' \in {NoError, "ECONNRESET", "EPIPE"} /\ proc' \in {"up", "abort", "sigpipe"}
  BY DEF BlockedReturns, BlockedFails, TypeOK, RefuseWrite, socket
<1>8. UNCHANGED <<state, inb, sndq, fin, rcvq, mark, peerFin, rst, got, gotFin, trig,
                  back, nsent, closes, asked>>
  BY DEF BlockedReturns, BlockedFails, socket, peer
<1>9. QED
  BY <1>4, <1>5, <1>6, <1>7, <1>8 DEF TypeOK

LEMMA TypePeer == ASSUME TypeOK, Peer PROVE TypeOK'
<1>1. CASE PeerReceives
  <2>1. sndq \in Seq(Byte) /\ sndq # <<>> /\ got \in Seq(Byte)
    BY <1>1 DEF PeerReceives, TypeOK
  <2>2. Head(sndq) \in Byte /\ Tail(sndq) \in Seq(Byte) /\ Len(Tail(sndq)) = Len(sndq) - 1
    BY <2>1, HeadTailProperties
  <2>3. Append(got, Head(sndq)) \in Seq(Byte)
    BY <2>1, <2>2, AppendProperties
  <2>4. Len(sndq') <= SendCap
    BY <1>1, <2>1, <2>2, LenProperties, ConnectionAssumption DEF PeerReceives, TypeOK
  <2>5. QED
    BY <1>1, <2>2, <2>3, <2>4 DEF PeerReceives, TypeOK, object, loop
<1>2. CASE PeerReceivesFin
  BY <1>2 DEF PeerReceivesFin, TypeOK, object, socket, loop
<1>3. CASE PeerSends \/ PeerSendsUrgent
  <2>1. rcvq \in Nat /\ mark \in Int /\ -1 <= mark /\ mark <= rcvq
    BY DEF TypeOK, NoMark
  <2>2. (rcvq' = rcvq + 1 /\ mark' = mark) \/ (rcvq' = rcvq /\ mark' = rcvq)
    BY <1>3 DEF PeerSends, PeerSendsUrgent
  <2>3. rcvq' \in Nat /\ mark' \in NoMark .. rcvq'
    BY <2>1, <2>2 DEF NoMark
  <2>4. UNCHANGED <<state, events, out, inb, sndq, fin, peerFin, rst, err, got, gotFin,
                    pc, trig, back, call, nsent, closes, asked, proc>>
    BY <1>3 DEF PeerSends, PeerSendsUrgent, object, peer, loop
  <2>5. QED
    BY <2>3, <2>4 DEF TypeOK
<1>4. CASE PeerFinishes
  BY <1>4 DEF PeerFinishes, TypeOK, object, peer, loop
<1>5. CASE PeerResets
  <2>1. <<>> \in Seq(Byte) /\ Len(<<>>) <= SendCap
    BY EmptySeq, ConnectionAssumption
  <2>2. sndq' \in Seq(Byte) /\ Len(sndq') <= SendCap
    BY <1>5, <2>1 DEF PeerResets
  <2>3. err' \in {NoError, "ECONNRESET", "EPIPE"} /\ rst' \in BOOLEAN
    BY <1>5 DEF PeerResets
  <2>4. QED
    BY <1>5, <2>2, <2>3 DEF PeerResets, TypeOK, object, peer, loop
<1>6. QED
  BY <1>1, <1>2, <1>3, <1>4, <1>5 DEF Peer

LEMMA TypeStep == TypeOK /\ [Next]_vars => TypeOK'
<1> SUFFICES ASSUME TypeOK, [Next]_vars PROVE TypeOK'
  OBVIOUS
<1>1. ASSUME NEW n \in 1 .. MaxLen, Send(n) PROVE TypeOK'
  BY <1>1, TypeSend
<1>2. CASE ShutDown
  <2>1. fin' \in BOOLEAN /\ proc' \in {"up", "abort", "sigpipe"}
    BY <1>2 DEF ShutDown, ShutDownWrite, ShutdownWrite, TypeOK
  <2>2. QED
    BY <1>2, <2>1 DEF ShutDown, ShutDownWrite, TypeOK, peer, loop
<1>3. CASE Close
  <2>1. pc \in {"connection", "idle", "batch", "message"}
    BY <1>3, ConnectionAssumption DEF Close, Context, Contexts, TypeOK
  <2>2. QED
    BY <1>3, <2>1 DEF Close, BeginClose, TypeOK, socket, peer
<1>4. CASE Start
  BY <1>4 DEF Start, TypeOK, socket, peer
<1>5. CASE ConnectionCallbackReturns
  BY <1>5 DEF ConnectionCallbackReturns, TypeOK, object, socket, peer
<1>6. CASE Poll
  BY <1>6 DEF Poll, TypeOK, object, socket, peer, Ready
<1>7. CASE NothingToRead
  BY <1>7 DEF NothingToRead, TypeOK, object, socket, peer
<1>8. CASE ReadBytes
  <2>1. inb' \in Nat /\ rcvq' \in Nat /\ mark' \in NoMark .. rcvq'
    BY <1>8 DEF ReadBytes, InOneRead, TypeOK, NoMark
  <2>2. QED
    BY <1>8, <2>1 DEF ReadBytes, TypeOK, peer
<1>9. CASE ReadError
  BY <1>9 DEF ReadError, TypeOK, object, peer, NoError, NoMark
<1>10. CASE ReadEof
  BY <1>10 DEF ReadEof, TypeOK, peer, BeginClose, NoMark
<1>11. CASE MessageCallbackReturns
  BY <1>11 DEF MessageCallbackReturns, TypeOK, object, socket, peer
<1>12. CASE CloseCallbackReturns
  BY <1>12 DEF CloseCallbackReturns, TypeOK, object, socket, peer
<1>13. CASE NothingToWrite
  BY <1>13 DEF NothingToWrite, TypeOK, object, socket, peer
<1>14. CASE WriteBytes
  BY <1>14, TypeWriteBytes
<1>15. CASE WriteRefusedAgain
  BY <1>15 DEF WriteRefusedAgain, HandleEventWrites, RefuseWrite, TypeOK, object, peer
<1>16. CASE BlockedTransfers
  BY <1>16, TypeBlockedTransfers
<1>17. CASE BlockedReturns \/ BlockedFails
  BY <1>17, TypeBlockedReturns
<1>18. CASE Peer
  BY <1>18, TypePeer
<1>19. CASE UNCHANGED vars
  BY <1>19 DEF vars, TypeOK, object, socket, peer, loop
<1>20. CASE ReadAgain \/ ReadBlocks
  <2>1. /\ mark' = -1 /\ rcvq' = rcvq /\ rcvq \in Nat
        /\ pc' \in {"write", "reading"}
    BY <1>20 DEF ReadAgain, ReadBlocks, TypeOK, NoMark
  <2>2. mark' \in NoMark .. rcvq'
    BY <2>1 DEF NoMark
  <2>3. UNCHANGED <<state, events, out, inb, sndq, fin, rcvq, peerFin, rst, err, got, gotFin,
                    trig, back, call, nsent, closes, asked, proc>>
    BY <1>20 DEF ReadAgain, ReadBlocks, object, peer
  <2>4. QED
    BY <2>1, <2>2, <2>3 DEF TypeOK
<1>21. QED
  BY <1>1, <1>2, <1>3, <1>4, <1>5, <1>6, <1>7, <1>8, <1>9, <1>10, <1>11, <1>12, <1>13, <1>14, <1>15, <1>16, <1>17, <1>18, <1>19, <1>20 DEF Next, Application, Loop
-----------------------------------------------------------------------------
(* The inductive invariant.  WriteInterest speaks of the open connection   *)
(* only; its parts below also cover what callbacks leave behind between    *)
(* DisableAll and the return of the close callback, and the events that    *)
(* HandleEvent has still to look at.                                       *)

(* Whoever waits for EPOLLOUT has bytes to write, open or not. *)
InterestIsOwed == "OUT" \in events => out # <<>>

(* A shutdown put off is owed to bytes in the output buffer. *)
PutOff == state = "DIS_CONNECTING" => fin \/ rst \/ out # <<>>

StartsOnce == pc = "start" => state = "CONNECTING"

(* Between epoll_wait's reporting EPOLLOUT and HandleWrite no send writes  *)
(* to the socket directly, so the room reported is still there.            *)
ReportedWrite ==
  "OUT" \in trig =>
    out # <<>> /\ (Len(sndq) < SendCap \/ WriteRefused) /\ pc # "blocked"

(* The loop has an event of this connection whose read part is to come. *)
BeforeRead ==
  \/ pc = "batch"
  \/ pc = "close" /\ back = "batch"
  \/ pc = "blocked" /\ (call.back = "batch" \/ (call.back = "close" /\ back = "batch"))

ReportedRead ==
  /\ BeforeRead /\ trig \cap {"IN", "HUP"} # {} => rcvq > 0 \/ peerFin \/ rst
  /\ BeforeRead /\ "PRI" \in trig => mark # NoMark

(* A readv that holds the loop found what EPOLLPRI alone had reported. *)
HeldByUrgent == pc = "reading" => "PRI" \in trig /\ trig \cap {"IN", "HUP"} = {}

(* The application neither sends after ShutDown nor shuts down while the   *)
(* connection is being closed.                                             *)
Disciplined == ~SendsLate /\ "close" \notin ShutDownIn

FinIsLast ==
  Disciplined =>
    /\ fin => state \in {"DIS_CONNECTING", "DIS_CONNECTED"}
    /\ fin /\ ~rst => out = <<>> /\ pc # "blocked"
    /\ DiesOnlyOfReset

IInv ==
  /\ TypeOK
  /\ WriteInterest
  /\ InterestIsOwed
  /\ PutOff
  /\ StartsOnce
  /\ ReportedWrite
  /\ ReportedRead
  /\ HeldByUrgent
  /\ FinIsLast
  /\ BlockingNeverQueues

LEMMA QueueOutEffect ==
  ASSUME TypeOK, NEW bytes \in Seq(Byte), QueueOut(bytes)
  PROVE  /\ out' = <<>> <=> out = <<>> /\ bytes = <<>>
         /\ "OUT" \in events' <=> "OUT" \in events \/ bytes # <<>>
         /\ "IN" \in events' <=> "IN" \in events
<1>1. out' = <<>> <=> out = <<>> /\ bytes = <<>>
  BY Concat DEF TypeOK, QueueOut
<1>2. QED
  BY <1>1 DEF QueueOut

LEMMA NothingRemains ==
  ASSUME NEW data \in Seq(Byte) PROVE Remainder(data, Len(data)) = <<>>
<1>1. Word(Len(data) - Len(data)) = 0
  BY LenProperties, ConnectionAssumption DEF Word
<1>2. Remainder(data, Len(data)) \in [1 .. 0 -> Byte]
  BY <1>1 DEF Remainder
<1>3. QED
  BY <1>2

LEMMA InvInit == Init => IInv
<1> SUFFICES ASSUME Init PROVE IInv
  OBVIOUS
<1>1. TypeOK
  BY TypeInit
<1>2. QED
  BY <1>1 DEF Init, IInv, WriteInterest, InterestIsOwed, PutOff, StartsOnce, Open,
     ReportedWrite, ReportedRead, HeldByUrgent, BeforeRead, FinIsLast, DiesOnlyOfReset, BlockingNeverQueues

(* The parts of the invariant besides TypeOK, for the state after a step. *)
Rest ==
  /\ WriteInterest
  /\ InterestIsOwed
  /\ PutOff
  /\ StartsOnce
  /\ ReportedWrite
  /\ ReportedRead
  /\ HeldByUrgent
  /\ FinIsLast
  /\ BlockingNeverQueues

LEMMA InvSend == ASSUME IInv, NEW n \in 1 .. MaxLen, Send(n) PROVE Rest'
<1> USE DEF WriteInterest, InterestIsOwed, PutOff, StartsOnce, Open, ReportedWrite,
        ReportedRead, HeldByUrgent, BeforeRead, FinIsLast, DiesOnlyOfReset, BlockingNeverQueues,
        WriteRefused, socket, loop
<1>1. PICK data \in Seq(Byte) : data = NewBytes(n) /\ Len(data) = n
  BY NewBytesIsSeq, ConnectionAssumption DEF IInv, TypeOK
<1>2. /\ state' = state /\ proc = "up" /\ state \in {"CONNECTED", "DIS_CONNECTING"}
      /\ ~SendsLate => state = "CONNECTED"
      /\ pc \in {"connection", "message", "close", "idle", "batch"}
  BY ConnectionAssumption DEF Send, Sendable, Context, Contexts, IInv, TypeOK
<1>3. Remainder(data, WordSize - 1) \in Seq(Byte)
  <2>1. WordSize - 1 \in Int
    BY ConnectionAssumption
  <2>2. QED
    BY <1>1, <2>1, RemainderIsSeq
<1>4. CASE SendQueued(data)
  <2>1. /\ out' = <<>> <=> out = <<>> /\ data = <<>>
        /\ "OUT" \in events' <=> "OUT" \in events \/ data # <<>>
    BY <1>1, <1>4, QueueOutEffect DEF SendQueued, IInv
  <2>2. ~Disciplined \/ ~fin
    BY <1>2 DEF IInv, Disciplined
  <2>3. QED
    BY <1>2, <1>4, <2>1, <2>2 DEF SendQueued, IInv, Rest
<1>5. ASSUME SendDirect(data), "OUT" \notin events, out = <<>> PROVE Rest'
  <2>1. PICK k \in RoomFor(Len(data)) : QueueOut(Remainder(data, k))
    BY <1>5 DEF SendDirect
  <2>2. Remainder(data, k) \in Seq(Byte)
    BY <1>1, RemainderIsSeq DEF RoomFor
  <2>3. /\ out' = <<>> <=> out = <<>> /\ Remainder(data, k) = <<>>
        /\ "OUT" \in events' <=> "OUT" \in events \/ Remainder(data, k) # <<>>
    BY <2>1, <2>2, QueueOutEffect DEF IInv
  <2>4. QED
    BY <1>2, <1>5, <2>3 DEF SendDirect, IInv, Rest
<1>6. ASSUME SendAgain(data), "OUT" \notin events, out = <<>> PROVE Rest'
  <2>1. /\ out' = <<>> <=> out = <<>> /\ Remainder(data, WordSize - 1) = <<>>
        /\ "OUT" \in events' <=> "OUT" \in events \/ Remainder(data, WordSize - 1) # <<>>
    BY <1>3, <1>6, QueueOutEffect DEF SendAgain, IInv
  <2>2. QED
    BY <1>2, <1>6, <2>1 DEF SendAgain, IInv, Rest
<1>7. ASSUME SendRefused(data), "OUT" \notin events, out = <<>> PROVE Rest'
  <2>1. ~Disciplined \/ rst
    BY <1>2, <1>7 DEF SendRefused, IInv, Disciplined
  <2>2. CASE QueueOut(Remainder(data, WordSize - 1))
    <3>1. /\ out' = <<>> <=> out = <<>> /\ Remainder(data, WordSize - 1) = <<>>
          /\ "OUT" \in events' <=> "OUT" \in events \/ Remainder(data, WordSize - 1) # <<>>
      BY <1>3, <2>2, QueueOutEffect DEF IInv
    <3>2. QED
      BY <1>2, <1>7, <2>1, <3>1 DEF SendRefused, RefuseWrite, IInv, Rest
  <2>3. CASE UNCHANGED <<out, events>>
    BY <1>2, <1>7, <2>1, <2>3 DEF SendRefused, RefuseWrite, IInv, Rest
  <2>4. QED
    BY <1>7, <2>2, <2>3 DEF SendRefused
<1>8. ASSUME SendBlocks(data), "OUT" \notin events, out = <<>> PROVE Rest'
  <2>1. call'.back = pc
    BY <1>8 DEF SendBlocks
  <2>2. QED
    BY <1>2, <1>8, <2>1 DEF SendBlocks, IInv, Rest
<1>9. QED
  BY <1>1, <1>4, <1>5, <1>6, <1>7, <1>8 DEF Send

LEMMA InvWriteBytes == ASSUME IInv, WriteBytes PROVE Rest'
<1>1. /\ "OUT" \in events' <=> out' # <<>>
      /\ out' = <<>> /\ state = "DIS_CONNECTING" => ShutdownWrite
      /\ ~(out' = <<>> /\ state = "DIS_CONNECTING") => UNCHANGED <<fin, proc>>
  BY DEF WriteBytes, LastByteWritten, HandleEventWrites
<1>2. /\ UNCHANGED <<state, rst, rcvq, mark, peerFin>>
      /\ proc = "up" /\ ~fin /\ ~rst
      /\ "OUT" \in events /\ "OUT" \in trig
      /\ trig' = {} /\ pc = "write" /\ pc' = "idle"
  BY DEF WriteBytes, LastByteWritten, HandleEventWrites, WriteRefused
<1>3. NonBlocking
  BY <1>2, ConnectionAssumption
     DEF IInv, ReportedWrite, BlockingNeverQueues, WriteRefused
<1>4. proc' = "up" /\ (fin' => out' = <<>> /\ state = "DIS_CONNECTING")
  BY <1>1, <1>2 DEF ShutdownWrite
<1>5. state = "DIS_CONNECTING" => fin' \/ out' # <<>>
  BY <1>1, <1>2 DEF ShutdownWrite
<1>6. QED
  BY <1>1, <1>2, <1>3, <1>4, <1>5
     DEF IInv, Rest, WriteInterest, InterestIsOwed, PutOff, StartsOnce, Open, ReportedWrite,
         ReportedRead, HeldByUrgent, BeforeRead, FinIsLast, DiesOnlyOfReset, BlockingNeverQueues

LEMMA InvShutDown == ASSUME IInv, ShutDown PROVE Rest'
<1>1. /\ state = "CONNECTED" /\ state' = "DIS_CONNECTING" /\ proc = "up"
      /\ UNCHANGED <<events, out, sndq, rcvq, mark, peerFin, rst, pc, trig, back, call>>
      /\ pc \in {"connection", "message", "close", "idle", "batch"}
      /\ pc = "close" => "close" \in ShutDownIn
  BY ConnectionAssumption DEF ShutDown, ShutDownWrite, Context, Contexts, IInv, TypeOK, loop
<1>2. CASE "OUT" \in events
  <2>1. UNCHANGED <<fin, proc>>
    BY <1>2 DEF ShutDown, ShutDownWrite
  <2>2. QED
    BY <1>1, <1>2, <2>1
       DEF IInv, Rest, WriteInterest, InterestIsOwed, PutOff, StartsOnce, Open,
           ReportedWrite, ReportedRead, HeldByUrgent, BeforeRead, FinIsLast, DiesOnlyOfReset,
           BlockingNeverQueues, WriteRefused
<1>3. CASE "OUT" \notin events
  <2>1. (rst => ~fin') /\ (~rst => fin') /\ (proc' # "up" => rst)
    BY <1>1, <1>3 DEF ShutDown, ShutDownWrite, ShutdownWrite
  <2>2. Disciplined => out = <<>>
    BY <1>1, <1>3 DEF IInv, WriteInterest, Open, Disciplined
  <2>3. QED
    BY <1>1, <1>3, <2>1, <2>2
       DEF IInv, Rest, WriteInterest, InterestIsOwed, PutOff, StartsOnce, Open,
           ReportedWrite, ReportedRead, HeldByUrgent, BeforeRead, FinIsLast, DiesOnlyOfReset,
           BlockingNeverQueues, WriteRefused
<1>4. QED
  BY <1>2, <1>3

LEMMA InvBlockedReturns == ASSUME IInv, BlockedReturns \/ BlockedFails PROVE Rest'
<1>1. PICK rem : /\ rem \in Seq(Byte)
                 /\ QueueOut(rem) \/ UNCHANGED <<out, events>>
                 /\ rem # <<>> => rst
  <2>1. call.data \in Seq(Byte) /\ call.done \in Int /\ WordSize - 1 \in Int
    BY ConnectionAssumption DEF IInv, TypeOK
  <2>2. CASE BlockedReturns
    <3>1. Remainder(call.data, call.done) \in Seq(Byte)
      BY <2>1, RemainderIsSeq
    <3>2. call.done = Len(call.data) => Remainder(call.data, call.done) = <<>>
      BY <2>1, NothingRemains
    <3>3. QED
      BY <2>2, <3>1, <3>2 DEF BlockedReturns
  <2>3. CASE BlockedFails
    <3>1. Remainder(call.data, WordSize - 1) \in Seq(Byte)
      BY <2>1, RemainderIsSeq
    <3>2. QED
      BY <2>3, <3>1 DEF BlockedFails
  <2>4. QED
    BY <2>2, <2>3
<1>2. \/ /\ out' = <<>> <=> out = <<>> /\ rem = <<>>
         /\ "OUT" \in events' <=> "OUT" \in events \/ rem # <<>>
      \/ UNCHANGED <<out, events>>
  BY <1>1, QueueOutEffect DEF IInv
<1>3. /\ UNCHANGED <<state, sndq, fin, rcvq, mark, peerFin, rst, trig, back>>
      /\ proc = "up" /\ pc = "blocked" /\ pc' = call.back
      /\ call.back \in {"connection", "idle", "batch", "message", "close"}
      /\ proc' # "up" => rst
  BY DEF BlockedReturns, BlockedFails, RefuseWrite, socket, IInv, TypeOK
<1>4. QED
  BY <1>1, <1>2, <1>3
     DEF IInv, Rest, WriteInterest, InterestIsOwed, PutOff, StartsOnce, Open, ReportedWrite,
         ReportedRead, HeldByUrgent, BeforeRead, FinIsLast, DiesOnlyOfReset, BlockingNeverQueues, WriteRefused

LEMMA InvPeer == ASSUME IInv, Peer PROVE Rest'
<1> USE DEF WriteInterest, InterestIsOwed, PutOff, StartsOnce, Open, ReportedWrite,
        ReportedRead, HeldByUrgent, BeforeRead, FinIsLast, DiesOnlyOfReset, BlockingNeverQueues,
        WriteRefused, object, loop, Rest, IInv
<1>1. CASE PeerReceives
  <2>1. sndq \in Seq(Byte) /\ sndq # <<>> /\ sndq' = Tail(sndq)
    BY <1>1 DEF PeerReceives, TypeOK
  <2>2. Len(sndq') = Len(sndq) - 1 /\ Len(sndq) \in Nat
    BY <2>1, HeadTailProperties, LenProperties
  <2>3. Len(sndq) < SendCap => Len(sndq') < SendCap
    BY <2>2, ConnectionAssumption
  <2>4. QED
    BY <1>1, <2>3 DEF PeerReceives
<1>2. CASE PeerReceivesFin
  BY <1>2 DEF PeerReceivesFin, socket
<1>3. CASE PeerSends
  <2>1. rcvq \in Nat /\ rcvq' = rcvq + 1
    BY <1>3 DEF PeerSends, TypeOK
  <2>2. rcvq' > 0
    BY <2>1
  <2>3. QED
    BY <1>3, <2>2 DEF PeerSends
<1>4. CASE PeerFinishes
  BY <1>4 DEF PeerFinishes
<1>5. CASE PeerResets
  BY <1>5 DEF PeerResets
<1>6. CASE PeerSendsUrgent
  BY <1>6 DEF PeerSendsUrgent, TypeOK, NoMark
<1>7. QED
  BY <1>1, <1>2, <1>3, <1>4, <1>5, <1>6 DEF Peer

LEMMA InvStep == IInv /\ [Next]_vars => IInv'
<1> SUFFICES ASSUME IInv, [Next]_vars PROVE Rest'
  BY TypeStep DEF IInv, Rest
<1> USE DEF WriteInterest, InterestIsOwed, PutOff, StartsOnce, Open, ReportedWrite,
        ReportedRead, HeldByUrgent, BeforeRead, FinIsLast, DiesOnlyOfReset, BlockingNeverQueues,
        WriteRefused, Rest
<1>1. ASSUME NEW n \in 1 .. MaxLen, Send(n) PROVE Rest'
  BY <1>1, InvSend
<1>2. CASE ShutDown
  BY <1>2, InvShutDown
<1>3. CASE Close
  BY <1>3 DEF Close, BeginClose, socket, peer, Context, IInv
<1>4. CASE Start
  BY <1>4 DEF Start, socket, peer, IInv, TypeOK
<1>5. CASE ConnectionCallbackReturns
  BY <1>5 DEF ConnectionCallbackReturns, object, socket, peer, IInv, TypeOK
<1>6. CASE Poll
  BY <1>6 DEF Poll, Ready, object, socket, peer, IInv, TypeOK
<1>7. CASE NothingToRead
  BY <1>7 DEF NothingToRead, object, socket, peer, IInv, TypeOK
<1>8. CASE ReadBytes
  BY <1>8 DEF ReadBytes, InReadv, HandleEventReads, peer, IInv, TypeOK
<1>9. CASE ReadError
  BY <1>9 DEF ReadError, InReadv, HandleEventReads, object, peer, IInv, TypeOK
<1>10. CASE ReadEof
  BY <1>10 DEF ReadEof, InReadv, HandleEventReads, BeginClose, socket, peer, IInv, TypeOK
<1>11. CASE MessageCallbackReturns
  BY <1>11 DEF MessageCallbackReturns, object, socket, peer, IInv, TypeOK
<1>12. CASE CloseCallbackReturns
  BY <1>12 DEF CloseCallbackReturns, socket, peer, IInv, TypeOK
<1>13. CASE NothingToWrite
  BY <1>13 DEF NothingToWrite, object, socket, peer, IInv, TypeOK
<1>14. CASE WriteBytes
  BY <1>14, InvWriteBytes
<1>15. CASE WriteRefusedAgain
  <2>1. ~Disciplined \/ rst
    BY <1>15 DEF WriteRefusedAgain, HandleEventWrites, IInv
  <2>2. QED
    BY <1>15, <2>1 DEF WriteRefusedAgain, HandleEventWrites, RefuseWrite, object, peer, IInv
<1>16. CASE BlockedTransfers
  <2>1. call'.back = call.back
    BY <1>16 DEF BlockedTransfers, IInv, TypeOK
  <2>2. QED
    BY <1>16, <2>1 DEF BlockedTransfers, object, peer, IInv
<1>17. CASE BlockedReturns \/ BlockedFails
  BY <1>17, InvBlockedReturns
<1>18. CASE Peer
  BY <1>18, InvPeer
<1>19. CASE UNCHANGED vars
  BY <1>19 DEF vars, object, socket, peer, loop, IInv
<1>20. CASE ReadAgain \/ ReadBlocks
  <2>1. pc = "batch" /\ pc' \in {"write", "reading"} /\ (pc' = "reading" => ~NonBlocking)
    BY <1>20 DEF ReadAgain, ReadBlocks, HandleEventReads
  <2>2. trig \cap {"IN", "HUP"} = {} /\ "PRI" \in trig
    BY <1>20 DEF ReadAgain, ReadBlocks, HandleEventReads, NothingButUrgent, IInv, TypeOK
  <2>3. QED
    BY <1>20, <2>1, <2>2 DEF ReadAgain, ReadBlocks, object, peer, IInv, TypeOK
<1>21. QED
  BY <1>1, <1>2, <1>3, <1>4, <1>5, <1>6, <1>7, <1>8, <1>9, <1>10, <1>11, <1>12, <1>13, <1>14, <1>15, <1>16, <1>17, <1>18, <1>19, <1>20 DEF Next, Application, Loop

LEMMA Inductive == Spec => []IInv
BY InvInit, InvStep, PTL DEF Spec
-----------------------------------------------------------------------------
(* Every variable keeps its type, for every bound and every kind of socket. *)
THEOREM ConnectionTypeCorrect == Spec => []TypeOK
BY Inductive, PTL DEF IInv

(* The open connection waits for EPOLLOUT exactly when bytes wait in its   *)
(* output buffer, whatever the application and the peer do.                *)
THEOREM ConnectionWriteInterest == Spec => []WriteInterest
BY Inductive, PTL DEF IInv

(* A shutdown put off until the output buffer is empty is never forgotten. *)
THEOREM ConnectionShutDownPending == Spec => []ShutDownPending
<1>1. IInv => ShutDownPending
  BY DEF IInv, ShutDownPending, PutOff, WriteInterest
<1>2. QED
  BY <1>1, Inductive, PTL

(* When HandleEvent comes to an event that epoll_wait reported, what was   *)
(* reported is still there, whatever the callbacks of the batch did        *)
(* before: write does not block, and readv blocks only when an urgent byte *)
(* was all that had come.                                                  *)
THEOREM ConnectionEventsStillReady == Spec => []EventsStillReady
<1>1. IInv => EventsStillReady
  BY DEF IInv, EventsStillReady, ReportedRead, HeldByUrgent, ReportedWrite, BeforeRead
<1>2. QED
  BY <1>1, Inductive, PTL

(* On a blocking socket the output buffer stays empty until the connection *)
(* refuses writes.                                                         *)
THEOREM ConnectionBlockingNeverQueues == Spec => []BlockingNeverQueues
BY Inductive, PTL DEF IInv

(* When the application neither sends after ShutDown nor shuts down a      *)
(* connection that is being closed, nothing but a reset by the peer ends   *)
(* the process: the code itself never writes behind its FIN.               *)
THEOREM ConnectionDiesOnlyOfReset ==
  ASSUME Disciplined
  PROVE  Spec => []DiesOnlyOfReset
<1>1. IInv => DiesOnlyOfReset
  BY DEF IInv, FinIsLast
<1>2. QED
  BY <1>1, Inductive, PTL
=============================================================================
