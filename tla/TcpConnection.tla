---------------------------- MODULE TcpConnection ----------------------------
(***************************************************************************)
(* One connection (include/TcpConnection.h) driven by the event loop       *)
(* (EpollerImp.cpp, HandlerImp.cpp), its kernel socket and the peer.       *)
(*                                                                         *)
(* The loop is one thread.  While it is "idle" it waits in epoll_wait or   *)
(* runs the callbacks of other handlers; in "batch" epoll_wait has handed  *)
(* it an event of this connection which HandleEvent has not seen yet.      *)
(* Between its own steps only the kernel and the peer move.                *)
(*                                                                         *)
(* The application holds a TcpConnectionPtr throughout, so that the object *)
(* outlives its close callback.                                            *)
(***************************************************************************)
EXTENDS Integers, Sequences, FiniteSets

CONSTANTS
  NonBlocking,      (* O_NONBLOCK: set on TCPClient's sockets, not on the    *)
                    (* ones Acceptor accepts                                 *)
  SigpipeIgnored,   (* whether the application ignores SIGPIPE               *)
  CriticalAborts,   (* the log level lets SYS_CRITICAL_LOG abort the process *)
  SendIn, ShutDownIn, CloseIn,
                    (* the contexts in which the application makes the call  *)
  SendsLate,        (* whether the application sends after ShutDown          *)
  Resets,           (* whether the peer may reset the connection             *)
  Urgent,           (* whether the peer sends urgent bytes (MSG_OOB)         *)
  WordSize,         (* the size_t values are 0 .. WordSize - 1               *)
  SendCap,          (* bytes the kernel's send queue holds                   *)
  MaxLen,           (* BOUND: bytes in one send                              *)
  MaxSend,          (* BOUND: bytes sent in all                              *)
  MaxRecv,          (* BOUND: bytes the peer sends in all                    *)
  MaxClose          (* BOUND: the application's calls of Close()             *)

(* Where application code runs on the loop's thread: in this connection's  *)
(* three callbacks, and in the callbacks of other handlers.                *)
Contexts == {"connection", "message", "close", "other"}

ASSUME ConnectionAssumption ==
  /\ NonBlocking \in BOOLEAN /\ SigpipeIgnored \in BOOLEAN /\ CriticalAborts \in BOOLEAN
  /\ SendsLate \in BOOLEAN /\ Resets \in BOOLEAN /\ Urgent \in BOOLEAN
  /\ SendIn \subseteq Contexts /\ ShutDownIn \subseteq Contexts
  /\ CloseIn \subseteq Contexts \ {"close"}
  /\ SendCap \in Nat /\ MaxLen \in Nat /\ MaxSend \in Nat /\ MaxRecv \in Nat
  /\ MaxClose \in Nat
  /\ WordSize \in Nat /\ WordSize > MaxSend + 1

VARIABLES
  state,    (* _state                                                      *)
  events,   (* _handler->_events, which is also what epoll watches         *)
  out,      (* the readable bytes of _outPutBuffer                         *)
  inb,      (* the number of bytes readv has put into _inputBuffer         *)
  sndq,     (* the kernel's send queue                                     *)
  fin,      (* shutdown(SHUT_WR) was done                                  *)
  rcvq,     (* the number of ordinary bytes in the kernel's receive queue  *)
  mark,     (* how many of them are in front of an urgent byte, or NoMark  *)
  peerFin,  (* the peer's FIN has arrived                                  *)
  rst,      (* the peer's RST has arrived                                  *)
  err,      (* the pending socket error                                    *)
  got,      (* what the peer has received                                  *)
  gotFin,   (* the peer has received the end of the stream                 *)
  pc,       (* where the loop's thread is                                  *)
  trig,     (* the events epoll_wait reported for the connection           *)
  back,     (* where Close() returns to                                    *)
  call,     (* the write(2) in progress on a blocking socket               *)
  nsent,    (* the number of bytes given to send()                         *)
  closes,   (* the calls of the close callback                             *)
  asked,    (* the application's calls of Close()                          *)
  proc      (* the process: "up", "abort" or "sigpipe"                     *)

object == <<state, events, out, inb>>
socket == <<sndq, fin, rcvq, mark, peerFin, rst, err>>
peer   == <<got, gotFin>>
loop   == <<pc, trig, back, call>>
vars   == <<object, socket, peer, loop, nsent, closes, asked, proc>>

-----------------------------------------------------------------------------
(* Bytes.  The application's bytes are numbered 1, 2, ... in the order in  *)
(* which it sends them; Stray is a byte that is not from its data.         *)

Stray == 0

Byte == Nat

NewBytes(n) == [i \in 1 .. n |-> nsent + i]

(* send's arithmetic on size_t. *)
Word(n) == n % WordSize

Remainder_FromStart(data, nwrite) ==
  [i \in 1 .. Word(Len(data) - nwrite) |->
     IF i <= Len(data) THEN data[i] ELSE Stray]

Remainder_OneMore(data, nwrite) ==
  [i \in 1 .. Word(Len(data) - nwrite + 1) |->
     LET at == Word(nwrite + i - 1)
     IN  IF at < Len(data) THEN data[at + 1] ELSE Stray]

(* The bytes from data + nwrite on, len - nwrite of them, both wrapping. *)
Remainder(data, nwrite) ==
  [i \in 1 .. Word(Len(data) - nwrite) |->
     LET at == Word(nwrite + i - 1)
     IN  IF at < Len(data) THEN data[at + 1] ELSE Stray]

QueueOut_NoInterest(bytes) ==
  /\ out' = out \o bytes
  /\ UNCHANGED events

(* AppendData to the output buffer, and EnableWrite. *)
QueueOut(bytes) ==
  /\ out' = out \o bytes
  /\ events' = IF bytes = <<>> THEN events ELSE events \cup {"OUT"}

-----------------------------------------------------------------------------
(* The kernel's side of the calls the code makes. *)

NoError == "none"

NoMark == -1

(* A write neither transfers nor waits: the stream is shut down or reset.  *)
WriteRefused == rst \/ fin

(* The refused write returns -1: with the pending error once, after that   *)
(* with EPIPE and the signal, which ends the process unless it is ignored. *)
RefuseWrite ==
  /\ err' = NoError
  /\ proc' = IF err = "ECONNRESET" \/ SigpipeIgnored THEN proc ELSE "sigpipe"

RoomFor(n) == 1 .. (IF n <= SendCap - Len(sndq) THEN n ELSE SendCap - Len(sndq))

(* Socket::ShutdownWrite: shutdown(2) fails on a socket that was reset.    *)
ShutdownWrite ==
  /\ fin' = ~rst
  /\ proc' = IF rst /\ CriticalAborts THEN "abort" ELSE proc

(* What epoll_wait reports of the connection's socket.  An urgent byte is  *)
(* kept apart from the ordinary ones (no SO_OOBINLINE): by itself it is    *)
(* reported as EPOLLPRI and not as EPOLLIN.                                *)
Ready ==
  IF events = {} THEN {}
  ELSE {e \in events : \/ e = "IN" /\ (rcvq > 0 \/ peerFin \/ rst)
                       \/ e = "PRI" /\ mark # NoMark
                       \/ e = "OUT" /\ (Len(sndq) < SendCap \/ fin \/ rst)}
       \cup {e \in {"HUP"} : rst \/ (fin /\ peerFin)}
       \cup {e \in {"ERR"} : err # NoError}

-----------------------------------------------------------------------------
NoCall == [data |-> <<>>, done |-> 0, back |-> "idle"]

Init ==
  /\ state = "CONNECTING" /\ events = {} /\ out = <<>> /\ inb = 0
  /\ sndq = <<>> /\ fin = FALSE /\ rcvq = 0 /\ mark = NoMark /\ peerFin = FALSE
  /\ rst = FALSE /\ err = NoError
  /\ got = <<>> /\ gotFin = FALSE
  /\ pc = "start" /\ trig = {} /\ back = "idle"
  /\ call = NoCall
  /\ nsent = 0 /\ closes = 0 /\ asked = 0 /\ proc = "up"

-----------------------------------------------------------------------------
(* The application's calls.                                                *)

(* The context the loop's thread gives application code now. *)
Context == IF pc \in {"idle", "batch"} THEN "other" ELSE pc

(* send: the branch that only appends, behind bytes still waiting. *)
SendQueued(data) ==
  /\ "OUT" \in events \/ out # <<>>
  /\ QueueOut(data)
  /\ UNCHANGED <<socket, loop, proc>>

SendDirect_AnySocket(data) ==
  /\ ~WriteRefused
  /\ \E n \in RoomFor(Len(data)) :
       /\ sndq' = sndq \o SubSeq(data, 1, n)
       /\ QueueOut(Remainder(data, n))
  /\ UNCHANGED <<fin, rcvq, mark, peerFin, rst, err, loop, proc>>

(* send: write(2) takes a part of the data or all of it. *)
SendDirect(data) ==
  /\ NonBlocking /\ ~WriteRefused
  /\ \E n \in RoomFor(Len(data)) :
       /\ sndq' = sndq \o SubSeq(data, 1, n)
       /\ QueueOut(Remainder(data, n))
  /\ UNCHANGED <<fin, rcvq, mark, peerFin, rst, err, loop, proc>>

(* send: write(2) returns -1 with EAGAIN.  nwrite is a size_t, so the test *)
(* for an error fails and len + 1 bytes from data - 1 on are appended.     *)
SendAgain(data) ==
  /\ NonBlocking /\ ~WriteRefused
  /\ Len(sndq) = SendCap
  /\ QueueOut(Remainder(data, WordSize - 1))
  /\ UNCHANGED <<socket, loop, proc>>

(* send: write(2) returns -1 with an error, handled like EAGAIN. *)
SendRefused(data) ==
  /\ WriteRefused
  /\ RefuseWrite
  /\ IF proc' = "up" THEN QueueOut(Remainder(data, WordSize - 1))
                     ELSE UNCHANGED <<out, events>>
  /\ UNCHANGED <<sndq, fin, rcvq, mark, peerFin, rst, loop>>

SendBlocks_SkipsFirst(data) ==
  /\ ~NonBlocking /\ ~WriteRefused
  /\ pc' = "blocked"
  /\ call' = [data |-> data, done |-> 1, back |-> pc]
  /\ UNCHANGED <<events, out, socket, trig, back, proc>>

(* send: on a blocking socket write(2) keeps the loop's thread. *)
SendBlocks(data) ==
  /\ ~NonBlocking /\ ~WriteRefused
  /\ pc' = "blocked"
  /\ call' = [data |-> data, done |-> 0, back |-> pc]
  /\ UNCHANGED <<events, out, socket, trig, back, proc>>

(* send gives up in DIS_CONNECTED only. *)
Sendable == {"CONNECTED"} \cup {s \in {"DIS_CONNECTING"} : SendsLate}

Send(n) ==
  /\ proc = "up"
  /\ Context \in SendIn
  /\ state \in Sendable
  /\ nsent + n <= MaxSend
  /\ nsent' = nsent + n
  /\ \/ SendQueued(NewBytes(n))
     \/ /\ "OUT" \notin events /\ out = <<>>
        /\ \/ SendDirect(NewBytes(n))
           \/ SendAgain(NewBytes(n))
           \/ SendRefused(NewBytes(n))
           \/ SendBlocks(NewBytes(n))
  /\ UNCHANGED <<state, inb, peer, closes, asked>>

ShutDownWrite_Immediate == ShutdownWrite

(* The FIN follows at once, or HandleWrite's last byte. *)
ShutDownWrite == IF "OUT" \in events THEN UNCHANGED <<fin, proc>> ELSE ShutdownWrite

ShutDown ==
  /\ proc = "up"
  /\ Context \in ShutDownIn
  /\ state = "CONNECTED"
  /\ state' = "DIS_CONNECTING"
  /\ ShutDownWrite
  /\ UNCHANGED <<events, out, inb, sndq, rcvq, mark, peerFin, rst, err,
                 peer, loop, nsent, closes, asked>>

BeginClose_StaysRegistered(return) ==
  /\ closes' = closes + 1
  /\ pc' = "close"
  /\ back' = return
  /\ UNCHANGED events

(* Close(), up to the call of the close callback.  It tests nothing: of a  *)
(* connection that is closed already it calls the callback again.          *)
BeginClose(return) ==
  /\ events' = {}
  /\ closes' = closes + 1
  /\ pc' = "close"
  /\ back' = return

Close ==
  /\ proc = "up"
  /\ Context \in CloseIn
  /\ asked < MaxClose
  /\ asked' = asked + 1
  /\ BeginClose(pc)
  /\ UNCHANGED <<state, out, inb, socket, peer, trig, call, nsent, proc>>

-----------------------------------------------------------------------------
(* The loop's thread.                                                      *)

(* Start(), up to the call of the connection callback. *)
Start ==
  /\ proc = "up" /\ pc = "start"
  /\ state' = "CONNECTED"
  /\ events' = events \cup {"IN", "PRI"}
  /\ pc' = "connection"
  /\ UNCHANGED <<out, inb, socket, peer, trig, back, call, nsent, closes, asked, proc>>

ConnectionCallbackReturns ==
  /\ proc = "up" /\ pc = "connection"
  /\ pc' = "idle"
  /\ UNCHANGED <<object, socket, peer, trig, back, call, nsent, closes, asked, proc>>

(* epoll_wait returns with this connection among the ready ones. *)
Poll ==
  /\ proc = "up" /\ pc = "idle"
  /\ Ready # {}
  /\ trig' = Ready
  /\ pc' = "batch"
  /\ UNCHANGED <<object, socket, peer, back, call, nsent, closes, asked, proc>>

(* HandleEvent finds none of EPOLLIN, EPOLLHUP and EPOLLPRI. *)
NothingToRead ==
  /\ proc = "up" /\ pc = "batch"
  /\ trig \cap {"IN", "PRI", "HUP"} = {}
  /\ pc' = "write"
  /\ UNCHANGED <<object, socket, peer, trig, back, call, nsent, closes, asked, proc>>

HandleEventReads ==
  /\ proc = "up" /\ pc = "batch"
  /\ trig \cap {"IN", "PRI", "HUP"} # {}

(* HandleRead is in readv, which may have had to wait. *)
InReadv == HandleEventReads \/ (proc = "up" /\ pc = "reading")

(* One readv stops at an urgent byte, or skips the one it begins at. *)
InOneRead == IF mark > 0 THEN mark ELSE rcvq

(* HandleRead, readv returns n > 0: up to the call of the message callback. *)
ReadBytes ==
  /\ InReadv
  /\ rcvq > 0
  /\ inb' = inb + InOneRead
  /\ rcvq' = rcvq - InOneRead
  /\ mark' = IF mark > 0 THEN 0 ELSE NoMark
  /\ pc' = "message"
  /\ UNCHANGED <<state, events, out, sndq, fin, peerFin, rst, err, peer,
                 trig, back, call, nsent, closes, asked, proc>>

(* HandleRead, readv returns -1 and clears the pending error. *)
ReadError ==
  /\ InReadv
  /\ rcvq = 0 /\ ~peerFin /\ err # NoError
  /\ err' = NoError
  /\ mark' = NoMark
  /\ pc' = "write"
  /\ UNCHANGED <<object, sndq, fin, rcvq, peerFin, rst, peer,
                 trig, back, call, nsent, closes, asked, proc>>

ReadEof_Ignored ==
  /\ InReadv
  /\ rcvq = 0 /\ (peerFin \/ (rst /\ err = NoError))
  /\ pc' = "write"
  /\ UNCHANGED <<object, socket, peer, trig, back, call, nsent, closes, asked, proc>>

(* HandleRead, readv returns 0. *)
ReadEof ==
  /\ InReadv
  /\ rcvq = 0 /\ (peerFin \/ (rst /\ err = NoError))
  /\ mark' = NoMark
  /\ BeginClose("write")
  /\ UNCHANGED <<state, out, inb, sndq, fin, rcvq, peerFin, rst, err, peer,
                 trig, call, nsent, asked, proc>>

(* There is nothing but an urgent byte, which readv skips. *)
NothingButUrgent == rcvq = 0 /\ ~peerFin /\ ~rst

(* HandleRead, readv returns -1 with EAGAIN. *)
ReadAgain ==
  /\ HandleEventReads
  /\ NonBlocking /\ NothingButUrgent
  /\ mark' = NoMark
  /\ pc' = "write"
  /\ UNCHANGED <<object, sndq, fin, rcvq, peerFin, rst, err, peer,
                 trig, back, call, nsent, closes, asked, proc>>

(* HandleRead: on a blocking socket readv keeps the loop's thread until    *)
(* ordinary bytes, the end or a reset come.                                *)
ReadBlocks ==
  /\ HandleEventReads
  /\ ~NonBlocking /\ NothingButUrgent
  /\ mark' = NoMark
  /\ pc' = "reading"
  /\ UNCHANGED <<object, sndq, fin, rcvq, peerFin, rst, err, peer,
                 trig, back, call, nsent, closes, asked, proc>>

MessageCallbackReturns_ReadsOn ==
  /\ proc = "up" /\ pc = "message"
  /\ pc' = "batch"
  /\ UNCHANGED <<object, socket, peer, trig, back, call, nsent, closes, asked, proc>>

MessageCallbackReturns ==
  /\ proc = "up" /\ pc = "message"
  /\ pc' = "write"
  /\ UNCHANGED <<object, socket, peer, trig, back, call, nsent, closes, asked, proc>>

(* Close() after its callback has returned. *)
CloseCallbackReturns ==
  /\ proc = "up" /\ pc = "close"
  /\ state' = "DIS_CONNECTED"
  /\ pc' = back
  /\ UNCHANGED <<events, out, inb, socket, peer, trig, back, call, nsent, closes, asked, proc>>

(* HandleEvent finds no EPOLLOUT, or HandleWrite finds writing disabled. *)
NothingToWrite ==
  /\ proc = "up" /\ pc = "write"
  /\ "OUT" \notin trig \cap events
  /\ pc' = "idle"
  /\ trig' = {}
  /\ UNCHANGED <<object, socket, peer, back, call, nsent, closes, asked, proc>>

HandleEventWrites ==
  /\ proc = "up" /\ pc = "write"
  /\ "OUT" \in trig \cap events
  /\ pc' = "idle"
  /\ trig' = {}

LastByteWritten_NoShutdown == UNCHANGED <<fin, proc>>

(* The shutdown that ShutDown() has put off. *)
LastByteWritten ==
  IF state = "DIS_CONNECTING" THEN ShutdownWrite ELSE UNCHANGED <<fin, proc>>

(* HandleWrite, write(2) returns n >= 0. *)
WriteBytes ==
  /\ HandleEventWrites
  /\ ~WriteRefused
  /\ \E n \in RoomFor(Len(out)) :
       /\ sndq' = sndq \o SubSeq(out, 1, n)
       /\ out' = SubSeq(out, n + 1, Len(out))
  /\ IF out' = <<>> THEN events' = events \ {"OUT"} /\ LastByteWritten
                     ELSE UNCHANGED <<events, fin, proc>>
  /\ UNCHANGED <<state, inb, rcvq, mark, peerFin, rst, err, peer,
                 back, call, nsent, closes, asked>>

(* HandleWrite, write(2) returns -1: nothing is done about it. *)
WriteRefusedAgain ==
  /\ HandleEventWrites
  /\ WriteRefused
  /\ RefuseWrite
  /\ UNCHANGED <<object, sndq, fin, rcvq, mark, peerFin, rst, peer,
                 back, call, nsent, closes, asked>>

-----------------------------------------------------------------------------
(* A write(2) that blocks the loop's thread.                               *)

BlockedTransfers ==
  /\ proc = "up" /\ pc = "blocked"
  /\ ~WriteRefused
  /\ \E n \in RoomFor(Len(call.data) - call.done) :
       /\ sndq' = sndq \o SubSeq(call.data, call.done + 1, call.done + n)
       /\ call' = [call EXCEPT !.done = @ + n]
  /\ UNCHANGED <<object, fin, rcvq, mark, peerFin, rst, err, peer,
                 pc, trig, back, nsent, closes, asked, proc>>

(* It returns when all is transferred, or what was when the RST came. *)
BlockedReturns ==
  /\ proc = "up" /\ pc = "blocked"
  /\ call.done = Len(call.data) \/ (rst /\ call.done > 0)
  /\ QueueOut(Remainder(call.data, call.done))
  /\ pc' = call.back
  /\ call' = NoCall
  /\ UNCHANGED <<state, inb, socket, peer, trig, back, nsent, closes, asked, proc>>

(* The RST comes before the first byte is transferred. *)
BlockedFails ==
  /\ proc = "up" /\ pc = "blocked"
  /\ rst /\ call.done = 0
  /\ RefuseWrite
  /\ IF proc' = "up" THEN QueueOut(Remainder(call.data, WordSize - 1))
                     ELSE UNCHANGED <<out, events>>
  /\ pc' = call.back
  /\ call' = NoCall
  /\ UNCHANGED <<state, inb, sndq, fin, rcvq, mark, peerFin, rst, peer,
                 trig, back, nsent, closes, asked>>

-----------------------------------------------------------------------------
(* The peer and the network.                                               *)

PeerReceives ==
  /\ proc = "up"
  /\ sndq # <<>>
  /\ got' = Append(got, Head(sndq))
  /\ sndq' = Tail(sndq)
  /\ UNCHANGED <<object, fin, rcvq, mark, peerFin, rst, err, gotFin,
                 loop, nsent, closes, asked, proc>>

PeerReceivesFin ==
  /\ proc = "up"
  /\ fin /\ ~rst /\ sndq = <<>> /\ ~gotFin
  /\ gotFin' = TRUE
  /\ UNCHANGED <<object, socket, got, loop, nsent, closes, asked, proc>>

PeerSends ==
  /\ proc = "up"
  /\ ~peerFin /\ ~rst
  /\ inb + rcvq < MaxRecv
  /\ rcvq' = rcvq + 1
  /\ UNCHANGED <<object, sndq, fin, mark, peerFin, rst, err, peer,
                 loop, nsent, closes, asked, proc>>

(* The urgent byte is not counted among the ordinary ones; a second one    *)
(* before the first is read is not modelled.                               *)
PeerSendsUrgent ==
  /\ proc = "up"
  /\ Urgent
  /\ ~peerFin /\ ~rst
  /\ mark = NoMark
  /\ mark' = rcvq
  /\ UNCHANGED <<object, sndq, fin, rcvq, peerFin, rst, err, peer,
                 loop, nsent, closes, asked, proc>>

PeerFinishes ==
  /\ proc = "up"
  /\ ~peerFin /\ ~rst
  /\ peerFin' = TRUE
  /\ UNCHANGED <<object, sndq, fin, rcvq, mark, rst, err, peer,
                 loop, nsent, closes, asked, proc>>

(* An RST discards the send queue and leaves an error; in the state        *)
(* CLOSE_WAIT it is EPIPE.  A stream ended on both sides takes none.       *)
PeerResets ==
  /\ proc = "up"
  /\ Resets
  /\ ~rst /\ ~(peerFin /\ gotFin)
  /\ rst' = TRUE
  /\ sndq' = <<>>
  /\ err' = IF peerFin /\ ~fin THEN "EPIPE" ELSE "ECONNRESET"
  /\ UNCHANGED <<object, fin, rcvq, mark, peerFin, peer, loop, nsent, closes, asked, proc>>

-----------------------------------------------------------------------------
Application == (\E n \in 1 .. MaxLen : Send(n)) \/ ShutDown \/ Close

(* The steps of HandleEvent, and of the callbacks' returning to it. *)
Loop ==
  \/ Start
  \/ ConnectionCallbackReturns
  \/ Poll
  \/ NothingToRead
  \/ ReadBytes
  \/ ReadError
  \/ ReadEof
  \/ ReadAgain
  \/ ReadBlocks
  \/ MessageCallbackReturns
  \/ CloseCallbackReturns
  \/ NothingToWrite
  \/ WriteBytes
  \/ WriteRefusedAgain
  \/ BlockedTransfers
  \/ BlockedReturns
  \/ BlockedFails

Peer ==
  \/ PeerReceives
  \/ PeerReceivesFin
  \/ PeerSends
  \/ PeerSendsUrgent
  \/ PeerFinishes
  \/ PeerResets

Next == Application \/ Loop \/ Peer

Spec == Init /\ [][Next]_vars

(* The loop runs on and comes back to every ready event, callbacks return, *)
(* and the peer goes on reading.                                           *)
FairSpec ==
  /\ Spec
  /\ WF_vars(Loop)
  /\ WF_vars(PeerReceives)
  /\ WF_vars(PeerReceivesFin)
-----------------------------------------------------------------------------
(* Properties.                                                             *)

(* Where the application's own bytes are. *)
Own(bytes) == {i \in DOMAIN bytes : bytes[i] # Stray}

(* They are its bytes m + 1 .. n, in order and each once. *)
Carries(bytes, m, n) ==
  /\ {bytes[i] : i \in Own(bytes)} = m + 1 .. n
  /\ \A i, j \in Own(bytes) : i < j => bytes[i] < bytes[j]

(* How many bytes the peer has received: of the application's own, and of  *)
(* those that nobody sent.                                                 *)
Received == Cardinality(Own(got))
Foreign  == Len(got) - Received

(* What a blocked write has not yet handed to the kernel. *)
Waiting == SubSeq(call.data, call.done + 1, Len(call.data))

Undelivered == sndq \o out \o Waiting

Open == proc = "up" /\ state # "DIS_CONNECTED" /\ pc # "close"

(* The variables hold the values their C++ types and the kernel allow. *)
TypeOK ==
  /\ state \in {"CONNECTING", "CONNECTED", "DIS_CONNECTING", "DIS_CONNECTED"}
  /\ events \subseteq {"IN", "PRI", "OUT"}
  /\ out \in Seq(Byte) /\ sndq \in Seq(Byte) /\ got \in Seq(Byte)
  /\ inb \in Nat /\ rcvq \in Nat /\ mark \in NoMark .. rcvq
  /\ nsent \in Nat /\ closes \in Nat /\ asked \in Nat
  /\ Len(sndq) <= SendCap
  /\ fin \in BOOLEAN /\ peerFin \in BOOLEAN /\ rst \in BOOLEAN /\ gotFin \in BOOLEAN
  /\ err \in {NoError, "ECONNRESET", "EPIPE"}
  /\ pc \in {"start", "connection", "idle", "batch", "reading", "message", "write",
             "close", "blocked"}
  /\ back \in {"connection", "idle", "batch", "message", "write"}
  /\ trig \subseteq {"IN", "PRI", "OUT", "HUP", "ERR"}
  /\ call \in [data : Seq(Byte), done : Nat,
               back : {"connection", "idle", "batch", "message", "close"}]
  /\ call.done <= Len(call.data)
  /\ proc \in {"up", "abort", "sigpipe"}

(* What the application and its peer expect of send(): the peer receives   *)
(* no byte that the application has not sent.  A refused write is to give  *)
(* up, and one that would block is to be queued as it is.                  *)
NoForeignByte == Foreign = 0

(* What holds of it.  Whatever part of a send is written at once, queued   *)
(* behind waiting bytes or kept by a write that fails, the application's   *)
(* own bytes are neither lost, repeated nor reordered on their way to the  *)
(* peer, until an RST discards the kernel's queue.  Bytes that nobody sent *)
(* may come between them, but on a non-blocking socket only.               *)
OwnBytesInOrder ==
  proc = "up" =>
    /\ ~rst => Carries(got \o Undelivered, 0, nsent)
    /\ Received <= nsent /\ Carries(got, 0, Received)
    /\ ~NonBlocking => NoForeignByte

(* On a blocking socket whose peer does not reset it, the peer receives    *)
(* the application's bytes and no others.                                  *)
NoStrayUnlessReset == Stray \in {got[i] : i \in DOMAIN got} => rst \/ NonBlocking

(* No lost wake-up and no busy loop: while the connection is open it waits *)
(* for EPOLLOUT exactly when the output buffer holds bytes.                *)
WriteInterest == Open => ("OUT" \in events <=> out # <<>>)

(* A shutdown that ShutDown() has put off is not forgotten: either it was  *)
(* done (or failed on a reset socket), or HandleWrite will come to it.     *)
ShutDownPending ==
  Open /\ state = "DIS_CONNECTING" => fin \/ rst \/ "OUT" \in events

(* A write after the FIN, or a second shutdown, never happens by itself:   *)
(* only a reset can end the process.                                       *)
DiesOnlyOfReset == proc # "up" => rst

(* What epoll reported is still there when HandleEvent comes to it, even   *)
(* after other callbacks of the batch: write does not block, and readv     *)
(* holds the loop only for an urgent byte that came without any other.     *)
EventsStillReady ==
  proc = "up" =>
    /\ pc = "batch" /\ trig \cap {"IN", "HUP"} # {} => rcvq > 0 \/ peerFin \/ rst
    /\ pc = "batch" /\ "PRI" \in trig => mark # NoMark
    /\ pc = "reading" => "PRI" \in trig /\ trig \cap {"IN", "HUP"} = {}
    /\ pc = "write" /\ "OUT" \in trig \cap events
         => Len(sndq) < SendCap \/ WriteRefused

(* On a blocking socket nothing waits in the output buffer: a send returns *)
(* when the kernel has all of it, or the connection is refusing writes.    *)
BlockingNeverQueues == ~NonBlocking /\ out # <<>> => WriteRefused

(* The events of a batch that HandleEvent has not finished reading for. *)
UnderWay == pc \in {"batch", "reading"}

(* A closed connection is left alone, but for an event that epoll_wait had *)
(* returned before another handler's callback closed it: no message, no    *)
(* change of its buffers or its interest, and no call of the close         *)
(* callback other than those that the application's own Close() makes.     *)
ClosedIsSilent ==
  [][state = "DIS_CONNECTED" /\ ~UnderWay =>
       /\ UNCHANGED <<state, events, out, inb>>
       /\ closes' - closes = asked' - asked]_vars

(* Whoever closes the connection, when and however often: the loop by      *)
(* itself calls the close callback once at the most.                       *)
LoopClosesOnce == closes - asked \in {0, 1}

(* Seen from its two ends the connection is a stream that ends behind its  *)
(* last byte, whatever route through the output buffer the bytes take; a   *)
(* non-blocking socket's may carry bytes that nobody sent.                 *)
Ends == INSTANCE Stream WITH
          Leaks     <- NonBlocking,
          accepted  <- nsent,
          delivered <- Received,
          foreign   <- Foreign,
          closing   <- state \in {"DIS_CONNECTING", "DIS_CONNECTED"},
          ended     <- gotFin,
          broken    <- rst

ImplementsStream == Ends!Spec

(* Bytes waiting in the output buffer get out. *)
Drains == out # <<>> ~> out = <<>> \/ ~Open

(* ShutDown() leads to the peer's seeing the end of the stream. *)
ShutDownEnds == state = "DIS_CONNECTING" ~> gotFin \/ rst \/ ~Open

(* The end of the peer's stream, or a reset, closes the connection. *)
PeerEndCloses ==
  (peerFin \/ rst) ~> state = "DIS_CONNECTED" \/ proc # "up"
=============================================================================
