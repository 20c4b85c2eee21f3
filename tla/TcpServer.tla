----------------------------- MODULE TcpServer -----------------------------
(***************************************************************************)
(* TcpServer and Acceptor (include/TcpServer.h, include/Acceptor.h) when   *)
(* the process has a limited number of descriptors: connections wait in    *)
(* the listening socket's backlog, the acceptor takes one for each event,  *)
(* and a spare descriptor lets it turn a connection away when there is no  *)
(* other.  The server's map and the application hold the connections; a    *)
(* connection's descriptor is closed when neither does.                    *)
(*                                                                         *)
(* The loop's thread is modelled after one successful Start.  Descriptors  *)
(* are counted: their numbers matter to the Epoller only (TcpClient).      *)
(***************************************************************************)
EXTENDS Integers, FiniteSets

CONSTANTS
  MaxFds,         (* descriptors of the process for the spare one, the      *)
                  (* connections and other threads                          *)
  MaxConns        (* BOUND: connections that arrive                         *)

ASSUME ServerAssumption ==
  MaxFds \in Nat \ {0} /\ MaxConns \in Nat

Conns == 1 .. MaxConns

VARIABLES
  backlog,    (* the number of connections to be accepted                  *)
  free,       (* the number of descriptors that can be opened              *)
  idlefd,     (* whether _idlefd is open                                   *)
  spare,      (* whether it was accepted in place of the spare one         *)
  others,     (* the descriptors of other threads                          *)
  meddled,    (* history: whether other threads have ever opened one       *)
  connId,     (* _connId: the number of the next connection                *)
  conns,      (* _conns                                                    *)
  kept,       (* connections that the application has pointers to          *)
  current,    (* the connection OnNewConnect holds, or 0                   *)
  pc,         (* where Acceptor::HandleRead is                             *)
  arrived,    (* history: the connections that have arrived                *)
  turned      (* history: those turned away                                *)

acceptor     == <<idlefd, spare, pc>>
otherThreads == <<others, meddled>>
server       == <<connId, conns, kept, current>>
vars         == <<backlog, free, acceptor, otherThreads, server, arrived, turned>>

TypeOK ==
  /\ backlog \in Nat /\ free \in 0 .. MaxFds /\ others \in 0 .. MaxFds
  /\ idlefd \in BOOLEAN /\ spare \in BOOLEAN /\ meddled \in BOOLEAN
  /\ connId \in Nat \ {0}
  /\ conns \in SUBSET Conns /\ kept \in SUBSET Conns
  /\ current \in Conns \cup {0}
  /\ pc \in {"loop", "callback", "short", "given", "accepted", "closed"}
  /\ arrived \in 0 .. MaxConns /\ turned \in Nat

Init ==
  /\ backlog = 0 /\ free = MaxFds - 1 /\ idlefd = TRUE /\ spare = FALSE
  /\ others = 0 /\ meddled = FALSE
  /\ connId = 1 /\ conns = {} /\ kept = {} /\ current = 0
  /\ pc = "loop"
  /\ arrived = 0 /\ turned = 0
-----------------------------------------------------------------------------
(* Acceptor::HandleRead.                                                   *)

(* The connections that something holds, and with them their sockets. *)
Alive == conns \cup kept \cup ({current} \ {0})

(* accept gives a descriptor: OnNewConnect and TcpConnection::Start, up to *)
(* the application's connection callback.                                  *)
Accepts ==
  /\ pc = "loop"
  /\ backlog > 0 /\ free > 0
  /\ backlog' = backlog - 1
  /\ free' = free - 1
  /\ conns' = conns \cup {connId}
  /\ current' = connId
  /\ connId' = connId + 1
  /\ pc' = "callback"
  /\ UNCHANGED <<idlefd, spare, otherThreads, kept, arrived, turned>>

(* OnNewConnect returns and drops its pointer. *)
Returns ==
  /\ pc = "callback"
  /\ current' = 0
  /\ free' = IF current \in conns \cup kept THEN free ELSE free + 1
  /\ pc' = "loop"
  /\ UNCHANGED <<backlog, idlefd, spare, otherThreads, connId, conns, kept, arrived, turned>>

FindsNone_AnyFailure ==
  /\ pc = "loop"
  /\ backlog > 0
  /\ pc' = "short"
  /\ UNCHANGED <<backlog, free, idlefd, spare, otherThreads, server, arrived, turned>>

(* accept fails with EMFILE. *)
FindsNone ==
  /\ pc = "loop"
  /\ backlog > 0 /\ free = 0
  /\ pc' = "short"
  /\ UNCHANGED <<backlog, free, idlefd, spare, otherThreads, server, arrived, turned>>

GivesIdle ==
  /\ pc = "short"
  /\ idlefd' = FALSE
  /\ free' = IF idlefd THEN free + 1 ELSE free
  /\ pc' = "given"
  /\ UNCHANGED <<backlog, spare, otherThreads, server, arrived, turned>>

AcceptsSpare_NotAtAll ==
  /\ pc = "given"
  /\ pc' = "accepted"
  /\ UNCHANGED <<spare, free, backlog, idlefd, otherThreads, server, arrived, turned>>

AcceptsSpare ==
  /\ pc = "given"
  /\ IF backlog > 0 /\ free > 0
     THEN spare' = TRUE /\ free' = free - 1 /\ backlog' = backlog - 1
     ELSE UNCHANGED <<spare, free, backlog>>
  /\ pc' = "accepted"
  /\ UNCHANGED <<idlefd, otherThreads, server, arrived, turned>>

ClosesSpare ==
  /\ pc = "accepted"
  /\ IF spare
     THEN spare' = FALSE /\ free' = free + 1 /\ turned' = turned + 1
     ELSE UNCHANGED <<spare, free, turned>>
  /\ pc' = "closed"
  /\ UNCHANGED <<backlog, idlefd, otherThreads, server, arrived>>

ReopensIdle_Forgotten ==
  /\ pc = "closed"
  /\ pc' = "loop"
  /\ UNCHANGED <<backlog, free, idlefd, spare, otherThreads, server, arrived, turned>>

ReopensIdle ==
  /\ pc = "closed"
  /\ IF free > 0
     THEN idlefd' = TRUE /\ free' = free - 1
     ELSE UNCHANGED <<idlefd, free>>
  /\ pc' = "loop"
  /\ UNCHANGED <<backlog, spare, otherThreads, server, arrived, turned>>

HandleRead ==
  \/ Accepts \/ Returns
  \/ FindsNone \/ GivesIdle \/ AcceptsSpare \/ ClosesSpare \/ ReopensIdle
-----------------------------------------------------------------------------
(* The connections, in the acceptor's callback and in events of their own. *)

InCallback(c) == pc = "callback" /\ current = c

RemoveConn_BeforeRelease(c) ==
  /\ conns' = conns \ {c}
  /\ free' = free + 1

(* Close(), and TcpServer::RemoveConn. *)
RemoveConn(c) ==
  /\ conns' = conns \ {c}
  /\ free' = IF c \in kept \/ c = current THEN free ELSE free + 1

(* A connection reads the end of its stream. *)
Ends(c) ==
  /\ pc = "loop"
  /\ c \in conns
  /\ RemoveConn(c)
  /\ UNCHANGED <<backlog, acceptor, otherThreads, connId, kept, current, arrived, turned>>

(* The application closes a connection that it has a pointer to. *)
Closes(c) ==
  /\ InCallback(c) \/ (pc = "loop" /\ c \in kept)
  /\ c \in conns
  /\ RemoveConn(c)
  /\ UNCHANGED <<backlog, acceptor, otherThreads, connId, kept, current, arrived, turned>>

Keeps(c) ==
  /\ InCallback(c)
  /\ kept' = kept \cup {c}
  /\ UNCHANGED <<backlog, free, acceptor, otherThreads, connId, conns, current, arrived,
                 turned>>

Releases(c) ==
  /\ pc = "loop"
  /\ c \in kept
  /\ kept' = kept \ {c}
  /\ free' = IF c \in conns THEN free ELSE free + 1
  /\ UNCHANGED <<backlog, acceptor, otherThreads, connId, conns, current, arrived, turned>>

-----------------------------------------------------------------------------
Arrives ==
  /\ arrived < MaxConns
  /\ arrived' = arrived + 1
  /\ backlog' = backlog + 1
  /\ UNCHANGED <<free, acceptor, otherThreads, server, turned>>

OtherOpens ==
  /\ free > 0
  /\ free' = free - 1
  /\ others' = others + 1
  /\ meddled' = TRUE
  /\ UNCHANGED <<backlog, acceptor, server, arrived, turned>>

OtherCloses ==
  /\ others > 0
  /\ free' = free + 1
  /\ others' = others - 1
  /\ UNCHANGED <<meddled, backlog, acceptor, server, arrived, turned>>

Next ==
  \/ HandleRead
  \/ \E c \in Conns : Ends(c) \/ Closes(c) \/ Keeps(c) \/ Releases(c)
  \/ Arrives
  \/ OtherOpens \/ OtherCloses

Spec == Init /\ [][Next]_vars

(* The acceptor's level-triggered event comes again while connections      *)
(* wait, and callbacks return.  Connections need not end.                  *)
FairSpec == Spec /\ WF_vars(HandleRead)
-----------------------------------------------------------------------------
Count(flag) == IF flag THEN 1 ELSE 0

(* Every descriptor is accounted for, through the spare one's closing and  *)
(* reopening and whichever pointer to a connection is dropped last: none   *)
(* is closed twice, none is lost.                                          *)
Accounted ==
  free + others + Cardinality(Alive) + Count(idlefd) + Count(spare) = MaxFds

(* Unless other threads have opened descriptors the spare one is there     *)
(* whenever the loop comes to the acceptor: it is always got back.         *)
IdleKept == pc \in {"loop", "callback"} /\ ~meddled => idlefd

(* A connection is turned away only if there is no descriptor for it but   *)
(* the spare one, unless another thread's is in the way.                   *)
TurnsAwayOnlyWhenShort ==
  [][turned' # turned /\ ~meddled => Cardinality(Alive) = MaxFds - 1]_vars

(* "When there are not enough descriptors, close the socket gracefully":   *)
(* every connection that arrives is accepted or turned away, even when all *)
(* the descriptors are held for ever.                                      *)
NoneIsLeftWaiting ==
  \A n \in 1 .. MaxConns :
    arrived >= n ~> connId - 1 + turned >= n

(* The same, unless another thread has opened a descriptor meanwhile: the  *)
(* acceptor on its own keeps the promise.                                  *)
NoneIsLeftUnlessMeddled ==
  \A n \in 1 .. MaxConns :
    arrived >= n ~> connId - 1 + turned >= n \/ meddled
=============================================================================
