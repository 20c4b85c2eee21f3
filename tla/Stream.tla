------------------------------- MODULE Stream -------------------------------
(***************************************************************************)
(* What the two ends of a connection may rely on in the direction from     *)
(* TcpConnection::send to the peer, and nothing else: the peer receives    *)
(* the bytes in order, and the end of the stream behind the last of them.  *)
(* A stream that leaks delivers bytes besides that nobody has sent: of     *)
(* TcpConnection's, those of non-blocking sockets do.                      *)
(***************************************************************************)
EXTENDS Naturals

CONSTANTS
  Leaks,        (* whether bytes that nobody has sent may be delivered     *)
  MaxLen        (* BOUND: bytes accepted in one call                       *)

VARIABLES
  accepted,     (* the number of bytes the application has sent            *)
  delivered,    (* the number of them that the peer has received           *)
  foreign,      (* the number of other bytes that the peer has received    *)
  closing,      (* the application sends no more                           *)
  ended,        (* the peer has received the end of the stream             *)
  broken        (* the peer has reset the connection                       *)

vars == <<accepted, delivered, foreign, closing, ended, broken>>

Init ==
  /\ accepted = 0 /\ delivered = 0 /\ foreign = 0
  /\ closing = FALSE /\ ended = FALSE /\ broken = FALSE

Accept(n) ==
  /\ ~closing
  /\ accepted' = accepted + n
  /\ UNCHANGED <<delivered, foreign, closing, ended, broken>>

(* ShutDown, or the closing of the connection. *)
Finish ==
  /\ closing' = TRUE
  /\ UNCHANGED <<accepted, delivered, foreign, ended, broken>>

Deliver ==
  /\ ~ended /\ ~broken
  /\ delivered < accepted
  /\ delivered' = delivered + 1
  /\ UNCHANGED <<accepted, foreign, closing, ended, broken>>

DeliverForeign ==
  /\ Leaks
  /\ ~ended /\ ~broken
  /\ foreign' = foreign + 1
  /\ UNCHANGED <<accepted, delivered, closing, ended, broken>>

End ==
  /\ closing /\ ~broken
  /\ delivered = accepted
  /\ ended' = TRUE
  /\ UNCHANGED <<accepted, delivered, foreign, closing, broken>>

Break ==
  /\ broken' = TRUE
  /\ UNCHANGED <<accepted, delivered, foreign, closing, ended>>

Next ==
  \/ \E n \in 1 .. MaxLen : Accept(n)
  \/ Finish
  \/ Deliver
  \/ DeliverForeign
  \/ End
  \/ Break

Spec == Init /\ [][Next]_vars
=============================================================================
