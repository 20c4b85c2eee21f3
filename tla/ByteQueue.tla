------------------------------ MODULE ByteQueue ------------------------------
(***************************************************************************)
(* What a user of include/Buffer.h relies on, and nothing else: each       *)
(* buffer is an unbounded first-in first-out queue of bytes.               *)
(***************************************************************************)
EXTENDS Naturals, Sequences

CONSTANTS
  Ids,    (* the buffers                                                   *)
  Data    (* the byte strings that are put in one call                     *)

VARIABLE queue  (* queue[i]: the readable bytes of buffer i, oldest first  *)

Init == queue = [i \in Ids |-> <<>>]

(* Bytes are added behind the ones already held. *)
Put(i, data) == queue' = [queue EXCEPT ![i] = @ \o data]

(* The n oldest bytes leave. *)
Take(i, n) == queue' = [queue EXCEPT ![i] = SubSeq(@, n + 1, Len(@))]

Exchange(i, j) == queue' = [queue EXCEPT ![i] = queue[j], ![j] = queue[i]]

Next ==
  \/ \E i \in Ids, data \in Data : Put(i, data)
  \/ \E i \in Ids : \E n \in 0 .. Len(queue[i]) : Take(i, n)
  \/ \E i, j \in Ids : Exchange(i, j)

Spec == Init /\ [][Next]_queue
=============================================================================
