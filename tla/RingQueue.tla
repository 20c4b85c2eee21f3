----------------------------- MODULE RingQueue -----------------------------
(***************************************************************************)
(* The queue of the asynchronous log (include/spdlog/details/circular_q.h) *)
(* as operators on its state: cells 0 .. Capacity in a ring, one of which  *)
(* stays free, so that a full ring differs from an empty one.              *)
(***************************************************************************)
EXTENDS Integers

CONSTANTS
  Capacity,     (* the number of messages that fit: max_items_ - 1         *)
  Message,      (* what the cells hold                                     *)
  Blank         (* a default constructed message                           *)

Cells == 0 .. Capacity

Ring == [v: [Cells -> Message], head: Cells, tail: Cells]

NewRing == [v |-> [i \in Cells |-> Blank], head |-> 0, tail |-> 0]

Step(i) == (i + 1) % (Capacity + 1)

IsEmpty(q) == q.head = q.tail

IsFull_NoFreeCell(q) == FALSE

IsFull(q) == Step(q.tail) = q.head

Size(q) ==
  IF q.tail >= q.head THEN q.tail - q.head ELSE Capacity + 1 - (q.head - q.tail)

Front(q) == q.v[q.head]

(* A message that is taken out is moved: the cell keeps its kind. *)
PopFront(q) == [q EXCEPT !.head = Step(@)]

(* A push into a full ring overruns the oldest message. *)
PushBack(q, m) ==
  LET tail == Step(q.tail)
  IN  [v    |-> [q.v EXCEPT ![q.tail] = m],
       head |-> IF tail = q.head THEN Step(q.head) ELSE q.head,
       tail |-> tail]

(* The messages, oldest first. *)
Contents(q) == [i \in 1 .. Size(q) |-> q.v[(q.head + i - 1) % (Capacity + 1)]]
=============================================================================
