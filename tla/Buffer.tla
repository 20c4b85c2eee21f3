------------------------------- MODULE Buffer -------------------------------
(***************************************************************************)
(* The byte buffer of a connection (include/Buffer.h): a vector with a     *)
(* read and a write index, compacted or grown when an append does not fit, *)
(* and the way TcpConnection::HandleRead fills it with one readv over the  *)
(* vector's tail and a stack array.                                        *)
(*                                                                         *)
(* The vector is a sequence, index k of the code being position k + 1 of   *)
(* the sequence.  Stale bytes outside read..write stay in memory as they   *)
(* do in the code.                                                         *)
(***************************************************************************)
EXTENDS Integers, Sequences

CONSTANTS
  Byte,         (* the values a byte can take                              *)
  Zero,         (* the byte a vector's new elements are initialised to     *)
  Ids,          (* the buffers; a connection has an input and an output    *)
  InitSize,     (* Buffer::IniteSize                                       *)
  ExtraSize,    (* the size of HandleRead's stack array                    *)
  Data,         (* the byte strings appended or received in one call       *)
  MaxReadable   (* BOUND: no buffer is asked to hold more bytes than this  *)

ASSUME BufferAssumption ==
  /\ Zero \in Byte
  /\ InitSize \in Nat \ {0}
  /\ ExtraSize \in Nat
  /\ Data \subseteq Seq(Byte)
  /\ MaxReadable \in Nat

VARIABLE buf    (* buf[i]: the memory, _readIndex and _writeIndex of i     *)

BufferState == [mem: Seq(Byte), read: Nat, write: Nat]

(* A buffer is a vector of bytes with two indices that are not negative. *)
TypeOK == buf \in [Ids -> BufferState]

-----------------------------------------------------------------------------
(* The member functions, as operators on one buffer's state b.             *)

ReadableBytes(b) == b.write - b.read

WritableBytes(b) == Len(b.mem) - b.write

(* The bytes from ReadPos() up to WritePos(). *)
Content(b) == SubSeq(b.mem, b.read + 1, b.write)

(* mem with data copied to the index at. *)
CopyTo(mem, at, data) ==
  [k \in 1 .. Len(mem) |->
     IF at < k /\ k <= at + Len(data) THEN data[k - at] ELSE mem[k]]

(* std::vector::resize to a larger size. *)
Resize(mem, n) == [k \in 1 .. n |-> IF k <= Len(mem) THEN mem[k] ELSE Zero]

(* Bytes copied to WritePos(), and HasWrite over them. *)
WriteBehind(b, data) ==
  [mem   |-> CopyTo(b.mem, b.write, data),
   read  |-> b.read,
   write |-> b.write + Len(data)]

ExtendSpace_NoCopy(b, len) ==
  IF WritableBytes(b) + b.read < len
  THEN [b EXCEPT !.mem = Resize(@, b.write + len)]
  ELSE [mem |-> b.mem, read |-> 0, write |-> ReadableBytes(b)]

ExtendSpace_Doubling(b, len) ==
  IF WritableBytes(b) + b.read < len
  THEN [b EXCEPT !.mem = Resize(@, 2 * Len(@) + len)]
  ELSE [mem   |-> CopyTo(b.mem, 0, Content(b)),
        read  |-> 0,
        write |-> ReadableBytes(b)]

ExtendSpace(b, len) ==
  IF WritableBytes(b) + b.read < len
  THEN [b EXCEPT !.mem = Resize(@, b.write + len)]
  ELSE [mem   |-> CopyTo(b.mem, 0, Content(b)),
        read  |-> 0,
        write |-> ReadableBytes(b)]

AppendData(b, data) ==
  WriteBehind(IF WritableBytes(b) < Len(data)
              THEN ExtendSpace(b, Len(data)) ELSE b,
              data)

RetrieveAll(b) == [mem |-> b.mem, read |-> 0, write |-> 0]

Retrieve_Unchecked(b, len) == [b EXCEPT !.read = @ + len]

Retrieve(b, len) ==
  IF ReadableBytes(b) > len THEN [b EXCEPT !.read = @ + len] ELSE RetrieveAll(b)

(* HandleRead's readv: data goes to the vector's tail while it fits, and   *)
(* when it does not, the rest goes to the stack array and is then appended *)
(* (HasWriteToEnd moves the write index over the whole tail).              *)
ReadVec(b, data) ==
  LET w == WritableBytes(b)
  IN  IF w >= Len(data)
      THEN WriteBehind(b, data)
      ELSE AppendData(WriteBehind(b, SubSeq(data, 1, w)),
                      SubSeq(data, w + 1, Len(data)))
-----------------------------------------------------------------------------
Init ==
  buf = [i \in Ids |-> [mem   |-> [k \in 1 .. InitSize |-> Zero],
                        read  |-> 0,
                        write |-> 0]]

AppendTo(i, data) ==
  /\ ReadableBytes(buf[i]) + Len(data) <= MaxReadable
  /\ buf' = [buf EXCEPT ![i] = AppendData(@, data)]

(* readv returns at least one byte here, and at most what both areas hold. *)
ReceiveInto(i, data) ==
  /\ Len(data) \in 1 .. WritableBytes(buf[i]) + ExtraSize
  /\ ReadableBytes(buf[i]) + Len(data) <= MaxReadable
  /\ buf' = [buf EXCEPT ![i] = ReadVec(@, data)]

RetrieveFrom(i, n) == buf' = [buf EXCEPT ![i] = Retrieve(@, n)]

RetrieveAllOf(i) == buf' = [buf EXCEPT ![i] = RetrieveAll(@)]

Swap(i, j) == buf' = [buf EXCEPT ![i] = buf[j], ![j] = buf[i]]

Next ==
  \/ \E i \in Ids, data \in Data : AppendTo(i, data)
  \/ \E i \in Ids, data \in Data : ReceiveInto(i, data)
  \/ \E i \in Ids, n \in 0 .. MaxReadable + 1 : RetrieveFrom(i, n)
  \/ \E i \in Ids : RetrieveAllOf(i)
  \/ \E i, j \in Ids : Swap(i, j)

Spec == Init /\ [][Next]_buf
-----------------------------------------------------------------------------
(* ReadableBytes() and writableBytes() subtract unsigned indices and every *)
(* copy starts at one of them: they stay ordered and inside the vector.    *)
IndexOrder ==
  \A i \in Ids : buf[i].read <= buf[i].write /\ buf[i].write <= Len(buf[i].mem)

(* Whatever sequence of calls emptied a buffer, its whole vector is        *)
(* writable again: an empty buffer never holds space in front of           *)
(* _readIndex, so a drained connection does not grow its buffers.          *)
EmptyIsReset ==
  \A i \in Ids : buf[i].read = buf[i].write => buf[i].write = 0

(* ExtendSpace compacts instead of growing whenever that makes room: a     *)
(* call that lengthens a vector (and is not Swap) leaves it less than      *)
(* twice as long as the bytes it then holds.                               *)
GrowthBound ==
  [][\A i \in Ids :
       /\ Len(buf'[i].mem) > Len(buf[i].mem)
       /\ buf'[i] \notin {buf[j] : j \in Ids}
       => Len(buf'[i].mem) < 2 * ReadableBytes(buf'[i])]_buf

(* Through compaction, growth, the two-area readv and Swap the readable    *)
(* bytes are a queue: none is lost, repeated, reordered or made up.        *)
Queue == INSTANCE ByteQueue WITH queue <- [i \in Ids |-> Content(buf[i])]

ImplementsQueue == Queue!Spec
=============================================================================
