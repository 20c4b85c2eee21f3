---------------------------- MODULE Buffer_proofs ----------------------------
(***************************************************************************)
(* Proofs about Buffer.tla: the member functions keep the indices ordered  *)
(* and act on the readable bytes as on a queue, so the buffer implements   *)
(* ByteQueue for every byte set, initial size and sequence of calls.       *)
(***************************************************************************)
EXTENDS Buffer, SequenceTheorems, TLAPS

(* A buffer's state as every call finds and leaves it. *)
Ordered(b) == b \in BufferState /\ b.read <= b.write /\ b.write <= Len(b.mem)

LEMMA FunctionIsSeq ==
  ASSUME NEW S, NEW n \in Nat, NEW f \in [1 .. n -> S]
  PROVE  f \in Seq(S) /\ Len(f) = n
OBVIOUS

(* A suffix of a sequence, element by element. *)
LEMMA SuffixElements ==
  ASSUME NEW S, NEW s \in Seq(S), NEW n \in Nat, n <= Len(s),
         NEW t, t = SubSeq(s, n + 1, Len(s))
  PROVE  /\ t \in Seq(S)
         /\ Len(t) = Len(s) - n
         /\ \A k \in 1 .. Len(s) - n : t[k] = s[n + k]
<1>1. Len(s) \in Nat /\ n + 1 \in Int
  BY LenProperties
<1>2. \A k \in n + 1 .. Len(s) : s[k] \in S
  BY <1>1, ElementOfSeq
<1>3. /\ t \in Seq(S)
      /\ Len(t) = IF n + 1 <= Len(s) THEN Len(s) - (n + 1) + 1 ELSE 0
      /\ \A k \in 1 .. Len(s) - (n + 1) + 1 : t[k] = s[n + 1 + k - 1]
  BY <1>1, <1>2, SubSeqProperties
<1>4. ASSUME NEW k \in 1 .. Len(s) - n PROVE t[k] = s[n + k]
  <2>1. k \in 1 .. Len(s) - (n + 1) + 1 /\ n + 1 + k - 1 = n + k
    BY <1>1
  <2>2. QED
    BY <1>3, <2>1
<1>5. QED
  BY <1>1, <1>3, <1>4

(* The readable bytes of an ordered buffer, byte by byte. *)
LEMMA ContentBytes ==
  ASSUME NEW b, Ordered(b)
  PROVE  /\ Content(b) \in Seq(Byte)
         /\ Len(Content(b)) = b.write - b.read
         /\ \A k \in 1 .. b.write - b.read : Content(b)[k] = b.mem[b.read + k]
<1>1. \A k \in b.read + 1 .. b.write : b.mem[k] \in Byte
  BY ElementOfSeq DEF Ordered, BufferState
<1>2. QED
  BY <1>1, SubSeqProperties DEF Ordered, BufferState, Content

LEMMA ContentIs ==
  ASSUME NEW b, Ordered(b), NEW s \in Seq(Byte),
         Len(s) = b.write - b.read,
         \A k \in 1 .. Len(s) : b.mem[b.read + k] = s[k]
  PROVE  Content(b) = s
<1>1. /\ Content(b) \in Seq(Byte)
      /\ Len(Content(b)) = Len(s)
  BY ContentBytes
<1>2. ASSUME NEW k \in 1 .. Len(s) PROVE Content(b)[k] = s[k]
  BY <1>2, ContentBytes
<1>3. QED
  BY <1>1, <1>2, SeqEqual

(* Copying inside the vector changes the bytes copied to and no others. *)
LEMMA CopyToBytes ==
  ASSUME NEW mem \in Seq(Byte), NEW data \in Seq(Byte), NEW at \in Nat,
         at + Len(data) <= Len(mem)
  PROVE  /\ CopyTo(mem, at, data) \in Seq(Byte)
         /\ Len(CopyTo(mem, at, data)) = Len(mem)
         /\ \A k \in 1 .. Len(mem) : CopyTo(mem, at, data)[k] =
              IF at < k /\ k <= at + Len(data) THEN data[k - at] ELSE mem[k]
<1>1. /\ Len(mem) \in Nat
      /\ Len(data) \in Nat
      /\ \A k \in 1 .. Len(mem) : mem[k] \in Byte
      /\ \A k \in 1 .. Len(data) : data[k] \in Byte
  BY ElementOfSeq, LenProperties
<1>2. CopyTo(mem, at, data) \in [1 .. Len(mem) -> Byte]
  <2> SUFFICES ASSUME NEW k \in 1 .. Len(mem)
               PROVE  (IF at < k /\ k <= at + Len(data)
                       THEN data[k - at] ELSE mem[k]) \in Byte
    BY DEF CopyTo
  <2>1. CASE at < k /\ k <= at + Len(data)
    <3>1. k - at \in 1 .. Len(data)
      BY <2>1, <1>1
    <3> QED BY <3>1, <2>1, <1>1
  <2>2. CASE ~(at < k /\ k <= at + Len(data))
    BY <2>2, <1>1
  <2> QED BY <2>1, <2>2
<1>3. CopyTo(mem, at, data) \in Seq(Byte) /\ Len(CopyTo(mem, at, data)) = Len(mem)
  BY <1>1, <1>2, FunctionIsSeq
<1>4. QED
  BY <1>3 DEF CopyTo

(* Growing keeps the old bytes. *)
LEMMA ResizeBytes ==
  ASSUME NEW mem \in Seq(Byte), NEW n \in Nat, Len(mem) <= n
  PROVE  /\ Resize(mem, n) \in Seq(Byte)
         /\ Len(Resize(mem, n)) = n
         /\ \A k \in 1 .. Len(mem) : Resize(mem, n)[k] = mem[k]
<1>1. /\ Len(mem) \in Nat
      /\ \A k \in 1 .. Len(mem) : mem[k] \in Byte
  BY ElementOfSeq, LenProperties
<1>2. Resize(mem, n) \in [1 .. n -> Byte]
  BY <1>1, BufferAssumption DEF Resize
<1>3. Resize(mem, n) \in Seq(Byte) /\ Len(Resize(mem, n)) = n
  BY <1>2, FunctionIsSeq
<1>4. QED
  BY <1>1, <1>3 DEF Resize

(* ExtendSpace makes the room asked for and keeps the readable bytes. *)
LEMMA ExtendSpaceKeeps ==
  ASSUME NEW b, Ordered(b), NEW len \in Nat, WritableBytes(b) < len,
         NEW e, e = ExtendSpace(b, len)
  PROVE  /\ Ordered(e)
         /\ WritableBytes(e) >= len
         /\ Content(e) = Content(b)
<1>1. /\ b.mem \in Seq(Byte) /\ b.read \in Nat /\ b.write \in Nat
      /\ Len(b.mem) \in Nat /\ b.read <= b.write /\ b.write <= Len(b.mem)
      /\ b = [mem |-> b.mem, read |-> b.read, write |-> b.write]
  BY LenProperties DEF Ordered, BufferState
<1>2. /\ Content(b) \in Seq(Byte)
      /\ Len(Content(b)) = b.write - b.read
      /\ \A k \in 1 .. b.write - b.read : Content(b)[k] = b.mem[b.read + k]
  BY ContentBytes
<1>3. CASE WritableBytes(b) + b.read < len
  <2>1. /\ e.mem = Resize(b.mem, b.write + len)
        /\ e.read = b.read
        /\ e.write = b.write
        /\ e = [mem |-> e.mem, read |-> e.read, write |-> e.write]
    BY <1>1, <1>3 DEF ExtendSpace
  <2>2. b.write + len \in Nat /\ Len(b.mem) <= b.write + len
    BY <1>1 DEF WritableBytes
  <2>3. /\ e.mem \in Seq(Byte)
        /\ Len(e.mem) = b.write + len
        /\ \A k \in 1 .. Len(b.mem) : e.mem[k] = b.mem[k]
    BY <1>1, <2>1, <2>2, ResizeBytes
  <2>4. Ordered(e) /\ WritableBytes(e) >= len
    BY <1>1, <2>1, <2>3 DEF Ordered, BufferState, WritableBytes
  <2>5. ASSUME NEW k \in 1 .. Len(Content(b))
        PROVE  e.mem[e.read + k] = Content(b)[k]
    <3>1. e.read + k \in 1 .. Len(b.mem) /\ e.read + k = b.read + k
      BY <1>1, <1>2, <2>1
    <3>2. e.mem[e.read + k] = b.mem[b.read + k]
      BY <2>3, <3>1
    <3>3. QED
      BY <1>1, <1>2, <3>2
  <2>6. Content(e) = Content(b)
    BY <1>1, <1>2, <2>1, <2>4, <2>5, ContentIs
  <2>7. QED
    BY <2>4, <2>6
<1>4. CASE ~(WritableBytes(b) + b.read < len)
  <2>1. /\ e.mem = CopyTo(b.mem, 0, Content(b))
        /\ e.read = 0
        /\ e.write = b.write - b.read
        /\ e = [mem |-> e.mem, read |-> e.read, write |-> e.write]
    BY <1>4 DEF ExtendSpace, ReadableBytes
  <2>2. 0 + Len(Content(b)) <= Len(b.mem)
    BY <1>1, <1>2
  <2>3. /\ e.mem \in Seq(Byte)
        /\ Len(e.mem) = Len(b.mem)
    <3>1. b.mem \in Seq(Byte) /\ Content(b) \in Seq(Byte) /\ 0 \in Nat
      BY <1>1, <1>2
    <3>2. QED
      BY <2>1, <2>2, <3>1, CopyToBytes
  <2>4. Ordered(e) /\ WritableBytes(e) >= len
    BY <1>1, <1>4, <2>1, <2>3 DEF Ordered, BufferState, WritableBytes
  <2>5. ASSUME NEW k \in 1 .. Len(Content(b))
        PROVE  e.mem[e.read + k] = Content(b)[k]
    <3>1. k \in 1 .. Len(b.mem) /\ e.read + k = k /\ k - 0 = k
      BY <1>1, <1>2, <2>1
    <3>2. e.mem[k] = Content(b)[k]
      BY <1>1, <1>2, <2>1, <3>1 DEF CopyTo
    <3>3. QED
      BY <3>1, <3>2
  <2>6. Content(e) = Content(b)
    BY <1>1, <1>2, <2>1, <2>4, <2>5, ContentIs
  <2>7. QED
    BY <2>4, <2>6
<1>5. QED
  BY <1>3, <1>4

(* Copying data behind the readable bytes of a buffer with room for it,    *)
(* and moving the write index over it, adds data to the readable bytes.    *)
LEMMA WriteBehindAdds ==
  ASSUME NEW b, Ordered(b), NEW data \in Seq(Byte), Len(data) <= WritableBytes(b),
         NEW e, e = WriteBehind(b, data)
  PROVE  /\ Ordered(e)
         /\ Len(e.mem) = Len(b.mem)
         /\ e.read = b.read
         /\ e.write = b.write + Len(data)
         /\ Content(e) = Content(b) \o data
<1>1. /\ b.mem \in Seq(Byte) /\ b.read \in Nat /\ b.write \in Nat
      /\ Len(b.mem) \in Nat /\ b.read <= b.write /\ b.write <= Len(b.mem)
      /\ b = [mem |-> b.mem, read |-> b.read, write |-> b.write]
      /\ Len(data) \in Nat
  BY LenProperties DEF Ordered, BufferState
<1>2. /\ Content(b) \in Seq(Byte)
      /\ Len(Content(b)) = b.write - b.read
      /\ \A k \in 1 .. b.write - b.read : Content(b)[k] = b.mem[b.read + k]
  BY ContentBytes
<1>3. /\ e.mem = CopyTo(b.mem, b.write, data)
      /\ e.read = b.read
      /\ e.write = b.write + Len(data)
      /\ e = [mem |-> e.mem, read |-> e.read, write |-> e.write]
  BY DEF WriteBehind
<1>4. b.write + Len(data) <= Len(b.mem)
  BY <1>1 DEF WritableBytes
<1>5. e.mem \in Seq(Byte) /\ Len(e.mem) = Len(b.mem)
  BY <1>1, <1>3, <1>4, CopyToBytes
<1>6. Ordered(e)
  BY <1>1, <1>3, <1>4, <1>5 DEF Ordered, BufferState
<1>7. /\ Content(b) \o data \in Seq(Byte)
      /\ Len(Content(b) \o data) = e.write - e.read
      /\ \A k \in 1 .. Len(Content(b)) + Len(data) : (Content(b) \o data)[k] =
           IF k <= Len(Content(b)) THEN Content(b)[k] ELSE data[k - Len(Content(b))]
  <2>1. /\ Content(b) \o data \in Seq(Byte)
        /\ Len(Content(b) \o data) = Len(Content(b)) + Len(data)
        /\ \A k \in 1 .. Len(Content(b)) + Len(data) : (Content(b) \o data)[k] =
             IF k <= Len(Content(b)) THEN Content(b)[k] ELSE data[k - Len(Content(b))]
    BY <1>2, ConcatProperties
  <2>2. e.write - e.read = Len(Content(b)) + Len(data)
    BY <1>1, <1>2, <1>3
  <2>3. QED
    BY <2>1, <2>2
<1>8. ASSUME NEW k \in 1 .. Len(Content(b) \o data)
      PROVE  e.mem[e.read + k] = (Content(b) \o data)[k]
  <2>1. /\ k \in 1 .. Len(Content(b)) + Len(data)
        /\ e.read + k \in 1 .. Len(b.mem)
        /\ e.read + k = b.read + k
    BY <1>1, <1>2, <1>3, <1>4, <1>7
  <2>2. \A j \in 1 .. Len(b.mem) : e.mem[j] =
          IF b.write < j /\ j <= b.write + Len(data)
          THEN data[j - b.write] ELSE b.mem[j]
    BY <1>3 DEF CopyTo
  <2>3. PICK j \in 1 .. Len(b.mem) : j = e.read + k
    BY <2>1
  <2>4. CASE k <= Len(Content(b))
    <3>1. (Content(b) \o data)[k] = Content(b)[k]
      BY <1>7, <2>1, <2>4
    <3>2. Content(b)[k] = b.mem[j]
      BY <1>1, <1>2, <2>1, <2>3, <2>4
    <3>3. ~(b.write < j)
      BY <1>1, <1>2, <2>1, <2>3, <2>4
    <3>4. QED
      BY <2>2, <2>3, <3>1, <3>2, <3>3
  <2>5. CASE ~(k <= Len(Content(b)))
    <3>1. (Content(b) \o data)[k] = data[k - Len(Content(b))]
      BY <1>7, <2>1, <2>5
    <3>2. /\ b.write < j
          /\ j <= b.write + Len(data)
          /\ j - b.write = k - Len(Content(b))
      BY <1>1, <1>2, <1>3, <2>1, <2>3, <2>5
    <3>3. e.mem[j] = data[j - b.write]
      BY <2>2, <3>2
    <3>4. QED
      BY <2>3, <3>1, <3>2, <3>3
  <2>6. QED
    BY <2>4, <2>5
<1>9. Content(e) = Content(b) \o data
  BY <1>6, <1>7, <1>8, ContentIs
<1>10. QED
  BY <1>3, <1>5, <1>6, <1>9

(* Appending adds exactly the bytes given, behind the readable ones.       *)
LEMMA AppendDataAdds ==
  ASSUME NEW b, Ordered(b), NEW data \in Seq(Byte)
  PROVE  /\ Ordered(AppendData(b, data))
         /\ Content(AppendData(b, data)) = Content(b) \o data
<1>1. Len(data) \in Nat /\ WritableBytes(b) \in Int
  BY LenProperties DEF Ordered, BufferState, WritableBytes
<1>2. PICK room : room = IF WritableBytes(b) < Len(data)
                         THEN ExtendSpace(b, Len(data)) ELSE b
  OBVIOUS
<1>3. /\ Ordered(room)
      /\ Content(room) = Content(b)
      /\ Len(data) <= WritableBytes(room)
  <2>1. CASE WritableBytes(b) < Len(data)
    <3>1. room = ExtendSpace(b, Len(data))
      BY <1>2, <2>1
    <3>2. Ordered(room) /\ WritableBytes(room) >= Len(data) /\ Content(room) = Content(b)
      BY <1>1, <2>1, <3>1, ExtendSpaceKeeps
    <3>3. WritableBytes(room) \in Int
      BY <3>2, LenProperties DEF Ordered, BufferState, WritableBytes
    <3>4. QED
      BY <1>1, <3>2, <3>3
  <2>2. CASE ~(WritableBytes(b) < Len(data))
    BY <1>1, <1>2, <2>2
  <2>3. QED
    BY <2>1, <2>2
<1>4. AppendData(b, data) = WriteBehind(room, data)
  BY <1>2 DEF AppendData
<1>5. QED
  BY <1>3, <1>4, WriteBehindAdds

(* Retrieving drops the oldest readable bytes, all of them when more are   *)
(* asked for than there are.                                               *)
LEMMA RetrieveDrops ==
  ASSUME NEW b, Ordered(b), NEW n \in Nat
  PROVE  /\ Ordered(Retrieve(b, n))
         /\ Content(Retrieve(b, n)) = SubSeq(Content(b), n + 1, Len(Content(b)))
<1>1. /\ b.mem \in Seq(Byte) /\ b.read \in Nat /\ b.write \in Nat
      /\ Len(b.mem) \in Nat /\ b.read <= b.write /\ b.write <= Len(b.mem)
      /\ b = [mem |-> b.mem, read |-> b.read, write |-> b.write]
  BY LenProperties DEF Ordered, BufferState
<1>2. /\ Content(b) \in Seq(Byte)
      /\ Len(Content(b)) = b.write - b.read
      /\ \A k \in 1 .. b.write - b.read : Content(b)[k] = b.mem[b.read + k]
  BY ContentBytes
<1>3. PICK e : e = Retrieve(b, n)
  OBVIOUS
<1>4. CASE ReadableBytes(b) > n
  <2>1. e = [mem |-> b.mem, read |-> b.read + n, write |-> b.write]
    BY <1>1, <1>3, <1>4 DEF Retrieve
  <2>2. Ordered(e)
    BY <1>1, <1>4, <2>1 DEF Ordered, BufferState, ReadableBytes
  <2>3. PICK s : s = SubSeq(Content(b), n + 1, Len(Content(b)))
    OBVIOUS
  <2>4. /\ s \in Seq(Byte)
        /\ Len(s) = b.write - b.read - n
        /\ \A k \in 1 .. b.write - b.read - n : s[k] = Content(b)[n + k]
    <3>1. n <= Len(Content(b))
      BY <1>1, <1>2, <1>4 DEF ReadableBytes
    <3>2. QED
      BY <1>2, <2>3, <3>1, SuffixElements
  <2>5. ASSUME NEW k \in 1 .. Len(s) PROVE e.mem[e.read + k] = s[k]
    <3>1. n + k \in 1 .. b.write - b.read /\ e.read + k = b.read + (n + k)
      BY <1>1, <1>4, <2>1, <2>4 DEF ReadableBytes
    <3>2. Content(b)[n + k] = b.mem[b.read + (n + k)]
      BY <1>2, <3>1
    <3>3. QED
      BY <1>1, <2>1, <2>4, <3>1, <3>2
  <2>6. Len(s) = e.write - e.read
    BY <1>1, <2>1, <2>4
  <2>7. QED
    BY <1>3, <2>2, <2>3, <2>4, <2>5, <2>6, ContentIs
<1>5. CASE ~(ReadableBytes(b) > n)
  <2>1. e = [mem |-> b.mem, read |-> 0, write |-> 0]
    BY <1>1, <1>3, <1>5 DEF Retrieve, RetrieveAll
  <2>2. Ordered(e)
    BY <1>1, <2>1 DEF Ordered, BufferState
  <2>3. Content(e) = <<>>
    BY <2>1, SubSeqEmpty DEF Content
  <2>4. SubSeq(Content(b), n + 1, Len(Content(b))) = <<>>
    BY <1>1, <1>2, <1>5, SubSeqEmpty DEF ReadableBytes
  <2>5. QED
    BY <1>3, <2>2, <2>3, <2>4
<1>6. QED
  BY <1>4, <1>5

(* The readv of HandleRead adds the bytes received, whichever of the two   *)
(* areas they landed in.                                                   *)
LEMMA ReadVecAdds ==
  ASSUME NEW b, Ordered(b), NEW data \in Seq(Byte)
  PROVE  /\ Ordered(ReadVec(b, data))
         /\ Content(ReadVec(b, data)) = Content(b) \o data
<1>1. /\ WritableBytes(b) \in Nat
      /\ Len(data) \in Nat
      /\ Content(b) \in Seq(Byte)
  BY LenProperties, ContentBytes DEF Ordered, BufferState, WritableBytes
<1>2. CASE WritableBytes(b) >= Len(data)
  <2>1. ReadVec(b, data) = WriteBehind(b, data)
    BY <1>2 DEF ReadVec
  <2>2. QED
    BY <1>1, <1>2, <2>1, WriteBehindAdds
<1>3. CASE ~(WritableBytes(b) >= Len(data))
  <2>1. PICK head, tail : /\ head = SubSeq(data, 1, WritableBytes(b))
                          /\ tail = SubSeq(data, WritableBytes(b) + 1, Len(data))
    OBVIOUS
  <2>2. /\ head \in Seq(Byte)
        /\ tail \in Seq(Byte)
        /\ Len(head) = WritableBytes(b)
        /\ head \o tail = data
    <3>1. WritableBytes(b) <= Len(data)
      BY <1>1, <1>3
    <3>2. tail \in Seq(Byte)
      BY <1>1, <2>1, <3>1, SuffixElements
    <3>3. head \in Seq(Byte) /\ Len(head) = WritableBytes(b)
      <4>1. \A k \in 1 .. WritableBytes(b) : data[k] \in Byte
        BY <1>1, <3>1, ElementOfSeq
      <4>2. QED
        BY <1>1, <2>1, <4>1, SubSeqProperties
    <3>4. head \o tail = SubSeq(data, 1, Len(data))
      <4>1. PICK w \in 0 .. Len(data) : w = WritableBytes(b)
        BY <1>1, <3>1
      <4>2. /\ 1 \in 1 .. Len(data) + 1
            /\ w \in 1 - 1 .. Len(data)
            /\ Len(data) \in w .. Len(data)
        BY <1>1, <4>1
      <4>3. SubSeq(data, 1, w) \o SubSeq(data, w + 1, Len(data))
              = SubSeq(data, 1, Len(data))
        BY <4>2, ConcatAdjacentSubSeq
      <4>4. QED
        BY <2>1, <4>1, <4>3
    <3>5. QED
      BY <3>2, <3>3, <3>4, SubSeqFull
  <2>3. PICK m : m = WriteBehind(b, head)
    OBVIOUS
  <2>4. Ordered(m) /\ Content(m) = Content(b) \o head
    <3>1. head \in Seq(Byte) /\ Len(head) <= WritableBytes(b)
      BY <1>1, <2>2
    <3>2. QED
      BY <2>3, <3>1, WriteBehindAdds
  <2>5. ReadVec(b, data) = AppendData(m, tail)
    BY <1>3, <2>1, <2>3 DEF ReadVec
  <2>6. /\ Ordered(AppendData(m, tail))
        /\ Content(AppendData(m, tail)) = (Content(b) \o head) \o tail
    BY <2>2, <2>4, AppendDataAdds
  <2>7. (Content(b) \o head) \o tail = Content(b) \o data
    <3>1. Content(b) \in Seq(Byte) /\ head \in Seq(Byte) /\ tail \in Seq(Byte)
      BY <1>1, <2>2
    <3>2. (Content(b) \o head) \o tail = Content(b) \o (head \o tail)
      BY <3>1, ConcatAssociative
    <3>3. QED
      BY <2>2, <3>2
  <2>8. QED
    BY <2>5, <2>6, <2>7
<1>4. QED
  BY <1>2, <1>3
-----------------------------------------------------------------------------
(* An empty buffer starts at index 0. *)
IsReset(b) == b.read = b.write => b.write = 0

(* e, which an operation made of b, is longer than b only if mostly full. *)
Sparing(b, e) == Len(e.mem) > Len(b.mem) => Len(e.mem) < 2 * ReadableBytes(e)

(* e is what b becomes when data is put behind its bytes ... *)
Puts(b, e, data) ==
  /\ Ordered(e)
  /\ Content(e) = Content(b) \o data
  /\ IsReset(b) => IsReset(e)
  /\ Sparing(b, e)

(* ... and when its n oldest bytes leave. *)
Takes(b, e, n) ==
  /\ Ordered(e)
  /\ Content(e) = SubSeq(Content(b), n + 1, Len(Content(b)))
  /\ IsReset(b) => IsReset(e)
  /\ Sparing(b, e)

LEMMA OrderedFacts ==
  ASSUME NEW b, Ordered(b)
  PROVE  /\ b.mem \in Seq(Byte) /\ b.read \in Nat /\ b.write \in Nat
         /\ Len(b.mem) \in Nat /\ b.read <= b.write /\ b.write <= Len(b.mem)
         /\ Content(b) \in Seq(Byte)
         /\ Len(Content(b)) = b.write - b.read
BY LenProperties, ContentBytes DEF Ordered, BufferState

LEMMA AppendDataPuts ==
  ASSUME NEW b, Ordered(b), NEW data \in Seq(Byte), NEW e, e = AppendData(b, data)
  PROVE  Puts(b, e, data)
<1>1. Ordered(e) /\ Content(e) = Content(b) \o data
  BY AppendDataAdds
<1>2. /\ b.mem \in Seq(Byte) /\ b.read \in Nat /\ b.write \in Nat
      /\ Len(b.mem) \in Nat /\ b.read <= b.write /\ b.write <= Len(b.mem)
      /\ Len(data) \in Nat
  BY OrderedFacts, LenProperties
<1>3. CASE WritableBytes(b) < Len(data)
  <2>1. PICK room : room = ExtendSpace(b, Len(data))
    OBVIOUS
  <2>2. /\ Ordered(room)
        /\ Len(data) <= WritableBytes(room)
    <3>1. Ordered(room) /\ WritableBytes(room) >= Len(data)
      BY <1>2, <1>3, <2>1, ExtendSpaceKeeps
    <3>2. WritableBytes(room) \in Int
      BY <3>1, OrderedFacts DEF WritableBytes
    <3>3. QED
      BY <1>2, <3>1, <3>2
  <2>3. e = WriteBehind(room, data)
    BY <1>3, <2>1 DEF AppendData
  <2>4. /\ Len(e.mem) = Len(room.mem)
        /\ e.read = room.read
        /\ e.write = room.write + Len(data)
    BY <2>2, <2>3, WriteBehindAdds
  <2>5. Len(data) > 0
    BY <1>2, <1>3 DEF WritableBytes
  <2>6. IsReset(e)
    <3>1. room.read \in Nat /\ room.write \in Nat /\ room.read <= room.write
      BY <2>2, OrderedFacts
    <3>2. QED
      BY <1>2, <2>4, <2>5, <3>1 DEF IsReset
  <2>7. Sparing(b, e)
    <3>1. CASE WritableBytes(b) + b.read < Len(data)
      <4>1. /\ room.mem = Resize(b.mem, b.write + Len(data))
            /\ room.read = b.read
            /\ room.write = b.write
        BY <1>2, <2>1, <3>1 DEF ExtendSpace, Ordered, BufferState
      <4>2. b.write + Len(data) \in Nat /\ Len(b.mem) <= b.write + Len(data)
        BY <1>2, <1>3 DEF WritableBytes
      <4>3. Len(room.mem) = b.write + Len(data)
        BY <1>2, <4>1, <4>2, ResizeBytes
      <4>4. /\ Len(e.mem) = b.write + Len(data)
            /\ e.read = b.read
            /\ e.write = b.write + Len(data)
        BY <2>4, <4>1, <4>3
      <4>5. Len(b.mem) - b.write + b.read < Len(data)
        BY <3>1 DEF WritableBytes
      <4>6. ASSUME NEW size \in Nat, NEW r \in Nat, NEW w \in Nat, NEW n \in Nat,
                   r <= w, w <= size, size - w + r < n
            PROVE  w + n < 2 * (w + n - r)
        BY <4>6
      <4>7. b.write + Len(data) < 2 * (b.write + Len(data) - b.read)
        BY <1>2, <4>5, <4>6
      <4>8. QED
        <5>1. ReadableBytes(e) = b.write + Len(data) - b.read
          BY <1>2, <4>4 DEF ReadableBytes
        <5>2. Len(e.mem) < 2 * ReadableBytes(e)
          BY <4>4, <4>7, <5>1
        <5>3. QED
          BY <5>2 DEF Sparing
    <3>2. CASE ~(WritableBytes(b) + b.read < Len(data))
      <4>1. room.mem = CopyTo(b.mem, 0, Content(b))
        BY <2>1, <3>2 DEF ExtendSpace
      <4>2. /\ Content(b) \in Seq(Byte)
            /\ 0 \in Nat
            /\ 0 + Len(Content(b)) <= Len(b.mem)
        BY <1>2, OrderedFacts
      <4>3. Len(room.mem) = Len(b.mem)
        BY <1>2, <4>1, <4>2, CopyToBytes
      <4>4. QED
        BY <1>2, <2>4, <4>3 DEF Sparing
    <3>3. QED
      BY <3>1, <3>2
  <2>8. QED
    BY <1>1, <2>6, <2>7 DEF Puts
<1>4. CASE ~(WritableBytes(b) < Len(data))
  <2>1. e = WriteBehind(b, data)
    BY <1>4 DEF AppendData
  <2>2. Len(data) <= WritableBytes(b)
    BY <1>2, <1>4 DEF WritableBytes
  <2>3. /\ Len(e.mem) = Len(b.mem)
        /\ e.read = b.read
        /\ e.write = b.write + Len(data)
    BY <2>1, <2>2, WriteBehindAdds
  <2>4. (IsReset(b) => IsReset(e)) /\ Sparing(b, e)
    BY <1>2, <2>3 DEF IsReset, Sparing
  <2>5. QED
    BY <1>1, <2>4 DEF Puts
<1>5. QED
  BY <1>3, <1>4

LEMMA ReadVecPuts ==
  ASSUME NEW b, Ordered(b), NEW data \in Seq(Byte), NEW e, e = ReadVec(b, data)
  PROVE  Puts(b, e, data)
<1>1. Ordered(e) /\ Content(e) = Content(b) \o data
  BY ReadVecAdds
<1>2. /\ b.read \in Nat /\ b.write \in Nat
      /\ Len(b.mem) \in Nat /\ b.read <= b.write /\ b.write <= Len(b.mem)
      /\ Len(data) \in Nat
  BY OrderedFacts, LenProperties
<1>3. CASE WritableBytes(b) >= Len(data)
  <2>1. e = WriteBehind(b, data)
    BY <1>3 DEF ReadVec
  <2>2. Len(data) <= WritableBytes(b)
    BY <1>2, <1>3 DEF WritableBytes
  <2>3. /\ Len(e.mem) = Len(b.mem)
        /\ e.read = b.read
        /\ e.write = b.write + Len(data)
    BY <2>1, <2>2, WriteBehindAdds
  <2>4. (IsReset(b) => IsReset(e)) /\ Sparing(b, e)
    BY <1>2, <2>3 DEF IsReset, Sparing
  <2>5. QED
    BY <1>1, <2>4 DEF Puts
<1>4. CASE ~(WritableBytes(b) >= Len(data))
  <2>1. PICK w \in Nat : w = WritableBytes(b) /\ w < Len(data)
    BY <1>2, <1>4 DEF WritableBytes
  <2>2. PICK head, tail : head = SubSeq(data, 1, w) /\ tail = SubSeq(data, w + 1, Len(data))
    OBVIOUS
  <2>3. head \in Seq(Byte) /\ Len(head) = w
    <3>1. \A k \in 1 .. w : data[k] \in Byte
      BY <1>2, <2>1, ElementOfSeq
    <3>2. QED
      BY <2>1, <2>2, <3>1, SubSeqProperties
  <2>4. tail \in Seq(Byte) /\ Len(tail) = Len(data) - w
    BY <1>2, <2>1, <2>2, SuffixElements
  <2>5. PICK m : m = WriteBehind(b, head)
    OBVIOUS
  <2>6. /\ Ordered(m)
        /\ Len(m.mem) = Len(b.mem)
        /\ m.read = b.read
        /\ m.write = b.write + w
    <3>1. Len(head) <= WritableBytes(b)
      BY <2>1, <2>3
    <3>2. QED
      BY <2>3, <2>5, <3>1, WriteBehindAdds
  <2>7. e = AppendData(m, tail)
    BY <1>4, <2>1, <2>2, <2>5 DEF ReadVec
  <2>8. Puts(m, e, tail)
    BY <2>4, <2>6, <2>7, AppendDataPuts
  <2>9. Sparing(b, e)
    BY <2>6, <2>8 DEF Puts, Sparing
  <2>10. IsReset(e)
    <3>1. /\ e.read \in Nat /\ e.write \in Nat /\ e.read <= e.write
          /\ Len(Content(e)) = e.write - e.read
      BY <1>1, OrderedFacts
    <3>2. Len(Content(e)) = Len(Content(b)) + Len(data)
      <4>1. Content(b) \in Seq(Byte)
        BY OrderedFacts
      <4>2. QED
        BY <1>1, <4>1, ConcatProperties
    <3>3. Len(Content(b)) = b.write - b.read
      BY OrderedFacts
    <3>4. QED
      BY <1>2, <2>1, <3>1, <3>2, <3>3 DEF IsReset
  <2>11. QED
    BY <1>1, <2>9, <2>10 DEF Puts
<1>5. QED
  BY <1>3, <1>4

LEMMA RetrieveTakes ==
  ASSUME NEW b, Ordered(b), NEW n \in Nat, NEW e, e = Retrieve(b, n)
  PROVE  Takes(b, e, n)
<1>1. Ordered(e) /\ Content(e) = SubSeq(Content(b), n + 1, Len(Content(b)))
  BY RetrieveDrops
<1>2. /\ b.read \in Nat /\ b.write \in Nat /\ Len(b.mem) \in Nat
      /\ b.read <= b.write
      /\ b = [mem |-> b.mem, read |-> b.read, write |-> b.write]
  BY OrderedFacts DEF Ordered, BufferState
<1>3. CASE ReadableBytes(b) > n
  <2>1. e = [mem |-> b.mem, read |-> b.read + n, write |-> b.write]
    BY <1>2, <1>3 DEF Retrieve
  <2>2. IsReset(e) /\ Sparing(b, e)
    BY <1>2, <1>3, <2>1 DEF IsReset, Sparing, ReadableBytes
  <2>3. QED
    BY <1>1, <2>2 DEF Takes
<1>4. CASE ~(ReadableBytes(b) > n)
  <2>1. e = [mem |-> b.mem, read |-> 0, write |-> 0]
    BY <1>4 DEF Retrieve, RetrieveAll
  <2>2. IsReset(e) /\ Sparing(b, e)
    BY <1>2, <2>1 DEF IsReset, Sparing
  <2>3. QED
    BY <1>1, <2>2 DEF Takes
<1>5. QED
  BY <1>3, <1>4

LEMMA RetrieveAllTakes ==
  ASSUME NEW b, Ordered(b), NEW e, e = RetrieveAll(b)
  PROVE  Takes(b, e, Len(Content(b)))
<1>1. Len(Content(b)) \in Nat /\ ReadableBytes(b) = Len(Content(b))
  BY OrderedFacts DEF ReadableBytes
<1>2. e = Retrieve(b, Len(Content(b)))
  BY <1>1 DEF Retrieve
<1>3. QED
  BY <1>1, <1>2, RetrieveTakes
-----------------------------------------------------------------------------
(* The inductive invariant: every buffer is ordered. *)
IInv == TypeOK /\ IndexOrder

LEMMA InvOrdered ==
  IInv <=> (buf \in [Ids -> BufferState] /\ \A i \in Ids : Ordered(buf[i]))
BY DEF IInv, TypeOK, IndexOrder, Ordered

LEMMA InitOrdered == Init => IInv
<1> SUFFICES ASSUME Init PROVE IInv
  OBVIOUS
<1>1. [k \in 1 .. InitSize |-> Zero] \in [1 .. InitSize -> Byte]
  BY BufferAssumption
<1>2. /\ [k \in 1 .. InitSize |-> Zero] \in Seq(Byte)
      /\ Len([k \in 1 .. InitSize |-> Zero]) = InitSize
  BY <1>1, FunctionIsSeq, BufferAssumption
<1>3. \A i \in Ids : Ordered([mem |-> [k \in 1 .. InitSize |-> Zero],
                              read |-> 0, write |-> 0])
  BY <1>2, BufferAssumption DEF Ordered, BufferState
<1>4. QED
  BY <1>3, InvOrdered DEF Init, Ordered

(* Every step puts bytes into one buffer, takes bytes from one, or swaps.  *)
LEMMA StepKinds ==
  ASSUME IInv, Next
  PROVE  \/ \E i \in Ids, data \in Data : \E e :
              Puts(buf[i], e, data) /\ buf' = [buf EXCEPT ![i] = e]
         \/ \E i \in Ids, n \in Nat : \E e :
              Takes(buf[i], e, n) /\ buf' = [buf EXCEPT ![i] = e]
         \/ \E i, j \in Ids : Swap(i, j)
<1>1. \A i \in Ids : Ordered(buf[i])
  BY InvOrdered
<1>2. \A data \in Data : data \in Seq(Byte)
  BY BufferAssumption
<1>3. ASSUME NEW i \in Ids, NEW data \in Data, AppendTo(i, data)
      PROVE  \E e : Puts(buf[i], e, data) /\ buf' = [buf EXCEPT ![i] = e]
  <2>1. Puts(buf[i], AppendData(buf[i], data), data)
    BY <1>1, <1>2, AppendDataPuts
  <2>2. QED
    BY <1>3, <2>1 DEF AppendTo
<1>4. ASSUME NEW i \in Ids, NEW data \in Data, ReceiveInto(i, data)
      PROVE  \E e : Puts(buf[i], e, data) /\ buf' = [buf EXCEPT ![i] = e]
  <2>1. Puts(buf[i], ReadVec(buf[i], data), data)
    BY <1>1, <1>2, ReadVecPuts
  <2>2. QED
    BY <1>4, <2>1 DEF ReceiveInto
<1>5. ASSUME NEW i \in Ids, NEW n \in 0 .. MaxReadable + 1, RetrieveFrom(i, n)
      PROVE  n \in Nat /\ \E e : Takes(buf[i], e, n) /\ buf' = [buf EXCEPT ![i] = e]
  <2>1. n \in Nat
    BY BufferAssumption
  <2>2. Takes(buf[i], Retrieve(buf[i], n), n)
    BY <1>1, <2>1, RetrieveTakes
  <2>3. QED
    BY <1>5, <2>1, <2>2 DEF RetrieveFrom
<1>6. ASSUME NEW i \in Ids, RetrieveAllOf(i)
      PROVE  \E n \in Nat : \E e : Takes(buf[i], e, n) /\ buf' = [buf EXCEPT ![i] = e]
  <2>1. Takes(buf[i], RetrieveAll(buf[i]), Len(Content(buf[i])))
    BY <1>1, RetrieveAllTakes
  <2>2. Len(Content(buf[i])) \in Nat
    BY <1>1, OrderedFacts
  <2>3. QED
    BY <1>6, <2>1, <2>2 DEF RetrieveAllOf
<1>7. QED
  BY <1>3, <1>4, <1>5, <1>6 DEF Next

LEMMA StepOrdered == IInv /\ [Next]_buf => IInv'
<1> SUFFICES ASSUME IInv, [Next]_buf PROVE IInv'
  OBVIOUS
<1>1. buf \in [Ids -> BufferState] /\ \A i \in Ids : Ordered(buf[i])
  BY InvOrdered
<1> DEFINE Good == buf' \in [Ids -> BufferState] /\ \A i \in Ids : Ordered(buf'[i])
<1>2. ASSUME NEW i \in Ids, NEW e, Ordered(e), buf' = [buf EXCEPT ![i] = e]
      PROVE  Good
  BY <1>1, <1>2 DEF Ordered
<1>3. ASSUME NEW i \in Ids, NEW j \in Ids, Swap(i, j) PROVE Good
  BY <1>1, <1>3 DEF Swap
<1>4. ASSUME Next PROVE Good
  BY <1>2, <1>3, <1>4, StepKinds DEF Puts, Takes
<1>5. ASSUME UNCHANGED buf PROVE Good
  BY <1>1, <1>5
<1>6. Good
  BY <1>4, <1>5
<1>7. QED
  BY <1>6 DEF IInv, TypeOK, IndexOrder, Ordered

LEMMA Inductive == Spec => []IInv
BY InitOrdered, StepOrdered, PTL DEF Spec
-----------------------------------------------------------------------------
(* Every buffer stays a vector with two indices, whatever the calls. *)
THEOREM BufferTypeCorrect == Spec => []TypeOK
BY Inductive, PTL DEF IInv

(* No sequence of appends, readv's, retrievals of any length and swaps     *)
(* takes an index out of order or out of the vector.                       *)
THEOREM BufferIndexOrder == Spec => []IndexOrder
BY Inductive, PTL DEF IInv

(* A buffer emptied by any sequence of calls starts at index 0 again. *)
THEOREM BufferEmptyIsReset == Spec => []EmptyIsReset
<1>1. Init => EmptyIsReset
  BY DEF Init, EmptyIsReset
<1>2. IInv /\ EmptyIsReset /\ [Next]_buf => EmptyIsReset'
  <2> SUFFICES ASSUME IInv, EmptyIsReset, [Next]_buf PROVE EmptyIsReset'
    OBVIOUS
  <2>1. buf \in [Ids -> BufferState] /\ \A i \in Ids : IsReset(buf[i])
    BY InvOrdered DEF EmptyIsReset, IsReset
  <2> DEFINE Good == \A i \in Ids : IsReset(buf'[i])
  <2>2. ASSUME NEW i \in Ids, NEW e, IsReset(e), buf' = [buf EXCEPT ![i] = e]
        PROVE  Good
    BY <2>1, <2>2
  <2>3. ASSUME NEW i \in Ids, NEW j \in Ids, Swap(i, j) PROVE Good
    BY <2>1, <2>3 DEF Swap
  <2>4. ASSUME Next PROVE Good
    BY <2>1, <2>2, <2>3, <2>4, StepKinds DEF Puts, Takes
  <2>5. ASSUME UNCHANGED buf PROVE Good
    BY <2>1, <2>5
  <2>6. Good
    BY <2>4, <2>5
  <2>7. QED
    BY <2>6 DEF EmptyIsReset, IsReset
<1>3. QED
  BY <1>1, <1>2, Inductive, PTL DEF Spec

(* A vector that grows is then more than half full of readable bytes, for  *)
(* every initial size, stack array size and size of the data.              *)
THEOREM BufferGrowthBound == Spec => GrowthBound
<1> DEFINE Bound(i) ==
      /\ Len(buf'[i].mem) > Len(buf[i].mem)
      /\ buf'[i] \notin {buf[j] : j \in Ids}
      => Len(buf'[i].mem) < 2 * ReadableBytes(buf'[i])
<1>1. IInv /\ [Next]_buf => [\A i \in Ids : Bound(i)]_buf
  <2> SUFFICES ASSUME IInv, Next, NEW k \in Ids PROVE Bound(k)
    OBVIOUS
  <2>1. buf \in [Ids -> BufferState]
    BY InvOrdered
  <2>2. Len(buf[k].mem) \in Nat
    BY InvOrdered, OrderedFacts
  <2>3. ASSUME NEW i \in Ids, NEW e, Sparing(buf[i], e), buf' = [buf EXCEPT ![i] = e]
        PROVE  Bound(k)
    <3>1. CASE k = i
      BY <2>1, <2>3, <3>1 DEF Sparing
    <3>2. CASE k # i
      BY <2>1, <2>2, <2>3, <3>2
    <3>3. QED
      BY <3>1, <3>2
  <2>4. ASSUME NEW i \in Ids, NEW j \in Ids, Swap(i, j) PROVE Bound(k)
    <3>1. buf'[k] \in {buf[l] : l \in Ids}
      BY <2>1, <2>4 DEF Swap
    <3>2. QED
      BY <3>1
  <2>5. QED
    BY <2>3, <2>4, StepKinds DEF Puts, Takes
<1>2. QED
  BY <1>1, Inductive, PTL DEF Spec, GrowthBound

(* The readable bytes of every buffer are a first-in first-out queue: what *)
(* Buffer.h promises its users, for every byte set and vector size.        *)
THEOREM BufferImplementsQueue == Spec => ImplementsQueue
<1> DEFINE q == [i \in Ids |-> Content(buf[i])]
<1>1. Init => Queue!Init
  <2> SUFFICES ASSUME Init PROVE Queue!Init
    OBVIOUS
  <2>1. ASSUME NEW i \in Ids PROVE Content(buf[i]) = <<>>
    BY SubSeqEmpty DEF Init, Content
  <2>2. QED
    BY <2>1 DEF Queue!Init
<1>2. IInv /\ [Next]_buf => [Queue!Next]_q
  <2> SUFFICES ASSUME IInv, Next PROVE Queue!Next
    BY DEF Queue!Next
  <2>1. buf \in [Ids -> BufferState] /\ \A i \in Ids : Ordered(buf[i])
    BY InvOrdered
  <2>2. ASSUME NEW i \in Ids, NEW data \in Data, NEW e,
               Puts(buf[i], e, data), buf' = [buf EXCEPT ![i] = e]
        PROVE  Queue!Put(i, data)
    BY <2>1, <2>2 DEF Queue!Put, Puts
  <2>3. ASSUME NEW i \in Ids, NEW n \in Nat, NEW e,
               Takes(buf[i], e, n), buf' = [buf EXCEPT ![i] = e]
        PROVE  \E m \in 0 .. Len(q[i]) : Queue!Take(i, m)
    <3>1. Content(buf[i]) \in Seq(Byte) /\ Len(Content(buf[i])) \in Nat
      BY <2>1, OrderedFacts
    <3>2. PICK m \in 0 .. Len(Content(buf[i])) :
            SubSeq(Content(buf[i]), n + 1, Len(Content(buf[i])))
              = SubSeq(Content(buf[i]), m + 1, Len(Content(buf[i])))
      <4>1. CASE n <= Len(Content(buf[i]))
        BY <3>1, <4>1
      <4>2. CASE n > Len(Content(buf[i]))
        <5>1. SubSeq(Content(buf[i]), n + 1, Len(Content(buf[i]))) = <<>>
          BY <3>1, <4>2, SubSeqEmpty
        <5>2. SubSeq(Content(buf[i]), Len(Content(buf[i])) + 1, Len(Content(buf[i]))) = <<>>
          BY <3>1, SubSeqEmpty
        <5>3. Len(Content(buf[i])) \in 0 .. Len(Content(buf[i]))
          BY <3>1
        <5>4. QED
          BY <5>1, <5>2, <5>3
      <4>3. QED
        BY <3>1, <4>1, <4>2
    <3>3. Content(e) = SubSeq(Content(buf[i]), m + 1, Len(Content(buf[i])))
      BY <2>3, <3>2 DEF Takes
    <3>4. Queue!Take(i, m)
      BY <2>1, <2>3, <3>3 DEF Queue!Take
    <3>5. QED
      BY <3>4
  <2>4. ASSUME NEW i \in Ids, NEW j \in Ids, Swap(i, j)
        PROVE  Queue!Exchange(i, j)
    BY <2>1, <2>4 DEF Swap, Queue!Exchange
  <2>5. QED
    BY <2>2, <2>3, <2>4, StepKinds DEF Queue!Next
<1>3. QED
  BY <1>1, <1>2, Inductive, PTL DEF Spec, ImplementsQueue, Queue!Spec
=============================================================================
