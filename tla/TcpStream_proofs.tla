--------------------------- MODULE TcpStream_proofs ---------------------------
(***************************************************************************)
(* Proofs about the bytes that TcpConnection carries and about its close:  *)
(* for every bound and every kind of socket the application's bytes reach  *)
(* the peer in order, each once, on a blocking socket no others do, and a  *)
(* closed connection is left alone.                                        *)
(***************************************************************************)
EXTENDS TcpConnection_proofs, FiniteSetTheorems

-----------------------------------------------------------------------------
(* Sequences of the application's bytes. *)

LEMMA CarriesConcat ==
  ASSUME NEW s \in Seq(Byte), NEW t \in Seq(Byte), NEW k \in Nat, NEW m \in Nat, NEW n \in Nat,
         k <= m, m <= n, Carries(s, k, m), Carries(t, m, n)
  PROVE  Carries(s \o t, k, n)
<1> DEFINE u == s \o t
<1>1. /\ Len(s) \in Nat /\ Len(t) \in Nat /\ DOMAIN s = 1 .. Len(s) /\ DOMAIN t = 1 .. Len(t)
      /\ DOMAIN u = 1 .. Len(s) + Len(t)
      /\ \A i \in 1 .. Len(s) + Len(t) : u[i] = IF i <= Len(s) THEN s[i] ELSE t[i - Len(s)]
  BY ConcatProperties, LenProperties
<1> HIDE DEF u
<1>2. \A i \in DOMAIN u : \/ i \in DOMAIN s /\ u[i] = s[i]
                          \/ i - Len(s) \in DOMAIN t /\ u[i] = t[i - Len(s)] /\ i > Len(s)
  BY <1>1
<1>3. /\ \A i \in DOMAIN s : i \in DOMAIN u /\ u[i] = s[i] /\ i <= Len(s)
      /\ \A i \in DOMAIN t : i + Len(s) \in DOMAIN u /\ u[i + Len(s)] = t[i]
  BY <1>1
<1>4. /\ \A i \in Own(s) : s[i] \in k + 1 .. m
      /\ \A i \in Own(t) : t[i] \in m + 1 .. n
  BY DEF Carries
<1>5. \A i \in Own(u) : \/ i \in Own(s) /\ u[i] = s[i] /\ u[i] \in k + 1 .. m /\ i <= Len(s)
                        \/ /\ i - Len(s) \in Own(t) /\ u[i] = t[i - Len(s)]
                           /\ u[i] \in m + 1 .. n /\ i > Len(s)
  BY <1>2, <1>3, <1>4 DEF Own
<1>6. \A i \in Own(u) : u[i] \in k + 1 .. n
  BY <1>5
<1>7. ASSUME NEW b \in k + 1 .. n PROVE \E i \in Own(u) : u[i] = b
  <2>1. CASE b \in k + 1 .. m
    <3>1. PICK i \in Own(s) : s[i] = b
      BY <2>1 DEF Carries
    <3>2. i \in DOMAIN s /\ s[i] # Stray
      BY DEF Own
    <3> QED
      BY <1>3, <3>1, <3>2 DEF Own
  <2>2. CASE b \in m + 1 .. n
    <3>1. PICK i \in Own(t) : t[i] = b
      BY <2>2 DEF Carries
    <3>2. i \in DOMAIN t /\ t[i] # Stray
      BY DEF Own
    <3>3. i + Len(s) \in DOMAIN u /\ u[i + Len(s)] = b
      BY <1>3, <3>1, <3>2
    <3> QED
      BY <3>1, <3>2, <3>3 DEF Own
  <2> QED
    BY <1>7, <2>1, <2>2
<1>8. ASSUME NEW i \in Own(u), NEW j \in Own(u), i < j PROVE u[i] < u[j]
  <2>1. i \in Nat /\ j \in Nat
    BY <1>1 DEF Own
  <2>2. CASE i \in Own(s) /\ j \in Own(s) /\ u[i] = s[i] /\ u[j] = s[j]
    BY <1>8, <2>2 DEF Carries
  <2>3. CASE u[i] \in k + 1 .. m /\ u[j] \in m + 1 .. n
    BY <2>3
  <2>4. CASE /\ i - Len(s) \in Own(t) /\ u[i] = t[i - Len(s)]
             /\ j - Len(s) \in Own(t) /\ u[j] = t[j - Len(s)]
    <3>1. i - Len(s) < j - Len(s)
      BY <1>1, <1>8, <2>1
    <3> QED
      BY <2>4, <3>1 DEF Carries
  <2>5. ~(i > Len(s) /\ j <= Len(s))
    BY <1>1, <1>8, <2>1
  <2> QED
    BY <1>5, <2>2, <2>3, <2>4, <2>5
<1>9. {u[i] : i \in Own(u)} = k + 1 .. n
  BY <1>6, <1>7
<1> QED
  BY <1>8, <1>9 DEF Carries, u

LEMMA CarriesOne ==
  ASSUME NEW m \in Nat
  PROVE  /\ Carries(<<Stray>>, m, m)
         /\ Carries(<<m + 1>>, m, m + 1)
         /\ Carries(<<>>, m, m)
         /\ <<Stray>> \in Seq(Byte) /\ <<m + 1>> \in Seq(Byte)
<1>1. Stray \in Byte /\ m + 1 \in Byte /\ m + 1 # Stray
  BY DEF Stray, Byte
<1>2. m + 1 .. m = {} /\ m + 1 .. m + 1 = {m + 1}
  OBVIOUS
<1>3. Own(<<Stray>>) = {} /\ Own(<<>>) = {}
  BY DEF Own
<1>4. Own(<<m + 1>>) = {1}
  BY <1>1 DEF Own
<1> QED
  BY <1>1, <1>2, <1>3, <1>4 DEF Carries

(* The first byte is a Stray, or the application's next one. *)
LEMMA CarriesTail ==
  ASSUME NEW s \in Seq(Byte), s # <<>>, NEW m \in Nat, NEW n \in Nat, m <= n,
         Carries(s, m, n)
  PROVE  \/ Head(s) = Stray /\ Carries(Tail(s), m, n)
         \/ Head(s) = m + 1 /\ m + 1 <= n /\ Carries(Tail(s), m + 1, n)
<1> DEFINE t == Tail(s)
<1>1. /\ t \in Seq(Byte) /\ Len(t) = Len(s) - 1 /\ Len(s) \in Nat \ {0}
      /\ \A i \in 1 .. Len(t) : t[i] = s[i + 1]
      /\ Head(s) = s[1]
  BY HeadTailProperties, EmptySeq
<1> HIDE DEF t
<1>2. DOMAIN s = 1 .. Len(s) /\ DOMAIN t = 1 .. Len(s) - 1
  BY <1>1, LenProperties
<1>3. \A i \in Own(t) : i + 1 \in Own(s) /\ t[i] = s[i + 1] /\ i \in Nat /\ i >= 1
  BY <1>1, <1>2 DEF Own
<1>4. \A i \in Own(s) : i = 1 \/ (i - 1 \in Own(t) /\ s[i] = t[i - 1])
  <2> TAKE i \in Own(s)
  <2>1. i \in 1 .. Len(s) /\ s[i] # Stray
    BY <1>2 DEF Own
  <2>2. i = 1 \/ (i - 1 \in 1 .. Len(s) - 1 /\ (i - 1) + 1 = i)
    BY <1>1, <2>1
  <2> QED
    BY <1>1, <1>2, <2>1, <2>2 DEF Own
<1>5. \A i, j \in Own(t) : i < j => t[i] < t[j]
  <2> SUFFICES ASSUME NEW i \in Own(t), NEW j \in Own(t), i < j PROVE t[i] < t[j]
    OBVIOUS
  <2>1. i + 1 \in Own(s) /\ j + 1 \in Own(s) /\ i + 1 < j + 1
    BY <1>3
  <2>2. s[i + 1] < s[j + 1]
    BY <2>1 DEF Carries
  <2> QED
    BY <1>3, <2>2
<1>6. {s[i] : i \in Own(s)} = m + 1 .. n
  BY DEF Carries
<1>7. CASE s[1] = Stray
  <2>1. 1 \notin Own(s)
    BY <1>7 DEF Own
  <2>2. {t[i] : i \in Own(t)} = m + 1 .. n
    BY <1>3, <1>4, <1>6, <2>1
  <2> QED
    BY <1>1, <1>5, <1>7, <2>2 DEF Carries, t
<1>8. CASE s[1] # Stray
  <2>1. 1 \in Own(s)
    BY <1>1, <1>2, <1>8 DEF Own
  <2>2. s[1] \in m + 1 .. n
    BY <1>6, <2>1
  <2>3. \A i \in Own(t) : t[i] \in m + 1 .. n /\ s[1] < t[i]
    <3> TAKE i \in Own(t)
    <3>1. i + 1 \in Own(s) /\ 1 < i + 1 /\ t[i] = s[i + 1]
      BY <1>3
    <3>2. s[1] < s[i + 1]
      BY <2>1, <3>1 DEF Carries
    <3> QED
      BY <1>6, <3>1, <3>2
  <2>4. s[1] = m + 1
    <3>1. m + 1 \in m + 1 .. n
      BY <2>2
    <3>2. PICK i \in Own(s) : s[i] = m + 1
      BY <1>6, <3>1
    <3>3. CASE i = 1
      BY <3>2, <3>3
    <3>4. CASE i - 1 \in Own(t) /\ s[i] = t[i - 1]
      BY <2>2, <2>3, <3>2, <3>4
    <3> QED
      BY <1>4, <3>3, <3>4
  <2>5. \A i \in Own(t) : t[i] \in m + 2 .. n
    BY <2>3, <2>4
  <2>6. ASSUME NEW b \in m + 2 .. n PROVE \E i \in Own(t) : t[i] = b
    <3>1. b \in m + 1 .. n /\ b # m + 1
      BY <2>6
    <3>2. PICK i \in Own(s) : s[i] = b
      BY <1>6, <3>1
    <3> QED
      BY <1>4, <2>4, <3>1, <3>2
  <2>7. {t[i] : i \in Own(t)} = (m + 1) + 1 .. n
    <3>1. (m + 1) + 1 = m + 2
      OBVIOUS
    <3> QED
      BY <2>5, <2>6, <3>1
  <2>8. Carries(t, m + 1, n)
    BY <1>5, <2>7, Zenon DEF Carries
  <2>9. m + 1 <= n
    BY <2>2
  <2> QED
    BY <1>1, <2>4, <2>8, <2>9 DEF t
<1> QED
  BY <1>7, <1>8

(* How a byte that arrives counts. *)
LEMMA OwnAppend ==
  ASSUME NEW s \in Seq(Byte), NEW b \in Byte
  PROVE  /\ IsFiniteSet(Own(s)) /\ Cardinality(Own(s)) \in Nat
         /\ Cardinality(Own(Append(s, b))) =
              IF b = Stray THEN Cardinality(Own(s)) ELSE Cardinality(Own(s)) + 1
<1> DEFINE t == Append(s, b)
<1>1. /\ Len(t) = Len(s) + 1 /\ Len(s) \in Nat /\ t \in Seq(Byte)
      /\ \A i \in 1 .. Len(s) : t[i] = s[i]
      /\ t[Len(s) + 1] = b
  BY AppendProperties, LenProperties
<1> HIDE DEF t
<1>2. DOMAIN s = 1 .. Len(s) /\ DOMAIN t = 1 .. Len(s) + 1
  BY <1>1, LenProperties
<1>3. IsFiniteSet(1 .. Len(s))
  BY <1>1, FS_Interval
<1>4. Own(s) \in SUBSET (1 .. Len(s))
  BY <1>2 DEF Own
<1>5. IsFiniteSet(Own(s)) /\ Cardinality(Own(s)) \in Nat
  BY <1>3, <1>4, FS_Subset, FS_CardinalityType
<1>6. \A i \in 1 .. Len(s) + 1 : i \in 1 .. Len(s) \/ i = Len(s) + 1
  BY <1>1
<1>7. \A i \in 1 .. Len(s) : i \in 1 .. Len(s) + 1
  BY <1>1
<1>8. Len(s) + 1 \in 1 .. Len(s) + 1 /\ Len(s) + 1 \notin Own(s)
  BY <1>1, <1>4
<1>9. CASE b = Stray
  <2>1. Own(t) = Own(s)
    BY <1>1, <1>2, <1>6, <1>7, <1>9 DEF Own
  <2> QED
    BY <1>5, <1>9, <2>1 DEF t
<1>10. CASE b # Stray
  <2>1. Own(t) = Own(s) \cup {Len(s) + 1}
    BY <1>1, <1>2, <1>6, <1>7, <1>8, <1>10 DEF Own
  <2>2. Cardinality(Own(s) \cup {Len(s) + 1}) = Cardinality(Own(s)) + 1
    BY <1>5, <1>8, FS_AddElement
  <2> QED
    BY <1>5, <1>10, <2>1, <2>2 DEF t
<1> QED
  BY <1>9, <1>10

LEMMA NewBytesCarried ==
  ASSUME nsent \in Nat, NEW n \in Nat
  PROVE  /\ NewBytes(n) \in Seq(Byte) /\ Len(NewBytes(n)) = n
         /\ Carries(NewBytes(n), nsent, nsent + n)
         /\ <<Stray>> \o NewBytes(n) \in Seq(Byte)
         /\ Carries(<<Stray>> \o NewBytes(n), nsent, nsent + n)
<1>1. NewBytes(n) \in Seq(Byte) /\ Len(NewBytes(n)) = n
  BY NewBytesIsSeq
<1>2. DOMAIN NewBytes(n) = 1 .. n /\ \A i \in 1 .. n : NewBytes(n)[i] = nsent + i
  BY DEF NewBytes
<1>3. Own(NewBytes(n)) = 1 .. n
  BY <1>2 DEF Own, Stray
<1>4. {NewBytes(n)[i] : i \in 1 .. n} = nsent + 1 .. nsent + n
  <2>1. \A i \in 1 .. n : NewBytes(n)[i] \in nsent + 1 .. nsent + n
    BY <1>2
  <2>2. ASSUME NEW b \in nsent + 1 .. nsent + n PROVE \E i \in 1 .. n : NewBytes(n)[i] = b
    <3>1. b - nsent \in 1 .. n /\ nsent + (b - nsent) = b
      OBVIOUS
    <3> QED
      BY <1>2, <3>1
  <2> QED
    BY <2>1, <2>2
<1>5. Carries(NewBytes(n), nsent, nsent + n)
  BY <1>2, <1>3, <1>4 DEF Carries
<1>6. /\ <<Stray>> \in Seq(Byte) /\ Carries(<<Stray>>, nsent, nsent)
  BY CarriesOne
<1>7. nsent + n \in Nat /\ nsent <= nsent + n /\ nsent <= nsent
  OBVIOUS
<1>8. Carries(<<Stray>> \o NewBytes(n), nsent, nsent + n)
  BY <1>1, <1>5, <1>6, <1>7, CarriesConcat
<1> QED
  BY <1>1, <1>5, <1>6, <1>8, Concat

(* What send keeps for later: the bytes that write(2) has not taken. *)
LEMMA RemainderIsRest ==
  ASSUME NEW data \in Seq(Byte), Len(data) < WordSize - 1, NEW n \in 0 .. Len(data)
  PROVE  Remainder(data, n) = SubSeq(data, n + 1, Len(data))
<1>1. Len(data) \in Nat /\ WordSize \in Nat /\ n \in Nat /\ n <= Len(data)
  BY ConnectionAssumption, LenProperties
<1>2. Word(Len(data) - n) = Len(data) - n
  BY <1>1 DEF Word
<1> DEFINE r == Remainder(data, n)
           t == SubSeq(data, n + 1, Len(data))
<1>3. /\ t \in Seq(Byte) /\ Len(t) = Len(data) - n
      /\ \A i \in 1 .. Len(data) - n : t[i] = data[n + i]
  <2>1. \A i \in n + 1 .. Len(data) : data[i] \in Byte
    BY <1>1, ElementOfSeq
  <2>2. /\ t \in Seq(Byte)
        /\ Len(t) = IF n + 1 <= Len(data) THEN Len(data) - (n + 1) + 1 ELSE 0
        /\ \A i \in 1 .. Len(data) - (n + 1) + 1 : t[i] = data[(n + 1) + i - 1]
    BY <1>1, <2>1, SubSeqProperties
  <2> QED
    BY <1>1, <2>2
<1>4. r \in Seq(Byte)
  BY <1>1, RemainderIsSeq
<1>5. r = [i \in 1 .. Len(data) - n |->
             LET at == Word(n + i - 1)
             IN  IF at < Len(data) THEN data[at + 1] ELSE Stray]
  BY <1>2 DEF Remainder
<1>6. DOMAIN r = 1 .. Len(data) - n
  BY <1>5
<1>7. Len(r) = Len(data) - n
  BY <1>1, <1>4, <1>6, LenProperties
<1>8. ASSUME NEW i \in 1 .. Len(data) - n PROVE r[i] = data[n + i]
  <2>1. n + i - 1 \in Nat /\ n + i - 1 < WordSize /\ n + i - 1 < Len(data)
    BY <1>1
  <2>2. Word(n + i - 1) = n + i - 1
    BY <1>1, <2>1 DEF Word
  <2>3. (n + i - 1) + 1 = n + i
    BY <1>1
  <2> QED
    BY <1>5, <2>1, <2>2, <2>3
<1> HIDE DEF r, t
<1> QED
  BY <1>3, <1>4, <1>7, <1>8, SeqEqual DEF r, t

(* The error return of write(2), taken for a count: a Stray and the data. *)
LEMMA RemainderOfError ==
  ASSUME NEW data \in Seq(Byte), Len(data) < WordSize - 1
  PROVE  Remainder(data, WordSize - 1) = <<Stray>> \o data
<1>1. Len(data) \in Nat /\ WordSize \in Nat
  BY ConnectionAssumption, LenProperties
<1>2. Word(Len(data) - (WordSize - 1)) = Len(data) + 1
  <2>1. Len(data) - (WordSize - 1) = (Len(data) + 1) - WordSize
    BY <1>1
  <2>2. ((Len(data) + 1) - WordSize) % WordSize = Len(data) + 1
    BY <1>1
  <2> QED
    BY <2>1, <2>2 DEF Word
<1> DEFINE r == Remainder(data, WordSize - 1)
           t == <<Stray>> \o data
<1>3. /\ t \in Seq(Byte) /\ Len(t) = 1 + Len(data)
      /\ \A i \in 1 .. 1 + Len(data) : t[i] = IF i <= 1 THEN Stray ELSE data[i - 1]
  <2>1. <<Stray>> \in Seq(Byte) /\ Len(<<Stray>>) = 1 /\ <<Stray>>[1] = Stray
    BY DEF Byte, Stray
  <2>2. \A i \in 1 .. 1 + Len(data) : i <= 1 => i = 1
    BY <1>1
  <2>3. /\ t \in Seq(Byte) /\ Len(t) = Len(<<Stray>>) + Len(data)
        /\ \A i \in 1 .. Len(<<Stray>>) + Len(data) :
             t[i] = IF i <= Len(<<Stray>>) THEN <<Stray>>[i] ELSE data[i - Len(<<Stray>>)]
    BY <2>1, ConcatProperties
  <2> QED
    BY <2>1, <2>2, <2>3
<1>4. r \in Seq(Byte)
  BY <1>1, RemainderIsSeq
<1>5. r = [i \in 1 .. Len(data) + 1 |->
             LET at == Word((WordSize - 1) + i - 1)
             IN  IF at < Len(data) THEN data[at + 1] ELSE Stray]
  BY <1>2 DEF Remainder
<1>6. DOMAIN r = 1 .. Len(data) + 1
  BY <1>5
<1>7. Len(r) = 1 + Len(data)
  BY <1>1, <1>4, <1>6, LenProperties
<1>8. ASSUME NEW i \in 1 .. 1 + Len(data) PROVE r[i] = t[i]
  <2>1. CASE i = 1
    <3>1. Word((WordSize - 1) + i - 1) = WordSize - 1
      BY <1>1, <2>1 DEF Word
    <3>2. ~(WordSize - 1 < Len(data))
      BY <1>1
    <3>3. r[i] = Stray
      BY <1>1, <1>5, <2>1, <3>1, <3>2
    <3> QED
      BY <1>3, <2>1, <3>3
  <2>2. CASE i # 1
    <3>1. /\ i - 2 \in Nat /\ i - 2 < Len(data) /\ (i - 2) + 1 = i - 1
          /\ (WordSize - 1) + i - 1 = WordSize + (i - 2)
      BY <1>1, <2>2
    <3>2. (WordSize + (i - 2)) % WordSize = i - 2
      BY <1>1, <3>1
    <3>3. Word((WordSize - 1) + i - 1) = i - 2
      BY <3>1, <3>2 DEF Word
    <3>4. r[i] = data[i - 1]
      BY <1>1, <1>5, <3>1, <3>3
    <3> QED
      BY <1>3, <2>2, <3>4
  <2> QED
    BY <2>1, <2>2
<1> HIDE DEF r, t
<1> QED
  BY <1>3, <1>4, <1>7, <1>8, SeqEqual DEF r, t
-----------------------------------------------------------------------------
(* The bytes under way. *)

(* What makes OwnBytesInOrder inductive: what the peer has got is the      *)
(* beginning of the stream, and what is under way continues it; a blocked  *)
(* write finds the output buffer empty, and a reset empties the queue.     *)
OneCall ==
  /\ pc # "blocked" => call = NoCall
  /\ pc = "blocked" => out = <<>>

Discarded == rst => sndq = <<>>

InTransit ==
  proc = "up" =>
    /\ Carries(got, 0, Received) /\ Received <= nsent
    /\ ~rst => Carries(Undelivered, Received, nsent)

(* The lengths of the buffers fit in a size_t. *)
CallFits == Len(call.data) <= MaxSend

StreamInv == TypeOK /\ OneCall /\ Discarded /\ CallFits /\ InTransit

LEMMA WaitingType ==
  ASSUME TypeOK
  PROVE  /\ Waiting \in Seq(Byte)
         /\ OneCall /\ pc # "blocked" => Waiting = <<>>
         /\ call.done = Len(call.data) => Waiting = <<>>
         /\ Undelivered \in Seq(Byte)
<1>1. call.data \in Seq(Byte) /\ call.done \in Nat /\ call.done <= Len(call.data)
  BY DEF TypeOK
<1>2. Len(call.data) \in Nat
  BY <1>1, LenProperties
<1>3. Waiting \in Seq(Byte)
  BY <1>1, <1>2, Part DEF Waiting
<1>4. call.done = Len(call.data) => Waiting = <<>>
  <2> SUFFICES ASSUME call.done = Len(call.data) PROVE Waiting = <<>>
    OBVIOUS
  <2>1. Waiting = SubSeq(call.data, Len(call.data) + 1, Len(call.data))
    BY DEF Waiting
  <2> QED
    BY <1>2, <2>1, SubSeqEmpty
<1>5. OneCall /\ pc # "blocked" => Waiting = <<>>
  <2> SUFFICES ASSUME call = NoCall PROVE Waiting = <<>>
    BY DEF OneCall
  <2>1. call.data = <<>> /\ call.done = 0
    BY DEF NoCall
  <2>2. call.done = Len(call.data)
    BY <2>1
  <2> QED
    BY <1>4, <2>2
<1>6. out \in Seq(Byte) /\ sndq \in Seq(Byte)
  BY DEF TypeOK
<1>7. Undelivered \in Seq(Byte)
  BY <1>3, <1>6, Concat DEF Undelivered
<1> QED
  BY <1>3, <1>4, <1>5, <1>7

(* A step that leaves the bytes where they are. *)
LEMMA BytesUnchanged ==
  ASSUME StreamInv, UNCHANGED <<out, sndq, got, nsent, rst, call>>, proc = "up",
         pc # "blocked", pc' # "blocked"
  PROVE  (OneCall /\ Discarded /\ CallFits /\ InTransit)'
<1>1. OneCall /\ Discarded /\ CallFits /\ InTransit
  BY DEF StreamInv
<1>2. UNCHANGED <<Undelivered, Received>>
  BY DEF Undelivered, Waiting, Received
<1>3. InTransit'
  BY <1>1, <1>2 DEF InTransit
<1> QED
  BY <1>1, <1>3 DEF OneCall, Discarded, CallFits

(* One that moves them towards the peer. *)
LEMMA BytesMove ==
  ASSUME StreamInv, UNCHANGED <<got, nsent, rst>>, proc = "up",
         Undelivered' = Undelivered
  PROVE  InTransit'
BY DEF StreamInv, InTransit, Received

(* One that adds the bytes of a send behind them. *)
LEMMA BytesAdded ==
  ASSUME StreamInv, NEW n \in 1 .. MaxLen, nsent' = nsent + n, UNCHANGED <<got, rst>>,
         proc = "up", NEW d, d \in {NewBytes(n), <<Stray>> \o NewBytes(n)},
         ~rst => Undelivered' = Undelivered \o d
  PROVE  InTransit'
<1>1. nsent \in Nat /\ n \in Nat /\ Undelivered \in Seq(Byte) /\ got \in Seq(Byte)
  BY ConnectionAssumption, WaitingType DEF StreamInv, TypeOK
<1>2. d \in Seq(Byte) /\ Carries(d, nsent, nsent + n)
  BY <1>1, NewBytesCarried
<1>3. InTransit
  BY DEF StreamInv
<1>4. Received \in Nat
  BY <1>1, OwnAppend DEF Received, Byte
<1>5. Received <= nsent' /\ Received <= nsent /\ nsent' \in Nat
  BY <1>1, <1>3, <1>4 DEF InTransit
<1>6. ~rst => Carries(Undelivered', Received, nsent')
  <2> SUFFICES ASSUME ~rst PROVE Carries(Undelivered', Received, nsent')
    OBVIOUS
  <2>1. Carries(Undelivered, Received, nsent)
    BY <1>3 DEF InTransit
  <2>2. nsent <= nsent + n /\ nsent + n \in Nat
    BY <1>1
  <2>3. Carries(Undelivered \o d, Received, nsent + n)
    BY <1>1, <1>2, <1>4, <1>5, <2>1, <2>2, CarriesConcat
  <2> QED
    BY <2>3
<1>7. UNCHANGED Received
  BY DEF Received
<1> QED
  BY <1>3, <1>5, <1>6, <1>7 DEF InTransit

LEMMA Associative ==
  \A s, t, u \in Seq(Byte) : (s \o t) \o u = s \o (t \o u)
BY ConcatAssociative

(* Bytes put behind those under way when no write is in progress. *)
LEMMA BehindOut ==
  ASSUME NEW s \in Seq(Byte), NEW o \in Seq(Byte), NEW d \in Seq(Byte)
  PROVE  (s \o (o \o d)) \o <<>> = ((s \o o) \o <<>>) \o d
<1>1. o \o d \in Seq(Byte) /\ s \o o \in Seq(Byte)
  BY Concat
<1>2. s \o (o \o d) \in Seq(Byte)
  BY <1>1, Concat
<1>3. (s \o (o \o d)) \o <<>> = s \o (o \o d) /\ (s \o o) \o <<>> = s \o o
  BY <1>1, <1>2, ConcatEmptySeq
<1> QED
  BY <1>3, Associative

(* The part that the kernel takes, and the rest that is kept. *)
LEMMA Parts ==
  ASSUME NEW s \in Seq(Byte), NEW o \in Seq(Byte), NEW n \in 0 .. Len(o)
  PROVE  /\ (s \o SubSeq(o, 1, n)) \o SubSeq(o, n + 1, Len(o)) = s \o o
         /\ SubSeq(o, 1, n) \in Seq(Byte) /\ SubSeq(o, n + 1, Len(o)) \in Seq(Byte)
<1>1. Len(o) \in Nat /\ n \in Nat /\ n <= Len(o)
  BY LenProperties
<1>2. SubSeq(o, 1, n) \in Seq(Byte) /\ SubSeq(o, n + 1, Len(o)) \in Seq(Byte)
  <2>1. \A i \in 1 .. n : o[i] \in Byte
    BY <1>1, ElementOfSeq
  <2>2. \A i \in n + 1 .. Len(o) : o[i] \in Byte
    BY <1>1, ElementOfSeq
  <2> QED
    BY <1>1, <2>1, <2>2, SubSeqProperties
<1>3. SubSeq(o, 1, n) \o SubSeq(o, n + 1, Len(o)) = SubSeq(o, 1, Len(o))
  <2>1. 1 \in 1 .. Len(o) + 1 /\ n \in 1 - 1 .. Len(o) /\ Len(o) \in n .. Len(o)
    BY <1>1
  <2> QED
    BY <2>1, ConcatAdjacentSubSeq
<1>4. SubSeq(o, 1, Len(o)) = o
  BY SubSeqFull
<1> DEFINE a == SubSeq(o, 1, n)
           b == SubSeq(o, n + 1, Len(o))
<1>5. a \o b = o
  BY <1>3, <1>4
<1>6. a \in Seq(Byte) /\ b \in Seq(Byte)
  BY <1>2
<1> HIDE DEF a, b
<1>7. (s \o a) \o b = s \o (a \o b)
  BY <1>6, Associative
<1>8. (s \o a) \o b = s \o o
  BY <1>5, <1>7
<1> QED
  BY <1>2, <1>8 DEF a, b
-----------------------------------------------------------------------------
(* The steps of the loop and of the application. *)

(* A send neither loses nor repeats a byte, on whatever route. *)
LEMMA StreamSend ==
  ASSUME StreamInv, NEW n \in 1 .. MaxLen, Send(n)
  PROVE  (OneCall /\ Discarded /\ CallFits /\ InTransit)'
<1> DEFINE d == NewBytes(n)
           e == <<Stray>> \o NewBytes(n)
<1>1. /\ nsent \in Nat /\ n \in Nat /\ nsent + n <= MaxSend /\ MaxSend \in Nat
      /\ WordSize \in Nat /\ WordSize > MaxSend + 1
  BY ConnectionAssumption DEF Send, StreamInv, TypeOK
<1>2. /\ d \in Seq(Byte) /\ e \in Seq(Byte) /\ Len(d) = n
  BY <1>1, NewBytesCarried
<1>3. Len(d) < WordSize - 1 /\ Len(d) <= MaxSend /\ Len(d) \in Nat
  BY <1>1, <1>2
<1>4. /\ out \in Seq(Byte) /\ sndq \in Seq(Byte) /\ TypeOK /\ OneCall /\ Discarded
      /\ CallFits
  BY DEF StreamInv, TypeOK
<1>5. pc # "blocked"
  BY ConnectionAssumption DEF Send, Context, Contexts
<1>6. call = NoCall /\ Waiting = <<>>
  BY <1>4, <1>5, WaitingType DEF OneCall
<1>7. proc = "up" /\ nsent' = nsent + n /\ UNCHANGED got /\ rst' = rst
  BY DEF Send, SendQueued, SendDirect, SendAgain, SendRefused, SendBlocks, RefuseWrite,
         socket, peer
<1>8. Undelivered = (sndq \o out) \o <<>>
  BY <1>6 DEF Undelivered
<1> HIDE DEF d, e
<1>9. CASE SendQueued(d)
  <2>1. out' = out \o d /\ UNCHANGED <<sndq, pc, call>>
    BY <1>9 DEF SendQueued, QueueOut, socket, loop
  <2>2. Undelivered' = Undelivered \o d
    <3>1. Undelivered' = (sndq \o (out \o d)) \o <<>>
      BY <1>6, <2>1 DEF Undelivered, Waiting
    <3> QED
      BY <1>2, <1>4, <1>8, <3>1, BehindOut
  <2>3. InTransit'
    BY <1>7, <2>2, BytesAdded DEF d
  <2> QED
    BY <1>4, <1>5, <1>7, <2>1, <2>3 DEF OneCall, Discarded, CallFits
<1>10. CASE out = <<>> /\ SendDirect(d)
  <2>1. PICK k \in RoomFor(Len(d)) : /\ sndq' = sndq \o SubSeq(d, 1, k)
                                     /\ QueueOut(Remainder(d, k))
    BY <1>10 DEF SendDirect
  <2>2. k \in 0 .. Len(d)
    <3>1. Len(sndq) \in Nat /\ SendCap \in Nat
      BY <1>4, LenProperties, ConnectionAssumption
    <3> QED
      BY <1>3, <2>1, <3>1 DEF RoomFor
  <2>3. UNCHANGED <<pc, call>> /\ ~rst
    BY <1>10 DEF SendDirect, loop, WriteRefused
  <2>4. out' = SubSeq(d, k + 1, Len(d))
    <3>1. Remainder(d, k) = SubSeq(d, k + 1, Len(d))
      BY <1>2, <1>3, <2>2, RemainderIsRest
    <3>2. SubSeq(d, k + 1, Len(d)) \in Seq(Byte)
      BY <1>2, <1>4, <2>2, Parts
    <3> QED
      BY <1>10, <2>1, <3>1, <3>2, ConcatEmptySeq DEF QueueOut
  <2>5. Undelivered' = Undelivered \o d
    <3>1. Undelivered' = ((sndq \o SubSeq(d, 1, k)) \o SubSeq(d, k + 1, Len(d))) \o <<>>
      BY <1>6, <2>1, <2>3, <2>4 DEF Undelivered, Waiting
    <3>2. (sndq \o SubSeq(d, 1, k)) \o SubSeq(d, k + 1, Len(d)) = sndq \o d
      BY <1>2, <1>4, <2>2, Parts
    <3>3. sndq \o d \in Seq(Byte)
      BY <1>2, <1>4, Concat
    <3>4. Undelivered' = sndq \o d
      BY <3>1, <3>2, <3>3, ConcatEmptySeq
    <3>5. Undelivered = sndq
      BY <1>4, <1>8, <1>10, ConcatEmptySeq
    <3> QED
      BY <3>4, <3>5
  <2>6. InTransit'
    BY <1>7, <2>5, BytesAdded DEF d
  <2> QED
    BY <1>4, <1>5, <1>7, <2>3, <2>6 DEF OneCall, Discarded, CallFits
<1>11. CASE out = <<>> /\ (SendAgain(d) \/ SendRefused(d))
  <2>1. UNCHANGED <<sndq, pc, call>>
    BY <1>11 DEF SendAgain, SendRefused, socket, loop
  <2>2. proc' = "up" => out' = e
    <3> SUFFICES ASSUME proc' = "up" PROVE out' = e
      OBVIOUS
    <3>1. QueueOut(Remainder(d, WordSize - 1))
      BY <1>11 DEF SendAgain, SendRefused
    <3>2. Remainder(d, WordSize - 1) = e
      BY <1>2, <1>3, RemainderOfError DEF d, e
    <3> QED
      BY <1>2, <1>11, <3>1, <3>2, ConcatEmptySeq DEF QueueOut
  <2>3. InTransit'
    <3>1. CASE proc' # "up"
      BY <3>1 DEF InTransit
    <3>2. CASE proc' = "up"
      <4>1. Undelivered' = Undelivered \o e
        <5>1. Undelivered' = (sndq \o e) \o <<>>
          BY <1>6, <2>1, <2>2, <3>2 DEF Undelivered, Waiting
        <5>2. sndq \o e \in Seq(Byte)
          BY <1>2, <1>4, Concat
        <5>3. Undelivered = sndq
          BY <1>4, <1>8, <1>11, ConcatEmptySeq
        <5> QED
          BY <5>1, <5>2, <5>3, ConcatEmptySeq
      <4> QED
        BY <1>7, <4>1, BytesAdded DEF d, e
    <3> QED
      BY <3>1, <3>2
  <2> QED
    BY <1>4, <1>5, <1>7, <2>1, <2>3 DEF OneCall, Discarded, CallFits
<1>12. CASE out = <<>> /\ SendBlocks(d)
  <2>1. /\ UNCHANGED <<sndq, out>> /\ pc' = "blocked"
        /\ call' = [data |-> d, done |-> 0, back |-> pc]
    BY <1>12 DEF SendBlocks, socket
  <2>2. Undelivered' = Undelivered \o d
    <3>1. call'.data = d /\ call'.done = 0
      BY <2>1
    <3>2. Waiting' = SubSeq(d, 0 + 1, Len(d))
      BY <3>1 DEF Waiting
    <3>3. Waiting' = d
      BY <1>2, <3>2, SubSeqFull
    <3>4. Undelivered' = (sndq \o out) \o d
      BY <2>1, <3>3 DEF Undelivered
    <3>5. sndq \o out \in Seq(Byte)
      BY <1>4, Concat
    <3> QED
      BY <1>8, <3>4, <3>5, ConcatEmptySeq
  <2>3. InTransit'
    BY <1>7, <2>2, BytesAdded DEF d
  <2>4. CallFits'
    BY <1>3, <2>1 DEF CallFits
  <2> QED
    BY <1>4, <1>7, <1>12, <2>1, <2>3, <2>4 DEF OneCall, Discarded
<1> QED
  BY <1>9, <1>10, <1>11, <1>12 DEF Send, d

(* HandleWrite moves bytes from the output buffer to the kernel. *)
LEMMA StreamWrite ==
  ASSUME StreamInv, WriteBytes
  PROVE  (OneCall /\ Discarded /\ CallFits /\ InTransit)'
<1>1. /\ out \in Seq(Byte) /\ sndq \in Seq(Byte) /\ TypeOK /\ OneCall /\ CallFits
  BY DEF StreamInv, TypeOK
<1>2. /\ pc = "write" /\ pc' = "idle" /\ proc = "up" /\ ~rst
      /\ UNCHANGED <<got, nsent, rst, call>>
  BY DEF WriteBytes, HandleEventWrites, WriteRefused, peer
<1>3. PICK n \in RoomFor(Len(out)) : /\ sndq' = sndq \o SubSeq(out, 1, n)
                                     /\ out' = SubSeq(out, n + 1, Len(out))
  BY DEF WriteBytes
<1>4. n \in 0 .. Len(out)
  <2>1. Len(sndq) \in Nat /\ Len(out) \in Nat /\ SendCap \in Nat
    BY <1>1, LenProperties, ConnectionAssumption
  <2> QED
    BY <1>3, <2>1 DEF RoomFor
<1>5. sndq' \o out' = sndq \o out
  BY <1>1, <1>3, <1>4, Parts
<1>6. Undelivered' = Undelivered
  BY <1>2, <1>5 DEF Undelivered, Waiting
<1>7. InTransit'
  BY <1>2, <1>6, BytesMove
<1> QED
  BY <1>1, <1>2, <1>7 DEF OneCall, Discarded, CallFits

(* A blocked write moves the bytes of its send. *)
LEMMA StreamBlocked ==
  ASSUME StreamInv, BlockedTransfers
  PROVE  (OneCall /\ Discarded /\ CallFits /\ InTransit)'
<1> DEFINE data == call.data
           k == call.done
<1>1. /\ sndq \in Seq(Byte) /\ TypeOK /\ OneCall /\ CallFits
      /\ data \in Seq(Byte) /\ k \in Nat /\ k <= Len(data)
  BY DEF StreamInv, TypeOK
<1>2. /\ pc = "blocked" /\ pc' = "blocked" /\ proc = "up" /\ ~rst /\ out = <<>>
      /\ UNCHANGED <<got, nsent, rst, out>>
  BY DEF BlockedTransfers, WriteRefused, peer, object, StreamInv, OneCall
<1>3. PICK n \in RoomFor(Len(data) - k) :
        /\ sndq' = sndq \o SubSeq(data, k + 1, k + n)
        /\ call' = [call EXCEPT !.done = @ + n]
  BY DEF BlockedTransfers
<1>4. call'.data = data /\ call'.done = k + n
  BY <1>1, <1>3 DEF TypeOK
<1> HIDE DEF data, k
<1>5. n \in Nat /\ k + n <= Len(data) /\ Len(data) \in Nat
  <2>1. Len(sndq) \in Nat /\ Len(data) \in Nat /\ SendCap \in Nat
    BY <1>1, LenProperties, ConnectionAssumption
  <2>2. n \in 1 .. (IF Len(data) - k <= SendCap - Len(sndq) THEN Len(data) - k
                                                          ELSE SendCap - Len(sndq))
    BY <1>3 DEF RoomFor
  <2>3. n \in Nat /\ n <= Len(data) - k
    BY <1>1, <2>1, <2>2
  <2> QED
    BY <1>1, <2>1, <2>3
<1> DEFINE a == SubSeq(data, k + 1, k + n)
           b == SubSeq(data, k + n + 1, Len(data))
           w == SubSeq(data, k + 1, Len(data))
<1>6. a \in Seq(Byte) /\ b \in Seq(Byte) /\ w \in Seq(Byte)
  <2>1. k + n \in Nat /\ k <= k + n
    BY <1>1, <1>5
  <2> QED
    BY <1>1, <1>5, <2>1, Part
<1>7. a \o b = w
  <2>1. k + 1 \in 1 .. Len(data) + 1 /\ k + n \in (k + 1) - 1 .. Len(data)
        /\ Len(data) \in k + n .. Len(data)
    BY <1>1, <1>5
  <2> QED
    BY <1>1, <2>1, ConcatAdjacentSubSeq
<1>8. Waiting = w /\ Waiting' = b
  BY <1>4 DEF Waiting, data, k
<1>9. Undelivered = sndq \o w /\ Undelivered' = (sndq \o a) \o b
  <2>1. sndq \o a \in Seq(Byte)
    BY <1>1, <1>6, Concat
  <2>2. sndq \o <<>> = sndq /\ (sndq \o a) \o <<>> = sndq \o a
    BY <1>1, <2>1, ConcatEmptySeq
  <2>3. out' = <<>> /\ sndq' = sndq \o a
    BY <1>2, <1>3
  <2> QED
    BY <1>2, <1>8, <2>2, <2>3 DEF Undelivered
<1> HIDE DEF a, b, w
<1>10. Undelivered' = Undelivered
  <2>1. sndq \in Seq(Byte)
    BY <1>1
  <2>2. (sndq \o a) \o b = sndq \o (a \o b)
    BY <1>6, <2>1, Associative
  <2> QED
    BY <1>7, <1>9, <2>2
<1>11. InTransit'
  BY <1>2, <1>10, BytesMove
<1> QED
  BY <1>1, <1>2, <1>4, <1>11 DEF OneCall, Discarded, CallFits, data

(* It returns when no byte of the send is left, or after a reset. *)
LEMMA StreamReturns ==
  ASSUME StreamInv, BlockedReturns \/ BlockedFails
  PROVE  (OneCall /\ Discarded /\ CallFits /\ InTransit)'
<1>1. /\ sndq \in Seq(Byte) /\ TypeOK /\ OneCall /\ Discarded /\ call.data \in Seq(Byte)
  BY DEF StreamInv, TypeOK
<1>2. /\ pc = "blocked" /\ pc' = call.back /\ call' = NoCall /\ proc = "up" /\ out = <<>>
      /\ UNCHANGED <<got, nsent, rst, sndq>>
  BY <1>1 DEF BlockedReturns, BlockedFails, peer, socket, OneCall
<1>3. pc' # "blocked"
  BY <1>1, <1>2 DEF TypeOK
<1>4. CallFits'
  BY <1>2, ConnectionAssumption DEF CallFits, NoCall
<1>5. ASSUME rst PROVE InTransit'
  BY <1>2, <1>5 DEF InTransit, StreamInv, Received
<1>6. ASSUME ~rst PROVE InTransit'
  <2>1. call.done = Len(call.data) /\ QueueOut(Remainder(call.data, call.done))
    BY <1>6 DEF BlockedReturns, BlockedFails
  <2>2. Remainder(call.data, call.done) = <<>>
    BY <1>1, <2>1, NothingRemains
  <2>3. out' = <<>>
    <3>1. out' = <<>> \o <<>>
      BY <1>2, <2>1, <2>2 DEF QueueOut
    <3>2. <<>> \in Seq(Byte)
      OBVIOUS
    <3> QED
      BY <3>1, <3>2, ConcatEmptySeq
  <2>4. Waiting = <<>>
    BY <1>1, <2>1, WaitingType
  <2>5. Waiting' = <<>>
    <3>1. Waiting' = SubSeq(<<>>, 0 + 1, Len(<<>>))
      BY <1>2 DEF Waiting, NoCall
    <3>2. Len(<<>>) = 0
      OBVIOUS
    <3> QED
      BY <3>1, <3>2, SubSeqEmpty
  <2>6. Undelivered' = Undelivered
    BY <1>2, <2>3, <2>4, <2>5 DEF Undelivered
  <2> QED
    BY <1>2, <2>6, BytesMove
<1> QED
  BY <1>1, <1>2, <1>3, <1>4, <1>5, <1>6 DEF OneCall, Discarded

(* The peer receives the byte in front. *)
LEMMA ReceiveEffect ==
  ASSUME StreamInv, PeerReceives
  PROVE  /\ (OneCall /\ Discarded /\ CallFits /\ InTransit)'
         /\ \/ Received' = Received
            \/ Received' = Received + 1 /\ Received < nsent
<1>1. /\ sndq \in Seq(Byte) /\ out \in Seq(Byte) /\ got \in Seq(Byte) /\ nsent \in Nat
      /\ TypeOK /\ OneCall /\ Discarded /\ CallFits /\ InTransit
  BY DEF StreamInv, TypeOK
<1>2. /\ proc = "up" /\ sndq # <<>> /\ got' = Append(got, Head(sndq)) /\ sndq' = Tail(sndq)
      /\ UNCHANGED <<out, rst, nsent, pc, call>>
  BY DEF PeerReceives, object, loop
<1>3. ~rst
  BY <1>1, <1>2 DEF Discarded
<1> DEFINE r == out \o Waiting
           b == Head(sndq)
           t == Tail(sndq)
<1>4. r \in Seq(Byte) /\ Waiting \in Seq(Byte)
  BY <1>1, WaitingType, Concat
<1>5. b \in Byte /\ t \in Seq(Byte) /\ <<b>> \in Seq(Byte)
  BY <1>1, <1>2, HeadTailProperties
<1>6. sndq = <<b>> \o t
  <2>1. /\ Len(t) = Len(sndq) - 1 /\ Len(sndq) \in Nat \ {0}
        /\ \A i \in 1 .. Len(t) : t[i] = sndq[i + 1]
        /\ b = sndq[1]
    BY <1>1, <1>2, HeadTailProperties, EmptySeq
  <2> HIDE DEF b, t
  <2>2. /\ <<b>> \o t \in Seq(Byte) /\ Len(<<b>> \o t) = Len(<<b>>) + Len(t)
        /\ \A i \in 1 .. Len(<<b>>) + Len(t) :
             (<<b>> \o t)[i] = IF i <= Len(<<b>>) THEN <<b>>[i] ELSE t[i - Len(<<b>>)]
    BY <1>5, ConcatProperties
  <2>3. Len(<<b>>) = 1 /\ <<b>>[1] = b
    OBVIOUS
  <2>4. \A i \in 1 .. Len(sndq) : sndq[i] = (<<b>> \o t)[i]
    <3> TAKE i \in 1 .. Len(sndq)
    <3>1. i = 1 \/ (i - 1 \in 1 .. Len(t) /\ (i - 1) + 1 = i /\ ~(i <= 1))
      BY <2>1
    <3>2. i \in 1 .. 1 + Len(t)
      BY <2>1
    <3> QED
      BY <2>1, <2>2, <2>3, <3>1, <3>2
  <2>5. Len(<<b>> \o t) = Len(sndq)
    BY <2>1, <2>2, <2>3
  <2> QED
    BY <1>1, <2>2, <2>4, <2>5, SeqEqual
<1>7. Undelivered = sndq \o r /\ Undelivered' = t \o r /\ Undelivered \in Seq(Byte)
  <2>1. Waiting' = Waiting
    BY <1>2 DEF Waiting
  <2>2. /\ sndq \in Seq(Byte) /\ out \in Seq(Byte) /\ Waiting \in Seq(Byte)
        /\ t \in Seq(Byte)
    BY <1>1, <1>4, <1>5
  <2>3. (sndq \o out) \o Waiting = sndq \o (out \o Waiting)
    BY <2>2, Associative
  <2>4. (t \o out) \o Waiting = t \o (out \o Waiting)
    <3> HIDE DEF t
    <3> QED
      BY <2>2, Associative
  <2> QED
    BY <1>1, <1>2, <2>1, <2>3, <2>4, WaitingType DEF Undelivered
<1> HIDE DEF r, b, t
<1> DEFINE u == t \o r
<1>8. u \in Seq(Byte) /\ Undelivered = <<b>> \o u
  <2>1. u \in Seq(Byte)
    BY <1>4, <1>5, Concat
  <2>2. (<<b>> \o t) \o r = <<b>> \o (t \o r)
    BY <1>4, <1>5, Associative
  <2> QED
    BY <1>6, <1>7, <2>1, <2>2
<1>9. Undelivered # <<>> /\ Head(Undelivered) = b /\ Tail(Undelivered) = u
  <2> HIDE DEF u
  <2>1. Undelivered # <<>>
    BY <1>5, <1>8, Concat
  <2>2. /\ Len(Undelivered) = 1 + Len(u) /\ Len(u) \in Nat
        /\ \A i \in 1 .. 1 + Len(u) : Undelivered[i] = IF i <= 1 THEN b ELSE u[i - 1]
    <3>1. Len(<<b>>) = 1 /\ <<b>>[1] = b
      OBVIOUS
    <3>2. /\ Len(Undelivered) = Len(<<b>>) + Len(u) /\ Len(u) \in Nat
          /\ \A i \in 1 .. Len(<<b>>) + Len(u) :
               Undelivered[i] = IF i <= Len(<<b>>) THEN <<b>>[i] ELSE u[i - Len(<<b>>)]
      BY <1>5, <1>8, ConcatProperties, LenProperties
    <3>3. \A i \in 1 .. 1 + Len(u) : i <= 1 => i = 1
      OBVIOUS
    <3> QED
      BY <3>1, <3>2, <3>3
  <2>3. /\ Tail(Undelivered) \in Seq(Byte) /\ Len(Tail(Undelivered)) = Len(Undelivered) - 1
        /\ \A i \in 1 .. Len(Tail(Undelivered)) : Tail(Undelivered)[i] = Undelivered[i + 1]
    BY <1>7, <2>1, HeadTailProperties
  <2>4. Tail(Undelivered) = u
    <3>1. Len(Tail(Undelivered)) = Len(u)
      BY <2>2, <2>3
    <3>2. \A i \in 1 .. Len(u) : i + 1 \in 1 .. 1 + Len(u) /\ ~(i + 1 <= 1) /\ (i + 1) - 1 = i
      BY <2>2
    <3>3. \A i \in 1 .. Len(u) : Undelivered[i + 1] = u[i]
      BY <2>2, <3>2
    <3> QED
      BY <1>8, <2>3, <3>1, <3>3, SeqEqual
  <2>5. Head(Undelivered) = b
    <3>1. 1 \in 1 .. 1 + Len(u)
      BY <2>2
    <3>2. Undelivered[1] = b
      BY <2>2, <3>1
    <3> QED
      BY <1>7, <2>1, <3>2
  <2> QED
    BY <2>1, <2>4, <2>5
<1>10. /\ Received \in Nat
       /\ Received' = IF b = Stray THEN Received ELSE Received + 1
  BY <1>1, <1>2, <1>5, OwnAppend DEF Received, b
<1>11. Carries(got, 0, Received) /\ Received <= nsent /\ Carries(Undelivered, Received, nsent)
  BY <1>1, <1>2, <1>3 DEF InTransit
<1>12. got' = got \o <<b>>
  BY <1>1, <1>2, <1>5, AppendIsConcat DEF b
<1>13. CASE b = Stray /\ Carries(u, Received, nsent)
  <2>1. Received' = Received
    BY <1>10, <1>13
  <2>2. Carries(<<b>>, Received, Received)
    BY <1>10, <1>13, CarriesOne
  <2>3. 0 <= Received /\ Received <= Received
    BY <1>10
  <2>4. Carries(got \o <<b>>, 0, Received)
    BY <1>1, <1>5, <1>10, <1>11, <2>2, <2>3, CarriesConcat
  <2>5. InTransit'
    BY <1>2, <1>7, <1>11, <1>12, <1>13, <2>1, <2>4 DEF InTransit
  <2> QED
    BY <1>1, <1>2, <1>3, <2>1, <2>5 DEF OneCall, Discarded, CallFits
<1>14. CASE b = Received + 1 /\ Received + 1 <= nsent /\ Carries(u, Received + 1, nsent)
  <2>1. Received' = Received + 1 /\ Received < nsent
    BY <1>1, <1>10, <1>14 DEF Stray
  <2>2. Carries(<<b>>, Received, Received + 1)
    BY <1>10, <1>14, CarriesOne
  <2>3. 0 <= Received /\ Received <= Received + 1 /\ Received + 1 \in Nat
    BY <1>10
  <2>4. Carries(got \o <<b>>, 0, Received + 1)
    BY <1>1, <1>5, <1>10, <1>11, <2>2, <2>3, CarriesConcat
  <2>5. InTransit'
    BY <1>2, <1>7, <1>12, <1>14, <2>1, <2>4 DEF InTransit
  <2> QED
    BY <1>1, <1>2, <1>3, <2>1, <2>5 DEF OneCall, Discarded, CallFits
<1>15. \/ b = Stray /\ Carries(u, Received, nsent)
       \/ b = Received + 1 /\ Received + 1 <= nsent /\ Carries(u, Received + 1, nsent)
  <2> HIDE DEF u
  <2>1. \/ Head(Undelivered) = Stray /\ Carries(Tail(Undelivered), Received, nsent)
        \/ /\ Head(Undelivered) = Received + 1 /\ Received + 1 <= nsent
           /\ Carries(Tail(Undelivered), Received + 1, nsent)
    BY <1>1, <1>7, <1>9, <1>10, <1>11, CarriesTail
  <2> QED
    BY <1>9, <2>1
<1> QED
  BY <1>13, <1>14, <1>15
-----------------------------------------------------------------------------
LEMMA StreamInit == Init => StreamInv
<1> SUFFICES ASSUME Init PROVE StreamInv
  OBVIOUS
<1>1. /\ sndq = <<>> /\ out = <<>> /\ got = <<>> /\ nsent = 0 /\ call = NoCall
      /\ pc = "start" /\ rst = FALSE
  BY DEF Init
<1>2. TypeOK
  BY TypeInit
<1>3. OneCall /\ Discarded
  BY <1>1 DEF OneCall, Discarded
<1>4. CallFits
  BY <1>1, ConnectionAssumption DEF CallFits, NoCall
<1>5. Undelivered = <<>>
  <2>1. Waiting = <<>>
    BY <1>1, <1>2, <1>3, WaitingType
  <2>2. <<>> \o <<>> = <<>>
    BY EmptySeq, ConcatEmptySeq
  <2> QED
    BY <1>1, <2>1, <2>2 DEF Undelivered
<1>6. Received = 0
  <2>1. Own(<<>>) = {}
    BY DEF Own
  <2> QED
    BY <1>1, <2>1, FS_EmptySet DEF Received
<1>7. Carries(<<>>, 0, 0)
  BY CarriesOne
<1>8. InTransit
  BY <1>1, <1>5, <1>6, <1>7 DEF InTransit
<1> QED
  BY <1>2, <1>3, <1>4, <1>8 DEF StreamInv

LEMMA StreamPeer == ASSUME StreamInv, Peer PROVE (OneCall /\ Discarded /\ CallFits /\ InTransit)'
<1>1. CASE PeerReceives
  BY <1>1, ReceiveEffect
<1>2. CASE PeerResets
  <2>1. /\ rst' /\ sndq' = <<>> /\ proc = "up"
        /\ UNCHANGED <<out, got, nsent, pc, call>>
    BY <1>2 DEF PeerResets, object, peer, loop
  <2> QED
    BY <2>1 DEF StreamInv, OneCall, Discarded, CallFits, InTransit, Received
<1>3. CASE PeerReceivesFin \/ PeerSends \/ PeerSendsUrgent \/ PeerFinishes
  <2>1. UNCHANGED <<out, sndq, got, nsent, rst, call, pc, proc>>
    BY <1>3 DEF PeerReceivesFin, PeerSends, PeerSendsUrgent, PeerFinishes, object,
       socket, peer, loop
  <2>2. UNCHANGED <<Undelivered, Received>>
    BY <2>1 DEF Undelivered, Waiting, Received
  <2> QED
    BY <2>1, <2>2 DEF StreamInv, OneCall, Discarded, CallFits, InTransit
<1> QED
  BY <1>1, <1>2, <1>3 DEF Peer

(* The rest of the loop's and of the application's steps move no byte of   *)
(* the stream.                                                             *)
LEMMA StreamElse ==
  ASSUME StreamInv,
         \/ ShutDown \/ Close \/ Start \/ ConnectionCallbackReturns \/ Poll
         \/ NothingToRead \/ ReadBytes \/ ReadError \/ ReadEof \/ ReadAgain \/ ReadBlocks
         \/ MessageCallbackReturns \/ CloseCallbackReturns \/ NothingToWrite
         \/ WriteRefusedAgain
  PROVE  (OneCall /\ Discarded /\ CallFits /\ InTransit)'
<1>1. UNCHANGED <<out, sndq, got, nsent, rst, call>> /\ proc = "up"
  BY DEF ShutDown, ShutDownWrite, Close, BeginClose, Start, ConnectionCallbackReturns,
         Poll, NothingToRead, HandleEventReads, InReadv, ReadBytes, ReadError, ReadEof,
        ReadAgain, ReadBlocks, MessageCallbackReturns, CloseCallbackReturns, NothingToWrite,
        HandleEventWrites,
         WriteRefusedAgain, RefuseWrite, object, socket, peer, loop
<1>2. pc # "blocked" /\ pc' # "blocked"
  <2>1. back # "blocked"
    BY DEF StreamInv, TypeOK
  <2>2. ShutDown => pc # "blocked" /\ pc' = pc
    BY ConnectionAssumption DEF ShutDown, Context, Contexts, loop
  <2>3. Close => pc # "blocked" /\ pc' = "close"
    BY ConnectionAssumption DEF Close, BeginClose, Context, Contexts
  <2> QED
    BY <2>1, <2>2, <2>3
    DEF Start, ConnectionCallbackReturns,
        Poll, NothingToRead, HandleEventReads, InReadv, ReadBytes, ReadError, ReadEof,
        ReadAgain, ReadBlocks, BeginClose, MessageCallbackReturns, CloseCallbackReturns,
        NothingToWrite,
        HandleEventWrites, WriteRefusedAgain, loop
<1> QED
  BY <1>1, <1>2, BytesUnchanged

LEMMA StreamStep == StreamInv /\ [Next]_vars => StreamInv'
<1> SUFFICES ASSUME StreamInv, [Next]_vars PROVE StreamInv'
  OBVIOUS
<1>1. TypeOK'
  BY TypeStep DEF StreamInv
<1> SUFFICES (OneCall /\ Discarded /\ CallFits /\ InTransit)'
  BY <1>1 DEF StreamInv
<1>2. CASE Application
  BY <1>2, StreamSend, StreamElse DEF Application
<1>3. CASE Loop
  BY <1>3, StreamWrite, StreamBlocked, StreamReturns, StreamElse DEF Loop
<1>4. CASE Peer
  BY <1>4, StreamPeer
<1>5. CASE UNCHANGED vars
  <2>1. UNCHANGED <<out, sndq, got, nsent, rst, call, pc, proc>>
    BY <1>5 DEF vars, object, socket, peer, loop
  <2>2. UNCHANGED <<Undelivered, Received>>
    BY <2>1 DEF Undelivered, Waiting, Received
  <2> QED
    BY <2>1, <2>2 DEF StreamInv, OneCall, Discarded, CallFits, InTransit
<1> QED
  BY <1>2, <1>3, <1>4, <1>5 DEF Next

LEMMA StreamInductive == Spec => []StreamInv
<1> QED
  BY StreamInit, StreamStep, PTL DEF Spec
-----------------------------------------------------------------------------
(* The bytes on a blocking socket.                                         *)

Clean(bytes) == \A i \in DOMAIN bytes : bytes[i] # Stray

(* What makes NoForeignByte inductive on a blocking socket: until a reset  *)
(* the error of a write gets no further than the output buffer, nothing    *)
(* leaves that buffer (BlockingNeverQueues), and after a reset nothing     *)
(* reaches the peer.                                                       *)
NoStrayUnderWay ==
  ~NonBlocking => Clean(got) /\ (~rst => Clean(sndq) /\ Clean(call.data))

LEMMA CleanParts ==
  /\ Clean(<<>>)
  /\ \A s, t \in Seq(Byte) : Clean(s) /\ Clean(t) => Clean(s \o t)
  /\ \A s \in Seq(Byte) : \A b \in Byte \ {Stray} : Clean(s) => Clean(Append(s, b))
  /\ \A s \in Seq(Byte) : Clean(s) /\ s # <<>> => Clean(Tail(s)) /\ Head(s) # Stray
  /\ \A s \in Seq(Byte) : \A m, n \in Nat :
       Clean(s) /\ m <= n /\ n <= Len(s) => Clean(SubSeq(s, m + 1, n))
<1>1. Clean(<<>>)
  BY DEF Clean
<1>2. ASSUME NEW s \in Seq(Byte), NEW t \in Seq(Byte), Clean(s), Clean(t)
      PROVE  Clean(s \o t)
  <2> DEFINE u == s \o t
  <2>1. /\ Len(s) \in Nat /\ Len(t) \in Nat /\ DOMAIN s = 1 .. Len(s) /\ DOMAIN t = 1 .. Len(t)
        /\ DOMAIN u = 1 .. Len(s) + Len(t)
        /\ \A i \in 1 .. Len(s) + Len(t) : u[i] = IF i <= Len(s) THEN s[i] ELSE t[i - Len(s)]
    BY ConcatProperties, LenProperties
  <2> HIDE DEF u
  <2>2. \A i \in DOMAIN u : \/ i \in DOMAIN s /\ u[i] = s[i]
                            \/ i - Len(s) \in DOMAIN t /\ u[i] = t[i - Len(s)]
    BY <2>1
  <2>3. Clean(u)
    BY <1>2, <2>2 DEF Clean
  <2> QED
    BY <2>3 DEF u
<1>3. ASSUME NEW s \in Seq(Byte), NEW b \in Byte \ {Stray}, Clean(s)
      PROVE  Clean(Append(s, b))
  <2>1. <<b>> \in Seq(Byte) /\ Clean(<<b>>)
    BY DEF Clean
  <2>2. Append(s, b) = s \o <<b>>
    BY AppendIsConcat
  <2> QED
    BY <1>2, <1>3, <2>1, <2>2
<1>4. ASSUME NEW s \in Seq(Byte), Clean(s), s # <<>>
      PROVE  Clean(Tail(s)) /\ Head(s) # Stray
  <2> DEFINE t == Tail(s)
  <2>1. /\ t \in Seq(Byte) /\ Len(t) = Len(s) - 1 /\ Len(s) \in Nat \ {0}
        /\ \A i \in 1 .. Len(t) : t[i] = s[i + 1]
        /\ Head(s) = s[1]
    BY <1>4, HeadTailProperties, EmptySeq
  <2> HIDE DEF t
  <2>2. DOMAIN s = 1 .. Len(s) /\ DOMAIN t = 1 .. Len(s) - 1
    BY <2>1, LenProperties
  <2>3. 1 \in DOMAIN s /\ \A i \in DOMAIN t : i + 1 \in DOMAIN s /\ t[i] = s[i + 1]
    BY <2>1, <2>2
  <2>4. Clean(t) /\ s[1] # Stray
    BY <1>4, <2>3 DEF Clean
  <2> QED
    BY <2>1, <2>4 DEF t
<1>5. ASSUME NEW s \in Seq(Byte), NEW m \in Nat, NEW n \in Nat, Clean(s), m <= n, n <= Len(s)
      PROVE  Clean(SubSeq(s, m + 1, n))
  <2> DEFINE t == SubSeq(s, m + 1, n)
  <2>1. t = [i \in 1 .. n - m |-> s[m + i]] /\ DOMAIN s = 1 .. Len(s) /\ Len(s) \in Nat
    <3>1. DOMAIN s = 1 .. Len(s) /\ Len(s) \in Nat
      BY LenProperties
    <3>2. t \in Seq(Byte) /\ Len(t) = n - m
      BY <1>5, Part
    <3>3. \A i \in m + 1 .. n : s[i] \in Byte
      BY <1>5, <3>1, ElementOfSeq
    <3>4. \A i \in 1 .. n - (m + 1) + 1 : t[i] = s[(m + 1) + i - 1]
      BY <3>3, SubSeqProperties
    <3> HIDE DEF t
    <3>5. t = [i \in 1 .. Len(t) |-> t[i]]
      BY <3>2, LenProperties
    <3>6. n - (m + 1) + 1 = n - m /\ \A i \in 1 .. n - m : (m + 1) + i - 1 = m + i
      OBVIOUS
    <3>7. \A i \in 1 .. n - m : t[i] = s[m + i]
      BY <3>4, <3>6
    <3> QED
      BY <3>1, <3>2, <3>5, <3>7
  <2> HIDE DEF t
  <2>2. DOMAIN t = 1 .. n - m /\ \A i \in 1 .. n - m : t[i] = s[m + i] /\ m + i \in DOMAIN s
    BY <1>5, <2>1
  <2>3. Clean(t)
    BY <1>5, <2>2 DEF Clean
  <2> QED
    BY <2>3 DEF t
<1> QED
  BY <1>1, <1>2, <1>3, <1>4, <1>5

(* Only the send queue's bytes reach the peer. *)
LEMMA GotStaysClean ==
  ASSUME StreamInv, NoStrayUnderWay, ~NonBlocking, [Next]_vars
  PROVE  Clean(got')
<1>1. sndq \in Seq(Byte) /\ got \in Seq(Byte) /\ Clean(got)
  BY DEF StreamInv, TypeOK, NoStrayUnderWay
<1>2. CASE PeerReceives
  <2>1. sndq # <<>> /\ got' = Append(got, Head(sndq))
    BY <1>2 DEF PeerReceives
  <2>2. Clean(sndq)
    BY <2>1 DEF NoStrayUnderWay, StreamInv, Discarded
  <2>3. Head(sndq) # Stray /\ Head(sndq) \in Byte
    BY <1>1, <2>1, <2>2, CleanParts, HeadTailProperties
  <2> QED
    BY <1>1, <2>1, <2>3, CleanParts
<1>3. CASE ~PeerReceives
  <2>1. ASSUME NEW n \in 1 .. MaxLen, Send(n) PROVE UNCHANGED got
    BY <2>1 DEF Send, peer
  <2>2. UNCHANGED got
    BY <1>3, <2>1
    DEF Next, Application, Loop, Peer, ShutDown, Close, Start, ConnectionCallbackReturns, Poll,
        NothingToRead, ReadBytes, ReadError, ReadEof, ReadAgain, ReadBlocks,
        MessageCallbackReturns, CloseCallbackReturns, NothingToWrite, WriteBytes,
        WriteRefusedAgain, BlockedTransfers, BlockedReturns, BlockedFails,
        PeerReceivesFin, PeerSends, PeerSendsUrgent, PeerFinishes, PeerResets, peer, vars
  <2> QED
    BY <1>1, <2>2
<1> QED
  BY <1>2, <1>3

LEMMA NoStrayStep ==
  ASSUME IInv, StreamInv, NoStrayUnderWay, [Next]_vars
  PROVE  NoStrayUnderWay'
<1> SUFFICES ASSUME ~NonBlocking, ~rst' PROVE (Clean(got) /\ Clean(sndq) /\ Clean(call.data))'
  BY GotStaysClean DEF NoStrayUnderWay
<1>1. /\ sndq \in Seq(Byte) /\ got \in Seq(Byte) /\ call.data \in Seq(Byte)
      /\ call.done \in Nat /\ call.done <= Len(call.data) /\ nsent \in Nat /\ out \in Seq(Byte)
  BY DEF StreamInv, TypeOK
<1>2. ~rst => Clean(got) /\ Clean(sndq) /\ Clean(call.data)
  BY DEF NoStrayUnderWay
<1>3. ASSUME NEW n \in 1 .. MaxLen, Send(n)
      PROVE  (Clean(got) /\ Clean(sndq) /\ Clean(call.data))'
  <2>1. UNCHANGED <<got, sndq, rst>>
    BY <1>3 DEF Send, SendQueued, SendDirect, SendAgain, SendRefused, SendBlocks, socket, peer
  <2>2. UNCHANGED call \/ call'.data = NewBytes(n)
    BY <1>3 DEF Send, SendQueued, SendDirect, SendAgain, SendRefused, SendBlocks, loop
  <2>3. Clean(NewBytes(n))
    <3>1. \A i \in 1 .. n : nsent + i # 0
      BY <1>1
    <3> QED
      BY <3>1 DEF NewBytes, Clean, Stray
  <2> QED
    BY <1>2, <2>1, <2>2, <2>3
<1>4. ~WriteBytes
  BY DEF WriteBytes, HandleEventWrites, WriteRefused, IInv, InterestIsOwed,
         BlockingNeverQueues
<1>5. ASSUME BlockedTransfers PROVE (Clean(got) /\ Clean(sndq) /\ Clean(call.data))'
  <2>1. UNCHANGED <<got, rst>>
    BY <1>5 DEF BlockedTransfers, peer
  <2>2. PICK n \in RoomFor(Len(call.data) - call.done) :
          /\ sndq' = sndq \o SubSeq(call.data, call.done + 1, call.done + n)
          /\ call' = [call EXCEPT !.done = @ + n]
    BY <1>5 DEF BlockedTransfers
  <2>3. call'.data = call.data
    BY <2>2 DEF StreamInv, TypeOK
  <2>4. n \in Nat /\ call.done + n <= Len(call.data)
    BY <1>1, <2>2, TransferTypes DEF StreamInv
  <2>5. call.done + n \in Nat /\ call.done <= call.done + n
    BY <1>1, <2>4
  <2>6. /\ Clean(SubSeq(call.data, call.done + 1, call.done + n))
        /\ SubSeq(call.data, call.done + 1, call.done + n) \in Seq(Byte)
    BY <1>1, <1>2, <2>1, <2>4, <2>5, CleanParts, Part
  <2>7. Clean(sndq')
    BY <1>1, <1>2, <2>1, <2>2, <2>6, CleanParts
  <2> QED
    BY <1>2, <2>1, <2>3, <2>7
<1>6. ASSUME BlockedReturns \/ BlockedFails
      PROVE  (Clean(got) /\ Clean(sndq) /\ Clean(call.data))'
  <2>1. UNCHANGED <<got, sndq, rst>> /\ call'.data = <<>>
    BY <1>6 DEF BlockedReturns, BlockedFails, socket, peer, NoCall
  <2> QED
    BY <1>2, <2>1, CleanParts
<1>7. ASSUME PeerReceives PROVE (Clean(got) /\ Clean(sndq) /\ Clean(call.data))'
  <2>1. /\ sndq # <<>> /\ got' = Append(got, Head(sndq)) /\ sndq' = Tail(sndq)
        /\ UNCHANGED <<rst, call>>
    BY <1>7 DEF PeerReceives, loop
  <2>2. Clean(Tail(sndq)) /\ Head(sndq) # Stray /\ Head(sndq) \in Byte
    BY <1>1, <1>2, <2>1, CleanParts, HeadTailProperties
  <2>3. Clean(Append(got, Head(sndq)))
    BY <1>1, <1>2, <2>1, <2>2, CleanParts
  <2> QED
    BY <1>2, <2>1, <2>2, <2>3
<1>8. ~PeerResets
  BY DEF PeerResets
<1>9. ASSUME \/ ShutDown \/ Close \/ Start \/ ConnectionCallbackReturns \/ Poll
             \/ NothingToRead \/ ReadBytes \/ ReadError \/ ReadEof \/ ReadAgain \/ ReadBlocks
             \/ MessageCallbackReturns \/ CloseCallbackReturns \/ NothingToWrite
             \/ WriteRefusedAgain \/ PeerReceivesFin \/ PeerSends \/ PeerSendsUrgent
             \/ PeerFinishes
             \/ UNCHANGED vars
      PROVE  (Clean(got) /\ Clean(sndq) /\ Clean(call.data))'
  <2>1. UNCHANGED <<sndq, got, rst, call>>
    BY <1>9
    DEF ShutDown, ShutDownWrite, Close, BeginClose, Start, ConnectionCallbackReturns,
        Poll, NothingToRead, HandleEventReads, InReadv, ReadBytes, ReadError, ReadEof,
        ReadAgain, ReadBlocks, MessageCallbackReturns, CloseCallbackReturns, NothingToWrite,
        HandleEventWrites,
        WriteRefusedAgain, RefuseWrite, PeerReceivesFin, PeerSends, PeerSendsUrgent,
        PeerFinishes,
        object, socket, peer, loop, vars
  <2> QED
    BY <1>2, <2>1
<1> QED
  BY <1>3, <1>4, <1>5, <1>6, <1>7, <1>8, <1>9 DEF Next, Application, Loop, Peer

LEMMA NoStrayInductive == Spec => []NoStrayUnderWay
<1>1. Init => NoStrayUnderWay
  BY CleanParts DEF Init, NoCall, NoStrayUnderWay
<1> QED
  BY <1>1, NoStrayStep, Inductive, StreamInductive, PTL DEF Spec

LEMMA CleanCounts ==
  ASSUME NEW s \in Seq(Byte), Clean(s)
  PROVE  Len(s) - Cardinality(Own(s)) = 0
<1>1. Len(s) \in Nat /\ DOMAIN s = 1 .. Len(s)
  BY LenProperties
<1>2. Own(s) = 1 .. Len(s)
  BY <1>1 DEF Own, Clean
<1>3. Cardinality(1 .. Len(s)) = Len(s)
  BY <1>1, FS_Interval
<1> QED
  BY <1>1, <1>2, <1>3

(* The application's own bytes reach the peer in the order of the sends,   *)
(* each once: those that the peer has received are their beginning, and    *)
(* without a reset what the kernel, the output buffer and a blocked write  *)
(* still hold is the rest (TcpConnection::send, HandleWrite).  On a        *)
(* blocking socket the peer receives no others; on a non-blocking one it   *)
(* may, since a write that would block is queued with a byte in front.     *)
THEOREM StreamCorrect == Spec => []OwnBytesInOrder
<1>1. StreamInv /\ NoStrayUnderWay => OwnBytesInOrder
  <2> SUFFICES ASSUME StreamInv, NoStrayUnderWay, proc = "up"
               PROVE  /\ ~rst => Carries(got \o Undelivered, 0, nsent)
                      /\ Received <= nsent /\ Carries(got, 0, Received)
                      /\ ~NonBlocking => NoForeignByte
    BY DEF OwnBytesInOrder
  <2>1. /\ got \in Seq(Byte) /\ nsent \in Nat /\ Undelivered \in Seq(Byte)
    BY WaitingType DEF StreamInv, TypeOK
  <2>2. Carries(got, 0, Received) /\ Received <= nsent
        /\ (~rst => Carries(Undelivered, Received, nsent))
    BY DEF StreamInv, InTransit
  <2>3. Received \in Nat
    BY <2>1, OwnAppend DEF Received, Byte
  <2>4. 0 \in Nat /\ 0 <= Received
    BY <2>3
  <2>5. ~rst => Carries(got \o Undelivered, 0, nsent)
    BY <2>1, <2>2, <2>3, <2>4, CarriesConcat
  <2>6. ~NonBlocking => NoForeignByte
    BY <2>1, CleanCounts DEF NoStrayUnderWay, NoForeignByte, Foreign, Received
  <2> QED
    BY <2>2, <2>5, <2>6
<1> QED
  BY <1>1, StreamInductive, NoStrayInductive, PTL

(* On a blocking socket the byte in front of the data that send takes from *)
(* write's -1 reaches no peer that has not reset the connection.           *)
THEOREM NoStrayCorrect == Spec => []NoStrayUnlessReset
<1>1. NoStrayUnderWay => NoStrayUnlessReset
  BY DEF NoStrayUnderWay, NoStrayUnlessReset, Clean
<1> QED
  BY <1>1, NoStrayInductive, PTL
-----------------------------------------------------------------------------
(* The close.                                                              *)

(* The application does not send in the close callback, which would        *)
(* register the handler again behind DisableAll.                           *)
SilentInClose == "close" \notin SendIn

(* What makes LoopClosesOnce inductive: where the loop is once the         *)
(* connection was closed, and that the loop's own call of the callback is  *)
(* made for the last event of the connection.                              *)
ClosesCounted ==
  /\ state = "CONNECTING" => pc = "start"
  /\ state = "DIS_CONNECTED" \/ pc = "close" => closes > 0
  /\ closes > 0 =>
       /\ events = {}
       /\ pc \notin {"start", "blocked"}
       /\ state = "DIS_CONNECTED" \/ pc = "close"
  /\ pc = "blocked" => call.back # "close"
  /\ \/ closes = asked
     \/ /\ closes = asked + 1
        /\ pc \in {"close", "write", "idle"}
        /\ pc = "close" => back \in {"write", "idle"}

CloseInv ==
  /\ TypeOK
  /\ SilentInClose => ClosesCounted

LEMMA CountedStep ==
  ASSUME TypeOK, SilentInClose, ClosesCounted, [Next]_vars
  PROVE  ClosesCounted'
<1>1. ASSUME NEW n \in 1 .. MaxLen, Send(n) PROVE ClosesCounted'
  <2>1. /\ pc \in {"connection", "message", "idle", "batch"}
        /\ state \in {"CONNECTED", "DIS_CONNECTING"}
        /\ UNCHANGED <<state, closes, asked, back>>
    <3>1. Context \in {"connection", "message", "other"}
      BY <1>1, ConnectionAssumption DEF Send, Contexts, SilentInClose
    <3>2. pc \in {"connection", "message", "idle", "batch"}
      BY <3>1 DEF Context, TypeOK
    <3>3. UNCHANGED back
      BY <1>1 DEF Send, SendQueued, SendDirect, SendAgain, SendRefused, SendBlocks, loop
    <3> QED
      BY <1>1, <3>2, <3>3 DEF Send, Sendable
  <2>2. pc' = pc \/ (pc' = "blocked" /\ call'.back = pc)
    BY <1>1 DEF Send, SendQueued, SendDirect, SendAgain, SendRefused, SendBlocks, loop
  <2>3. closes = 0 /\ asked = 0
    BY <2>1 DEF ClosesCounted, TypeOK
  <2> QED
    BY <2>1, <2>2, <2>3 DEF ClosesCounted
<1>2. CASE ShutDown
  <2>1. pc # "start" /\ pc # "blocked"
    BY <1>2, ConnectionAssumption DEF ShutDown, Context, Contexts
  <2> QED
    BY <1>2, <2>1 DEF ShutDown, ClosesCounted, loop
<1>3. CASE Close
  <2>1. pc \notin {"start", "blocked", "close"}
    BY <1>3, ConnectionAssumption DEF Close, Context, Contexts
  <2> QED
    BY <1>3, <2>1 DEF Close, BeginClose, ClosesCounted, TypeOK
<1>4. CASE Start
  BY <1>4 DEF Start, ClosesCounted
<1>5. CASE ConnectionCallbackReturns \/ Poll \/ NothingToRead \/ MessageCallbackReturns
  <2>1. Poll => events # {}
    BY DEF Poll, Ready
  <2>2. /\ UNCHANGED <<state, events, closes, asked, back>>
        /\ pc \in {"connection", "idle", "batch", "message"}
        /\ pc' \in {"idle", "batch", "write"} /\ (pc = "idle" => pc' = "batch" /\ events # {})
        /\ pc \in {"batch", "message"} => pc' = "write"
        /\ pc = "connection" => pc' = "idle"
    BY <1>5, <2>1 DEF ConnectionCallbackReturns, Poll, NothingToRead,
       MessageCallbackReturns, object
  <2>3. closes \in Nat /\ asked \in Nat
    BY DEF TypeOK
  <2> QED
    BY <2>2, <2>3 DEF ClosesCounted
<1>6. CASE ReadBytes \/ ReadError \/ ReadAgain \/ ReadBlocks
  BY <1>6 DEF ReadBytes, ReadError, ReadAgain, ReadBlocks, InReadv, HandleEventReads,
     ClosesCounted, object
<1>7. CASE ReadEof
  BY <1>7 DEF ReadEof, InReadv, HandleEventReads, BeginClose, ClosesCounted, TypeOK
<1>8. CASE CloseCallbackReturns
  BY <1>8 DEF CloseCallbackReturns, ClosesCounted, TypeOK
<1>9. CASE NothingToWrite \/ WriteRefusedAgain
  BY <1>9 DEF NothingToWrite, WriteRefusedAgain, HandleEventWrites, ClosesCounted, object
<1>10. CASE WriteBytes
  BY <1>10 DEF WriteBytes, HandleEventWrites, ClosesCounted
<1>11. CASE BlockedTransfers
  <2>1. call'.back = call.back
    BY <1>11 DEF BlockedTransfers, TypeOK
  <2> QED
    BY <1>11, <2>1 DEF BlockedTransfers, ClosesCounted, object
<1>12. CASE BlockedReturns \/ BlockedFails
  <2>1. /\ pc = "blocked" /\ pc' = call.back /\ call.back \in {"connection", "idle", "batch", "message"}
        /\ UNCHANGED <<state, closes, asked, back>> /\ closes = 0
    BY <1>12 DEF BlockedReturns, BlockedFails, TypeOK, ClosesCounted
  <2> QED
    BY <2>1 DEF ClosesCounted
<1>13. CASE Peer \/ UNCHANGED vars
  <2>1. UNCHANGED <<state, events, closes, asked, pc, back, call>>
    BY <1>13 DEF Peer, PeerReceives, PeerReceivesFin, PeerSends, PeerSendsUrgent,
       PeerFinishes, PeerResets,
       object, loop, vars
  <2> QED
    BY <2>1 DEF ClosesCounted
<1> QED
  BY <1>1, <1>2, <1>3, <1>4, <1>5, <1>6, <1>7, <1>8, <1>9, <1>10, <1>11, <1>12, <1>13
  DEF Next, Application, Loop

LEMMA CloseInductive == Spec => []CloseInv
<1>1. Init => CloseInv
  BY TypeInit DEF Init, CloseInv, ClosesCounted
<1>2. CloseInv /\ [Next]_vars => CloseInv'
  BY TypeStep, CountedStep DEF CloseInv, SilentInClose
<1> QED
  BY <1>1, <1>2, PTL DEF Spec

(* Whoever closes the connection, when and however often: by itself the    *)
(* loop calls the close callback once at the most, even when an event of   *)
(* the closed connection was still to come (TcpConnection::Close,          *)
(* HandleEvent).                                                           *)
THEOREM LoopClosesOnceCorrect ==
  ASSUME SilentInClose
  PROVE  Spec => []LoopClosesOnce
<1>1. CloseInv => LoopClosesOnce
  BY DEF CloseInv, TypeOK, ClosesCounted, LoopClosesOnce
<1> QED
  BY <1>1, CloseInductive, PTL

(* A closed connection is left alone once no event of its batch is under   *)
(* way, and its close callback is called again only when the application   *)
(* calls Close() again.                                                    *)
THEOREM ClosedIsSilentCorrect ==
  ASSUME SilentInClose
  PROVE  Spec => ClosedIsSilent
<1>1. ASSUME CloseInv, [Next]_vars
      PROVE  [state = "DIS_CONNECTED" /\ ~UnderWay =>
                /\ UNCHANGED <<state, events, out, inb>>
                /\ closes' - closes = asked' - asked]_vars
  <2> SUFFICES ASSUME state = "DIS_CONNECTED", ~UnderWay
               PROVE  /\ UNCHANGED <<state, events, out, inb>>
                      /\ closes' - closes = asked' - asked
    OBVIOUS
  <2>1. /\ pc \notin {"start", "blocked", "batch", "reading"} /\ events = {}
        /\ closes \in Nat /\ asked \in Nat
    BY <1>1 DEF CloseInv, ClosesCounted, TypeOK, UnderWay
  <2>2. CASE Application
    BY <2>1, <2>2 DEF Application, Send, Sendable, ShutDown, Close, BeginClose
  <2>3. CASE Loop
    BY <2>1, <2>3 DEF Loop, Start, ConnectionCallbackReturns, Poll, NothingToRead,
       HandleEventReads, InReadv, ReadBytes, ReadError, ReadEof, ReadAgain, ReadBlocks,
       MessageCallbackReturns, CloseCallbackReturns, NothingToWrite, HandleEventWrites,
       WriteBytes, WriteRefusedAgain, BlockedTransfers, BlockedReturns, BlockedFails, object
  <2>4. CASE Peer \/ UNCHANGED vars
    BY <2>1, <2>4 DEF Peer, PeerReceives, PeerReceivesFin, PeerSends, PeerSendsUrgent,
       PeerFinishes, PeerResets, object, vars
  <2> QED
    BY <1>1, <2>2, <2>3, <2>4 DEF Next
<1> QED
  BY <1>1, CloseInductive, PTL DEF Spec, ClosedIsSilent
-----------------------------------------------------------------------------
(* The stream between the two ends.                                        *)

(* What the abstract stream's guards need beyond IInv and StreamInv: the   *)
(* end that the peer has seen lies behind everything written.              *)
EndSeen == Disciplined /\ gotFin => fin /\ sndq = <<>>

LEMMA EndSeenStep == ASSUME IInv, EndSeen, [Next]_vars PROVE EndSeen'
<1> SUFFICES ASSUME Disciplined, gotFin' PROVE fin' /\ sndq' = <<>>
  BY DEF EndSeen
<1>1. gotFin => fin /\ sndq = <<>>
  BY DEF EndSeen
<1>2. fin => state \in {"DIS_CONNECTING", "DIS_CONNECTED"}
  BY DEF IInv, FinIsLast
<1>3. ASSUME NEW n \in 1 .. MaxLen, Send(n) PROVE fin' /\ sndq' = <<>>
  <2>1. gotFin /\ fin' = fin
    BY <1>3 DEF Send, peer, SendQueued, SendDirect, SendAgain, SendRefused, SendBlocks, socket
  <2>2. sndq' = sndq
    BY <1>1, <1>3, <2>1 DEF Send, SendQueued, SendDirect, SendAgain, SendRefused,
       SendBlocks, socket, WriteRefused
  <2> QED
    BY <1>1, <2>1, <2>2
<1>4. ~ShutDown
  BY <1>1, <1>2 DEF ShutDown, peer
<1>5. ~WriteBytes
  BY <1>1 DEF WriteBytes, HandleEventWrites, WriteRefused, peer
<1>6. CASE PeerReceivesFin
  BY <1>6 DEF PeerReceivesFin, socket
<1>7. CASE PeerReceives \/ PeerResets
  BY <1>1, <1>7 DEF PeerReceives, PeerResets, peer
<1>8. CASE \/ Close \/ Start \/ ConnectionCallbackReturns \/ Poll
           \/ NothingToRead \/ ReadBytes \/ ReadError \/ ReadEof \/ ReadAgain \/ ReadBlocks
           \/ MessageCallbackReturns \/ CloseCallbackReturns \/ NothingToWrite
           \/ WriteRefusedAgain \/ BlockedTransfers \/ BlockedReturns \/ BlockedFails
           \/ PeerSends \/ PeerSendsUrgent \/ PeerFinishes \/ UNCHANGED vars
  <2>1. UNCHANGED <<gotFin, fin>>
    BY <1>8
    DEF Close, BeginClose, Start, ConnectionCallbackReturns,
        Poll, NothingToRead, HandleEventReads, InReadv, ReadBytes, ReadError, ReadEof,
        ReadAgain, ReadBlocks, MessageCallbackReturns, CloseCallbackReturns, NothingToWrite,
        HandleEventWrites,
        WriteRefusedAgain, BlockedTransfers, BlockedReturns, BlockedFails,
        RefuseWrite, PeerSends, PeerSendsUrgent, PeerFinishes, object, socket, peer, loop, vars
  <2>2. UNCHANGED sndq
    BY <1>1, <1>8, <2>1
    DEF Close, BeginClose, Start, ConnectionCallbackReturns,
        Poll, NothingToRead, HandleEventReads, InReadv, ReadBytes, ReadError, ReadEof,
        ReadAgain, ReadBlocks, MessageCallbackReturns, CloseCallbackReturns, NothingToWrite,
        HandleEventWrites,
        WriteRefusedAgain, BlockedTransfers, WriteRefused, BlockedReturns, BlockedFails,
        RefuseWrite, PeerSends, PeerSendsUrgent, PeerFinishes, object, socket, peer, loop, vars
  <2> QED
    BY <1>1, <2>1, <2>2
<1> QED
  BY <1>3, <1>4, <1>5, <1>6, <1>7, <1>8 DEF Next, Application, Loop, Peer

EndsClosing == state \in {"DIS_CONNECTING", "DIS_CONNECTED"}

LEMMA EndsInit == Init => Ends!Init
<1> SUFFICES ASSUME Init PROVE Ends!Init
  OBVIOUS
<1>1. got = <<>> /\ nsent = 0 /\ gotFin = FALSE /\ rst = FALSE /\ state = "CONNECTING"
  BY DEF Init
<1>2. Own(<<>>) = {}
  BY DEF Own
<1>3. Received = 0
  BY <1>1, <1>2, FS_EmptySet DEF Received
<1>4. Foreign = 0
  BY <1>1, <1>3 DEF Foreign
<1> QED
  BY <1>1, <1>3, <1>4 DEF Ends!Init

(* The end of the stream reaches the peer behind all that was sent. *)
LEMMA EndBehindLast ==
  ASSUME Disciplined, IInv, StreamInv, PeerReceivesFin
  PROVE  Received = nsent /\ EndsClosing
<1>1. fin /\ ~rst /\ sndq = <<>> /\ proc = "up"
  BY DEF PeerReceivesFin
<1>2. EndsClosing /\ out = <<>> /\ pc # "blocked"
  BY <1>1 DEF IInv, FinIsLast, EndsClosing
<1>3. Waiting = <<>>
  BY <1>2, WaitingType DEF StreamInv
<1>4. Undelivered = <<>>
  <2>1. <<>> \o <<>> = <<>>
    BY EmptySeq, ConcatEmptySeq
  <2> QED
    BY <1>1, <1>2, <1>3, <2>1 DEF Undelivered
<1>5. Carries(<<>>, Received, nsent) /\ Received <= nsent
  BY <1>1, <1>4 DEF StreamInv, InTransit
<1>6. Received \in Nat /\ nsent \in Nat
  BY OwnAppend DEF Received, Byte, StreamInv, TypeOK
<1>7. Received + 1 .. nsent = {}
  BY <1>5 DEF Carries, Own
<1>8. ~(Received < nsent)
  <2> SUFFICES ASSUME Received < nsent PROVE FALSE
    OBVIOUS
  <2>1. nsent \in Received + 1 .. nsent
    BY <1>6
  <2> QED
    BY <1>7, <2>1
<1> QED
  BY <1>2, <1>5, <1>6, <1>8

(* Every step of the connection is a step of the stream, or none. *)
LEMMA EndsStep ==
  ASSUME Disciplined, IInv, StreamInv, NoStrayUnderWay, EndSeen, [Next]_vars
  PROVE  [Ends!Next]_(Ends!vars)
<1> USE DEF EndsClosing
<1>1. ASSUME NEW n \in 1 .. MaxLen, Send(n) PROVE Ends!Accept(n)
  <2>1. /\ state = "CONNECTED" /\ nsent' = nsent + n
        /\ UNCHANGED <<state, got, gotFin, rst>>
    BY <1>1 DEF Send, peer, SendQueued, SendDirect, SendAgain, SendRefused, SendBlocks,
       RefuseWrite, socket, Disciplined, Sendable
  <2>2. UNCHANGED <<Received, Foreign>>
    BY <2>1 DEF Received, Foreign
  <2> QED
    BY <2>1, <2>2 DEF Ends!Accept
<1>2. ASSUME ShutDown \/ CloseCallbackReturns PROVE Ends!Finish
  <2>1. /\ state' \in {"DIS_CONNECTING", "DIS_CONNECTED"}
        /\ UNCHANGED <<nsent, got, gotFin, rst>>
    BY <1>2 DEF ShutDown, CloseCallbackReturns, socket, peer
  <2>2. UNCHANGED <<Received, Foreign>>
    BY <2>1 DEF Received, Foreign
  <2> QED
    BY <2>1, <2>2 DEF Ends!Finish
<1>3. ASSUME PeerReceives PROVE Ends!Deliver \/ Ends!DeliverForeign
  <2>1. UNCHANGED <<state, nsent, gotFin, rst>> /\ sndq # <<>>
    BY <1>3 DEF PeerReceives, object
  <2>2. ~gotFin /\ ~rst
    BY <2>1 DEF EndSeen, StreamInv, Discarded
  <2>3. Received' = Received \/ (Received' = Received + 1 /\ Received < nsent)
    BY <1>3, ReceiveEffect
  <2>4. Foreign' = Foreign + 1 - (Received' - Received) /\ Foreign \in Int /\ Received \in Nat
    <3>1. got \in Seq(Byte) /\ Head(sndq) \in Byte /\ got' = Append(got, Head(sndq))
      BY <1>3, <2>1, HeadTailProperties DEF StreamInv, TypeOK, PeerReceives
    <3>2. Len(got) \in Nat /\ Len(got') = Len(got) + 1
      BY <3>1, AppendProperties, LenProperties
    <3>3. Received \in Nat /\ Received' \in Nat
      BY <2>3, <3>1, OwnAppend DEF Received
    <3> QED
      BY <3>2, <3>3 DEF Foreign
  <2>5. CASE Received' = Received
    <3>1. Foreign' = Foreign + 1
      BY <2>4, <2>5
    <3>2. NonBlocking
      <4> SUFFICES ASSUME ~NonBlocking PROVE FALSE
        BY ConnectionAssumption
      <4>1. Clean(got) /\ Clean(got')
        BY GotStaysClean DEF NoStrayUnderWay
      <4>2. got \in Seq(Byte) /\ got' \in Seq(Byte)
        BY TypeStep DEF StreamInv, TypeOK
      <4>3. Foreign = 0 /\ Foreign' = 0
        BY <4>1, <4>2, CleanCounts DEF Foreign, Received
      <4> QED
        BY <3>1, <4>3
    <3> QED
      BY <2>1, <2>2, <2>5, <3>1, <3>2 DEF Ends!DeliverForeign
  <2>6. CASE Received' = Received + 1 /\ Received < nsent
    <3>1. Foreign' = Foreign
      BY <2>4, <2>6
    <3> QED
      BY <2>1, <2>2, <2>6, <3>1 DEF Ends!Deliver
  <2> QED
    BY <2>3, <2>5, <2>6
<1>4. ASSUME PeerReceivesFin PROVE Ends!End
  <2>1. /\ UNCHANGED <<state, nsent, got, rst>> /\ gotFin' = TRUE /\ ~rst
    BY <1>4 DEF PeerReceivesFin, object, socket
  <2>2. UNCHANGED <<Received, Foreign>>
    BY <2>1 DEF Received, Foreign
  <2> QED
    BY <1>4, <2>1, <2>2, EndBehindLast DEF Ends!End
<1>5. ASSUME PeerResets PROVE Ends!Break
  <2>1. /\ UNCHANGED <<state, nsent, got, gotFin>> /\ rst' = TRUE
    BY <1>5 DEF PeerResets, object, peer
  <2>2. UNCHANGED <<Received, Foreign>>
    BY <2>1 DEF Received, Foreign
  <2> QED
    BY <2>1, <2>2 DEF Ends!Break
<1>6. ASSUME Start PROVE UNCHANGED Ends!vars
  <2>1. /\ UNCHANGED <<nsent, got, gotFin, rst>> /\ state = "CONNECTING" /\ state' = "CONNECTED"
    BY <1>6 DEF Start, socket, peer, IInv, StartsOnce
  <2>2. UNCHANGED <<Received, Foreign>>
    BY <2>1 DEF Received, Foreign
  <2> QED
    BY <2>1, <2>2 DEF Ends!vars
<1>7. ASSUME \/ Close \/ ConnectionCallbackReturns \/ Poll
             \/ NothingToRead \/ ReadBytes \/ ReadError \/ ReadEof \/ ReadAgain \/ ReadBlocks
             \/ MessageCallbackReturns \/ NothingToWrite \/ WriteBytes
             \/ WriteRefusedAgain \/ BlockedTransfers \/ BlockedReturns \/ BlockedFails
             \/ PeerSends \/ PeerSendsUrgent \/ PeerFinishes \/ UNCHANGED vars
      PROVE  UNCHANGED Ends!vars
  <2>1. UNCHANGED <<state, nsent, got, gotFin, rst>>
    BY <1>7
    DEF Close, BeginClose, ConnectionCallbackReturns,
        Poll, NothingToRead, HandleEventReads, InReadv, ReadBytes, ReadError, ReadEof,
        ReadAgain, ReadBlocks, MessageCallbackReturns, NothingToWrite, HandleEventWrites,
        WriteBytes,
        WriteRefusedAgain, BlockedTransfers, BlockedReturns, BlockedFails,
        RefuseWrite, PeerSends, PeerSendsUrgent, PeerFinishes, object, socket, peer, loop, vars
  <2>2. UNCHANGED <<Received, Foreign>>
    BY <2>1 DEF Received, Foreign
  <2> QED
    BY <2>1, <2>2 DEF Ends!vars
<1> QED
  BY <1>1, <1>2, <1>3, <1>4, <1>5, <1>6, <1>7
  DEF Next, Application, Loop, Peer, Ends!Next

(* A connection whose application neither sends after ShutDown nor shuts   *)
(* down in the close callback implements the stream, with resets and       *)
(* without: its bytes in order and the end behind the last of them.  On a  *)
(* blocking socket it is a stream that delivers what was sent and nothing  *)
(* else, on a non-blocking one a stream that leaks: bytes that nobody sent *)
(* may come between those that were.                                       *)
THEOREM StreamImplemented ==
  ASSUME Disciplined
  PROVE  Spec => ImplementsStream
<1>1. Init => EndSeen
  BY DEF Init, EndSeen
<1>2. Spec => []EndSeen
  BY <1>1, EndSeenStep, Inductive, PTL DEF Spec
<1>3. IInv /\ StreamInv /\ NoStrayUnderWay /\ EndSeen /\ [Next]_vars => [Ends!Next]_(Ends!vars)
  BY EndsStep
<1> QED
  BY EndsInit, <1>2, <1>3, Inductive, StreamInductive, NoStrayInductive, PTL
  DEF Spec, ImplementsStream, Ends!Spec
=============================================================================
