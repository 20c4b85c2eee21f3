-------------------------- MODULE AsyncLog_proofs --------------------------
(***************************************************************************)
(* Proofs about the asynchronous log: for every number of threads, queue   *)
(* size and number of messages, no free cell is left without a thread on   *)
(* its way to it, the queue is a journal, and a flush covers what was      *)
(* accepted before it.                                                     *)
(***************************************************************************)
EXTENDS AsyncLog, FiniteSetTheorems, SequenceTheorems, TLAPS

(* Whoever destroys the pool is the only one with a pointer to it. *)
Pool ==
  /\ flusherOn => tp
  /\ at[Main] = "stopping" => flusherOn
  /\ at[Main] = "reset" => tp /\ ~flusherOn
  /\ \A t \in Threads : alive /\ at[t] = "join" => destroyer = t
  /\ destroyer # None =>
       /\ ~tp /\ Holders = {}
       /\ at[destroyer] \in {"enqueue", "waiting", "notify", "join"}

(* Behind the terminate message nobody has a message to post. *)
Closed ==
  ~Accepting =>
    /\ ~tp /\ Holders = {}
    /\ destroyer # None => at[destroyer] \in {"notify", "join"}

Recording ==
  {t \in Threads \ {destroyer} : /\ task[t] \in {"record", "critical"}
                                 /\ at[t] \in {"begin", "enqueue", "waiting"}}

(* Each record is accepted once. *)
Counted == accepted + Cardinality(Recording) <= calls

Adds(m) == IF m.kind = "log" THEN 1 ELSE 0

(* The ids of the messages p, behind n records, lead up to acc. *)
Chain(p, n, acc) ==
  /\ \A i \in 1 .. Len(p) : p[i].id = (IF i = 1 THEN n ELSE p[i - 1].id) + Adds(p[i])
  /\ acc = IF p = <<>> THEN n ELSE p[Len(p)].id

Ordered == Chain(Pending, Len(file), accepted)

(* The file holds the records in the order of their acceptance. *)
FileInOrder == \A i \in 1 .. Len(file) : file[i] = i

IInv == TypeOK /\ Pool /\ Closed /\ Counted /\ Ordered /\ FileInOrder /\ NoLostWakeup
-----------------------------------------------------------------------------
(* The ring. *)

(* A cell's successor, without the remainder. *)
LEMMA NextCell ==
  ASSUME NEW i \in Q!Cells
  PROVE  /\ Q!Step(i) = IF i = Capacity THEN 0 ELSE i + 1
         /\ Q!Step(i) \in Q!Cells
<1>1. i \in Nat /\ i <= Capacity /\ Capacity \in Nat
  BY AsyncAssumption DEF Q!Cells
<1>2. CASE i = Capacity
  <2>1. (Capacity + 1) % (Capacity + 1) = 0
    BY <1>1
  <2> QED
    BY <1>1, <1>2, <2>1 DEF Q!Step, Q!Cells
<1>3. CASE i # Capacity
  <2>1. (i + 1) % (Capacity + 1) = i + 1
    BY <1>1, <1>3
  <2> QED
    BY <1>1, <1>3, <2>1 DEF Q!Step, Q!Cells
<1> QED
  BY <1>2, <1>3

(* Where the i-th message behind cell h is, without the remainder. *)
LEMMA PlaceOf ==
  ASSUME NEW h \in Q!Cells, NEW i \in 1 .. Capacity + 1
  PROVE  /\ (h + i - 1) % (Capacity + 1) =
              IF h + i - 1 <= Capacity THEN h + i - 1 ELSE h + i - 1 - (Capacity + 1)
         /\ (h + i - 1) % (Capacity + 1) \in Q!Cells
<1>1. /\ h \in Nat /\ h <= Capacity /\ Capacity \in Nat
      /\ i \in Nat /\ 1 <= i /\ i <= Capacity + 1
  BY AsyncAssumption DEF Q!Cells
<1>2. CASE h + i - 1 <= Capacity
  <2>1. (h + i - 1) % (Capacity + 1) = h + i - 1
    BY <1>1, <1>2
  <2> QED
    BY <1>1, <1>2, <2>1 DEF Q!Cells
<1>3. CASE h + i - 1 > Capacity
  <2>1. (h + i - 1) % (Capacity + 1) = h + i - 1 - (Capacity + 1)
    BY <1>1, <1>3
  <2> QED
    BY <1>1, <1>3, <2>1 DEF Q!Cells
<1> QED
  BY <1>1, <1>2, <1>3

(* One cell stays free: the size tells an empty ring from a full one. *)
LEMMA RingSize ==
  ASSUME NEW q \in Q!Ring
  PROVE  /\ Q!Size(q) \in 0 .. Capacity
         /\ Q!IsEmpty(q) <=> Q!Size(q) = 0
         /\ Q!IsFull(q) <=> Q!Size(q) = Capacity
<1>1. q.head \in Q!Cells /\ q.tail \in Q!Cells
  BY DEF Q!Ring
<1>2. /\ Capacity \in Nat
      /\ q.head \in Nat /\ q.head <= Capacity
      /\ q.tail \in Nat /\ q.tail <= Capacity
  BY <1>1, AsyncAssumption DEF Q!Cells
<1>3. Q!Size(q) \in 0 .. Capacity /\ (Q!IsEmpty(q) <=> Q!Size(q) = 0)
  BY <1>2 DEF Q!Size, Q!IsEmpty
<1>4. Q!Step(q.tail) = IF q.tail = Capacity THEN 0 ELSE q.tail + 1
  BY <1>1, NextCell
<1>5. Q!IsFull(q) <=> Q!Size(q) = Capacity
  BY <1>2, <1>4 DEF Q!Size, Q!IsFull
<1> QED
  BY <1>3, <1>5

(* The contents of a ring are a sequence of messages, each in its cell. *)
LEMMA RingContents ==
  ASSUME NEW q \in Q!Ring
  PROVE  /\ Q!Contents(q) \in Seq(Message)
         /\ Len(Q!Contents(q)) = Q!Size(q)
         /\ \A i \in 1 .. Q!Size(q) :
              Q!Contents(q)[i] = q.v[(q.head + i - 1) % (Capacity + 1)]
<1>1. Q!Size(q) \in Nat /\ Q!Size(q) <= Capacity /\ Capacity \in Nat
  BY RingSize, AsyncAssumption
<1>2. q.head \in Q!Cells /\ q.v \in [Q!Cells -> Message]
  BY DEF Q!Ring
<1>3. \A i \in 1 .. Q!Size(q) : q.v[(q.head + i - 1) % (Capacity + 1)] \in Message
  <2>1. ASSUME NEW i \in 1 .. Q!Size(q)
        PROVE  q.v[(q.head + i - 1) % (Capacity + 1)] \in Message
    <3>1. i \in 1 .. Capacity + 1
      BY <1>1
    <3>2. (q.head + i - 1) % (Capacity + 1) \in Q!Cells
      BY <1>2, <3>1, PlaceOf
    <3> QED
      BY <1>2, <3>2
  <2> QED
    BY <2>1
<1>4. Q!Contents(q) = [i \in 1 .. Q!Size(q) |-> q.v[(q.head + i - 1) % (Capacity + 1)]]
  BY DEF Q!Contents
<1> QED
  BY <1>1, <1>3, <1>4

(* A push into a ring that is not full appends to the contents. *)
LEMMA RingPush ==
  ASSUME NEW q \in Q!Ring, NEW m \in Message, ~Q!IsFull(q)
  PROVE  /\ Q!PushBack(q, m) \in Q!Ring
         /\ Q!Size(Q!PushBack(q, m)) = Q!Size(q) + 1
         /\ Q!Contents(Q!PushBack(q, m)) = Append(Q!Contents(q), m)
<1> DEFINE r == Q!PushBack(q, m)
<1>1. /\ q.head \in Q!Cells /\ q.tail \in Q!Cells
      /\ q.v \in [Q!Cells -> Message]
  BY DEF Q!Ring
<1>2. /\ Q!Step(q.tail) = IF q.tail = Capacity THEN 0 ELSE q.tail + 1
      /\ Q!Step(q.tail) \in Q!Cells
  BY <1>1, NextCell
<1>3. /\ r.v = [q.v EXCEPT ![q.tail] = m] /\ r.head = q.head
      /\ r.tail = Q!Step(q.tail) /\ r \in Q!Ring
  BY <1>1, <1>2 DEF Q!PushBack, Q!IsFull, Q!Ring
<1>4. /\ Capacity \in Nat
      /\ q.head \in Nat /\ q.head <= Capacity
      /\ q.tail \in Nat /\ q.tail <= Capacity
  BY <1>1, AsyncAssumption DEF Q!Cells
<1>5. Q!Step(q.tail) # q.head
  BY DEF Q!IsFull
<1>6. Q!Size(r) = Q!Size(q) + 1
  BY <1>2, <1>3, <1>4, <1>5 DEF Q!Size
<1>7. /\ Q!Size(q) \in Nat /\ Q!Size(q) < Capacity
      /\ Q!Size(q) = IF q.tail >= q.head THEN q.tail - q.head
                                         ELSE Capacity + 1 - (q.head - q.tail)
  BY RingSize, <1>4 DEF Q!Size
<1> DEFINE At(i) == (q.head + i - 1) % (Capacity + 1)
<1>8. ASSUME NEW i \in 1 .. Q!Size(q) + 1
      PROVE  /\ At(i) \in Q!Cells
             /\ At(i) = q.tail <=> i = Q!Size(q) + 1
  <2>1. i \in 1 .. Capacity + 1
    BY <1>4, <1>7
  <2>2. /\ At(i) = IF q.head + i - 1 <= Capacity THEN q.head + i - 1
                   ELSE q.head + i - 1 - (Capacity + 1)
        /\ At(i) \in Q!Cells
    BY <1>1, <2>1, PlaceOf
  <2> HIDE DEF At
  <2> QED
    BY <1>4, <1>7, <2>2
<1>9. /\ Q!Contents(q) \in Seq(Message) /\ Len(Q!Contents(q)) = Q!Size(q)
      /\ \A i \in 1 .. Q!Size(q) : Q!Contents(q)[i] = q.v[At(i)]
  BY RingContents
<1>10. /\ Q!Contents(r) \in Seq(Message) /\ Len(Q!Contents(r)) = Q!Size(q) + 1
       /\ \A i \in 1 .. Q!Size(q) + 1 : Q!Contents(r)[i] = r.v[At(i)]
  BY <1>3, <1>6, RingContents
<1> HIDE DEF r, At
<1> DEFINE c == Q!Contents(q)
           d == Q!Contents(r)
<1> HIDE DEF c, d
<1>11. /\ Append(c, m) \in Seq(Message) /\ Len(Append(c, m)) = Q!Size(q) + 1
       /\ \A i \in 1 .. Q!Size(q) : Append(c, m)[i] = c[i]
       /\ Append(c, m)[Q!Size(q) + 1] = m
  BY <1>9, AppendProperties DEF c
<1>12. ASSUME NEW i \in 1 .. Q!Size(q) + 1
       PROVE  d[i] = Append(c, m)[i]
  <2>1. d[i] = [q.v EXCEPT ![q.tail] = m][At(i)]
    BY <1>3, <1>10 DEF d
  <2>2. CASE i = Q!Size(q) + 1
    BY <1>1, <1>8, <1>11, <2>1, <2>2
  <2>3. CASE i \in 1 .. Q!Size(q)
    <3>1. c[i] = q.v[At(i)] /\ At(i) # q.tail /\ At(i) \in Q!Cells
      BY <1>7, <1>8, <1>9, <2>3 DEF c
    <3> QED
      BY <1>1, <1>11, <2>1, <2>3, <3>1
  <2>4. i = Q!Size(q) + 1 \/ i \in 1 .. Q!Size(q)
    BY <1>7, <1>12
  <2> QED
    BY <2>2, <2>3, <2>4
<1>13. d = Append(c, m)
  BY <1>10, <1>11, <1>12, SeqEqual DEF d
<1> QED
  BY <1>3, <1>6, <1>13 DEF c, d, r

(* The front of a ring that is not empty is the head of its contents, and  *)
(* what stays behind a pop is their tail.                                  *)
LEMMA RingPop ==
  ASSUME NEW q \in Q!Ring, ~Q!IsEmpty(q)
  PROVE  /\ Q!PopFront(q) \in Q!Ring
         /\ Q!Size(Q!PopFront(q)) = Q!Size(q) - 1
         /\ Q!Front(q) \in Message
         /\ Q!Contents(q) = <<Q!Front(q)>> \o Q!Contents(Q!PopFront(q))
<1> DEFINE r == Q!PopFront(q)
<1>1. /\ q.head \in Q!Cells /\ q.tail \in Q!Cells
      /\ q.v \in [Q!Cells -> Message]
  BY DEF Q!Ring
<1>2. /\ Q!Step(q.head) = IF q.head = Capacity THEN 0 ELSE q.head + 1
      /\ Q!Step(q.head) \in Q!Cells
  BY <1>1, NextCell
<1>3. /\ r.v = q.v /\ r.head = Q!Step(q.head) /\ r.tail = q.tail /\ r \in Q!Ring
  BY <1>1, <1>2 DEF Q!PopFront, Q!Ring
<1>4. /\ Capacity \in Nat
      /\ q.head \in Nat /\ q.head <= Capacity
      /\ q.tail \in Nat /\ q.tail <= Capacity /\ q.head # q.tail
  BY <1>1, AsyncAssumption DEF Q!Cells, Q!IsEmpty
<1>5. Q!Size(r) = Q!Size(q) - 1
  BY <1>2, <1>3, <1>4 DEF Q!Size
<1>6. Q!Size(q) \in Nat /\ 1 <= Q!Size(q) /\ Q!Size(q) <= Capacity
  BY RingSize, <1>4
<1> DEFINE At(i) == (q.head + i - 1) % (Capacity + 1)
           Then(i) == (r.head + i - 1) % (Capacity + 1)
<1>7. At(1) = q.head
  BY <1>4
<1>8. ASSUME NEW i \in 1 .. Q!Size(q) - 1
      PROVE  Then(i) = At(i + 1)
  <2>1. i \in 1 .. Capacity + 1 /\ i + 1 \in 1 .. Capacity + 1
    BY <1>4, <1>6
  <2>2. At(i + 1) = IF q.head + (i + 1) - 1 <= Capacity THEN q.head + (i + 1) - 1
                    ELSE q.head + (i + 1) - 1 - (Capacity + 1)
    BY <1>1, <2>1, PlaceOf
  <2>3. Then(i) = IF r.head + i - 1 <= Capacity THEN r.head + i - 1
                  ELSE r.head + i - 1 - (Capacity + 1)
    BY <1>2, <1>3, <2>1, PlaceOf
  <2> HIDE DEF At, Then, r
  <2> QED
    BY <1>2, <1>3, <1>4, <1>6, <2>2, <2>3
<1>9. /\ Q!Contents(q) \in Seq(Message) /\ Len(Q!Contents(q)) = Q!Size(q)
      /\ \A i \in 1 .. Q!Size(q) : Q!Contents(q)[i] = q.v[At(i)]
  BY RingContents
<1>10. /\ Q!Contents(r) \in Seq(Message) /\ Len(Q!Contents(r)) = Q!Size(q) - 1
       /\ \A i \in 1 .. Q!Size(q) - 1 : Q!Contents(r)[i] = q.v[Then(i)]
  BY <1>3, <1>5, RingContents
<1> HIDE DEF r, At, Then
<1> DEFINE c == Q!Contents(q)
           d == Q!Contents(r)
           f == Q!Front(q)
<1>11. f \in Message /\ f = q.v[At(1)]
  BY <1>1, <1>7 DEF Q!Front
<1> HIDE DEF c, d, f
<1>12. /\ <<f>> \o d \in Seq(Message) /\ Len(<<f>> \o d) = Q!Size(q)
       /\ \A i \in 1 .. Q!Size(q) : (<<f>> \o d)[i] = IF i <= 1 THEN f ELSE d[i - 1]
  <2>1. <<f>> \in Seq(Message) /\ Len(<<f>>) = 1 /\ <<f>>[1] = f
    BY <1>11
  <2>2. d \in Seq(Message) /\ Len(d) = Q!Size(q) - 1
    BY <1>10 DEF d
  <2>3. /\ <<f>> \o d \in Seq(Message) /\ Len(<<f>> \o d) = 1 + Len(d)
        /\ \A i \in 1 .. 1 + Len(d) : (<<f>> \o d)[i] = IF i <= 1 THEN <<f>>[i] ELSE d[i - 1]
    BY <2>1, <2>2, ConcatProperties
  <2> QED
    BY <1>6, <2>1, <2>2, <2>3
<1>13. ASSUME NEW i \in 1 .. Q!Size(q)
       PROVE  c[i] = (<<f>> \o d)[i]
  <2>1. CASE i = 1
    BY <1>6, <1>9, <1>11, <1>12, <2>1 DEF c
  <2>2. CASE i # 1
    <3>1. i - 1 \in 1 .. Q!Size(q) - 1 /\ (i - 1) + 1 = i
      BY <1>6, <2>2
    <3>2. Then(i - 1) = At(i)
      BY <1>8, <3>1
    <3>3. d[i - 1] = q.v[Then(i - 1)]
      BY <1>10, <3>1 DEF d
    <3>4. c[i] = q.v[At(i)]
      BY <1>9 DEF c
    <3>5. (<<f>> \o d)[i] = d[i - 1]
      BY <1>12, <2>2, <3>1
    <3> QED
      BY <3>2, <3>3, <3>4, <3>5
  <2> QED
    BY <2>1, <2>2
<1>14. c = <<f>> \o d
  BY <1>9, <1>12, <1>13, SeqEqual DEF c
<1> QED
  BY <1>3, <1>5, <1>11, <1>14 DEF c, d, f, r
-----------------------------------------------------------------------------
(* Threads. *)

LEMMA ThreadsFinite ==
  /\ IsFiniteSet(Threads)
  /\ \A T \in SUBSET Threads : IsFiniteSet(T) /\ Cardinality(T) \in Nat
  /\ Main \in Threads /\ Flusher \in Threads /\ None \notin Threads
<1>1. IsFiniteSet(Threads)
  BY AsyncAssumption, FS_AddElement DEF Threads
<1>2. \A T \in SUBSET Threads : IsFiniteSet(T)
  BY <1>1, FS_Subset
<1>3. \A T \in SUBSET Threads : Cardinality(T) \in Nat
  BY <1>2, FS_CardinalityType
<1> QED
  BY <1>1, <1>2, <1>3, AsyncAssumption DEF Threads

LEMMA Counters ==
  ASSUME TypeOK
  PROVE  /\ accepted \in Nat /\ calls \in Nat /\ MaxRecords \in Nat
         /\ accepted <= MaxRecords /\ calls <= MaxRecords
<1>1. accepted \in 0 .. MaxRecords /\ calls \in 0 .. MaxRecords
  BY DEF TypeOK
<1> QED
  BY <1>1, AsyncAssumption

(* What a thread that goes on leaves of the others, and where it goes. *)
LEMMA ContinuesEffect ==
  ASSUME TypeOK, NEW t \in Threads, Continues(t), alive
  PROVE  /\ \A s \in Threads \ {t} : at'[s] = at[s] /\ task'[s] = task[s]
         /\ \/ /\ alive' = TRUE
               /\ at'[t] \in {"idle", "begin"} /\ task'[t] \in {"none", "last flush"}
            \/ alive' = FALSE /\ at' = at /\ task' = task
         /\ at' \in [Threads -> {"idle", "begin", "enqueue", "waiting", "notify", "join",
                                 "stopping", "reset"}]
         /\ task' \in [Threads -> {"none", "record", "critical", "flush", "last flush",
                                   "shutdown"}]
BY DEF Continues, Goes, TypeOK

(* A record that is posted has been counted, and its id is in range. *)
LEMMA PostedType ==
  ASSUME TypeOK, Counted, NEW t \in Threads, at[t] = "enqueue"
  PROVE  /\ Posted(t) \in Message
         /\ Posted(t).id = accepted + Adds(Posted(t))
         /\ Posted(t).kind = "terminate" <=> destroyer = t
<1>1. accepted \in Nat /\ calls \in Nat /\ calls <= MaxRecords /\ MaxRecords \in Nat
      /\ accepted <= MaxRecords
  BY Counters
<1>2. CASE destroyer = t
  <2>1. Posted(t) = [kind |-> "terminate", id |-> accepted]
    BY <1>2 DEF Posted
  <2> QED
    BY <1>1, <1>2, <2>1 DEF Message, Adds
<1>3. CASE destroyer # t /\ task[t] \in {"record", "critical"}
  <2>1. t \in Recording
    BY <1>3 DEF Recording
  <2>2. Recording \in SUBSET Threads
    BY DEF Recording
  <2>3. Cardinality(Recording) \in Nat /\ Cardinality(Recording) # 0
    BY <2>1, <2>2, ThreadsFinite, FS_EmptySet
  <2>4. accepted + 1 <= MaxRecords
    BY <1>1, <2>3 DEF Counted
  <2>5. Posted(t) = [kind |-> "log", id |-> accepted + 1]
    BY <1>3 DEF Posted
  <2> QED
    BY <1>1, <1>3, <2>4, <2>5 DEF Message, Adds
<1>4. CASE destroyer # t /\ task[t] \notin {"record", "critical"}
  <2>1. Posted(t) = [kind |-> "flush", id |-> accepted]
    BY <1>4 DEF Posted
  <2> QED
    BY <1>1, <1>4, <2>1 DEF Message, Adds
<1> QED
  BY <1>2, <1>3, <1>4
-----------------------------------------------------------------------------
(* The steps as they change what is pending. *)

LEMMA PendingType ==
  ASSUME TypeOK
  PROVE  /\ Pending \in Seq(Message)
         /\ worker \in {"notify", "handle"} => Pending = <<taken>> \o Q!Contents(ring)
         /\ worker \notin {"notify", "handle"} => Pending = Q!Contents(ring)
<1>1. Q!Contents(ring) \in Seq(Message) /\ taken \in Message
  BY RingContents DEF TypeOK
<1>2. <<taken>> \in Seq(Message)
  BY <1>1
<1>3. <<taken>> \o Q!Contents(ring) \in Seq(Message)
  BY <1>1, <1>2, ConcatProperties
<1>4. <<>> \o Q!Contents(ring) = Q!Contents(ring)
  BY <1>1, ConcatEmptySeq
<1> QED
  BY <1>1, <1>3, <1>4 DEF Pending

(* Other steps than those of the queue's two ends and of the sink. *)
LEMMA QuietStep ==
  ASSUME TypeOK, [Next]_vars,
         ~ \E t \in Threads : Enqueues(t), ~Dequeues, ~Handles
  PROVE  /\ UNCHANGED <<ring, taken, file, synced, accepted, Pending>>
         /\ Accepting' <=> Accepting
         /\ alive' = alive \/ (alive /\ alive' = FALSE)
         /\ \/ worker' = worker
            \/ worker = "waiting" /\ worker' = "loop"
            \/ worker = "notify" /\ worker' = "handle"
<1>1. /\ UNCHANGED <<ring, taken, file, synced, accepted>>
      /\ alive' = alive \/ (alive /\ alive' = FALSE)
      /\ \/ worker' = worker
         \/ worker = "waiting" /\ worker' = "loop"
         \/ worker = "notify" /\ worker' = "handle"
  <2>1. CASE \E t \in Callers : Logs(t)
    BY <2>1 DEF Logs, queueing, writing
  <2>2. CASE Ticks
    BY <2>2 DEF Ticks, queueing, writing
  <2>3. ASSUME NEW t \in Threads, Begins(t) PROVE <1>1!:
    BY <2>3 DEF Begins, Continues, queueing, writing, TypeOK
  <2>4. ASSUME NEW t \in Threads, Notifies(t) PROVE <1>1!:
    BY <2>4 DEF Notifies, Continues, WorkerNotified, queueing, writing, TypeOK
  <2>5. ASSUME NEW t \in Threads, Joins(t) PROVE <1>1!:
    BY <2>5 DEF Joins, Continues, queueing, writing, TypeOK
  <2>6. ASSUME NEW t \in Threads, WakesUp(t) PROVE <1>1!:
    BY <2>6 DEF WakesUp, queueing, writing
  <2>7. CASE ShutsDown
    BY <2>7 DEF ShutsDown, queueing, writing
  <2>8. CASE Closing
    BY <2>8 DEF Closing, StopsFlusher, ResetsPool, queueing, writing
  <2>9. CASE NotifiesCaller
    BY <2>9 DEF NotifiesCaller, queueing, writing
  <2>10. CASE TimesOut
    BY <2>10 DEF TimesOut, queueing, writing
  <2>11. CASE UNCHANGED vars
    BY <2>11 DEF vars, queueing, writing
  <2> QED
    BY <2>1, <2>2, <2>3, <2>4, <2>5, <2>6, <2>7, <2>8, <2>9, <2>10, <2>11
    DEF Next, Thread, Worker
<1>2. Pending' = Pending
  BY <1>1 DEF Pending
<1>3. worker' # "stopped" <=> worker # "stopped"
  BY <1>1
<1> QED
  BY <1>1, <1>2, <1>3 DEF Accepting

(* A message is posted behind the others, unless terminate was before it. *)
LEMMA PostStep ==
  ASSUME TypeOK, Pool, Closed, Counted, NEW t \in Threads, Enqueues(t),
         ~Q!IsFull(ring)
  PROVE  /\ Accepting
         /\ Pending' = Append(Pending, Posted(t))
         /\ Accepting' <=> Posted(t).kind # "terminate"
         /\ ring' \in Q!Ring /\ Q!Size(ring') = Q!Size(ring) + 1
<1>1. at[t] = "enqueue" /\ ring' = Q!PushBack(ring, Posted(t))
  BY DEF Enqueues
<1>2. Accepting
  <2>1. CASE destroyer = t
    BY <1>1, <2>1, ThreadsFinite DEF Closed
  <2>2. CASE destroyer # t
    <3>1. t \in Holders
      BY <1>1, <2>2 DEF Holders
    <3> QED
      BY <3>1 DEF Closed
  <2> QED
    BY <2>1, <2>2
<1>3. Posted(t) \in Message /\ ring \in Q!Ring
  BY <1>1, PostedType DEF TypeOK
<1>4. /\ ring' \in Q!Ring /\ Q!Size(ring') = Q!Size(ring) + 1
      /\ Q!Contents(ring') = Append(Q!Contents(ring), Posted(t))
  BY <1>1, <1>3, RingPush
<1>5. UNCHANGED <<worker, taken>>
  BY DEF Enqueues, writing
<1> DEFINE c == Q!Contents(ring)
           m == Posted(t)
           h == IF worker \in {"notify", "handle"} THEN <<taken>> ELSE <<>>
<1>6. c \in Seq(Message) /\ h \in Seq(Message) /\ m \in Message
  <2>1. taken \in Message
    BY DEF TypeOK
  <2>2. <<taken>> \in Seq(Message) /\ <<>> \in Seq(Message)
    BY <2>1
  <2> QED
    BY <1>3, <2>2, RingContents
<1>7. Pending = h \o c /\ Pending' = h \o Append(c, m)
  BY <1>4, <1>5 DEF Pending
<1>8. Pending' = Append(Pending, m)
  <2> HIDE DEF c, m, h
  <2>1. <<m>> \in Seq(Message) /\ Append(c, m) = c \o <<m>>
    BY <1>6, AppendIsConcat
  <2>2. h \o (c \o <<m>>) = (h \o c) \o <<m>>
    BY <1>6, <2>1, ConcatAssociative
  <2>3. h \o c \in Seq(Message)
    BY <1>6, ConcatProperties
  <2>4. Append(h \o c, m) = (h \o c) \o <<m>>
    BY <1>6, <2>3, AppendIsConcat
  <2> QED
    BY <1>7, <2>1, <2>2, <2>4
<1>9. Accepting' <=> m.kind # "terminate"
  <2> HIDE DEF c, m, h
  <2>1. Pending \in Seq(Message)
    BY PendingType
  <2>2. /\ Pending' \in Seq(Message) /\ Len(Pending') = Len(Pending) + 1
        /\ \A i \in 1 .. Len(Pending) : Pending'[i] = Pending[i]
        /\ Pending'[Len(Pending) + 1] = m
    BY <1>6, <1>8, <2>1, AppendProperties
  <2>3. /\ DOMAIN Pending = 1 .. Len(Pending) /\ Len(Pending) \in Nat
        /\ DOMAIN Pending' = 1 .. Len(Pending) + 1
    BY <2>1, <2>2, LenProperties
  <2>4. \A i \in 1 .. Len(Pending) + 1 : i \in 1 .. Len(Pending) \/ i = Len(Pending) + 1
    BY <2>3
  <2>5. \A i \in 1 .. Len(Pending) : i \in 1 .. Len(Pending) + 1
    BY <2>3
  <2>6. Len(Pending) + 1 \in 1 .. Len(Pending) + 1
    BY <2>3
  <2> QED
    BY <1>2, <1>5, <2>2, <2>3, <2>4, <2>5, <2>6 DEF Accepting
<1> QED
  BY <1>2, <1>4, <1>8, <1>9

(* A message that is taken out is pending until it is carried out. *)
LEMMA TakeStep ==
  ASSUME TypeOK, Dequeues
  PROVE  /\ UNCHANGED <<Pending, file, synced, accepted, alive>>
         /\ Accepting' <=> Accepting
         /\ taken' \in Message /\ ring' \in Q!Ring
         /\ \/ worker' = "waiting" /\ ring' = ring
            \/ worker' = "notify" /\ Q!Size(ring') = Q!Size(ring) - 1
<1>1. worker = "loop" /\ UNCHANGED <<accepted, file, synced, alive>>
  BY DEF Dequeues
<1>2. CASE Q!IsEmpty(ring)
  <2>1. worker' = "waiting" /\ UNCHANGED <<ring, taken>>
    BY <1>2 DEF Dequeues
  <2>2. Pending' = Pending
    BY <1>1, <2>1 DEF Pending
  <2> QED
    BY <1>1, <2>1, <2>2 DEF Accepting, TypeOK
<1>3. CASE ~Q!IsEmpty(ring)
  <2>1. worker' = "notify" /\ taken' = Q!Front(ring) /\ ring' = Q!PopFront(ring)
    BY <1>3 DEF Dequeues
  <2>2. /\ ring' \in Q!Ring /\ Q!Size(ring') = Q!Size(ring) - 1 /\ taken' \in Message
        /\ Q!Contents(ring) = <<taken'>> \o Q!Contents(ring')
    BY <1>3, <2>1, RingPop DEF TypeOK
  <2>3. Pending = Q!Contents(ring)
    BY <1>1, PendingType
  <2>4. Pending' = <<taken'>> \o Q!Contents(ring')
    BY <2>1 DEF Pending
  <2>5. Pending' = Pending
    BY <2>2, <2>3, <2>4
  <2> QED
    BY <1>1, <2>1, <2>2, <2>5 DEF Accepting
<1> QED
  BY <1>2, <1>3

(* The worker carries out the oldest pending message. *)
LEMMA HandleStep ==
  ASSUME TypeOK, Handles
  PROVE  /\ Pending # <<>> /\ Head(Pending) = taken /\ Pending' = Tail(Pending)
         /\ Len(Pending) \in Nat \ {0} /\ Pending[1] = taken
         /\ Accepting' <=> Accepting
<1>1. worker = "handle" /\ UNCHANGED <<ring, taken>> /\ worker' \in {"loop", "stopped"}
      /\ (worker' = "stopped" <=> taken.kind = "terminate")
  BY DEF Handles, queueing
<1> DEFINE c == Q!Contents(ring)
<1>2. c \in Seq(Message) /\ taken \in Message
  BY RingContents DEF TypeOK
<1>3. Pending = <<taken>> \o c /\ Pending \in Seq(Message)
  BY <1>1, PendingType
<1>4. Pending' = c
  <2>1. Pending' = <<>> \o c
    BY <1>1 DEF Pending
  <2> QED
    BY <1>2, <2>1, ConcatEmptySeq
<1> HIDE DEF c
<1>5. <<taken>> \in Seq(Message) /\ Len(<<taken>>) = 1 /\ <<taken>>[1] = taken
  BY <1>2
<1>6. /\ Len(Pending) = 1 + Len(c)
      /\ \A i \in 1 .. 1 + Len(c) : Pending[i] = IF i <= 1 THEN <<taken>>[i] ELSE c[i - 1]
  BY <1>2, <1>3, <1>5, ConcatProperties
<1>7. Len(c) \in Nat /\ DOMAIN c = 1 .. Len(c) /\ DOMAIN Pending = 1 .. Len(Pending)
  BY <1>2, <1>3, LenProperties
<1>8. Pending[1] = taken /\ \A i \in 1 .. Len(c) : Pending[i + 1] = c[i]
  BY <1>5, <1>6, <1>7
<1>9. Pending # <<>> /\ Len(Pending) \in Nat \ {0}
  BY <1>6, <1>7
<1>10. Head(Pending) = taken
  BY <1>8, <1>9, <1>3
<1>11. Tail(Pending) = c
  <2>1. /\ Tail(Pending) \in Seq(Message) /\ Len(Tail(Pending)) = Len(c)
        /\ \A i \in 1 .. Len(Tail(Pending)) : Tail(Pending)[i] = Pending[i + 1]
    BY <1>3, <1>6, <1>7, <1>9, HeadTailProperties
  <2> QED
    BY <1>2, <1>8, <2>1, SeqEqual
<1>12. Accepting' <=> Accepting
  <2>1. \A i \in 1 .. Len(Pending) : i = 1 \/ (i - 1 \in 1 .. Len(c) /\ i = (i - 1) + 1)
    BY <1>6, <1>7
  <2>2. \A i \in 1 .. Len(c) : i + 1 \in 1 .. Len(Pending)
    BY <1>6, <1>7
  <2>3. 1 \in 1 .. Len(Pending)
    BY <1>9
  <2>4. Accepting <=> /\ taken.kind # "terminate"
                      /\ \A i \in 1 .. Len(c) : c[i].kind # "terminate"
    <3>1. worker # "stopped"
      BY <1>1
    <3>2. Accepting <=> \A i \in 1 .. Len(Pending) : Pending[i].kind # "terminate"
      BY <1>7, <3>1, Zenon DEF Accepting
    <3>3. ASSUME \A i \in 1 .. Len(Pending) : Pending[i].kind # "terminate"
          PROVE  /\ taken.kind # "terminate"
                 /\ \A i \in 1 .. Len(c) : c[i].kind # "terminate"
      BY <1>8, <2>2, <2>3, <3>3, Zenon
    <3>4. ASSUME taken.kind # "terminate",
                 \A i \in 1 .. Len(c) : c[i].kind # "terminate",
                 NEW i \in 1 .. Len(Pending)
          PROVE  Pending[i].kind # "terminate"
      BY <1>8, <2>1, <3>4, Zenon
    <3> QED
      BY <3>2, <3>3, <3>4, Zenon
  <2>5. Accepting' <=> /\ worker' # "stopped"
                       /\ \A i \in 1 .. Len(c) : c[i].kind # "terminate"
    BY <1>4, <1>7 DEF Accepting
  <2> QED
    BY <1>1, <2>4, <2>5
<1> QED
  BY <1>4, <1>8, <1>9, <1>10, <1>11, <1>12
-----------------------------------------------------------------------------
(* Ids. *)

LEMMA ChainAppend ==
  ASSUME NEW p \in Seq(Message), NEW n \in Nat, NEW acc, NEW m \in Message,
         Chain(p, n, acc), m.id = acc + Adds(m)
  PROVE  Chain(Append(p, m), n, m.id)
<1> DEFINE r == Append(p, m)
<1>1. /\ r # <<>> /\ Len(r) = Len(p) + 1 /\ Len(p) \in Nat
      /\ \A i \in 1 .. Len(p) : r[i] = p[i]
      /\ r[Len(p) + 1] = m
  BY AppendProperties, LenProperties
<1> HIDE DEF r
<1>2. ASSUME NEW i \in 1 .. Len(r)
      PROVE  r[i].id = (IF i = 1 THEN n ELSE r[i - 1].id) + Adds(r[i])
  <2>1. CASE i \in 1 .. Len(p)
    <3>1. r[i] = p[i] /\ (i # 1 => r[i - 1] = p[i - 1])
      BY <1>1, <2>1
    <3>2. p[i].id = (IF i = 1 THEN n ELSE p[i - 1].id) + Adds(p[i])
      BY <2>1 DEF Chain
    <3> QED
      BY <3>1, <3>2
  <2>2. CASE i = Len(p) + 1
    <3>1. acc = IF i = 1 THEN n ELSE r[i - 1].id
      <4>1. CASE p = <<>>
        BY <1>1, <2>2, <4>1 DEF Chain
      <4>2. CASE p # <<>>
        <5>1. acc = p[Len(p)].id
          BY <4>2 DEF Chain
        <5>2. Len(p) # 0
          BY <4>2, EmptySeq
        <5>3. i # 1 /\ i - 1 = Len(p) /\ Len(p) \in 1 .. Len(p)
          BY <1>1, <2>2, <5>2
        <5> QED
          BY <1>1, <5>1, <5>3
      <4> QED
        BY <4>1, <4>2
    <3>2. r[i] = m
      BY <1>1, <2>2
    <3> QED
      BY <3>1, <3>2
  <2> QED
    BY <1>1, <1>2, <2>1, <2>2
<1>3. m.id = r[Len(r)].id
  BY <1>1
<1> QED
  BY <1>1, <1>2, <1>3 DEF Chain, r

LEMMA ChainHead ==
  ASSUME NEW p \in Seq(Message), NEW n \in Nat, NEW acc,
         Chain(p, n, acc), p # <<>>
  PROVE  /\ p[1].id = n + Adds(p[1])
         /\ Chain(Tail(p), p[1].id, acc)
<1>1. Len(p) \in Nat \ {0}
  BY EmptySeq
<1>2. p[1].id = n + Adds(p[1])
  BY <1>1 DEF Chain
<1> DEFINE r == Tail(p)
<1>3. /\ r \in Seq(Message) /\ Len(r) = Len(p) - 1
      /\ \A i \in 1 .. Len(r) : r[i] = p[i + 1]
  BY HeadTailProperties
<1> HIDE DEF r
<1>4. ASSUME NEW i \in 1 .. Len(r)
      PROVE  r[i].id = (IF i = 1 THEN p[1].id ELSE r[i - 1].id) + Adds(r[i])
  <2>1. i + 1 \in 1 .. Len(p) /\ i + 1 # 1 /\ (i + 1) - 1 = i
    BY <1>1, <1>3
  <2>2. p[i + 1].id = p[i].id + Adds(p[i + 1])
    BY <2>1 DEF Chain
  <2>3. r[i] = p[i + 1]
    BY <1>3
  <2>4. i # 1 => r[i - 1] = p[i]
    <3> SUFFICES ASSUME i # 1 PROVE r[i - 1] = p[i]
      OBVIOUS
    <3>1. i - 1 \in 1 .. Len(r) /\ (i - 1) + 1 = i
      BY <1>1, <1>3
    <3> QED
      BY <1>3, <3>1
  <2> QED
    BY <2>2, <2>3, <2>4
<1>5. acc = IF r = <<>> THEN p[1].id ELSE r[Len(r)].id
  <2>1. acc = p[Len(p)].id
    BY DEF Chain
  <2>2. CASE r = <<>>
    <3>1. Len(p) = 1
      BY <1>1, <1>3, <2>2, EmptySeq
    <3> QED
      BY <2>1, <2>2, <3>1
  <2>3. CASE r # <<>>
    <3>1. Len(r) \in 1 .. Len(r) /\ Len(r) + 1 = Len(p)
      BY <1>1, <1>3, <2>3, EmptySeq
    <3>2. r[Len(r)] = p[Len(p)]
      BY <1>3, <3>1
    <3> QED
      BY <2>1, <2>3, <3>2
  <2> QED
    BY <2>2, <2>3
<1> QED
  BY <1>2, <1>4, <1>5 DEF Chain, r

(* The message in hand has the next record's id, or that of the last one. *)
LEMMA TakenId ==
  ASSUME TypeOK, Ordered, Handles
  PROVE  /\ taken.id = Len(file) + Adds(taken)
         /\ Chain(Pending', taken.id, accepted)
<1>1. Pending # <<>> /\ Pending[1] = taken /\ Pending' = Tail(Pending)
  BY HandleStep
<1>2. Pending \in Seq(Message)
  BY PendingType
<1>3. Len(file) \in Nat
  BY LenProperties DEF TypeOK
<1> QED
  BY <1>1, <1>2, <1>3, ChainHead DEF Ordered

(* What is written is the next record. *)
LEMMA FileStep ==
  ASSUME TypeOK, Ordered, Handles
  PROVE  /\ file' \in Seq(1 .. MaxRecords) /\ synced' \in 0 .. Len(file')
         /\ \/ /\ taken.kind = "log"
               /\ file' = Append(file, Len(file) + 1)
               /\ Len(file') = Len(file) + 1 /\ Len(file) + 1 \in 1 .. MaxRecords
            \/ /\ taken.kind # "log"
               /\ file' = file
         /\ taken.id = Len(file')
<1>1. /\ file \in Seq(1 .. MaxRecords) /\ synced \in 0 .. Len(file) /\ taken \in Message
  BY DEF TypeOK
<1>2. Len(file) \in Nat /\ synced \in Nat /\ synced <= Len(file) /\ MaxRecords \in Nat
  BY <1>1, LenProperties, AsyncAssumption
<1>3. taken.id = Len(file) + Adds(taken)
  BY TakenId
<1>4. taken.id \in 0 .. MaxRecords
  BY <1>1 DEF Message
<1>5. CASE taken.kind = "log"
  <2>1. Adds(taken) = 1
    BY <1>5 DEF Adds
  <2>2. taken.id = Len(file) + 1 /\ taken.id \in 1 .. MaxRecords
    BY <1>2, <1>3, <1>4, <2>1
  <2>3. file' = Append(file, taken.id) /\ synced' \in synced .. Len(file')
    BY <1>5 DEF Handles
  <2>4. file' \in Seq(1 .. MaxRecords) /\ Len(file') = Len(file) + 1
    BY <1>1, <2>2, <2>3, AppendProperties
  <2>5. synced' \in 0 .. Len(file')
    BY <1>2, <2>3, <2>4
  <2> QED
    BY <1>5, <2>2, <2>3, <2>4, <2>5
<1>6. CASE taken.kind # "log"
  <2>1. Adds(taken) = 0
    BY <1>6 DEF Adds
  <2>2. taken.id = Len(file)
    BY <1>2, <1>3, <2>1
  <2>3. file' = file /\ (synced' = Len(file) \/ synced' = synced)
    BY <1>6 DEF Handles, Flushes
  <2>4. synced' \in 0 .. Len(file')
    BY <1>2, <2>3
  <2> QED
    BY <1>1, <1>6, <2>2, <2>3, <2>4
<1> QED
  BY <1>5, <1>6

(* The number of accepted records is the id of the last message posted. *)
LEMMA AcceptedStep ==
  ASSUME TypeOK, Counted, NEW t \in Threads, Enqueues(t), ~Q!IsFull(ring)
  PROVE  /\ Posted(t) \in Message
         /\ accepted' = Posted(t).id /\ Posted(t).id = accepted + Adds(Posted(t))
<1>1. /\ at[t] = "enqueue"
      /\ accepted' = IF Posted(t).kind = "log" THEN accepted + 1 ELSE accepted
  BY DEF Enqueues
<1>2. Posted(t) \in Message /\ Posted(t).id = accepted + Adds(Posted(t))
  BY <1>1, PostedType
<1>3. accepted \in Nat
  BY Counters
<1> QED
  BY <1>1, <1>2, <1>3 DEF Adds

LEMMA OrderedStep ==
  ASSUME TypeOK, Pool, Closed, Counted, Ordered, FileInOrder, [Next]_vars
  PROVE  Ordered' /\ FileInOrder'
<1>1. ASSUME NEW t \in Threads, Enqueues(t)
      PROVE  Ordered' /\ FileInOrder'
  <2>1. UNCHANGED file
    BY <1>1 DEF Enqueues, writing
  <2>2. CASE Q!IsFull(ring)
    <3>1. UNCHANGED <<ring, accepted, worker, taken>>
      BY <1>1, <2>2 DEF Enqueues, queueing, writing
    <3>2. UNCHANGED Pending
      BY <3>1 DEF Pending
    <3> QED
      BY <2>1, <3>1, <3>2 DEF Ordered, FileInOrder
  <2>3. CASE ~Q!IsFull(ring)
    <3>1. /\ Posted(t) \in Message
          /\ accepted' = Posted(t).id /\ Posted(t).id = accepted + Adds(Posted(t))
      BY <1>1, <2>3, AcceptedStep
    <3>5. Pending' = Append(Pending, Posted(t))
      BY <1>1, <2>3, PostStep
    <3>6. Pending \in Seq(Message) /\ Len(file) \in Nat
      BY PendingType, LenProperties DEF TypeOK
    <3>7. Chain(Pending', Len(file), accepted')
      BY <3>1, <3>5, <3>6, ChainAppend DEF Ordered
    <3> QED
      BY <2>1, <3>7 DEF Ordered, FileInOrder
  <2> QED
    BY <2>2, <2>3
<1>2. CASE Dequeues
  BY <1>2, TakeStep DEF Ordered, FileInOrder
<1>3. CASE Handles
  <2>1. Chain(Pending', taken.id, accepted) /\ accepted' = accepted
    BY <1>3, TakenId DEF Handles, queueing
  <2>2. taken.id = Len(file')
    BY <1>3, FileStep
  <2>3. file \in Seq(1 .. MaxRecords) /\ Len(file) \in Nat
    BY LenProperties DEF TypeOK
  <2>4. FileInOrder'
    <3>1. CASE file' = file
      BY <3>1 DEF FileInOrder
    <3>2. CASE /\ file' = Append(file, Len(file) + 1) /\ Len(file') = Len(file) + 1
               /\ Len(file) + 1 \in 1 .. MaxRecords
      <4>2. /\ \A i \in 1 .. Len(file) : file'[i] = file[i]
            /\ file'[Len(file) + 1] = Len(file) + 1
        BY <2>3, <3>2, AppendProperties
      <4>3. \A i \in 1 .. Len(file') : i \in 1 .. Len(file) \/ i = Len(file) + 1
        BY <2>3, <3>2
      <4> QED
        BY <4>2, <4>3 DEF FileInOrder
    <3> QED
      BY <1>3, <3>1, <3>2, FileStep
  <2> QED
    BY <2>1, <2>2, <2>4 DEF Ordered
<1>4. CASE ~(\E t \in Threads : Enqueues(t)) /\ ~Dequeues /\ ~Handles
  BY <1>4, QuietStep DEF Ordered, FileInOrder
<1> QED
  BY <1>1, <1>2, <1>3, <1>4
-----------------------------------------------------------------------------
(* Types. *)

LEMMA TypeStep ==
  ASSUME TypeOK, Pool, Closed, Counted, Ordered, [Next]_vars
  PROVE  TypeOK'
<1> DEFINE Places == {"idle", "begin", "enqueue", "waiting", "notify", "join", "stopping",
                      "reset"}
           Tasks == {"none", "record", "critical", "flush", "last flush", "shutdown"}
           Moved == alive' \in BOOLEAN /\ at' \in [Threads -> Places]
                    /\ task' \in [Threads -> Tasks]
<1>0. /\ alive \in BOOLEAN /\ at \in [Threads -> Places] /\ task \in [Threads -> Tasks]
      /\ Main \in Threads /\ Flusher \in Threads /\ Callers \subseteq Threads
  BY ThreadsFinite DEF TypeOK, Threads
<1>1. Moved
  <2>1. ASSUME NEW t \in Callers, Logs(t) PROVE Moved
    BY <1>0, <2>1 DEF Logs, Starts, Goes
  <2>2. CASE Ticks
    BY <1>0, <2>2 DEF Ticks, Starts, Goes
  <2>3. ASSUME NEW t \in Threads, Begins(t) PROVE Moved
    <3>1. CASE PoolExists
      BY <1>0, <2>3, <3>1 DEF Begins, Goes
    <3>2. CASE ~PoolExists
      BY <2>3, <3>2, ContinuesEffect DEF Begins
    <3> QED
      BY <3>1, <3>2
  <2>4. ASSUME NEW t \in Threads, Enqueues(t) PROVE Moved
    BY <1>0, <2>4 DEF Enqueues, Goes
  <2>5. ASSUME NEW t \in Threads, Notifies(t) PROVE Moved
    <3>1. CASE Continues(t)
      BY <2>5, <3>1, ContinuesEffect DEF Notifies
    <3>2. CASE UNCHANGED <<alive, task>> /\ \E p \in Places : Goes(t, p)
      BY <1>0, <3>2 DEF Goes
    <3> QED
      BY <2>5, <3>1, <3>2 DEF Notifies
  <2>6. ASSUME NEW t \in Threads, Joins(t) PROVE Moved
    <3>1. CASE task[t] = "shutdown"
      BY <1>0, <2>6, <3>1 DEF Joins, Goes
    <3>2. CASE task[t] # "shutdown"
      BY <2>6, <3>2, ContinuesEffect DEF Joins
    <3> QED
      BY <3>1, <3>2
  <2>7. ASSUME NEW t \in Threads, WakesUp(t) PROVE Moved
    BY <1>0, <2>7 DEF WakesUp, Goes
  <2>8. CASE ShutsDown
    BY <1>0, <2>8 DEF ShutsDown, Goes
  <2>9. CASE StopsFlusher
    BY <1>0, <2>9 DEF StopsFlusher, Goes
  <2>10. CASE ResetsPool
    BY <1>0, <2>10 DEF ResetsPool, Goes
  <2>11. CASE Dequeues
    BY <1>0, <2>11 DEF Dequeues
  <2>12. CASE NotifiesCaller
    BY <1>0, <2>12 DEF NotifiesCaller, Goes
  <2>13. CASE Handles
    BY <1>0, <2>13 DEF Handles
  <2>14. CASE TimesOut
    BY <1>0, <2>14 DEF TimesOut
  <2>15. CASE UNCHANGED vars
    BY <1>0, <2>15 DEF vars
  <2> QED
    BY <2>1, <2>2, <2>3, <2>4, <2>5, <2>6, <2>7, <2>8, <2>9, <2>10, <2>11, <2>12, <2>13,
       <2>14, <2>15 DEF Next, Thread, Closing, Worker
<1>2. /\ ring' \in Q!Ring /\ taken' \in Message
      /\ worker' \in {"loop", "waiting", "notify", "handle", "stopped"}
  <2>0. ring \in Q!Ring /\ taken \in Message
        /\ worker \in {"loop", "waiting", "notify", "handle", "stopped"}
    BY DEF TypeOK
  <2>1. ASSUME NEW t \in Threads, Enqueues(t) PROVE <1>2!:
    <3>1. UNCHANGED <<worker, taken>>
      BY <2>1 DEF Enqueues, writing
    <3>2. ring' \in Q!Ring
      <4>1. CASE Q!IsFull(ring)
        BY <2>0, <2>1, <4>1 DEF Enqueues, queueing
      <4>2. CASE ~Q!IsFull(ring)
        BY <2>1, <4>2, PostStep
      <4> QED
        BY <4>1, <4>2
    <3> QED
      BY <2>0, <3>1, <3>2
  <2>2. CASE Dequeues
    BY <2>2, TakeStep
  <2>3. CASE Handles
    BY <2>0, <2>3 DEF Handles, queueing
  <2>4. CASE ~(\E t \in Threads : Enqueues(t)) /\ ~Dequeues /\ ~Handles
    BY <2>0, <2>4, QuietStep
  <2> QED
    BY <2>1, <2>2, <2>3, <2>4
<1>3. file' \in Seq(1 .. MaxRecords) /\ synced' \in 0 .. Len(file')
  <2>0. file \in Seq(1 .. MaxRecords) /\ synced \in 0 .. Len(file)
    BY DEF TypeOK
  <2>1. CASE Handles
    BY <2>1, FileStep
  <2>2. CASE ~Handles
    <3>1. UNCHANGED <<file, synced>>
      <4>1. ASSUME NEW t \in Threads, Enqueues(t) PROVE <3>1!:
        BY <4>1 DEF Enqueues, writing
      <4>2. CASE Dequeues
        BY <4>2, TakeStep
      <4> QED
        BY <2>2, <4>1, <4>2, QuietStep
    <3> QED
      BY <2>0, <3>1
  <2> QED
    BY <2>1, <2>2
<1>4. accepted' \in 0 .. MaxRecords
  <2>0. accepted \in 0 .. MaxRecords
    BY DEF TypeOK
  <2>1. ASSUME NEW t \in Threads, Enqueues(t) PROVE <1>4!:
    <3>1. CASE Q!IsFull(ring)
      BY <2>0, <2>1, <3>1 DEF Enqueues, queueing
    <3>2. CASE ~Q!IsFull(ring)
      BY <2>1, <3>2, AcceptedStep DEF Message
    <3> QED
      BY <3>1, <3>2
  <2>2. CASE Dequeues
    BY <2>0, <2>2, TakeStep
  <2>3. CASE Handles
    BY <2>0, <2>3 DEF Handles, queueing
  <2>4. CASE ~(\E t \in Threads : Enqueues(t)) /\ ~Dequeues /\ ~Handles
    BY <2>0, <2>4, QuietStep
  <2> QED
    BY <2>1, <2>2, <2>3, <2>4
<1>5. calls' \in 0 .. MaxRecords /\ ticks' \in 0 .. MaxTicks
  <2>0. /\ calls \in 0 .. MaxRecords /\ ticks \in 0 .. MaxTicks
        /\ MaxRecords \in Nat /\ MaxTicks \in Nat
    BY AsyncAssumption DEF TypeOK
  <2>1. ASSUME NEW t \in Callers, Logs(t) PROVE <1>5!:
    <3>1. calls < MaxRecords /\ calls' = calls + 1 /\ ticks' = ticks
      BY <2>1 DEF Logs
    <3> QED
      BY <2>0, <3>1
  <2>2. CASE Ticks
    <3>1. ticks < MaxTicks /\ ticks' = ticks + 1 /\ calls' = calls
      BY <2>2 DEF Ticks
    <3> QED
      BY <2>0, <3>1
  <2>3. CASE ~(\E t \in Callers : Logs(t)) /\ ~Ticks
    <3>1. UNCHANGED bounds
      BY <2>3 DEF Next, Thread, Closing, Worker, Begins, Enqueues, Notifies, Joins, WakesUp,
                  ShutsDown, StopsFlusher, ResetsPool, Dequeues, NotifiesCaller, Handles,
                  TimesOut, vars
    <3> QED
      BY <2>0, <3>1 DEF bounds
  <2> QED
    BY <2>1, <2>2, <2>3
<1>6. /\ tp' \in BOOLEAN /\ flusherOn' \in BOOLEAN /\ down' \in BOOLEAN
      /\ destroyer' \in Threads \cup {None}
  <2>0. /\ tp \in BOOLEAN /\ flusherOn \in BOOLEAN /\ down \in BOOLEAN
        /\ destroyer \in Threads \cup {None}
    BY DEF TypeOK
  <2>1. ASSUME NEW t \in Threads, Notifies(t) PROVE <1>6!:
    BY <2>0, <2>1 DEF Notifies, closing
  <2>2. ASSUME NEW t \in Threads, Joins(t) PROVE <1>6!:
    BY <2>0, <2>2 DEF Joins
  <2>3. CASE StopsFlusher
    BY <2>0, <2>3 DEF StopsFlusher
  <2>4. CASE ResetsPool
    BY <1>0, <2>0, <2>4 DEF ResetsPool
  <2>5. CASE /\ ~(\E t \in Threads : Notifies(t) \/ Joins(t))
             /\ ~StopsFlusher /\ ~ResetsPool
    <3>1. UNCHANGED <<closing, destroyer>>
      BY <2>5 DEF Next, Thread, Closing, Worker, Begins, Enqueues, WakesUp, Logs, Ticks,
                  ShutsDown, Dequeues, NotifiesCaller, Handles, TimesOut, vars
    <3> QED
      BY <2>0, <3>1 DEF closing
  <2> QED
    BY <2>1, <2>2, <2>3, <2>4, <2>5
<1> QED
  BY <1>1, <1>2, <1>3, <1>4, <1>5, <1>6, Zenon DEF TypeOK
-----------------------------------------------------------------------------
(* No lost wake-up. *)

LEMMA RoomType ==
  ASSUME TypeOK
  PROVE  /\ Q!Size(ring) \in Nat /\ Capacity \in Nat \ {0} /\ Q!Size(ring) <= Capacity
         /\ Q!IsFull(ring) <=> Q!Size(ring) = Capacity
<1>1. ring \in Q!Ring
  BY DEF TypeOK
<1> QED
  BY <1>1, RingSize, AsyncAssumption

(* Threads that set out for the queue or come from elsewhere do no harm. *)
LEMMA WakeupKept ==
  ASSUME TypeOK, NoLostWakeup, ring' = ring, worker = "notify" <=> worker' = "notify",
         \A t \in Threads : /\ at[t] = "enqueue" => at'[t] = "enqueue"
                            /\ at'[t] = "waiting" => at[t] = "waiting"
  PROVE  NoLostWakeup'
<1> DEFINE E == {t \in Threads : at[t] = "enqueue"}
           F == {t \in Threads : at'[t] = "enqueue"}
<1>1. SUFFICES ASSUME \E t \in Threads : at'[t] = "waiting"
               PROVE  Capacity - Q!Size(ring) <= Cardinality(F)
                                                 + (IF worker = "notify" THEN 1 ELSE 0)
  BY DEF NoLostWakeup
<1>2. \E t \in Threads : at[t] = "waiting"
  BY <1>1
<1>3. Capacity - Q!Size(ring) <= Cardinality(E) + (IF worker = "notify" THEN 1 ELSE 0)
  BY <1>2 DEF NoLostWakeup
<1>4. Cardinality(E) \in Nat /\ Cardinality(F) \in Nat /\ Cardinality(E) <= Cardinality(F)
  <2>1. E \in SUBSET Threads /\ F \in SUBSET Threads /\ E \in SUBSET F
    OBVIOUS
  <2> HIDE DEF E, F
  <2>2. IsFiniteSet(F) /\ Cardinality(F) \in Nat /\ Cardinality(E) \in Nat
    BY <2>1, ThreadsFinite
  <2> QED
    BY <2>1, <2>2, FS_Subset
<1>5. Q!Size(ring) \in Nat /\ Capacity \in Nat
  BY RoomType
<1> HIDE DEF E, F
<1> QED
  BY <1>3, <1>4, <1>5

(* A message that is posted uses up one free cell and one thread's way. *)
LEMMA WakeupOfPost ==
  ASSUME TypeOK, Pool, Closed, Counted, NoLostWakeup, NEW t \in Threads, Enqueues(t)
  PROVE  NoLostWakeup'
<1> DEFINE E == {s \in Threads : at[s] = "enqueue"}
           F == {s \in Threads : at'[s] = "enqueue"}
           W == IF worker = "notify" THEN 1 ELSE 0
<1>1. SUFFICES ASSUME \E s \in Threads : at'[s] = "waiting"
               PROVE  Capacity - Q!Size(ring') <= Cardinality(F) + W
  <2>1. worker' = worker
    BY DEF Enqueues
  <2> QED
    BY <2>1 DEF NoLostWakeup
<1>2. /\ Q!Size(ring) \in Nat /\ Capacity \in Nat
      /\ Q!IsFull(ring) <=> Q!Size(ring) = Capacity
  BY RoomType
<1>3. at[t] = "enqueue" /\ at \in [Threads -> {"idle", "begin", "enqueue", "waiting", "notify",
                                               "join", "stopping", "reset"}]
  BY DEF Enqueues, TypeOK
<1>4. /\ E \in SUBSET Threads /\ F \in SUBSET Threads /\ t \in E
      /\ IsFiniteSet(E) /\ Cardinality(E) \in Nat /\ Cardinality(F) \in Nat
  BY <1>3, ThreadsFinite
<1>5. W \in Nat
  OBVIOUS
<1>6. CASE Q!IsFull(ring)
  <2>1. ring' = ring
    BY <1>6 DEF Enqueues, queueing
  <2> HIDE DEF F, W
  <2> QED
    BY <1>2, <1>4, <1>5, <1>6, <2>1
<1>7. CASE ~Q!IsFull(ring)
  <2>1. at' = [at EXCEPT ![t] = "notify"]
    BY <1>7 DEF Enqueues, Goes
  <2>2. \E s \in Threads : at[s] = "waiting"
    BY <1>1, <1>3, <2>1
  <2>3. Capacity - Q!Size(ring) <= Cardinality(E) + W
    BY <2>2 DEF NoLostWakeup
  <2>4. F = E \ {t}
    BY <1>3, <2>1
  <2>5. Q!Size(ring') = Q!Size(ring) + 1
    BY <1>7, PostStep
  <2> HIDE DEF E, F, W
  <2>6. Cardinality(F) = Cardinality(E) - 1
    BY <1>4, <2>4, FS_RemoveElement
  <2> QED
    BY <1>2, <1>4, <1>5, <2>3, <2>5, <2>6
<1> QED
  BY <1>6, <1>7

(* The worker that has freed a cell is about to notify one of the waiters. *)
LEMMA WakeupOfTake ==
  ASSUME TypeOK, NoLostWakeup, Dequeues
  PROVE  NoLostWakeup'
<1> DEFINE E == {s \in Threads : at[s] = "enqueue"}
<1>1. at' = at /\ worker = "loop"
  BY DEF Dequeues
<1>2. CASE worker' = "waiting" /\ ring' = ring
  BY <1>1, <1>2 DEF NoLostWakeup
<1>3. CASE worker' = "notify" /\ Q!Size(ring') = Q!Size(ring) - 1
  <2>1. SUFFICES ASSUME \E s \in Threads : at[s] = "waiting"
                 PROVE  Capacity - Q!Size(ring') <= Cardinality(E) + 1
    BY <1>1, <1>3 DEF NoLostWakeup
  <2>2. Capacity - Q!Size(ring) <= Cardinality(E) + 0
    BY <1>1, <2>1 DEF NoLostWakeup
  <2>3. E \in SUBSET Threads
    OBVIOUS
  <2> HIDE DEF E
  <2>4. Cardinality(E) \in Nat /\ Q!Size(ring) \in Nat /\ Capacity \in Nat
    BY <2>3, ThreadsFinite, RoomType
  <2> QED
    BY <1>3, <2>2, <2>4
<1> QED
  BY <1>2, <1>3, TakeStep

(* The notified waiter sets out for the cell that is free. *)
LEMMA WakeupOfNotify ==
  ASSUME TypeOK, NoLostWakeup, NotifiesCaller
  PROVE  NoLostWakeup'
<1> DEFINE E == {s \in Threads : at[s] = "enqueue"}
           F == {s \in Threads : at'[s] = "enqueue"}
<1>1. worker = "notify" /\ worker' = "handle" /\ ring' = ring
  BY DEF NotifiesCaller, queueing
<1>2. at \in [Threads -> {"idle", "begin", "enqueue", "waiting", "notify", "join",
                          "stopping", "reset"}]
  BY DEF TypeOK
<1>3. SUFFICES ASSUME \E s \in Threads : at'[s] = "waiting"
               PROVE  Capacity - Q!Size(ring) <= Cardinality(F) + 0
  BY <1>1 DEF NoLostWakeup
<1>4. PICK t \in Threads : at[t] = "waiting" /\ at' = [at EXCEPT ![t] = "enqueue"]
  <2>1. CASE {s \in Threads : at[s] = "waiting"} = {}
    BY <1>3, <2>1 DEF NotifiesCaller
  <2>2. CASE {s \in Threads : at[s] = "waiting"} # {}
    BY <2>2 DEF NotifiesCaller, Goes
  <2> QED
    BY <2>1, <2>2
<1>5. Capacity - Q!Size(ring) <= Cardinality(E) + 1
  BY <1>1, <1>4 DEF NoLostWakeup
<1>6. E \in SUBSET Threads /\ t \notin E /\ F = E \cup {t}
  BY <1>2, <1>4
<1> HIDE DEF E, F
<1>7. IsFiniteSet(E) /\ Cardinality(E) \in Nat
  BY <1>6, ThreadsFinite
<1>8. Cardinality(F) = Cardinality(E) + 1
  BY <1>6, <1>7, FS_AddElement
<1>9. Q!Size(ring) \in Nat /\ Capacity \in Nat
  BY RoomType
<1> QED
  BY <1>5, <1>7, <1>8, <1>9

LEMMA WakeupStep ==
  ASSUME TypeOK, Pool, Closed, Counted, NoLostWakeup, [Next]_vars
  PROVE  NoLostWakeup'
<1> DEFINE Kept == \A t \in Threads : /\ at[t] = "enqueue" => at'[t] = "enqueue"
                                      /\ at'[t] = "waiting" => at[t] = "waiting"
<1>0. /\ at \in [Threads -> {"idle", "begin", "enqueue", "waiting", "notify", "join",
                             "stopping", "reset"}]
      /\ Main \in Threads /\ Flusher \in Threads /\ Callers \subseteq Threads
  BY ThreadsFinite DEF TypeOK, Threads
<1>1. ASSUME NEW t \in Threads, Enqueues(t) PROVE NoLostWakeup'
  BY <1>1, WakeupOfPost
<1>2. CASE Dequeues
  BY <1>2, WakeupOfTake
<1>3. CASE NotifiesCaller
  BY <1>3, WakeupOfNotify
<1>4. CASE Handles
  <2>1. ring' = ring /\ worker # "notify" /\ worker' # "notify" /\ at' = at
    BY <1>4 DEF Handles, queueing
  <2> QED
    BY <2>1, WakeupKept
<1>5. CASE /\ ~(\E t \in Threads : Enqueues(t)) /\ ~Dequeues /\ ~NotifiesCaller /\ ~Handles
  <2>1. ring' = ring
    BY <1>5, QuietStep
  <2>2. worker = "notify" <=> worker' = "notify"
    BY <1>5 DEF Next, Thread, Closing, Worker, Begins, Notifies, Joins, WakesUp, Logs, Ticks,
                ShutsDown, StopsFlusher, ResetsPool, TimesOut, WorkerNotified, vars
  <2>3. Kept
    <3>1. ASSUME NEW t \in Callers, Logs(t) PROVE Kept
      BY <1>0, <3>1 DEF Logs, Starts, Goes
    <3>2. CASE Ticks
      BY <1>0, <3>2 DEF Ticks, Starts, Goes
    <3>3. ASSUME NEW t \in Threads, Begins(t) PROVE Kept
      <4>1. CASE PoolExists
        BY <1>0, <3>3, <4>1 DEF Begins, Goes
      <4>2. CASE ~PoolExists
        BY <3>3, <4>2, ContinuesEffect DEF Begins
      <4> QED
        BY <4>1, <4>2
    <3>4. ASSUME NEW t \in Threads, Notifies(t) PROVE Kept
      <4>1. CASE Continues(t)
        BY <3>4, <4>1, ContinuesEffect DEF Notifies
      <4>2. CASE Goes(t, "join") \/ Goes(t, "enqueue")
        BY <1>0, <3>4, <4>2 DEF Notifies, Goes
      <4> QED
        BY <3>4, <4>1, <4>2 DEF Notifies
    <3>5. ASSUME NEW t \in Threads, Joins(t) PROVE Kept
      <4>1. CASE task[t] = "shutdown"
        BY <1>0, <3>5, <4>1 DEF Joins, Goes
      <4>2. CASE task[t] # "shutdown"
        BY <3>5, <4>2, ContinuesEffect DEF Joins
      <4> QED
        BY <4>1, <4>2
    <3>6. ASSUME NEW t \in Threads, WakesUp(t) PROVE Kept
      BY <1>0, <3>6 DEF WakesUp, Goes
    <3>7. CASE ShutsDown
      BY <1>0, <3>7 DEF ShutsDown, Goes
    <3>8. CASE StopsFlusher
      BY <1>0, <3>8 DEF StopsFlusher, Goes
    <3>9. CASE ResetsPool
      BY <1>0, <3>9 DEF ResetsPool, Goes
    <3>10. CASE TimesOut \/ UNCHANGED vars
      BY <3>10 DEF TimesOut, vars
    <3> QED
      BY <1>5, <3>1, <3>2, <3>3, <3>4, <3>5, <3>6, <3>7, <3>8, <3>9, <3>10
      DEF Next, Thread, Closing, Worker
  <2> QED
    BY <2>1, <2>2, <2>3, WakeupKept
<1> QED
  BY <1>1, <1>2, <1>3, <1>4, <1>5
-----------------------------------------------------------------------------
(* The owners of the pool. *)

LEMMA PoolStep ==
  ASSUME TypeOK, Pool, Closed, Counted, [Next]_vars
  PROVE  Pool' /\ Closed'
<1> DEFINE Goal == Pool' /\ Closed'
<1>0. /\ at \in [Threads -> {"idle", "begin", "enqueue", "waiting", "notify", "join",
                             "stopping", "reset"}]
      /\ Main \in Threads /\ Flusher \in Threads /\ Callers \subseteq Threads
      /\ None \notin Threads /\ destroyer \in Threads \cup {None}
      /\ Main # Flusher
  BY ThreadsFinite, AsyncAssumption DEF TypeOK, Threads
<1>1. ASSUME NEW t \in Threads, Enqueues(t) PROVE Goal
  <2>1. /\ UNCHANGED <<tp, flusherOn, destroyer, alive>>
        /\ at[t] = "enqueue" /\ alive
        /\ at' = [at EXCEPT ![t] = "waiting"] \/ at' = [at EXCEPT ![t] = "notify"]
    BY <1>1 DEF Enqueues, Goes, closing
  <2>2. Holders' = Holders
    BY <1>0, <2>1 DEF Holders
  <2>3. Pool'
    BY <1>0, <2>1, <2>2 DEF Pool
  <2>4. CASE Q!IsFull(ring)
    <3>1. UNCHANGED <<ring, taken, worker>> /\ at' = [at EXCEPT ![t] = "waiting"]
      BY <1>1, <2>4 DEF Enqueues, Goes, queueing, writing
    <3>2. Accepting' <=> Accepting
      BY <3>1 DEF Accepting, Pending
    <3>3. destroyer # None /\ ~Accepting => destroyer # t
      BY <2>1 DEF Closed
    <3> QED
      BY <1>0, <2>1, <2>2, <2>3, <3>1, <3>2, <3>3 DEF Closed
  <2>5. CASE ~Q!IsFull(ring)
    <3>1. at' = [at EXCEPT ![t] = "notify"]
      BY <1>1, <2>5 DEF Enqueues, Goes
    <3>2. Accepting' <=> destroyer # t
      BY <1>1, <2>1, <2>5, PostStep, PostedType
    <3> QED
      BY <1>0, <2>1, <2>2, <2>3, <3>1, <3>2 DEF Closed, Pool
  <2> QED
    BY <2>4, <2>5
<1>2. CASE ~ \E t \in Threads : Enqueues(t)
  <2>0. Accepting' <=> Accepting
    BY <1>2, TakeStep, HandleStep, QuietStep
  <2>1. ASSUME NEW t \in Callers, Logs(t) PROVE Goal
    <3>1. UNCHANGED <<tp, flusherOn, destroyer, alive>> /\ at[t] = "idle"
          /\ at' = [at EXCEPT ![t] = "begin"]
      BY <2>1 DEF Logs, Starts, Goes, closing
    <3>2. Holders' = Holders
      BY <1>0, <3>1 DEF Holders
    <3> QED
      BY <1>0, <2>0, <3>1, <3>2 DEF Pool, Closed
  <2>2. CASE Ticks
    <3>1. UNCHANGED <<tp, flusherOn, destroyer, alive>> /\ at[Flusher] = "idle"
          /\ at' = [at EXCEPT ![Flusher] = "begin"]
      BY <2>2 DEF Ticks, Starts, Goes, closing
    <3>2. Holders' = Holders
      BY <1>0, <3>1 DEF Holders
    <3> QED
      BY <1>0, <2>0, <3>1, <3>2 DEF Pool, Closed
  <2>3. ASSUME NEW t \in Threads, Begins(t) PROVE Goal
    <3>0. UNCHANGED <<tp, flusherOn, destroyer>> /\ at[t] = "begin" /\ alive
      BY <2>3 DEF Begins, closing
    <3>1. CASE PoolExists
      <4>1. UNCHANGED alive /\ at' = [at EXCEPT ![t] = "enqueue"]
        BY <2>3, <3>1 DEF Begins, Goes
      <4>2. destroyer = None /\ Accepting
        BY <3>1 DEF PoolExists, Pool, Closed
      <4> QED
        BY <1>0, <2>0, <3>0, <4>1, <4>2 DEF Pool, Closed
    <3>2. CASE ~PoolExists
      <4>1. Continues(t)
        BY <2>3, <3>2 DEF Begins
      <4>2. /\ \A s \in Threads \ {t} : at'[s] = at[s]
            /\ \/ alive' /\ at'[t] \in {"idle", "begin"}
               \/ ~alive' /\ at' = at
        BY <3>0, <4>1, ContinuesEffect
      <4>3. Holders' = Holders
        BY <1>0, <3>0, <4>2 DEF Holders
      <4> QED
        BY <1>0, <2>0, <3>0, <4>2, <4>3 DEF Pool, Closed
    <3> QED
      BY <3>1, <3>2
  <2>4. ASSUME NEW t \in Threads, Notifies(t) PROVE Goal
    <3>0. UNCHANGED <<tp, flusherOn>> /\ at[t] = "notify" /\ alive
      BY <2>4 DEF Notifies, closing
    <3>1. CASE destroyer = t
      <4>1. UNCHANGED <<alive, destroyer>> /\ at' = [at EXCEPT ![t] = "join"]
        BY <2>4, <3>1 DEF Notifies, Goes
      <4>2. Holders' = Holders
        BY <1>0, <3>0, <3>1, <4>1 DEF Holders
      <4> QED
        BY <1>0, <2>0, <3>0, <3>1, <4>1, <4>2 DEF Pool, Closed
    <3>2. CASE destroyer # t /\ ~tp /\ Holders = {t}
      <4>1. UNCHANGED alive /\ at' = [at EXCEPT ![t] = "enqueue"] /\ destroyer' = t
        BY <2>4, <3>2 DEF Notifies, Goes
      <4>2. destroyer = None /\ Accepting
        BY <3>2 DEF Pool, Closed
      <4>3. Holders' = {}
        BY <1>0, <3>2, <4>1, <4>2 DEF Holders
      <4> QED
        BY <1>0, <2>0, <3>0, <3>2, <4>1, <4>2, <4>3 DEF Pool, Closed
    <3>3. CASE destroyer # t /\ ~(~tp /\ Holders = {t})
      <4>1. Continues(t) /\ destroyer' = destroyer
        BY <2>4, <3>3 DEF Notifies
      <4>2. /\ \A s \in Threads \ {t} : at'[s] = at[s]
            /\ \/ alive' /\ at'[t] \in {"idle", "begin"}
               \/ ~alive' /\ at' = at
        BY <3>0, <4>1, ContinuesEffect
      <4>3. t \in Holders
        BY <3>0, <3>3 DEF Holders
      <4>4. destroyer = None /\ Accepting
        BY <4>3 DEF Pool, Closed
      <4> QED
        BY <1>0, <2>0, <3>0, <4>1, <4>2, <4>4 DEF Pool, Closed
    <3> QED
      BY <3>1, <3>2, <3>3
  <2>5. ASSUME NEW t \in Threads, Joins(t) PROVE Goal
    <3>0. UNCHANGED <<tp, flusherOn>> /\ at[t] = "join" /\ alive /\ destroyer' = None
      BY <2>5 DEF Joins
    <3>1. /\ \A s \in Threads \ {t} : at'[s] = at[s]
          /\ \/ alive' /\ at'[t] \in {"idle", "begin"}
             \/ ~alive' /\ at' = at
      <4>1. CASE task[t] = "shutdown"
        BY <1>0, <2>5, <3>0, <4>1 DEF Joins, Goes
      <4>2. CASE task[t] # "shutdown"
        BY <2>5, <3>0, <4>2, ContinuesEffect DEF Joins
      <4> QED
        BY <4>1, <4>2
    <3>2. destroyer = t /\ ~tp /\ Holders = {}
      BY <1>0, <3>0 DEF Pool
    <3>3. Holders' = {}
      BY <1>0, <3>0, <3>1, <3>2 DEF Holders
    <3> QED
      BY <1>0, <2>0, <3>0, <3>1, <3>2, <3>3 DEF Pool, Closed
  <2>6. ASSUME NEW t \in Threads, WakesUp(t) PROVE Goal
    <3>1. UNCHANGED <<tp, flusherOn, destroyer, alive>> /\ at[t] = "waiting"
          /\ at' = [at EXCEPT ![t] = "enqueue"]
      BY <2>6 DEF WakesUp, Goes, closing
    <3>2. Holders' = Holders
      BY <1>0, <3>1 DEF Holders
    <3> QED
      BY <1>0, <2>0, <3>1, <3>2 DEF Pool, Closed
  <2>7. CASE ShutsDown
    <3>1. UNCHANGED <<tp, flusherOn, destroyer, alive>> /\ at[Main] = "idle" /\ flusherOn
          /\ at' = [at EXCEPT ![Main] = "stopping"]
      BY <2>7 DEF ShutsDown, Goes, closing
    <3>2. Holders' = Holders
      BY <1>0, <3>1 DEF Holders
    <3> QED
      BY <1>0, <2>0, <3>1, <3>2 DEF Pool, Closed
  <2>8. CASE StopsFlusher
    <3>1. UNCHANGED <<tp, destroyer, alive>> /\ at[Main] = "stopping" /\ flusherOn' = FALSE
          /\ at' = [at EXCEPT ![Main] = "reset"]
      BY <2>8 DEF StopsFlusher, Goes
    <3>2. Holders' = Holders
      BY <1>0, <3>1 DEF Holders
    <3> QED
      BY <1>0, <2>0, <3>1, <3>2 DEF Pool, Closed
  <2>9. CASE ResetsPool
    <3>1. UNCHANGED <<alive, flusherOn>> /\ at[Main] = "reset" /\ tp' = FALSE
      BY <2>9 DEF ResetsPool
    <3>2. destroyer = None /\ Accepting
      BY <3>1 DEF Pool, Closed
    <3>3. flusherOn = FALSE
      BY <3>1 DEF Pool, TypeOK
    <3>4. CASE Holders = {}
      <4>1. destroyer' = Main /\ at' = [at EXCEPT ![Main] = "enqueue"]
        BY <2>9, <3>4 DEF ResetsPool, Goes
      <4>2. Holders' = {}
        BY <1>0, <3>2, <3>4, <4>1 DEF Holders
      <4> QED
        BY <1>0, <2>0, <3>1, <3>2, <3>3, <4>1, <4>2 DEF Pool, Closed
    <3>5. CASE Holders # {}
      <4>1. destroyer' = destroyer /\ at' = [at EXCEPT ![Main] = "idle"]
        BY <2>9, <3>5 DEF ResetsPool, Goes
      <4> QED
        BY <1>0, <2>0, <3>1, <3>2, <3>3, <4>1 DEF Pool, Closed
    <3> QED
      BY <3>4, <3>5
  <2>10. CASE Dequeues \/ Handles \/ TimesOut \/ UNCHANGED vars
    <3>1. UNCHANGED <<tp, flusherOn, destroyer, alive, at>>
      BY <2>10 DEF Dequeues, Handles, TimesOut, vars, closing
    <3>2. Holders' = Holders
      BY <3>1 DEF Holders
    <3> QED
      BY <2>0, <3>1, <3>2 DEF Pool, Closed
  <2>11. CASE NotifiesCaller
    <3>1. UNCHANGED <<tp, flusherOn, destroyer, alive>>
      BY <2>11 DEF NotifiesCaller, closing
    <3>2. \/ at' = at
          \/ \E t \in Threads : at[t] = "waiting" /\ at' = [at EXCEPT ![t] = "enqueue"]
      BY <2>11 DEF NotifiesCaller, Goes
    <3>3. Holders' = Holders
      BY <1>0, <3>1, <3>2 DEF Holders
    <3>4. \A t \in Threads : \/ at'[t] = at[t]
                             \/ at[t] = "waiting" /\ at'[t] = "enqueue"
      BY <1>0, <3>2
    <3>5. destroyer # None /\ ~Accepting => at'[destroyer] = at[destroyer]
      BY <1>0, <3>4 DEF Closed
    <3> QED
      BY <1>0, <2>0, <3>1, <3>3, <3>4, <3>5 DEF Pool, Closed
  <2> QED
    BY <1>2, <2>1, <2>2, <2>3, <2>4, <2>5, <2>6, <2>7, <2>8, <2>9, <2>10, <2>11
    DEF Next, Thread, Closing, Worker
<1> QED
  BY <1>1, <1>2
-----------------------------------------------------------------------------
(* Each record is counted once. *)

LEMMA CountKept ==
  ASSUME TypeOK, Counted, Recording' \subseteq Recording, UNCHANGED <<accepted, calls>>
  PROVE  Counted'
<1>1. Recording \in SUBSET Threads
  BY DEF Recording
<1> DEFINE R == Recording
           S == Recording'
<1>2. R \in SUBSET Threads /\ S \in SUBSET R /\ S \in SUBSET Threads
  BY <1>1
<1> HIDE DEF R, S
<1>3. IsFiniteSet(R) /\ Cardinality(R) \in Nat /\ Cardinality(S) \in Nat
  BY <1>2, ThreadsFinite
<1>4. Cardinality(S) <= Cardinality(R)
  BY <1>2, <1>3, FS_Subset
<1>5. accepted + Cardinality(R) <= calls
  BY DEF Counted, R
<1>6. accepted + Cardinality(S) <= calls
  BY <1>3, <1>4, <1>5, Counters
<1> QED
  BY <1>6 DEF Counted, S

LEMMA CountedStep ==
  ASSUME TypeOK, Pool, Closed, Counted, [Next]_vars
  PROVE  Counted'
<1> DEFINE Kept == Recording' \subseteq Recording /\ UNCHANGED <<accepted, calls>>
<1>0. /\ at \in [Threads -> {"idle", "begin", "enqueue", "waiting", "notify", "join",
                             "stopping", "reset"}]
      /\ task \in [Threads -> {"none", "record", "critical", "flush", "last flush",
                               "shutdown"}]
      /\ Main \in Threads /\ Flusher \in Threads /\ Callers \subseteq Threads
      /\ None \notin Threads /\ destroyer \in Threads \cup {None}
  BY ThreadsFinite DEF TypeOK, Threads
<1>1. ASSUME NEW t \in Callers, Logs(t) PROVE Counted'
  <2> DEFINE R == Recording
             S == Recording'
  <2>1. /\ UNCHANGED <<accepted, destroyer>> /\ calls' = calls + 1 /\ at[t] = "idle"
        /\ at' = [at EXCEPT ![t] = "begin"]
        /\ \E what : task' = [task EXCEPT ![t] = what]
    BY <1>1 DEF Logs, Starts, Goes, queueing
  <2>2. R \in SUBSET Threads /\ S \in SUBSET Threads /\ S \in SUBSET (R \cup {t})
    BY <1>0, <2>1 DEF Recording
  <2> HIDE DEF R, S
  <2>3. /\ IsFiniteSet(R) /\ Cardinality(R) \in Nat /\ Cardinality(S) \in Nat
    BY <2>2, ThreadsFinite
  <2>4. /\ IsFiniteSet(R \cup {t}) /\ Cardinality(R \cup {t}) <= Cardinality(R) + 1
        /\ Cardinality(R \cup {t}) \in Nat
    <3>1. /\ IsFiniteSet(R \cup {t})
          /\ Cardinality(R \cup {t}) = IF t \in R THEN Cardinality(R) ELSE Cardinality(R) + 1
      BY <2>3, FS_AddElement
    <3> QED
      BY <2>3, <3>1
  <2>5. Cardinality(S) <= Cardinality(R \cup {t})
    BY <2>2, <2>4, FS_Subset
  <2>6. accepted + Cardinality(R) <= calls
    BY DEF Counted, R
  <2>7. accepted' + Cardinality(S) <= calls'
    BY <2>1, <2>3, <2>4, <2>5, <2>6, Counters
  <2> QED
    BY <2>7 DEF Counted, S
<1>2. ASSUME NEW t \in Threads, Enqueues(t) PROVE Counted'
  <2>1. UNCHANGED <<task, destroyer, calls>> /\ at[t] = "enqueue"
    BY <1>2 DEF Enqueues, bounds
  <2>2. CASE Q!IsFull(ring)
    <3>1. UNCHANGED accepted /\ at' = [at EXCEPT ![t] = "waiting"]
      BY <1>2, <2>2 DEF Enqueues, Goes, queueing
    <3>2. Kept
      BY <1>0, <2>1, <3>1 DEF Recording
    <3> QED
      BY <3>2, CountKept
  <2>3. CASE ~Q!IsFull(ring)
    <3>1. /\ at' = [at EXCEPT ![t] = "notify"]
          /\ accepted' = IF Posted(t).kind = "log" THEN accepted + 1 ELSE accepted
      BY <1>2, <2>3 DEF Enqueues, Goes
    <3>2. CASE Posted(t).kind = "log"
      <4> DEFINE R == Recording
                 S == Recording'
      <4>1. destroyer # t /\ task[t] \in {"record", "critical"}
        BY <3>2 DEF Posted
      <4>2. t \in R /\ S = R \ {t} /\ R \in SUBSET Threads
        BY <1>0, <2>1, <3>1, <4>1 DEF Recording
      <4> HIDE DEF R, S
      <4>3. IsFiniteSet(R) /\ Cardinality(R) \in Nat
        BY <4>2, ThreadsFinite
      <4>4. Cardinality(S) = Cardinality(R) - 1
        BY <4>2, <4>3, FS_RemoveElement
      <4>5. accepted + Cardinality(R) <= calls
        BY DEF Counted, R
      <4>6. accepted' + Cardinality(S) <= calls'
        BY <2>1, <3>1, <3>2, <4>3, <4>4, <4>5, Counters
      <4> QED
        BY <4>6 DEF Counted, S
    <3>3. CASE Posted(t).kind # "log"
      <4>1. Kept
        BY <1>0, <2>1, <3>1, <3>3 DEF Recording
      <4> QED
        BY <4>1, CountKept
    <3> QED
      BY <3>2, <3>3
  <2> QED
    BY <2>2, <2>3
<1>3. CASE ~(\E t \in Callers : Logs(t)) /\ ~(\E t \in Threads : Enqueues(t))
  <2>0. UNCHANGED <<accepted, calls>>
    BY <1>3 DEF Next, Thread, Closing, Worker, Begins, Notifies, Joins, WakesUp, Ticks,
                ShutsDown, StopsFlusher, ResetsPool, Dequeues, NotifiesCaller, Handles,
                TimesOut, vars, queueing, bounds
  <2>1. Recording' \subseteq Recording
    <3>1. CASE Ticks
      BY <1>0, <3>1 DEF Ticks, Starts, Goes, Recording
    <3>2. ASSUME NEW t \in Threads, Begins(t) PROVE <2>1!:
      <4>1. at[t] = "begin" /\ alive /\ UNCHANGED destroyer
        BY <3>2 DEF Begins
      <4>2. CASE PoolExists
        BY <1>0, <3>2, <4>2 DEF Begins, Goes, Recording
      <4>3. CASE ~PoolExists
        <5>1. Continues(t)
          BY <3>2, <4>3 DEF Begins
        <5> QED
          BY <1>0, <4>1, <5>1, ContinuesEffect DEF Recording
      <4> QED
        BY <4>2, <4>3
    <3>3. ASSUME NEW t \in Threads, Notifies(t) PROVE <2>1!:
      <4>1. at[t] = "notify" /\ alive
        BY <3>3 DEF Notifies
      <4>2. CASE Continues(t) /\ destroyer' = destroyer
        BY <1>0, <4>1, <4>2, ContinuesEffect DEF Recording
      <4>3. CASE UNCHANGED <<task, destroyer>> /\ Goes(t, "join")
        BY <1>0, <4>1, <4>3 DEF Goes, Recording
      <4>4. CASE destroyer # t /\ Goes(t, "enqueue") /\ destroyer' = t /\ task' = task
        <5>1. t \in Holders
          BY <4>1, <4>4 DEF Holders
        <5>2. destroyer = None
          BY <5>1 DEF Pool
        <5> QED
          BY <1>0, <4>1, <4>4, <5>2 DEF Goes, Recording
      <4> QED
        BY <3>3, <4>2, <4>3, <4>4 DEF Notifies
    <3>4. ASSUME NEW t \in Threads, Joins(t) PROVE <2>1!:
      <4>1. at[t] = "join" /\ alive /\ destroyer' = None
        BY <3>4 DEF Joins
      <4>2. destroyer = t
        BY <4>1 DEF Pool
      <4>3. CASE task[t] = "shutdown"
        BY <1>0, <3>4, <4>1, <4>2, <4>3 DEF Joins, Goes, Recording
      <4>4. CASE task[t] # "shutdown"
        <5>1. Continues(t)
          BY <3>4, <4>4 DEF Joins
        <5>2. /\ \A s \in Threads \ {t} : at'[s] = at[s] /\ task'[s] = task[s]
              /\ \/ at'[t] \in {"idle", "begin"} /\ task'[t] \in {"none", "last flush"}
                 \/ at'[t] = "join"
          BY <4>1, <5>1, ContinuesEffect
        <5>3. t \notin Recording'
          BY <5>2 DEF Recording
        <5>4. \A s \in Threads \ {t} : s \in Recording' => s \in Recording
          BY <4>2, <5>2 DEF Recording
        <5> QED
          BY <5>3, <5>4 DEF Recording
      <4> QED
        BY <4>3, <4>4
    <3>5. ASSUME NEW t \in Threads, WakesUp(t) PROVE <2>1!:
      BY <1>0, <3>5 DEF WakesUp, Goes, Recording
    <3>6. CASE ShutsDown
      BY <1>0, <3>6 DEF ShutsDown, Goes, Recording
    <3>7. CASE StopsFlusher
      BY <1>0, <3>7 DEF StopsFlusher, Goes, Recording
    <3>8. CASE ResetsPool
      <4>1. at[Main] = "reset" /\ destroyer = None
        BY <3>8 DEF ResetsPool, Pool
      <4> QED
        <5>1. \/ task' = task /\ destroyer' = Main /\ at' = [at EXCEPT ![Main] = "enqueue"]
              \/ /\ task' = [task EXCEPT ![Main] = "none"] /\ destroyer' = destroyer
                 /\ at' = [at EXCEPT ![Main] = "idle"]
          BY <3>8 DEF ResetsPool, Goes
        <5> QED
          BY <1>0, <4>1, <5>1 DEF Recording
    <3>9. CASE Dequeues \/ Handles \/ TimesOut \/ UNCHANGED vars
      BY <3>9 DEF Dequeues, Handles, TimesOut, vars, Recording
    <3>10. CASE NotifiesCaller
      BY <1>0, <3>10 DEF NotifiesCaller, Goes, Recording
    <3> QED
      BY <1>3, <3>1, <3>2, <3>3, <3>4, <3>5, <3>6, <3>7, <3>8, <3>9, <3>10
      DEF Next, Thread, Closing, Worker
  <2> QED
    BY <2>0, <2>1, CountKept
<1> QED
  BY <1>1, <1>2, <1>3
-----------------------------------------------------------------------------
(* What TLC checks on an instance, for every instance. *)

LEMMA InitInv == Init => IInv
<1> SUFFICES ASSUME Init PROVE IInv
  OBVIOUS
<1>0. /\ alive = TRUE /\ at = [t \in Threads |-> "idle"]
      /\ task = [t \in Threads |-> "none"]
      /\ ring = Q!NewRing /\ accepted = 0 /\ worker = "loop" /\ taken = Blank
      /\ file = <<>> /\ synced = 0 /\ tp = TRUE /\ flusherOn = TRUE /\ down = FALSE
      /\ destroyer = None /\ calls = 0 /\ ticks = 0
  BY DEF Init
<1>1. Blank \in Message /\ ring \in Q!Ring /\ Q!Size(ring) = 0
  <2>1. 0 \in 0 .. MaxRecords /\ 0 \in Q!Cells
    BY AsyncAssumption DEF Q!Cells
  <2>2. Blank \in Message
    BY <2>1 DEF Blank, Message
  <2> QED
    BY <1>0, <2>1, <2>2 DEF Q!NewRing, Q!Ring, Q!Size
<1>2. Len(file) = 0 /\ file \in Seq(1 .. MaxRecords)
  BY <1>0
<1>3. TypeOK
  <2>1. /\ synced \in 0 .. Len(file)
        /\ accepted \in 0 .. MaxRecords /\ calls \in 0 .. MaxRecords /\ ticks \in 0 .. MaxTicks
    BY <1>0, <1>2, AsyncAssumption
  <2>2. /\ at \in [Threads -> {"idle", "begin", "enqueue", "waiting", "notify", "join",
                         "stopping", "reset"}]
        /\ task \in [Threads -> {"none", "record", "critical", "flush", "last flush",
                           "shutdown"}]
        /\ worker \in {"loop", "waiting", "notify", "handle", "stopped"}
    BY <1>0
  <2> QED
    BY <1>0, <1>1, <1>2, <2>1, <2>2, Zenon DEF TypeOK
<1>4. /\ at[Main] = "idle" /\ \A t \in Threads : at[t] = "idle"
  BY <1>0, ThreadsFinite
<1>5. Pool
  BY <1>0, <1>4 DEF Pool
<1>6. Pending = <<>>
  <2>1. Pending \in Seq(Message) /\ Pending = Q!Contents(ring)
    BY <1>0, <1>3, PendingType
  <2>2. Len(Pending) = 0
    BY <1>1, <2>1, RingContents
  <2> QED
    BY <2>1, <2>2, EmptySeq
<1>7. Closed
  BY <1>0, <1>6 DEF Closed, Accepting
<1>8. Counted
  <2>1. Recording = {}
    BY <1>4 DEF Recording
  <2> QED
    BY <1>0, <2>1, FS_EmptySet DEF Counted
<1>9. Ordered
  BY <1>0, <1>2, <1>6 DEF Ordered, Chain
<1>10. FileInOrder
  BY <1>2 DEF FileInOrder
<1>11. NoLostWakeup
  BY <1>4 DEF NoLostWakeup
<1> QED
  BY <1>3, <1>5, <1>7, <1>8, <1>9, <1>10, <1>11 DEF IInv

LEMMA NextInv == IInv /\ [Next]_vars => IInv'
<1> SUFFICES ASSUME IInv, [Next]_vars PROVE IInv'
  OBVIOUS
<1>1. /\ TypeOK /\ Pool /\ Closed /\ Counted /\ Ordered /\ FileInOrder /\ NoLostWakeup
  BY DEF IInv
<1>2. TypeOK'
  BY <1>1, TypeStep
<1>3. Pool' /\ Closed'
  BY <1>1, PoolStep
<1>4. Counted'
  BY <1>1, CountedStep
<1>5. Ordered' /\ FileInOrder'
  BY <1>1, OrderedStep
<1>6. NoLostWakeup'
  BY <1>1, WakeupStep
<1> QED
  BY <1>2, <1>3, <1>4, <1>5, <1>6 DEF IInv

THEOREM Invariance == Spec => []IInv
<1> QED
  BY InitInv, NextInv, PTL DEF Spec

(* The variables of threads, queue, worker and file have the values their  *)
(* types allow; so no record is posted twice.                              *)
THEOREM TypeCorrect == Spec => []TypeOK
<1>1. IInv => TypeOK
  BY DEF IInv
<1> QED
  BY <1>1, Invariance, PTL

(* The notifications of mpmc_blocking_queue suffice: while threads wait in *)
(* enqueue, each free cell has a thread on its way to it.                  *)
THEOREM WakeupCorrect == Spec => []NoLostWakeup
<1>1. IInv => NoLostWakeup
  BY DEF IInv
<1> QED
  BY <1>1, Invariance, PTL

(* The worker writes the records in the order of their acceptance, each    *)
(* once and none left out.                                                 *)
THEOREM FileCorrect == Spec => []FileInOrder
<1>1. IInv => FileInOrder
  BY DEF IInv
<1> QED
  BY <1>1, Invariance, PTL

(* backend_flush_ puts on the disk all that was accepted before the flush. *)
THEOREM FlushCorrect == Spec => FlushCovers
<1> DEFINE Covers == worker = "handle" /\ worker' = "loop" /\ taken.kind = "flush"
                       => synced' >= taken.id
<1>1. IInv /\ [Next]_vars => [Covers]_vars
  <2> SUFFICES ASSUME IInv, [Next]_vars, worker = "handle", worker' = "loop",
                      taken.kind = "flush"
               PROVE  synced' >= taken.id
    OBVIOUS
  <2>1. TypeOK /\ Ordered
    BY DEF IInv
  <2>2. Handles
    <3>1. ASSUME NEW t \in Threads, Enqueues(t) PROVE FALSE
      BY <3>1 DEF Enqueues
    <3>2. ~Dequeues
      BY DEF Dequeues
    <3> QED
      BY <2>1, <3>1, <3>2, QuietStep
  <2>3. taken.id = Len(file') /\ file' = file /\ synced' \in 0 .. Len(file')
    BY <2>1, <2>2, FileStep
  <2>4. synced' = Len(file)
    BY <2>2 DEF Handles, Flushes
  <2>5. Len(file) \in Nat
    BY <2>1, LenProperties DEF TypeOK
  <2> QED
    BY <2>3, <2>4, <2>5
<1> QED
  BY <1>1, Invariance, PTL DEF Spec, FlushCovers
-----------------------------------------------------------------------------
(* The queue, its worker and the shutdown implement the journal. *)

LEMMA JournalInit == Init => Journaled!Init
<1> SUFFICES ASSUME Init PROVE Journaled!Init
  OBVIOUS
<1>1. alive = TRUE /\ file = <<>> /\ synced = 0 /\ worker = "loop" /\ ring = Q!NewRing
  BY DEF Init
<1>2. TypeOK
  BY InitInv DEF IInv
<1>3. Pending = <<>>
  <2>1. Pending \in Seq(Message) /\ Pending = Q!Contents(ring)
    BY <1>1, <1>2, PendingType
  <2>2. Len(Pending) = 0
    <3>1. ring \in Q!Ring
      BY <1>2 DEF TypeOK
    <3>2. Q!Size(ring) = 0
      BY <1>1 DEF Q!NewRing, Q!Size
    <3> QED
      BY <2>1, <3>1, <3>2, RingContents
  <2> QED
    BY <2>1, <2>2, EmptySeq
<1>4. Accepting = TRUE
  BY <1>1, <1>3 DEF Accepting
<1> QED
  BY <1>1, <1>3, <1>4 DEF Journaled!Init

LEMMA JournalStep ==
  ASSUME IInv, [Next]_vars
  PROVE  [Journaled!Next]_(Journaled!vars)
<1>0. TypeOK /\ Pool /\ Closed /\ Counted /\ Ordered
  BY DEF IInv
<1>1. ASSUME NEW t \in Threads, Enqueues(t)
      PROVE  [Journaled!Next]_(Journaled!vars)
  <2>1. UNCHANGED <<file, synced, alive>> /\ alive
    BY <1>1 DEF Enqueues, writing
  <2>2. CASE Q!IsFull(ring)
    <3>1. UNCHANGED <<ring, taken, worker>>
      BY <1>1, <2>2 DEF Enqueues, queueing, writing
    <3>2. Pending' = Pending /\ Accepting' = Accepting
      BY <3>1 DEF Accepting, Pending
    <3> QED
      BY <2>1, <3>2 DEF Journaled!vars
  <2>3. CASE ~Q!IsFull(ring)
    <3>1. /\ Accepting /\ Pending' = Append(Pending, Posted(t))
          /\ Accepting' <=> Posted(t).kind # "terminate"
      BY <1>0, <1>1, <2>3, PostStep
    <3>2. Posted(t) \in Message
      BY <1>0, <1>1, <2>3, AcceptedStep
    <3>3. Accepting' = (Posted(t).kind # "terminate")
      BY <3>1 DEF Accepting
    <3>4. Journaled!Accept(Posted(t))
      BY <2>1, <3>1, <3>3 DEF Journaled!Accept
    <3> QED
      BY <3>2, <3>4 DEF Journaled!Next
  <2> QED
    BY <2>2, <2>3
<1>2. CASE Dequeues
  <2>1. UNCHANGED <<Pending, file, synced, alive>> /\ (Accepting' <=> Accepting)
    BY <1>0, <1>2, TakeStep
  <2>2. Accepting' = Accepting
    BY <2>1 DEF Accepting
  <2> QED
    BY <2>1, <2>2 DEF Journaled!vars
<1>3. CASE Handles
  <2>1. /\ Pending # <<>> /\ Head(Pending) = taken /\ Pending' = Tail(Pending)
        /\ Accepting' <=> Accepting
    BY <1>0, <1>3, HandleStep
  <2>2. Accepting' = Accepting
    BY <2>1 DEF Accepting
  <2>3. alive /\ alive' = alive
    BY <1>3 DEF Handles
  <2>4. CASE taken.kind = "log"
    <3>1. file' = Append(file, taken.id) /\ synced' \in synced .. Len(file')
      BY <1>3, <2>4 DEF Handles
    <3>2. Journaled!Write
      BY <2>1, <2>2, <2>3, <2>4, <3>1 DEF Journaled!Write, Journaled!Carry
    <3> QED
      BY <3>2 DEF Journaled!Next, Journaled!Carries
  <2>5. CASE taken.kind = "flush"
    <3>1. synced' = Len(file) /\ file' = file
      BY <1>3, <2>5 DEF Handles, Flushes
    <3>2. Journaled!Flush
      BY <2>1, <2>2, <2>3, <2>5, <3>1 DEF Journaled!Flush, Journaled!Carry
    <3> QED
      BY <3>2 DEF Journaled!Next, Journaled!Carries
  <2>6. CASE taken.kind = "terminate"
    <3>1. UNCHANGED <<file, synced>>
      BY <1>3, <2>6 DEF Handles
    <3>2. Journaled!Terminate
      BY <2>1, <2>2, <2>3, <2>6, <3>1 DEF Journaled!Terminate, Journaled!Carry
    <3> QED
      BY <3>2 DEF Journaled!Next, Journaled!Carries
  <2> QED
    BY <1>3, <2>4, <2>5, <2>6 DEF Handles
<1>4. CASE ~(\E t \in Threads : Enqueues(t)) /\ ~Dequeues /\ ~Handles
  <2>1. /\ UNCHANGED <<Pending, file, synced>> /\ (Accepting' <=> Accepting)
        /\ alive' = alive \/ (alive /\ alive' = FALSE)
    BY <1>0, <1>4, QuietStep
  <2>2. Accepting' = Accepting
    BY <2>1 DEF Accepting
  <2>3. CASE alive' = alive
    BY <2>1, <2>2, <2>3 DEF Journaled!vars
  <2>4. CASE alive /\ alive' = FALSE
    <3>1. Journaled!Abort
      BY <2>1, <2>2, <2>4 DEF Journaled!Abort
    <3> QED
      BY <3>1 DEF Journaled!Next
  <2> QED
    BY <2>1, <2>3, <2>4
<1> QED
  BY <1>1, <1>2, <1>3, <1>4

(* What is accepted is carried out in order, each message once, and        *)
(* nothing is accepted behind terminate: the safety part of                *)
(* ImplementsJournal.                                                      *)
THEOREM JournalCorrect == Spec => Journaled!Init /\ [][Journaled!Next]_(Journaled!vars)
<1>1. Init => Journaled!Init
  BY JournalInit
<1>2. IInv /\ [Next]_vars => [Journaled!Next]_(Journaled!vars)
  BY JournalStep
<1> QED
  BY <1>1, <1>2, Invariance, PTL DEF Spec
=============================================================================
