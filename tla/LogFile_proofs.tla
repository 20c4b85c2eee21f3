--------------------------- MODULE LogFile_proofs ---------------------------
(***************************************************************************)
(* Proofs about the log's files, for any configurations, limits, sizes of  *)
(* records and numbers of files: init takes the settings that were asked   *)
(* for, records stay in the order of their age, only the oldest are lost,  *)
(* none is written to a file that is not open, and the limit is kept.      *)
(***************************************************************************)
EXTENDS LogFile, FiniteSetTheorems, SequenceTheorems, TLAPS

FileSystem == [0 .. MaxNum -> Seq(Records) \cup {Absent}]

(* The records of a file system and of a buffer come before record r. *)
Before(fs, b, r) ==
  /\ \A q \in In(b) : q < r
  /\ \A n \in 0 .. MaxNum : \A q \in In(fs[n]) : q < r

(* Where a rotation has got, and that a file that is not open has nothing  *)
(* in its buffer and makes the next record rotate.                         *)
Phases ==
  /\ proc = "new" => fd = "null"
  /\ fd = "null" => buf = <<>>
  /\ fd = "file 0" => files[0] # Absent
  /\ proc = "on" /\ fd = "null" => current > max
  /\ phase = "rename_file_" => i > 0
  /\ phase # "idle" =>
       /\ proc = "on" /\ fd = "null"
       /\ record \in Records /\ i <= num
       /\ i < num => files[i] = Absent
       /\ Before(files, buf, record)

Numbered == record < next /\ Before(files, buf, next)

IInv == TypeOK /\ Phases /\ Numbered /\ AgeOrder

USE DEF limits, disk, stream, job, vars
-----------------------------------------------------------------------------
(* Files.                                                                  *)

LEMMA AbsentIsNoSequence == \A s \in Seq(Records) : s # Absent
<1> SUFFICES ASSUME NEW s \in Seq(Records), s = Absent PROVE FALSE
  OBVIOUS
<1>1. s \in Seq(Nat)
  BY LogFileAssumption DEF Records
<1> QED
  BY <1>1, LogFileAssumption

LEMMA EmptyFile == <<>> \in Seq(Records) /\ <<>> # Absent
<1>1. <<>> \in Seq(Records)
  OBVIOUS
<1> QED
  BY <1>1, AbsentIsNoSequence

LEMMA InType ==
  ASSUME NEW s \in Seq(Records) \cup {Absent}
  PROVE  In(s) \subseteq Nat
<1>1. CASE s = Absent
  BY <1>1 DEF In
<1>2. CASE s # Absent
  <2>1. s \in Seq(Records)
    BY <1>2
  <2>2. \A k \in DOMAIN s : s[k] \in Nat
    BY <2>1, LogFileAssumption DEF Records
  <2> QED
    BY <1>2, <2>2 DEF In
<1> QED
  BY <1>1, <1>2

LEMMA Later ==
  ASSUME NEW fs \in FileSystem, NEW b \in Seq(Records),
         NEW r \in Nat, NEW t \in Nat, r <= t, Before(fs, b, r)
  PROVE  Before(fs, b, t)
<1>1. In(b) \subseteq Nat
  BY InType
<1>2. \A n \in 0 .. MaxNum : In(fs[n]) \subseteq Nat
  <2> SUFFICES ASSUME NEW n \in 0 .. MaxNum PROVE In(fs[n]) \subseteq Nat
    OBVIOUS
  <2>1. fs[n] \in Seq(Records) \cup {Absent}
    BY DEF FileSystem
  <2> QED
    BY <2>1, InType
<1> QED
  BY <1>1, <1>2 DEF Before

LEMMA Concatenation ==
  ASSUME NEW S, NEW f \in Seq(S), NEW c \in Seq(S)
  PROVE  /\ f \o c \in Seq(S) /\ DOMAIN (f \o c) = 1 .. Len(f) + Len(c)
         /\ \A k \in 1 .. Len(f) : (f \o c)[k] = f[k]
         /\ \A k \in 1 .. Len(c) : (f \o c)[Len(f) + k] = c[k]
<1>1. Len(f) \in Nat /\ Len(c) \in Nat
  OBVIOUS
<1>2. f \o c \in Seq(S) /\ Len(f \o c) = Len(f) + Len(c)
  OBVIOUS
<1>3. \A k \in 1 .. Len(f) : (f \o c)[k] = f[k]
  OBVIOUS
<1>4. \A k \in 1 .. Len(c) : (f \o c)[Len(f) + k] = c[k]
  OBVIOUS
<1> QED
  BY <1>2, <1>3, <1>4

(* Some of the buffer b has got to file 0.                                 *)
LEMMA DrainedFiles ==
  ASSUME NEW fs \in FileSystem, NEW b \in Seq(Records), NEW n \in 0 .. Len(b),
         fs[0] # Absent, Aged(fs, b)
  PROVE  LET gs == [fs EXCEPT ![0] = @ \o SubSeq(b, 1, n)]
         IN  /\ gs \in FileSystem /\ gs[0] # Absent
             /\ \A m \in 0 .. MaxNum : m # 0 => gs[m] = fs[m]
             /\ In(gs[0]) \subseteq In(fs[0]) \cup In(b)
             /\ n = Len(b) => In(gs[0]) = In(fs[0]) \cup In(b)
             /\ Aged(gs, <<>>)
<1> DEFINE f == fs[0]
           g == f \o SubSeq(b, 1, n)
           gs == [fs EXCEPT ![0] = g]
<1>0. 0 \in 0 .. MaxNum /\ MaxNum \in Nat
  BY LogFileAssumption
<1>1. f \in Seq(Records) /\ f # Absent /\ f = fs[0]
      /\ DOMAIN f = 1 .. Len(f) /\ Len(f) \in Nat
  BY <1>0 DEF FileSystem
<1>2. /\ SubSeq(b, 1, n) \in Seq(Records)
      /\ Len(SubSeq(b, 1, n)) = n
      /\ \A k \in 1 .. n : SubSeq(b, 1, n)[k] = b[k]
  OBVIOUS
<1>3. /\ g \in Seq(Records) /\ DOMAIN g = 1 .. Len(f) + n
      /\ \A k \in 1 .. Len(f) : g[k] = f[k]
      /\ \A k \in 1 .. n : g[Len(f) + k] = b[k]
  <2> DEFINE c == SubSeq(b, 1, n)
  <2>1. /\ g \in Seq(Records) /\ DOMAIN g = 1 .. Len(f) + Len(c)
        /\ \A k \in 1 .. Len(f) : g[k] = f[k]
        /\ \A k \in 1 .. Len(c) : g[Len(f) + k] = c[k]
    <3> HIDE DEF c
    <3>1. f \in Seq(Records) /\ c \in Seq(Records)
      BY <1>1, <1>2 DEF c
    <3>2. g = f \o c
      BY DEF c
    <3> HIDE DEF f, g
    <3>3. \A u, v \in Seq(Records) :
            /\ u \o v \in Seq(Records) /\ DOMAIN (u \o v) = 1 .. Len(u) + Len(v)
            /\ \A k \in 1 .. Len(u) : (u \o v)[k] = u[k]
            /\ \A k \in 1 .. Len(v) : (u \o v)[Len(u) + k] = v[k]
      BY Concatenation
    <3> QED
      BY <3>1, <3>2, <3>3
  <2>2. Len(c) = n /\ \A k \in 1 .. n : c[k] = b[k]
    BY <1>2
  <2> HIDE DEF c, f, g
  <2> QED
    BY <2>1, <2>2
<1>9. gs \in FileSystem /\ gs[0] = g /\ \A m \in 0 .. MaxNum : m # 0 => gs[m] = fs[m]
  BY <1>0, <1>3 DEF FileSystem
<1> HIDE DEF f, g, gs
<1>4. g # Absent
  BY <1>3, AbsentIsNoSequence
<1>5. b # Absent /\ DOMAIN b = 1 .. Len(b)
  BY AbsentIsNoSequence
<1>6. \A k \in DOMAIN g : \/ k \in DOMAIN f /\ g[k] = f[k]
                          \/ k - Len(f) \in 1 .. n /\ g[k] = b[k - Len(f)]
  <2> SUFFICES ASSUME NEW k \in 1 .. Len(f) + n, k \notin DOMAIN f
               PROVE  k - Len(f) \in 1 .. n /\ g[k] = b[k - Len(f)]
    BY <1>1, <1>3
  <2>1. k - Len(f) \in 1 .. n /\ Len(f) + (k - Len(f)) = k
    BY <1>1
  <2> QED
    BY <1>3, <2>1
<1>17. 1 .. n \subseteq DOMAIN b
  BY <1>5
<1>7. In(g) \subseteq In(f) \cup In(b)
  <2> SUFFICES ASSUME NEW k \in DOMAIN g PROVE g[k] \in In(f) \cup In(b)
    BY <1>4 DEF In
  <2>1. CASE k \in DOMAIN f /\ g[k] = f[k]
    BY <1>1, <2>1 DEF In
  <2>2. CASE k - Len(f) \in 1 .. n /\ g[k] = b[k - Len(f)]
    BY <1>5, <1>17, <2>2 DEF In
  <2> QED
    BY <1>6, <2>1, <2>2
<1>8. ASSUME n = Len(b) PROVE In(f) \cup In(b) \subseteq In(g)
  <2>1. ASSUME NEW k \in DOMAIN f PROVE f[k] \in In(g)
    <3>1. k \in DOMAIN g
      BY <1>1, <1>3
    <3> QED
      BY <1>1, <1>3, <1>4, <3>1 DEF In
  <2>2. ASSUME NEW k \in DOMAIN b PROVE b[k] \in In(g)
    <3>1. Len(f) + k \in DOMAIN g /\ k \in 1 .. n
      BY <1>1, <1>3, <1>5, <1>8
    <3> QED
      BY <1>3, <1>4, <3>1 DEF In
  <2> QED
    BY <1>1, <1>5, <2>1, <2>2 DEF In
<1>10. /\ \A j, k \in DOMAIN f : j < k => f[j] < f[k]
       /\ \A j, k \in DOMAIN b : j < k => b[j] < b[k]
       /\ \A r \in In(f), s \in In(b) : r < s
  BY <1>0, <1>1, <1>5 DEF Aged, Increasing
<1>11. \A j \in DOMAIN f, k \in DOMAIN b : f[j] < b[k]
  BY <1>1, <1>5, <1>10 DEF In
<1>12. Increasing(g)
  <2> SUFFICES ASSUME NEW j \in DOMAIN g, NEW k \in DOMAIN g, j < k PROVE g[j] < g[k]
    BY DEF Increasing
  <2>1. j \in Int /\ k \in Int /\ Len(f) \in Int
    BY <1>1, <1>3
  <2>2. CASE k \in DOMAIN f /\ g[k] = f[k]
    <3>1. j \in DOMAIN f /\ g[j] = f[j]
      BY <1>1, <1>6, <2>1, <2>2
    <3> QED
      BY <1>10, <2>2, <3>1
  <2>3. CASE k - Len(f) \in 1 .. n /\ g[k] = b[k - Len(f)]
    <3>1. CASE j \in DOMAIN f /\ g[j] = f[j]
      BY <1>11, <1>17, <2>3, <3>1
    <3>2. CASE j - Len(f) \in 1 .. n /\ g[j] = b[j - Len(f)]
      <4>1. j - Len(f) < k - Len(f)
        BY <2>1
      <4> QED
        BY <1>10, <1>17, <2>3, <3>2, <4>1
    <3> QED
      BY <1>6, <3>1, <3>2
  <2> QED
    BY <1>6, <2>2, <2>3
<1>13. In(<<>>) = {} /\ Increasing(<<>>)
  BY DEF In, Increasing
<1>14. \A m, p \in 0 .. MaxNum : m < p => \A r \in In(gs[p]), s \in In(gs[m]) : r < s
  <2> SUFFICES ASSUME NEW m \in 0 .. MaxNum, NEW p \in 0 .. MaxNum, m < p,
                      NEW r \in In(gs[p]), NEW s \in In(gs[m])
               PROVE  r < s
    OBVIOUS
  <2>1. p # 0 /\ gs[p] = fs[p]
    BY <1>9
  <2>2. CASE m # 0
    BY <1>9, <2>1, <2>2 DEF Aged
  <2>3. CASE m = 0
    <3>1. s \in In(fs[0]) \/ s \in In(b)
      BY <1>1, <1>7, <1>9, <2>3
    <3> QED
      BY <1>0, <2>1, <2>3, <3>1 DEF Aged
  <2> QED
    BY <2>2, <2>3
<1>15. \A m \in 0 .. MaxNum : Increasing(gs[m])
  BY <1>9, <1>12 DEF Aged
<1>16. Aged(gs, <<>>)
  BY <1>13, <1>14, <1>15 DEF Aged
<1> QED
  BY <1>1, <1>4, <1>7, <1>8, <1>9, <1>16 DEF f, g, gs

(* Record r, which comes after all others, is put in the buffer.           *)
LEMMA AppendedRecord ==
  ASSUME NEW fs \in FileSystem, NEW b \in Seq(Records), NEW r \in Records,
         Before(fs, b, r), Aged(fs, b)
  PROVE  /\ Append(b, r) \in Seq(Records)
         /\ In(Append(b, r)) = In(b) \cup {r}
         /\ Aged(fs, Append(b, r))
<1> DEFINE g == Append(b, r)
<1>1. /\ g \in Seq(Records) /\ DOMAIN g = 1 .. Len(b) + 1 /\ Len(b) \in Nat
      /\ DOMAIN b = 1 .. Len(b) /\ g[Len(b) + 1] = r
      /\ \A k \in DOMAIN b : g[k] = b[k]
  OBVIOUS
<1> HIDE DEF g
<1>2. g # Absent /\ b # Absent
  BY <1>1, AbsentIsNoSequence
<1>3. \A k \in DOMAIN g : k \in DOMAIN b \/ k = Len(b) + 1
  BY <1>1
<1>4. \A k \in DOMAIN b : k \in DOMAIN g
  BY <1>1
<1>5. Len(b) + 1 \in DOMAIN g
  BY <1>1
<1>6. In(g) = In(b) \cup {r}
  <2>1. ASSUME NEW k \in DOMAIN g PROVE g[k] \in In(b) \cup {r}
    BY <1>1, <1>2, <1>3 DEF In
  <2>2. ASSUME NEW k \in DOMAIN b PROVE b[k] \in In(g)
    BY <1>1, <1>2, <1>4 DEF In
  <2>3. r \in In(g)
    BY <1>1, <1>2, <1>5 DEF In
  <2> QED
    BY <1>2, <2>1, <2>2, <2>3 DEF In
<1>7. \A q \in In(b) : q < r
  BY DEF Before
<1>8. Increasing(g)
  <2> SUFFICES ASSUME NEW j \in DOMAIN g, NEW k \in DOMAIN g, j < k PROVE g[j] < g[k]
    BY DEF Increasing
  <2>1. j \in DOMAIN b /\ g[j] = b[j]
    BY <1>1
  <2>2. CASE k \in DOMAIN b
    BY <1>1, <1>2, <2>1, <2>2 DEF Aged, Increasing
  <2>3. CASE k = Len(b) + 1
    BY <1>1, <1>2, <1>7, <2>1, <2>3 DEF In
  <2> QED
    BY <1>3, <2>2, <2>3
<1>9. \A n \in 0 .. MaxNum : \A q \in In(fs[n]), s \in In(g) : q < s
  BY <1>6 DEF Aged, Before
<1>10. Aged(fs, g)
  BY <1>8, <1>9 DEF Aged
<1> QED
  BY <1>1, <1>6, <1>10 DEF g

(* Files of fs are kept, emptied or removed, and so is the buffer.         *)
LEMMA FewerFiles ==
  ASSUME NEW fs \in FileSystem, NEW gs \in FileSystem, NEW b \in Seq(Records),
         NEW c \in {b, <<>>}, NEW r \in Nat,
         \A n \in 0 .. MaxNum : gs[n] \in {fs[n], Absent, <<>>}
  PROVE  /\ Aged(fs, b) => Aged(gs, c)
         /\ Before(fs, b, r) => Before(gs, c, r)
<1>1. /\ In(<<>>) = {} /\ In(Absent) = {}
      /\ Increasing(<<>>) /\ Increasing(Absent)
  BY DEF In, Increasing
<1>2. In(c) \subseteq In(b) /\ (Increasing(b) => Increasing(c))
  BY <1>1
<1>3. \A n \in 0 .. MaxNum : /\ In(gs[n]) \subseteq In(fs[n])
                             /\ Increasing(fs[n]) => Increasing(gs[n])
  BY <1>1
<1>4. Before(fs, b, r) => Before(gs, c, r)
  BY <1>2, <1>3 DEF Before
<1>5. Aged(fs, b) => Aged(gs, c)
  BY <1>2, <1>3 DEF Aged
<1> QED
  BY <1>4, <1>5

(* File k - 1 takes the number k.                                          *)
LEMMA RenamedFile ==
  ASSUME NEW fs \in FileSystem, NEW b \in Seq(Records), NEW k \in 1 .. MaxNum,
         NEW r \in Nat
  PROVE  LET gs == [fs EXCEPT ![k] = fs[k - 1], ![k - 1] = Absent]
         IN  /\ gs \in FileSystem
             /\ gs[k] = fs[k - 1] /\ gs[k - 1] = Absent
             /\ \A n \in 0 .. MaxNum : n # k /\ n # k - 1 => gs[n] = fs[n]
             /\ Aged(fs, b) => Aged(gs, b)
             /\ Before(fs, b, r) => Before(gs, b, r)
<1> DEFINE gs == [fs EXCEPT ![k] = fs[k - 1], ![k - 1] = Absent]
<1>1. k \in 0 .. MaxNum /\ k - 1 \in 0 .. MaxNum /\ k # k - 1
  BY LogFileAssumption
<1>2. fs[k - 1] \in Seq(Records) \cup {Absent}
  BY <1>1 DEF FileSystem
<1>3. gs \in FileSystem
  BY <1>1, <1>2 DEF FileSystem
<1>4. /\ gs[k] = fs[k - 1] /\ gs[k - 1] = Absent
      /\ \A n \in 0 .. MaxNum : n # k /\ n # k - 1 => gs[n] = fs[n]
  BY <1>1 DEF FileSystem
<1> HIDE DEF gs
<1>5. In(Absent) = {} /\ Increasing(Absent)
  BY DEF In, Increasing
<1> DEFINE Old(n) == IF n = k THEN k - 1 ELSE n
<1>6. \A n \in 0 .. MaxNum : /\ Old(n) \in 0 .. MaxNum
                             /\ gs[n] = fs[Old(n)] \/ gs[n] = Absent
  BY <1>1, <1>4
<1>7. \A n \in 0 .. MaxNum : In(gs[n]) \subseteq In(fs[Old(n)])
                             /\ (Increasing(fs[Old(n)]) => Increasing(gs[n]))
  BY <1>5, <1>6
<1>8. Before(fs, b, r) => Before(gs, b, r)
  BY <1>6, <1>7 DEF Before
<1>9. ASSUME Aged(fs, b) PROVE Aged(gs, b)
  <2>1. ASSUME NEW m \in 0 .. MaxNum, NEW n \in 0 .. MaxNum, m < n,
               NEW q \in In(gs[n]), NEW s \in In(gs[m])
        PROVE  q < s
    <3>1. m # k - 1 /\ n # k - 1
      BY <1>4, <1>5, <2>1
    <3>2. Old(m) < Old(n)
      BY <1>1, <2>1, <3>1
    <3>3. q \in In(fs[Old(n)]) /\ s \in In(fs[Old(m)])
      BY <1>7, <2>1
    <3> HIDE DEF Old
    <3> QED
      BY <1>6, <1>9, <3>2, <3>3 DEF Aged
  <2>2. \A n \in 0 .. MaxNum : Increasing(gs[n]) /\ \A q \in In(gs[n]), s \in In(b) : q < s
    <3> HIDE DEF Old
    <3> QED
      BY <1>6, <1>7, <1>9 DEF Aged
  <2> QED
    BY <1>9, <2>1, <2>2 DEF Aged
<1> QED
  BY <1>3, <1>4, <1>8, <1>9 DEF gs

(* file_helper::open leaves file 0 open, whatever directories were there.  *)
LEMMA OpenedFiles ==
  ASSUME NEW d, NEW fs \in FileSystem, NEW t \in BOOLEAN, Opens(d, fs, t)
  PROVE  /\ dirs' = 2 /\ fd' = "file 0"
         /\ files' \in FileSystem /\ files'[0] # Absent
         /\ files'[0] \in {fs[0], <<>>}
         /\ t = TRUE => files'[0] = <<>>
         /\ fs[0] = Absent => files'[0] = <<>>
         /\ \A n \in 0 .. MaxNum : n # 0 => files'[n] = fs[n]
<1>1. 0 \in 0 .. MaxNum
  BY LogFileAssumption
<1>2. dirs' = 2 /\ fd' = "file 0"
      /\ files' = [fs EXCEPT ![0] = IF t \/ fs[0] = Absent THEN <<>> ELSE fs[0]]
  BY DEF Opens, create_dir
<1>3. <<>> \in Seq(Records) /\ <<>> # Absent
  BY EmptyFile
<1>4. CASE t = TRUE \/ fs[0] = Absent
  <2>1. files' = [fs EXCEPT ![0] = <<>>]
    BY <1>2, <1>4
  <2> QED
    BY <1>1, <1>2, <1>3, <2>1 DEF FileSystem
<1>5. CASE t = FALSE /\ fs[0] # Absent
  <2>1. files' = [fs EXCEPT ![0] = fs[0]]
    BY <1>2, <1>5
  <2> QED
    BY <1>1, <1>2, <1>3, <1>5, <2>1 DEF FileSystem
<1> QED
  BY <1>4, <1>5

LEMMA BytesType ==
  ASSUME NEW s \in Seq(Records) \cup {Absent}
  PROVE  Bytes(s) \in Nat
<1>1. CASE s = Absent
  BY <1>1 DEF Bytes
<1>2. CASE s # Absent
  <2> DEFINE long == {k \in DOMAIN s : s[k] \in Long}
  <2>1. s \in Seq(Records) /\ Len(s) \in Nat /\ long \subseteq 1 .. Len(s)
    BY <1>2
  <2>2. IsFiniteSet(1 .. Len(s))
    BY <2>1, FS_Interval
  <2>3. IsFiniteSet(long)
    BY <2>1, <2>2, FS_Subset
  <2>4. Cardinality(long) \in Nat
    BY <2>3, FS_CardinalityType
  <2> QED
    BY <1>2, <2>1, <2>4 DEF Bytes
<1> QED
  BY <1>1, <1>2

(* A section that is read leaves the settings numbers.                     *)
LEMMA OverwrittenType ==
  ASSUME NEW c \in Configs, NEW k \in 1 .. 3, NEW s \in [num : 0 .. MaxNum, size : Nat]
  PROVE  Overwritten(s, c, k) \in [num : 0 .. MaxNum, size : Nat]
<1>1. CASE k \notin Reached(c)
  BY <1>1 DEF Overwritten
<1>2. CASE k \in Reached(c)
  <2>1. c[k] \in Section /\ c[k] # Missing
    BY <1>2, LogFileAssumption DEF Config, Reached
  <2>2. c[k].num \in (0 .. MaxNum) \cup {Bad} /\ c[k].size \in Nat \cup {Bad}
    BY <2>1 DEF Section, Entries
  <2>3. (IF c[k].num = Bad THEN s.num ELSE c[k].num) \in 0 .. MaxNum
    BY <2>2
  <2>4. (IF Numbers(c[k]) THEN c[k].size ELSE s.size) \in Nat
    BY <2>2 DEF Numbers
  <2> QED
    BY <1>2, <2>3, <2>4 DEF Overwritten
<1> QED
  BY <1>1, <1>2

LEMMA LoadedType ==
  ASSUME NEW c \in Configs, settings \in [num : 0 .. MaxNum, size : Nat]
  PROVE  Loaded(c) \in [num : 0 .. MaxNum, size : Nat]
BY OverwrittenType DEF Loaded

LEMMA MaxSizeType ==
  ASSUME NEW s \in [num : 0 .. MaxNum, size : Nat]
  PROVE  MaxSize(s) \in 0 .. WordSize - 1
<1>1. s.size * Mega \in Nat
  BY LogFileAssumption
<1> QED
  BY <1>1, LogFileAssumption DEF MaxSize
-----------------------------------------------------------------------------
(* The invariant.                                                          *)

(* What the invariant says of the variables that the steps below change.   *)
LEMMA Facts ==
  ASSUME IInv
  PROVE  /\ files \in FileSystem /\ buf \in Seq(Records)
         /\ next \in 1 .. MaxRecords + 1 /\ record \in 0 .. MaxRecords
         /\ next \in Nat /\ record \in Nat
         /\ dirs \in 0 .. 2 /\ current \in Nat /\ i \in 0 .. MaxNum
         /\ max \in 0 .. WordSize - 1 /\ num \in 0 .. MaxNum
         /\ 0 \in 0 .. MaxNum /\ MaxNum \in Nat /\ MaxRecords \in Nat /\ WordSize \in Nat
         /\ record < next /\ Before(files, buf, next) /\ Aged(files, buf)
<1>1. /\ files \in FileSystem /\ buf \in Seq(Records)
      /\ next \in 1 .. MaxRecords + 1 /\ record \in 0 .. MaxRecords
      /\ dirs \in 0 .. 2 /\ current \in Nat /\ i \in 0 .. MaxNum
      /\ max \in 0 .. WordSize - 1 /\ num \in 0 .. MaxNum
  BY DEF IInv, TypeOK, FileSystem
<1>2. record < next /\ Before(files, buf, next) /\ Aged(files, buf)
  BY DEF IInv, Numbered, AgeOrder
<1>3. 0 \in 0 .. MaxNum /\ MaxNum \in Nat /\ MaxRecords \in Nat /\ WordSize \in Nat
  BY LogFileAssumption
<1>4. next \in Nat /\ record \in Nat
  BY <1>1, <1>3
<1> QED
  BY <1>1, <1>2, <1>3, <1>4

LEMMA InitOK == Init => IInv
<1> SUFFICES ASSUME Init PROVE IInv
  OBVIOUS
<1>1. \A n \in 0 .. MaxNum : files[n] = Absent
  BY DEF Init
<1>2. In(<<>>) = {} /\ In(Absent) = {} /\ Increasing(<<>>) /\ Increasing(Absent)
  BY DEF In, Increasing
<1>3. TypeOK
  BY LogFileAssumption DEF Init, TypeOK, Default
<1>4. Before(files, buf, next) /\ AgeOrder
  BY <1>1, <1>2 DEF Init, Before, AgeOrder, Aged
<1> QED
  BY <1>3, <1>4 DEF Init, IInv, Phases, Numbered

(* CLog::init.                                                             *)
LEMMA StartsOK ==
  ASSUME IInv, NEW c \in Configs, Starts(c)
  PROVE  IInv'
<1>1. /\ proc = "new" /\ starts \in 0 .. MaxStarts /\ starts < MaxStarts
      /\ starts' = starts + 1 /\ settings' = Loaded(c)
      /\ settings \in [num : 0 .. MaxNum, size : Nat]
      /\ UNCHANGED <<buf, phase, i, record, next>>
  BY DEF Starts, IInv, TypeOK
<1>2. settings' \in [num : 0 .. MaxNum, size : Nat] /\ starts' \in 0 .. MaxStarts
  BY <1>1, LoadedType, LogFileAssumption
<1>3. phase = "idle" /\ fd = "null" /\ buf = <<>> /\ proc \in {"new", "on"}
  BY <1>1 DEF IInv, TypeOK, Phases
<1>4. CASE UNCHANGED <<proc, max, num, disk, fd, current>> /\ refused' = FALSE
  <2>1. TypeOK'
    BY <1>1, <1>2, <1>3, <1>4, Facts DEF TypeOK, FileSystem
  <2>2. Phases' /\ Numbered' /\ AgeOrder'
    BY <1>1, <1>3, <1>4, Facts DEF Phases, Numbered, AgeOrder, Before, Aged
  <2> QED
    BY <2>1, <2>2 DEF IInv
<1>5. CASE OpenRefused(dirs, files) /\ UNCHANGED <<proc, max, num, current>>
  <2>1. files' = files /\ fd' = "null" /\ dirs' \in 0 .. 2 /\ refused' = TRUE
    BY <1>5, Facts DEF OpenRefused
  <2>2. TypeOK'
    BY <1>1, <1>2, <1>3, <1>5, <2>1, Facts DEF TypeOK, FileSystem
  <2>3. Phases' /\ Numbered' /\ AgeOrder'
    BY <1>1, <1>3, <1>5, <2>1, Facts DEF Phases, Numbered, AgeOrder, Before, Aged
  <2> QED
    BY <2>2, <2>3 DEF IInv
<1>6. CASE /\ Opens(CreateDirectory(dirs), files, FALSE) /\ refused' = FALSE
           /\ fd' # "null" /\ proc' = "on"
           /\ max' = MaxSize(settings') /\ num' = settings'.num
           /\ current' = SizeAtOpen
  <2>1. /\ dirs' = 2 /\ fd' = "file 0"
        /\ files' \in FileSystem /\ files'[0] # Absent
    BY <1>6, OpenedFiles, Facts
  <2>10. \A n \in 0 .. MaxNum : files'[n] \in {files[n], Absent, <<>>}
    BY <1>6, OpenedFiles, Facts
  <2>2. files'[0] \in Seq(Records) \cup {Absent}
    BY <2>1, Facts DEF FileSystem
  <2>3. current' \in Nat
    BY <1>6, <2>2, BytesType DEF SizeAtOpen
  <2>4. max' \in 0 .. WordSize - 1 /\ num' \in 0 .. MaxNum
    BY <1>2, <1>6, MaxSizeType
  <2>8. proc' = "on" /\ refused' = FALSE
    BY <1>6
  <2>9. i \in 0 .. MaxNum /\ record \in 0 .. MaxRecords /\ next \in 1 .. MaxRecords + 1
    BY Facts
  <2>5. TypeOK'
    <3>1. files' \in [0 .. MaxNum -> Seq(Records) \cup {Absent}] /\ buf' \in Seq(Records)
      BY <1>1, <2>1, Facts DEF FileSystem
    <3>2. /\ phase' = "idle" /\ fd' = "file 0" /\ dirs' = 2 /\ proc' = "on"
      BY <1>1, <1>3, <2>1, <2>8
    <3>3. /\ i' \in 0 .. MaxNum /\ record' \in 0 .. MaxRecords
          /\ next' \in 1 .. MaxRecords + 1
      BY <1>1, <2>9
    <3>4. refused' \in BOOLEAN
      BY <2>8
    <3>5. /\ phase' \in {"idle", "rotate_", "rename_file_"} /\ fd' \in {"null", "file 0", "unlinked"}
          /\ proc' \in {"new", "on"}
      BY <3>2
    <3>6. dirs' \in 0 .. 2
      <4>1. \A d : d = 2 => d \in 0 .. 2
        OBVIOUS
      <4> QED
        BY <2>1, <4>1, Zenon
    <3> QED
      BY <1>2, <2>3, <2>4, <3>1, <3>3, <3>4, <3>5, <3>6, Zenon DEF TypeOK
  <2>6. Aged(files', buf) /\ Before(files', buf, next)
    BY <2>1, <2>10, FewerFiles, Facts
  <2>7. Phases' /\ Numbered' /\ AgeOrder'
    BY <1>1, <1>3, <1>6, <2>1, <2>6, Facts DEF Phases, Numbered, AgeOrder, Before, Aged
  <2> QED
    BY <2>5, <2>7 DEF IInv
<1>7. CASE Opens(CreateDirectory(dirs), files, FALSE) /\ fd' = "null"
  BY <1>7, OpenedFiles, Facts
<1> QED
  BY <1>4, <1>5, <1>6, <1>7 DEF Starts

(* Some of the buffer has got to the kernel, and the rest is dropped.      *)
LEMMA DrainedOK ==
  ASSUME IInv, NEW n \in 0 .. Len(buf)
  PROVE  /\ Drained(n) \in FileSystem
         /\ Aged(Drained(n), <<>>) /\ Before(Drained(n), <<>>, next)
         /\ fd = "file 0" => Drained(n)[0] # Absent
         /\ \A m \in 0 .. MaxNum : m # 0 => Drained(n)[m] = files[m]
         /\ fd = "file 0" /\ n = Len(buf) => In(Drained(n)[0]) = In(files[0]) \cup In(buf)
<1>1. CASE fd = "file 0"
  <2>1. files[0] # Absent
    BY <1>1 DEF IInv, Phases
  <2> DEFINE gs == [files EXCEPT ![0] = @ \o SubSeq(buf, 1, n)]
  <2>2. /\ gs \in FileSystem /\ gs[0] # Absent
        /\ \A m \in 0 .. MaxNum : m # 0 => gs[m] = files[m]
        /\ In(gs[0]) \subseteq In(files[0]) \cup In(buf)
        /\ n = Len(buf) => In(gs[0]) = In(files[0]) \cup In(buf)
        /\ Aged(gs, <<>>)
    BY <2>1, DrainedFiles, Facts
  <2>3. Drained(n) = gs
    BY <1>1 DEF Drained
  <2> HIDE DEF gs
  <2>4. In(<<>>) = {}
    BY DEF In
  <2>5. Before(gs, <<>>, next)
    BY <2>2, <2>4, Facts DEF Before
  <2> QED
    BY <2>2, <2>3, <2>5
<1>2. CASE fd # "file 0"
  <2>1. Drained(n) = files
    BY <1>2 DEF Drained
  <2>2. Aged(files, <<>>) /\ Before(files, <<>>, next)
    BY FewerFiles, Facts
  <2> QED
    BY <1>2, <2>1, <2>2, Facts
<1> QED
  BY <1>1, <1>2

(* fflush and fclose.                                                      *)
LEMMA DrainsOK ==
  ASSUME IInv, Drains
  PROVE  /\ files' \in FileSystem /\ buf' = <<>>
         /\ Aged(files', <<>>) /\ Before(files', <<>>, next)
         /\ fd = "file 0" => files'[0] # Absent
         /\ \A m \in 0 .. MaxNum : m # 0 => files'[m] = files[m]
         /\ refused' \in BOOLEAN
         /\ fd = "file 0" /\ ~refused' => In(files'[0]) = In(files[0]) \cup In(buf)
<1>1. buf' = <<>>
  BY DEF Drains
<1>2. CASE files' = Drained(Len(buf)) /\ refused' = FALSE
  <2>1. Len(buf) \in 0 .. Len(buf)
    BY Facts
  <2>2. refused' \in BOOLEAN
    BY <1>2
  <2>3. PICK n \in 0 .. Len(buf) : n = Len(buf) /\ files' = Drained(n)
    BY <1>2, <2>1
  <2> QED
    BY <1>1, <2>2, <2>3, DrainedOK
<1>3. CASE \E n \in 0 .. Len(buf) : files' = Drained(n) /\ refused' = TRUE
  <2>1. PICK n \in 0 .. Len(buf) : files' = Drained(n)
    BY <1>3
  <2>2. refused' = TRUE
    BY <1>3
  <2> QED
    BY <1>1, <2>1, <2>2, DrainedOK
<1> QED
  BY <1>2, <1>3 DEF Drains

(* sink_it_.                                                               *)
LEMMA LogsOK ==
  ASSUME IInv, Logs
  PROVE  IInv'
<1>1. /\ proc = "on" /\ phase = "idle" /\ next <= MaxRecords
      /\ record' = next /\ next' = next + 1 /\ current' = current + Size(next)
      /\ UNCHANGED <<proc, settings, max, num, dirs, starts>>
  BY DEF Logs
<1>2. /\ next \in Records /\ record' \in 0 .. MaxRecords /\ next' \in 1 .. MaxRecords + 1
      /\ next \in Nat /\ next' \in Nat /\ record' < next'
      /\ next <= next' /\ next < next'
  BY <1>1, Facts DEF Records
<1>3. current' \in Nat /\ current <= current'
  <2>1. Size(next) \in Nat
    BY DEF Size
  <2>2. current \in Nat
    BY Facts
  <2>3. current' = current + Size(next)
    BY <1>1
  <2> QED
    BY <2>1, <2>2, <2>3
<1>4. CASE /\ current' > max /\ Drains /\ fd' = "null" /\ phase' = "rotate_" /\ i' = num
  <2>1. /\ files' \in FileSystem /\ buf' = <<>> /\ refused' \in BOOLEAN
        /\ Aged(files', <<>>) /\ Before(files', <<>>, next)
    BY <1>4, DrainsOK
  <2>2. TypeOK'
    <3>1. i' \in 0 .. MaxNum
      BY <1>4, Facts
    <3>2. phase' \in {"idle", "rotate_", "rename_file_"} /\ fd' \in {"null", "file 0", "unlinked"}
      BY <1>4
    <3>3. files' \in [0 .. MaxNum -> Seq(Records) \cup {Absent}] /\ buf' \in Seq(Records)
      BY <2>1, EmptyFile DEF FileSystem
    <3>4. /\ proc' \in {"new", "on"} /\ settings' \in [num : 0 .. MaxNum, size : Nat]
          /\ max' \in 0 .. WordSize - 1 /\ num' \in 0 .. MaxNum
          /\ dirs' \in 0 .. 2 /\ starts' \in 0 .. MaxStarts
      BY <1>1 DEF IInv, TypeOK
    <3> QED
      BY <1>2, <1>3, <2>1, <3>1, <3>2, <3>3, <3>4, Zenon DEF TypeOK
  <2>3. Before(files', buf', record') /\ Before(files', buf', next')
    <3>1. Before(files', buf', record')
      BY <1>1, <2>1
    <3>2. Before(files', <<>>, next')
      BY <1>2, <2>1, EmptyFile, Later
    <3> QED
      BY <2>1, <3>1, <3>2
  <2>4. Phases'
    <3>1. i' = num /\ num \in Nat /\ num' = num /\ max' = max
      BY <1>1, <1>4, Facts
    <3>2. ~(i' < num') /\ i' <= num' /\ current' > max'
      BY <1>4, <3>1
    <3>3. proc' = "on" /\ fd' = "null" /\ buf' = <<>> /\ record' \in Records
      BY <1>1, <1>2, <1>4, <2>1
    <3>4. phase' # "rename_file_"
      BY <1>4
    <3> QED
      BY <2>3, <3>2, <3>3, <3>4 DEF Phases
  <2>5. Aged(files', buf')
    BY <2>1
  <2> QED
    BY <1>2, <2>2, <2>3, <2>4, <2>5 DEF IInv, Numbered, AgeOrder
<1>5. CASE ~(current' > max) /\ Writes(next) /\ UNCHANGED <<fd, phase, i>>
  <2>1. fd # "null"
    <3>1. ~(current > max)
      BY <1>3, <1>5, Facts
    <3> QED
      BY <1>1, <3>1 DEF IInv, Phases
  <2>2. /\ files' \in FileSystem /\ buf' \in Seq(Records) /\ refused' \in BOOLEAN
        /\ Aged(files', buf') /\ Before(files', buf', next')
        /\ fd = "file 0" => files'[0] # Absent
    <3>1. CASE /\ buf' = Append(buf, next) /\ refused' = FALSE /\ files' = files
      <4>1. /\ buf' \in Seq(Records) /\ In(buf') = In(buf) \cup {next}
            /\ Aged(files, buf')
        BY <1>2, <3>1, AppendedRecord, Facts
      <4>2. Before(files, buf, next')
        BY <1>2, Later, Facts
      <4>3. Before(files, buf', next')
        BY <1>2, <4>1, <4>2 DEF Before
      <4>4. refused' \in BOOLEAN
        BY <3>1
      <4>5. fd = "file 0" => files[0] # Absent
        BY DEF IInv, Phases
      <4> QED
        BY <3>1, <4>1, <4>3, <4>4, <4>5, Facts
    <3>2. CASE /\ buf' = <<>> /\ refused' = TRUE
               /\ \E n \in 0 .. Len(buf) : files' = Drained(n)
      <4>1. PICK n \in 0 .. Len(buf) : files' = Drained(n)
        BY <3>2
      <4>2. /\ files' \in FileSystem /\ Aged(files', <<>>) /\ Before(files', <<>>, next)
            /\ fd = "file 0" => files'[0] # Absent
        BY <4>1, DrainedOK
      <4>4. Before(files', <<>>, next')
        BY <1>2, <4>2, EmptyFile, Later
      <4>5. refused' \in BOOLEAN
        BY <3>2
      <4>6. buf' = <<>> /\ <<>> \in Seq(Records)
        BY <3>2, EmptyFile
      <4> QED
        BY <4>2, <4>4, <4>5, <4>6
    <3> QED
      BY <1>5, <3>1, <3>2 DEF Writes
  <2>3. TypeOK'
    <3>3. files' \in [0 .. MaxNum -> Seq(Records) \cup {Absent}]
      BY <2>2 DEF FileSystem
    <3>4. /\ proc' \in {"new", "on"} /\ settings' \in [num : 0 .. MaxNum, size : Nat]
          /\ max' \in 0 .. WordSize - 1 /\ num' \in 0 .. MaxNum
          /\ dirs' \in 0 .. 2 /\ starts' \in 0 .. MaxStarts
      BY <1>1 DEF IInv, TypeOK
    <3>5. /\ phase' \in {"idle", "rotate_", "rename_file_"} /\ fd' \in {"null", "file 0", "unlinked"}
          /\ i' \in 0 .. MaxNum
      BY <1>5 DEF IInv, TypeOK
    <3> QED
      BY <1>2, <1>3, <2>2, <3>3, <3>4, <3>5, Zenon DEF TypeOK
  <2>4. fd' # "null" /\ phase' = "idle" /\ fd' = fd
    BY <1>1, <1>5, <2>1
  <2>5. Phases'
    <3>1. proc' = "on"
      BY <1>1
    <3> QED
      BY <2>2, <2>4, <3>1 DEF Phases
  <2> QED
    BY <1>2, <2>2, <2>3, <2>5 DEF IInv, Numbered, AgeOrder
<1> QED
  BY <1>4, <1>5 DEF Logs

(* rotate_ changes none of these.                                          *)
LEMMA RotateFacts ==
  ASSUME IInv, phase # "idle",
         UNCHANGED <<proc, settings, max, num, record, next, starts>>
  PROVE  /\ proc = "on" /\ fd = "null" /\ buf = <<>> /\ current > max
         /\ record \in Records /\ i <= num /\ (i < num => files[i] = Absent)
         /\ Before(files, buf, record)
         /\ proc' \in {"new", "on"} /\ settings' \in [num : 0 .. MaxNum, size : Nat]
         /\ max' \in 0 .. WordSize - 1 /\ num' \in 0 .. MaxNum
         /\ record' \in 0 .. MaxRecords /\ next' \in 1 .. MaxRecords + 1
         /\ starts' \in 0 .. MaxStarts /\ record' < next'
<1>1. /\ proc = "on" /\ fd = "null" /\ buf = <<>> /\ current > max
      /\ record \in Records /\ i <= num /\ (i < num => files[i] = Absent)
      /\ Before(files, buf, record)
  BY DEF IInv, Phases
<1>2. /\ proc \in {"new", "on"} /\ settings \in [num : 0 .. MaxNum, size : Nat]
      /\ max \in 0 .. WordSize - 1 /\ num \in 0 .. MaxNum
      /\ record \in 0 .. MaxRecords /\ next \in 1 .. MaxRecords + 1
      /\ starts \in 0 .. MaxStarts
  BY DEF IInv, TypeOK
<1> QED
  BY <1>1, <1>2, Facts

(* A step inside rotate_'s loop.                                           *)
LEMMA LoopOK ==
  ASSUME IInv, phase # "idle", phase' \in {"rotate_", "rename_file_"},
         UNCHANGED <<proc, settings, max, num, dirs, fd, buf, current, record, next, starts>>,
         i' \in 0 .. i, refused' \in BOOLEAN,
         phase' = "rename_file_" => i' > 0,
         i' < num => files'[i'] = Absent,
         files' \in FileSystem,
         Aged(files', buf), Before(files', buf, record), Before(files', buf, next)
  PROVE  IInv'
<1>1. i \in 0 .. MaxNum /\ num \in 0 .. MaxNum /\ MaxNum \in Nat /\ i <= num
  BY RotateFacts, Facts
<1>2. i' \in 0 .. MaxNum /\ i' <= num'
  BY <1>1
<1>3. TypeOK'
  <2>1. files' \in [0 .. MaxNum -> Seq(Records) \cup {Absent}]
    BY DEF FileSystem
  <2>2. /\ dirs' \in 0 .. 2 /\ fd' \in {"null", "file 0", "unlinked"}
        /\ buf' \in Seq(Records) /\ current' \in Nat
    BY Zenon DEF IInv, TypeOK
  <2>3. phase' \in {"idle", "rotate_", "rename_file_"}
    OBVIOUS
  <2> QED
    BY <1>2, <2>1, <2>2, <2>3, RotateFacts, Zenon DEF TypeOK
<1>4. Phases'
  <2>1. proc' = "on" /\ fd' = "null" /\ buf' = <<>> /\ record' \in Records
    BY RotateFacts
  <2>2. current' > max'
    BY RotateFacts
  <2>3. Before(files', buf', record')
    OBVIOUS
  <2>4. i' < num' => files'[i'] = Absent
    OBVIOUS
  <2> QED
    BY <1>2, <2>1, <2>2, <2>3, <2>4 DEF Phases
<1>5. Numbered' /\ AgeOrder'
  BY RotateFacts DEF Numbered, AgeOrder
<1> QED
  BY <1>3, <1>4, <1>5 DEF IInv

LEMMA SkipsOK ==
  ASSUME IInv, Skips
  PROVE  IInv'
<1>1. /\ phase = "rotate_" /\ i > 0 /\ files[i - 1] = Absent /\ i' = i - 1
      /\ UNCHANGED <<proc, settings, max, num, dirs, fd, buf, current, record, next, starts>>
      /\ UNCHANGED <<files, phase, refused>>
  BY DEF Skips, Rotates
<1>2. i' \in 0 .. i
  BY <1>1, Facts
<1>3. refused' \in BOOLEAN
  BY <1>1 DEF IInv, TypeOK
<1>4. Before(files, buf, record)
  BY <1>1 DEF IInv, Phases
<1> QED
  BY <1>1, <1>2, <1>3, <1>4, LoopOK, Facts

LEMMA RemovesOK ==
  ASSUME IInv, Removes
  PROVE  IInv'
<1>1. /\ phase = "rotate_" /\ phase' = "rename_file_" /\ i > 0 /\ i' = i
      /\ UNCHANGED <<proc, settings, max, num, dirs, fd, buf, current, record, next, starts>>
      /\ files' = files \/ files' = [files EXCEPT ![i] = Absent]
  BY DEF Removes, Rotates
<1>2. refused' \in BOOLEAN
  BY DEF Removes, IInv, TypeOK
<1>3. Before(files, buf, record) /\ (i < num => files[i] = Absent)
  BY <1>1 DEF IInv, Phases
<1>4. files' \in FileSystem /\ \A n \in 0 .. MaxNum : files'[n] \in {files[n], Absent, <<>>}
  BY <1>1, Facts DEF FileSystem
<1>5. Aged(files', buf) /\ Before(files', buf, record) /\ Before(files', buf, next)
  BY <1>3, <1>4, FewerFiles, Facts
<1>6. i' \in 0 .. i
  BY <1>1, Facts
<1>7. i' < num => files'[i'] = Absent
  BY <1>1, <1>3, Facts DEF FileSystem
<1> QED
  BY <1>1, <1>2, <1>4, <1>5, <1>6, <1>7, LoopOK

LEMMA RenamesOK ==
  ASSUME IInv, Renames
  PROVE  IInv'
<1>1. /\ phase = "rename_file_" /\ phase' = "rotate_" /\ i' = i - 1
      /\ UNCHANGED <<proc, settings, max, num, dirs, fd, buf, current, record, next, starts>>
      /\ UNCHANGED refused
      /\ files' = [files EXCEPT ![i] = files[i - 1], ![i - 1] = Absent]
  BY DEF Renames
<1>2. i > 0 /\ Before(files, buf, record)
  BY <1>1 DEF IInv, Phases
<1>3. i \in 1 .. MaxNum /\ i' \in 0 .. i
  BY <1>1, <1>2, Facts
<1>4. /\ files' \in FileSystem /\ files'[i - 1] = Absent
      /\ Aged(files', buf) /\ Before(files', buf, record) /\ Before(files', buf, next)
  BY <1>1, <1>2, <1>3, RenamedFile, Facts
<1>5. refused' \in BOOLEAN
  BY <1>1 DEF IInv, TypeOK
<1> QED
  BY <1>1, <1>3, <1>4, <1>5, LoopOK

(* rotate_ opens file 0 anew, or fails to.                                 *)
LEMMA OpenedAnew ==
  ASSUME IInv, phase # "idle", NEW fs \in FileSystem,
         \A n \in 0 .. MaxNum : fs[n] \in {files[n], Absent},
         Opens(dirs, fs, TRUE) \/ OpenRefused(dirs, fs)
  PROVE  /\ files' \in FileSystem /\ dirs' \in 0 .. 2 /\ fd' \in {"null", "file 0"}
         /\ fd' = "file 0" => files'[0] = <<>>
         /\ Aged(files', <<>>) /\ Before(files', <<>>, record)
         /\ Before(files', <<>>, next)
         /\ \A n \in 0 .. MaxNum : n # 0 => files'[n] = fs[n]
<1>1. buf = <<>> /\ Before(files, buf, record)
  BY DEF IInv, Phases
<1>2. /\ files' \in FileSystem /\ dirs' \in 0 .. 2 /\ fd' \in {"null", "file 0"}
      /\ fd' = "file 0" => files'[0] = <<>>
      /\ \A n \in 0 .. MaxNum : n # 0 => files'[n] = fs[n]
      /\ files'[0] \in {fs[0], <<>>}
  <2>1. CASE Opens(dirs, fs, TRUE)
    <3>1. dirs' \in 0 .. 2
      <4>1. \A d : d = 2 => d \in 0 .. 2
        OBVIOUS
      <4> QED
        BY <2>1, <4>1, OpenedFiles, Zenon
    <3> QED
      BY <2>1, <3>1, OpenedFiles
  <2>2. CASE OpenRefused(dirs, fs)
    <3>1. dirs' \in 0 .. 2
      BY <2>2, Facts DEF OpenRefused
    <3> QED
      BY <2>2, <3>1 DEF OpenRefused
  <2> QED
    BY <2>1, <2>2
<1>3. \A n \in 0 .. MaxNum : files'[n] \in {files[n], Absent, <<>>}
  BY <1>2
<1>4. Aged(files', <<>>) /\ Before(files', <<>>, record) /\ Before(files', <<>>, next)
  BY <1>1, <1>2, <1>3, FewerFiles, Facts
<1> QED
  BY <1>2, <1>4

(* The end of rotate_: c is current_size_, and b the buffer.               *)
LEMMA RotatedOK ==
  ASSUME IInv, phase # "idle", phase' = "idle",
         UNCHANGED <<proc, settings, max, num, i, record, next, starts>>,
         files' \in FileSystem, dirs' \in 0 .. 2, fd' \in {"null", "file 0"},
         fd' = "file 0" => files'[0] = <<>>,
         fd' = "null" => current' = current /\ buf' = <<>>,
         current' \in Nat, buf' \in Seq(Records), refused' \in BOOLEAN,
         Aged(files', buf'), Before(files', buf', next)
  PROVE  IInv'
<1>1. TypeOK'
  <2>1. files' \in [0 .. MaxNum -> Seq(Records) \cup {Absent}]
    BY DEF FileSystem
  <2>2. fd' \in {"null", "file 0", "unlinked"} /\ phase' \in {"idle", "rotate_", "rename_file_"}
    OBVIOUS
  <2>3. i' \in 0 .. MaxNum
    BY Facts
  <2> QED
    BY <2>1, <2>2, <2>3, RotateFacts, Zenon DEF TypeOK
<1>2. Phases'
  <2>1. proc' = "on" /\ max' = max /\ current > max
    BY RotateFacts
  <2>2. fd' = "file 0" => files'[0] # Absent
    BY EmptyFile
  <2> QED
    BY <2>1, <2>2 DEF Phases
<1>3. Numbered' /\ AgeOrder'
  BY RotateFacts DEF Numbered, AgeOrder
<1> QED
  BY <1>1, <1>2, <1>3 DEF IInv

LEMMA RenameRefusedOK ==
  ASSUME IInv, RenameRefused
  PROVE  IInv'
<1>1. /\ phase = "rename_file_" /\ phase' = "idle" /\ current' = Counts(0)
      /\ UNCHANGED <<proc, settings, max, num, buf, i, record, next, starts>>
  BY DEF RenameRefused
<1>2. PICK fs \in {files, [files EXCEPT ![i] = Absent]} :
        \/ Opens(dirs, fs, TRUE) /\ refused' = TRUE
        \/ OpenRefused(dirs, fs)
  BY DEF RenameRefused
<1>3. fs \in FileSystem /\ \A n \in 0 .. MaxNum : fs[n] \in {files[n], Absent}
  BY <1>2, Facts DEF FileSystem
<1>4. refused' = TRUE
  BY <1>2 DEF OpenRefused
<1>5. /\ files' \in FileSystem /\ dirs' \in 0 .. 2 /\ fd' \in {"null", "file 0"}
      /\ fd' = "file 0" => files'[0] = <<>>
      /\ Aged(files', <<>>) /\ Before(files', <<>>, next)
  BY <1>1, <1>2, <1>3, OpenedAnew
<1>6. buf' = <<>> /\ buf' \in Seq(Records)
  BY <1>1, RotateFacts, EmptyFile
<1>7. current' \in Nat /\ (fd' = "null" => current' = current)
  BY <1>1, Facts DEF Counts
<1>8. refused' \in BOOLEAN
  BY <1>4
<1> QED
  BY <1>1, <1>5, <1>6, <1>7, <1>8, RotatedOK

LEMMA ReopensOK ==
  ASSUME IInv, Reopens
  PROVE  IInv'
<1>1. /\ phase = "rotate_" /\ phase' = "idle" /\ current' = Counts(Size(record))
      /\ UNCHANGED <<proc, settings, max, num, i, record, next, starts>>
  BY DEF Reopens
<1>2. Opens(dirs, files, TRUE) \/ OpenRefused(dirs, files)
  BY DEF Reopens
<1>3. /\ files' \in FileSystem /\ dirs' \in 0 .. 2 /\ fd' \in {"null", "file 0"}
      /\ fd' = "file 0" => files'[0] = <<>>
      /\ Aged(files', <<>>) /\ Before(files', <<>>, record) /\ Before(files', <<>>, next)
  BY <1>1, <1>2, OpenedAnew, Facts
<1>4. record \in Records /\ record \in Nat /\ next \in Nat /\ record < next /\ buf = <<>>
  BY <1>1, RotateFacts, Facts
<1>5. /\ fd' = "null" => buf' = <<>>
      /\ buf' = <<>> \/ buf' = Append(<<>>, record)
  <2>1. <<record>> = Append(<<>>, record)
    OBVIOUS
  <2>2. buf' = <<>> \/ (buf' = <<record>> /\ fd' # "null")
    BY <1>4, Zenon DEF Reopens, OpenRefused
  <2> QED
    BY <2>1, <2>2, Zenon
<1>6. refused' \in BOOLEAN
  <2>1. refused \in BOOLEAN
    BY DEF IInv, TypeOK
  <2>2. UNCHANGED refused \/ refused' = TRUE
    BY DEF Reopens, OpenRefused
  <2> QED
    BY <2>1, <2>2
<1>7. current' \in Nat /\ (fd' = "null" => current' = current)
  BY <1>1, Facts DEF Counts, Size
<1>8. buf' \in Seq(Records) /\ Aged(files', buf') /\ Before(files', buf', next)
  <2>1. CASE buf' = <<>>
    BY <1>3, <2>1, EmptyFile
  <2>2. CASE buf' = Append(<<>>, record)
    <3>1. /\ buf' \in Seq(Records) /\ In(buf') = In(<<>>) \cup {record}
          /\ Aged(files', buf')
      <4>1. <<>> \in Seq(Records)
        OBVIOUS
      <4>2. /\ record \in Records /\ files' \in FileSystem
            /\ Aged(files', <<>>) /\ Before(files', <<>>, record)
        BY <1>3, <1>4
      <4> QED
        BY <2>2, <4>1, <4>2, AppendedRecord, Zenon
    <3>2. Before(files', buf', next)
      BY <1>3, <1>4, <3>1 DEF Before
    <3> QED
      BY <3>1, <3>2
  <2> QED
    BY <1>5, <2>1, <2>2
<1> QED
  BY <1>1, <1>3, <1>5, <1>6, <1>7, <1>8, RotatedOK

LEMMA FlushesOK ==
  ASSUME IInv, Flushes
  PROVE  IInv'
<1>1. /\ proc = "on" /\ phase = "idle" /\ Drains
      /\ UNCHANGED <<proc, settings, max, num, dirs, fd, current>>
      /\ UNCHANGED <<phase, i, record, next, starts>>
  BY DEF Flushes
<1>2. /\ files' \in FileSystem /\ buf' = <<>> /\ refused' \in BOOLEAN
      /\ Aged(files', <<>>) /\ Before(files', <<>>, next)
      /\ fd = "file 0" => files'[0] # Absent
  BY <1>1, DrainsOK
<1>3. TypeOK'
  <2>1. files' \in [0 .. MaxNum -> Seq(Records) \cup {Absent}] /\ buf' \in Seq(Records)
    BY <1>2, EmptyFile DEF FileSystem
  <2>2. TypeOK
    BY DEF IInv
  <2> QED
    BY <1>1, <1>2, <2>1, <2>2, Zenon DEF TypeOK
<1>4. Phases'
  <2>1. proc = "on" /\ fd = "null" => current > max
    BY DEF IInv, Phases
  <2> QED
    BY <1>1, <1>2, <2>1 DEF Phases
<1>5. Numbered' /\ AgeOrder'
  BY <1>1, <1>2, Facts DEF Numbered, AgeOrder
<1> QED
  BY <1>3, <1>4, <1>5 DEF IInv

LEMMA RemovedOK ==
  ASSUME IInv, Removed
  PROVE  IInv'
<1>1. /\ dirs' = 0 /\ files' = [n \in 0 .. MaxNum |-> Absent]
      /\ fd' = (IF fd = "file 0" THEN "unlinked" ELSE fd)
      /\ UNCHANGED <<proc, settings, max, num, buf, current>>
      /\ UNCHANGED <<phase, i, record, refused, next, starts>>
  BY DEF Removed
<1>2. files' \in FileSystem
  BY <1>1 DEF FileSystem
<1>3. \A n \in 0 .. MaxNum : files'[n] \in {files[n], Absent, <<>>} /\ files'[n] = Absent
  BY <1>1
<1>4. Aged(files', buf) /\ Before(files', buf, next) /\
      (Before(files, buf, record) => Before(files', buf, record))
  BY <1>2, <1>3, FewerFiles, Facts
<1>5. TypeOK'
  <2>1. files' \in [0 .. MaxNum -> Seq(Records) \cup {Absent}]
    BY <1>2 DEF FileSystem
  <2>2. fd' \in {"null", "file 0", "unlinked"} /\ TypeOK
    BY <1>1 DEF IInv, TypeOK
  <2>3. dirs' \in 0 .. 2
    <3>1. \A d : d = 0 => d \in 0 .. 2
      OBVIOUS
    <3> QED
      BY <1>1, <3>1, Zenon
  <2> QED
    BY <1>1, <2>1, <2>2, <2>3, Zenon DEF TypeOK
<1>6. Phases'
  <2>1. Phases
    BY DEF IInv
  <2>2. fd' = "null" <=> fd = "null"
    BY <1>1
  <2>3. fd' # "file 0"
    BY <1>1
  <2>4. i < num => files'[i] = Absent
    BY <1>3, Facts
  <2> QED
    BY <1>1, <1>4, <2>1, <2>2, <2>3, <2>4 DEF Phases
<1>7. Numbered' /\ AgeOrder'
  BY <1>1, <1>4, Facts DEF Numbered, AgeOrder
<1> QED
  BY <1>5, <1>6, <1>7 DEF IInv

LEMMA DiesOK ==
  ASSUME IInv, Dies
  PROVE  IInv'
<1>1. /\ proc' = "new" /\ settings' = Default /\ max' = 0 /\ num' = 0
      /\ fd' = "null" /\ buf' = <<>> /\ current' = 0
      /\ phase' = "idle" /\ i' = 0 /\ record' = 0 /\ refused' = FALSE
      /\ UNCHANGED <<dirs, next, starts>>
  BY DEF Dies
<1>2. PICK n \in 0 .. Len(buf) : files' = Drained(n)
  BY DEF Dies
<1>3. files' \in FileSystem /\ Aged(files', <<>>) /\ Before(files', <<>>, next)
  BY <1>2, DrainedOK
<1>4. TypeOK'
  <2>1. files' \in [0 .. MaxNum -> Seq(Records) \cup {Absent}] /\ buf' \in Seq(Records)
    BY <1>1, <1>3, EmptyFile DEF FileSystem
  <2>2. /\ proc' \in {"new", "on"} /\ fd' \in {"null", "file 0", "unlinked"}
        /\ phase' \in {"idle", "rotate_", "rename_file_"}
    BY <1>1
  <2>3. settings' \in [num : 0 .. MaxNum, size : Nat]
    BY <1>1, LogFileAssumption DEF Default
  <2>4. /\ max' \in 0 .. WordSize - 1 /\ num' \in 0 .. MaxNum /\ current' \in Nat
        /\ i' \in 0 .. MaxNum /\ record' \in 0 .. MaxRecords
    BY <1>1, LogFileAssumption
  <2>5. refused' \in BOOLEAN
    BY <1>1
  <2>6. dirs' \in 0 .. 2 /\ next' \in 1 .. MaxRecords + 1 /\ starts' \in 0 .. MaxStarts
    BY <1>1 DEF IInv, TypeOK
  <2> QED
    BY <2>1, <2>2, <2>3, <2>4, <2>5, <2>6, Zenon DEF TypeOK
<1>5. Phases' /\ Numbered' /\ AgeOrder'
  BY <1>1, <1>3, Facts DEF Phases, Numbered, AgeOrder
<1> QED
  BY <1>4, <1>5 DEF IInv

LEMMA StutterOK ==
  ASSUME IInv, UNCHANGED vars
  PROVE  IInv'
BY DEF IInv, TypeOK, Phases, Numbered, AgeOrder, Before

LEMMA Invariant == Spec => []IInv
<1>1. ASSUME IInv, [Next]_vars PROVE IInv'
  <2>1. CASE \E c \in Configs : Starts(c)
    BY <1>1, <2>1, StartsOK
  <2>2. CASE Logs
    BY <1>1, <2>2, LogsOK
  <2>3. CASE Skips
    BY <1>1, <2>3, SkipsOK
  <2>11. CASE Removes
    BY <1>1, <2>11, RemovesOK
  <2>4. CASE Renames
    BY <1>1, <2>4, RenamesOK
  <2>5. CASE RenameRefused
    BY <1>1, <2>5, RenameRefusedOK
  <2>6. CASE Reopens
    BY <1>1, <2>6, ReopensOK
  <2>7. CASE Flushes
    BY <1>1, <2>7, FlushesOK
  <2>8. CASE Removed
    BY <1>1, <2>8, RemovedOK
  <2>9. CASE Dies
    BY <1>1, <2>9, DiesOK
  <2>10. CASE UNCHANGED vars
    BY <1>1, <2>10, StutterOK
  <2> QED
    BY <1>1, <2>1, <2>2, <2>3, <2>4, <2>5, <2>6, <2>7, <2>8, <2>9, <2>10, <2>11 DEF Next
<1> QED
  BY <1>1, InitOK, PTL DEF Spec
-----------------------------------------------------------------------------
(* The theorems.                                                           *)

(* Every variable of the log's files keeps its type, for any               *)
(* configurations; of note is that file_helper's buffer and the files hold *)
(* nothing but records.                                                    *)
THEOREM LogFileTypeCorrect == Spec => []TypeOK
<1>1. IInv => TypeOK
  BY DEF IInv
<1> QED
  BY <1>1, Invariant, PTL

(* rotating_file_sink::rotate_ keeps the records in the order of their     *)
(* age, from the file with the highest number to the buffer, and none of   *)
(* them twice: whatever calls the kernel refuses and wherever the process  *)
(* dies, and for any number of files.                                      *)
THEOREM LogFileAgeOrder == Spec => []AgeOrder
<1>1. IInv => AgeOrder
  BY DEF IInv
<1> QED
  BY <1>1, Invariant, PTL

(* Whatever has failed before, sink_it_ never gives a record to a          *)
(* file_helper without a file; and if the kernel refuses nothing for a     *)
(* record, it is written: so every failed rotation is made up for.         *)
THEOREM LogFileWrittenUnlessRefused == Spec => WrittenUnlessRefused
<1> DEFINE Step ==
      /\ Wrote => fd' # "null"
      /\   /\ proc' = "on" /\ phase' = "idle" /\ ~refused'
           /\ phase # "idle" \/ next' # next
         => Wrote
<1>1. ASSUME IInv, IInv', [Next]_vars PROVE Step \/ UNCHANGED vars
  <2>1. Wrote => fd' # "null"
    BY <1>1 DEF Wrote, IInv, Phases
  <2> SUFFICES ASSUME proc' = "on", phase' = "idle", phase # "idle" \/ next' # next,
                      ~refused', Next
               PROVE  Wrote
    BY <1>1, <2>1
  <2>2. CASE \E c \in Configs : Starts(c)
    <3>1. proc = "new" /\ UNCHANGED <<phase, next>>
      BY <2>2 DEF Starts
    <3> QED
      BY <1>1, <3>1 DEF IInv, Phases
  <2>3. CASE Logs
    <3>1. Writes(next) /\ next \in Records
      <4>1. next <= MaxRecords /\ Writes(next)
        BY <2>3 DEF Logs
      <4> QED
        BY <1>1, <4>1, Facts DEF Records
    <3>2. buf' = Append(buf, next)
      BY <3>1 DEF Writes
    <3>3. buf \in Seq(Records)
      BY <1>1, Facts
    <3>4. Len(buf') = Len(buf) + 1 /\ Len(buf) \in Nat
      BY <3>1, <3>2, <3>3
    <3> QED
      BY <3>4 DEF Wrote
  <2>4. CASE Skips \/ Removes \/ Renames
    BY <2>4 DEF Skips, Removes, Renames, Rotates
  <2>5. CASE RenameRefused
    BY <2>5 DEF RenameRefused, OpenRefused
  <2>6. CASE Reopens
    <3>1. phase = "rotate_" /\ Opens(dirs, files, TRUE)
      BY <2>6 DEF Reopens, OpenRefused
    <3>2. fd' = "file 0"
      BY <1>1, <3>1, OpenedFiles, Facts
    <3>3. buf' = <<record>>
      BY <2>6, <3>2 DEF Reopens, OpenRefused
    <3>4. buf = <<>>
      BY <1>1, <3>1 DEF IInv, Phases
    <3>5. <<record>> # <<>>
      OBVIOUS
    <3> QED
      BY <3>3, <3>4, <3>5, Zenon DEF Wrote
  <2>7. CASE Flushes \/ Removed \/ Dies
    <3>1. UNCHANGED next /\ proc' = "on" /\ phase # "idle"
      BY <2>7 DEF Flushes, Removed, Dies
    <3>2. CASE Flushes
      BY <3>1, <3>2 DEF Flushes
    <3>3. CASE Removed
      BY <3>1, <3>3 DEF Removed
    <3>4. CASE Dies
      BY <3>1, <3>4 DEF Dies
    <3> QED
      BY <2>7, <3>2, <3>3, <3>4
  <2> QED
    BY <2>2, <2>3, <2>4, <2>5, <2>6, <2>7 DEF Next
<1>2. [][Step]_vars => WrittenUnlessRefused
  BY PTL DEF WrittenUnlessRefused
<1>3. ASSUME IInv, IInv', [Next]_vars PROVE [Step]_vars
  BY <1>1, <1>3
<1> QED
  BY <1>2, <1>3, Invariant, PTL DEF Spec

(* What a step that loses nothing, or the records of file num, has to do.  *)
LoseNothing == /\ \A n \in 0 .. MaxNum : LeftOver(n) => files'[n] = files[n]
               /\ Kept \subseteq Kept'

LoseLast ==
  /\ \A n \in 0 .. MaxNum : LeftOver(n) => files'[n] = files[n]
  /\ \A r \in Kept \ (Kept') :
       /\ r \in In(files[num])
       /\ \A n \in 0 .. MaxNum :
            ~LeftOver(n) => \A q \in In(files'[n]) \cup In(buf') : r < q

LEMMA NothingLost == LoseNothing => LoseLast
BY DEF LoseNothing, LoseLast

(* In the loop, the file that is removed or replaced is the last one, or   *)
(* there is none.                                                          *)
LEMMA LastOfLoop ==
  ASSUME IInv, phase # "idle"
  PROVE  i = num \/ In(files[i]) = {}
<1>1. i <= num /\ (i < num => files[i] = Absent)
  BY DEF IInv, Phases
<1>2. i \in 0 .. MaxNum /\ num \in 0 .. MaxNum
  BY Facts
<1> QED
  BY <1>1, <1>2 DEF In

LEMMA RemoveLoses ==
  ASSUME IInv, Removes, ~refused'
  PROVE  LoseLast
<1>1. /\ phase = "rotate_" /\ i > 0 /\ buf' = buf
      /\ files' = [files EXCEPT ![i] = Absent]
  BY DEF Removes, Rotates
<1>2. files \in FileSystem /\ i \in 0 .. MaxNum /\ num \in 0 .. MaxNum /\ Aged(files, buf)
  BY Facts
<1>3. i <= num
  BY <1>1 DEF IInv, Phases
<1>4. \A n \in 0 .. MaxNum : files'[n] = IF n = i THEN Absent ELSE files[n]
  BY <1>1, <1>2 DEF FileSystem
<1>5. In(Absent) = {}
  BY DEF In
<1>6. \A n \in 0 .. MaxNum : LeftOver(n) => files'[n] = files[n]
  BY <1>2, <1>3, <1>4 DEF LeftOver
<1>7. \A r \in Kept \ (Kept') : r \in In(files[i])
  BY <1>1, <1>4 DEF Kept
<1>8. ASSUME NEW r \in Kept \ (Kept') PROVE i = num /\ r \in In(files[num])
  BY <1>1, <1>7, <1>8, LastOfLoop
<1>9. ASSUME NEW r \in Kept \ (Kept'), NEW n \in 0 .. MaxNum, ~LeftOver(n),
             NEW q \in In(files'[n]) \cup In(buf')
      PROVE  r < q
  <2>1. r \in In(files[num]) /\ i = num
    BY <1>8
  <2>2. CASE q \in In(buf')
    BY <1>1, <1>2, <2>1, <2>2 DEF Aged
  <2>3. CASE q \in In(files'[n])
    <3>1. n # num /\ q \in In(files[n])
      BY <1>4, <1>5, <2>1, <2>3
    <3>2. n < num
      BY <1>2, <1>9, <3>1 DEF LeftOver
    <3> QED
      BY <1>2, <2>1, <3>1, <3>2 DEF Aged
  <2> QED
    BY <2>2, <2>3
<1> QED
  BY <1>6, <1>8, <1>9 DEF LoseLast

LEMMA RenameLoses ==
  ASSUME IInv, Renames
  PROVE  LoseLast
<1>1. /\ phase = "rename_file_" /\ buf' = buf
      /\ files' = [files EXCEPT ![i] = files[i - 1], ![i - 1] = Absent]
  BY DEF Renames
<1>2. i > 0 /\ i <= num
  BY <1>1 DEF IInv, Phases
<1>3. /\ files \in FileSystem /\ i \in 0 .. MaxNum /\ i - 1 \in 0 .. MaxNum
      /\ num \in 0 .. MaxNum /\ i \in Nat /\ Aged(files, buf)
  BY <1>2, Facts
<1>4. \A n \in 0 .. MaxNum :
        files'[n] = IF n = i THEN files[i - 1] ELSE IF n = i - 1 THEN Absent ELSE files[n]
  <2>1. i # i - 1
    BY <1>3
  <2> QED
    BY <1>1, <1>3, <2>1 DEF FileSystem
<1>5. In(Absent) = {}
  BY DEF In
<1>6. \A n \in 0 .. MaxNum : LeftOver(n) => files'[n] = files[n]
  BY <1>2, <1>3, <1>4 DEF LeftOver
<1>7. In(files[i - 1]) \subseteq Kept'
  BY <1>3, <1>4 DEF Kept
<1>8. \A n \in 0 .. MaxNum : n # i /\ n # i - 1 => In(files[n]) \subseteq Kept'
  BY <1>4 DEF Kept
<1>9. In(buf) \subseteq Kept'
  BY <1>1 DEF Kept
<1>10. \A r \in Kept \ (Kept') : r \in In(files[i])
  BY <1>7, <1>8, <1>9 DEF Kept
<1>11. ASSUME NEW r \in Kept \ (Kept') PROVE i = num /\ r \in In(files[num])
  BY <1>1, <1>10, <1>11, LastOfLoop
<1>12. ASSUME NEW r \in Kept \ (Kept'), NEW n \in 0 .. MaxNum, ~LeftOver(n),
              NEW q \in In(files'[n]) \cup In(buf')
       PROVE  r < q
  <2>1. r \in In(files[num]) /\ i = num
    BY <1>11
  <2>2. CASE q \in In(buf')
    BY <1>1, <1>3, <2>1, <2>2 DEF Aged
  <2>3. CASE q \in In(files'[n])
    <3>1. PICK m \in 0 .. MaxNum : m < num /\ q \in In(files[m])
      <4>1. CASE n = i
        BY <1>3, <1>4, <2>1, <2>3, <4>1
      <4>2. CASE n # i
        <5>1. n # i - 1 /\ q \in In(files[n])
          BY <1>4, <1>5, <2>3, <4>2
        <5>2. n < num
          BY <1>3, <1>12, <2>1, <4>2 DEF LeftOver
        <5> QED
          BY <5>1, <5>2
      <4> QED
        BY <4>1, <4>2
    <3> QED
      BY <1>3, <2>1, <3>1 DEF Aged
  <2> QED
    BY <2>2, <2>3
<1> QED
  BY <1>6, <1>11, <1>12 DEF LoseLast

LEMMA ReopenLoses ==
  ASSUME IInv, Reopens, ~refused'
  PROVE  LoseLast
<1>1. phase = "rotate_" /\ i = 0 /\ Opens(dirs, files, TRUE)
  BY DEF Reopens, OpenRefused
<1>2. /\ fd' = "file 0" /\ files'[0] = <<>>
      /\ \A n \in 0 .. MaxNum : n # 0 => files'[n] = files[n]
  BY <1>1, OpenedFiles, Facts
<1>3. buf' = <<record>> /\ buf = <<>> /\ record \in Records /\ Before(files, buf, record)
  BY <1>1, <1>2 DEF Reopens, OpenRefused, IInv, Phases
<1>4. 0 \in 0 .. MaxNum /\ num \in 0 .. MaxNum
  BY Facts
<1>5. In(<<>>) = {}
  BY DEF In
<1>6. In(buf') \subseteq {record}
  BY <1>3 DEF In
<1>7. \A n \in 0 .. MaxNum : LeftOver(n) => files'[n] = files[n]
  <2>1. \A n \in 0 .. MaxNum : LeftOver(n) => n # 0
    BY <1>4 DEF LeftOver
  <2> QED
    BY <1>2, <2>1
<1>8. \A r \in Kept \ (Kept') : r \in In(files[0])
  BY <1>2, <1>3, <1>5 DEF Kept
<1>9. ASSUME NEW r \in Kept \ (Kept') PROVE num = 0 /\ r \in In(files[num])
  BY <1>1, <1>8, <1>9, LastOfLoop
<1>10. ASSUME NEW r \in Kept \ (Kept'), NEW n \in 0 .. MaxNum, ~LeftOver(n),
              NEW q \in In(files'[n]) \cup In(buf')
       PROVE  r < q
  <2>1. num = 0 /\ r \in In(files[0])
    BY <1>9
  <2>2. n = 0
    BY <1>10, <2>1 DEF LeftOver
  <2>3. q = record
    BY <1>2, <1>5, <1>6, <2>2
  <2> QED
    BY <1>3, <1>4, <2>1, <2>3 DEF Before
<1> QED
  BY <1>7, <1>9, <1>10 DEF LoseLast

(* The buffer goes to file 0 before it is renamed, and rotate_ overwrites  *)
(* no file but the last that the running process counts: so if the kernel  *)
(* refuses nothing, it loses only the records of that one, which are older *)
(* than all others but those left over by a run with more files.           *)
THEOREM LogFileLosesOnlyOldest == Spec => LosesOnlyOldest
<1> DEFINE Step == proc' = proc /\ ~refused' /\ dirs' >= dirs /\ fd # "unlinked"
                     => LoseLast
<1>1. ASSUME IInv, [Next]_vars PROVE Step \/ UNCHANGED vars
  <2> SUFFICES ASSUME proc' = proc, ~refused', dirs' >= dirs, fd # "unlinked", Next
               PROVE  LoseLast
    BY <1>1
  <2> USE <1>1
  <2>1. In(<<>>) = {} /\ In(Absent) = {}
    BY DEF In
  <2>2. ASSUME files' = files, In(buf) \subseteq In(buf')
        PROVE  LoseNothing
    BY <2>2 DEF Kept, LoseNothing
  <2>3. ASSUME fd = "null" PROVE In(buf) = {}
    BY <2>1, <2>3 DEF IInv, Phases
  <2>4. ASSUME Drains PROVE LoseNothing
    <3>1. CASE fd = "file 0"
      <4>1. /\ buf' = <<>> /\ In(files'[0]) = In(files[0]) \cup In(buf)
            /\ \A m \in 0 .. MaxNum : m # 0 => files'[m] = files[m]
        BY <2>4, <3>1, DrainsOK
      <4>2. \A n \in 0 .. MaxNum : LeftOver(n) => files'[n] = files[n]
        BY <4>1, Facts DEF LeftOver
      <4>3. Kept \subseteq Kept'
        BY <4>1, Facts DEF Kept
      <4> QED
        BY <4>2, <4>3 DEF LoseNothing
    <3>2. CASE fd = "null"
      <4>1. files' = files
        BY <2>4, <3>2 DEF Drains, Drained
      <4> QED
        BY <2>2, <2>3, <3>2, <4>1
    <3> QED
      BY <3>1, <3>2 DEF IInv, TypeOK
  <2>5. CASE \E c \in Configs : Starts(c)
    <3>1. files' = files /\ buf' = buf
      <4>1. PICK c \in Configs : Starts(c)
        BY <2>5
      <4>2. ~Opens(CreateDirectory(dirs), files, FALSE)
        <5>1. ASSUME Opens(CreateDirectory(dirs), files, FALSE) PROVE fd' = "file 0"
          BY <5>1, OpenedFiles, Facts
        <5>2. proc = "new" /\ fd = "null"
          BY <4>1 DEF Starts, IInv, Phases
        <5>3. ~OpenRefused(dirs, files)
          BY DEF OpenRefused
        <5>4. (proc' # proc) \/ fd' = "null"
          BY <4>1, <5>2, <5>3 DEF Starts
        <5> QED
          BY <5>1, <5>4
      <4>3. ~OpenRefused(dirs, files)
        BY DEF OpenRefused
      <4>4. UNCHANGED <<buf, disk>>
        BY <4>1, <4>2, <4>3, Zenon DEF Starts
      <4> QED
        BY <4>4
    <3> QED
      BY <2>2, <3>1, NothingLost
  <2>6. CASE Logs
    <3>1. Drains \/ Writes(next)
      BY <2>6 DEF Logs
    <3>2. CASE Writes(next)
      <4>1. buf' = Append(buf, next) /\ files' = files /\ next \in Records
        <5>1. next <= MaxRecords
          BY <2>6 DEF Logs
        <5> QED
          BY <3>2, <5>1, Facts DEF Writes, Records
      <4>2. In(buf') = In(buf) \cup {next}
        BY <4>1, AppendedRecord, Facts
      <4> QED
        BY <2>2, <4>1, <4>2, NothingLost
    <3> QED
      BY <2>4, <3>1, <3>2, NothingLost
  <2>7. CASE Skips
    BY <2>2, <2>7, NothingLost DEF Skips, Rotates
  <2>8. CASE Removes \/ Renames
    BY <2>8, RemoveLoses, RenameLoses
  <2>9. CASE RenameRefused
    BY <2>9 DEF RenameRefused, OpenRefused
  <2>10. CASE Reopens
    BY <2>10, ReopenLoses
  <2>11. CASE Flushes
    BY <2>4, <2>11, NothingLost DEF Flushes
  <2>12. CASE Removed
    <3>1. dirs > 0 /\ dirs' = 0
      BY <2>12 DEF Removed
    <3> QED
      BY <3>1, Facts
  <2>13. CASE Dies
    <3>1. fd = "null" /\ \E n \in 0 .. Len(buf) : files' = Drained(n)
      BY <2>13 DEF Dies, IInv, Phases
    <3>2. files' = files
      BY <3>1 DEF Drained
    <3> QED
      BY <2>2, <2>3, <3>1, <3>2, NothingLost
  <2> QED
    BY <2>5, <2>6, <2>7, <2>8, <2>9, <2>10, <2>11, <2>12, <2>13 DEF Next
<1>2. [][Step]_vars => LosesOnlyOldest
  BY PTL DEF LosesOnlyOldest, LoseLast
<1>3. ASSUME IInv, [Next]_vars PROVE [Step]_vars
  BY <1>1, <1>3
<1> QED
  BY <1>2, <1>3, Invariant, PTL DEF Spec
-----------------------------------------------------------------------------
(* The limit.                                                              *)

LEMMA BytesAppend ==
  ASSUME NEW s \in Seq(Records), NEW r \in Records
  PROVE  Bytes(Append(s, r)) = Bytes(s) + Size(r)
<1> DEFINE t == Append(s, r)
           L == {k \in DOMAIN s : s[k] \in Long}
           M == {k \in DOMAIN t : t[k] \in Long}
<1>1. /\ t \in Seq(Records) /\ Len(t) = Len(s) + 1 /\ Len(s) \in Nat
      /\ DOMAIN t = 1 .. Len(s) + 1 /\ DOMAIN s = 1 .. Len(s)
      /\ t[Len(s) + 1] = r /\ \A k \in 1 .. Len(s) : t[k] = s[k]
  OBVIOUS
<1> HIDE DEF t
<1>2. s # Absent /\ t # Absent
  BY <1>1, AbsentIsNoSequence
<1>3. Bytes(s) = Len(s) + Cardinality(L) /\ Bytes(t) = Len(t) + Cardinality(M)
  BY <1>2 DEF Bytes
<1>4. IsFiniteSet(L) /\ Cardinality(L) \in Nat
  <2>1. IsFiniteSet(1 .. Len(s))
    <3>1. 1 \in Int /\ Len(s) \in Int
      BY <1>1
    <3> QED
      BY <3>1, FS_Interval, Zenon
  <2>2. L \subseteq 1 .. Len(s)
    BY <1>1
  <2>3. IsFiniteSet(L)
    BY <2>1, <2>2, FS_Subset
  <2> QED
    BY <2>3, FS_CardinalityType
<1>5. Len(s) + 1 \notin L
  BY <1>1
<1>6. CASE r \in Long
  <2>1. M = L \cup {Len(s) + 1}
    BY <1>1, <1>6
  <2>2. Cardinality(M) = Cardinality(L) + 1
    <3> HIDE DEF L, M
    <3> QED
      BY <1>4, <1>5, <2>1, FS_AddElement
  <2>3. Size(r) = 2
    BY <1>6 DEF Size
  <2> HIDE DEF L, M
  <2> QED
    BY <1>1, <1>3, <1>4, <2>2, <2>3 DEF t
<1>7. CASE r \notin Long
  <2>1. M = L
    BY <1>1, <1>7
  <2>3. Size(r) = 1
    BY <1>7 DEF Size
  <2> HIDE DEF L, M
  <2> QED
    BY <1>1, <1>3, <1>4, <2>1, <2>3 DEF t
<1> QED
  BY <1>6, <1>7

(* A prefix t of s has no more bytes.                                      *)
LEMMA BytesPrefix ==
  ASSUME NEW s \in Seq(Records), NEW t \in Seq(Records), Len(t) <= Len(s),
         \A k \in 1 .. Len(t) : t[k] = s[k]
  PROVE  Bytes(t) <= Bytes(s)
<1> DEFINE L == {k \in DOMAIN s : s[k] \in Long}
           M == {k \in DOMAIN t : t[k] \in Long}
<1>1. /\ Len(s) \in Nat /\ Len(t) \in Nat
      /\ DOMAIN s = 1 .. Len(s) /\ DOMAIN t = 1 .. Len(t)
  OBVIOUS
<1>2. Bytes(s) = Len(s) + Cardinality(L) /\ Bytes(t) = Len(t) + Cardinality(M)
  BY AbsentIsNoSequence DEF Bytes
<1>3. M \subseteq L /\ L \subseteq 1 .. Len(s)
  BY <1>1
<1>4. IsFiniteSet(L)
  <2>1. IsFiniteSet(1 .. Len(s))
    <3>1. 1 \in Int /\ Len(s) \in Int
      BY <1>1
    <3> QED
      BY <3>1, FS_Interval, Zenon
  <2> QED
    BY <1>3, <2>1, FS_Subset
<1> HIDE DEF L, M
<1>5. Cardinality(M) <= Cardinality(L) /\ Cardinality(M) \in Nat /\ Cardinality(L) \in Nat
  BY <1>3, <1>4, FS_Subset, FS_CardinalityType
<1> QED
  BY <1>1, <1>2, <1>5

(* What the sink takes for the size of the file is never too small.        *)
Charged == fd = "file 0" => Bytes(files[0] \o buf) <= current

(* Some of the buffer b is drained to the file f.                          *)
LEMMA BytesDrained ==
  ASSUME NEW f \in Seq(Records), NEW b \in Seq(Records), NEW n \in 0 .. Len(b)
  PROVE  /\ f \o SubSeq(b, 1, n) \in Seq(Records) /\ f \o b \in Seq(Records)
         /\ (f \o SubSeq(b, 1, n)) \o <<>> = f \o SubSeq(b, 1, n)
         /\ Bytes(f \o SubSeq(b, 1, n)) <= Bytes(f \o b)
<1> DEFINE p == SubSeq(b, 1, n)
<1>1. /\ p \in Seq(Records) /\ Len(p) = n /\ n <= Len(b)
      /\ \A k \in 1 .. n : p[k] = b[k]
  OBVIOUS
<1> HIDE DEF p
<1>2. f \o p \in Seq(Records) /\ f \o b \in Seq(Records)
  BY <1>1, ConcatProperties, Zenon
<1>3. (f \o p) \o <<>> = f \o p
  BY <1>2, ConcatEmptySeq, Zenon
<1>4. Len(f) \in Nat /\ Len(b) \in Nat /\ n \in Nat
  OBVIOUS
<1>5. /\ Len(f \o p) = Len(f) + n /\ Len(f \o b) = Len(f) + Len(b)
      /\ \A k \in 1 .. Len(f) + n :
           (f \o p)[k] = IF k <= Len(f) THEN f[k] ELSE p[k - Len(f)]
      /\ \A k \in 1 .. Len(f) + Len(b) :
           (f \o b)[k] = IF k <= Len(f) THEN f[k] ELSE b[k - Len(f)]
  BY <1>1, ConcatProperties, Zenon
<1>6. ASSUME NEW k \in 1 .. Len(f) + n PROVE (f \o p)[k] = (f \o b)[k]
  <2>1. k \in 1 .. Len(f) + Len(b)
    BY <1>1, <1>4
  <2>2. ~(k <= Len(f)) => k - Len(f) \in 1 .. n
    BY <1>4
  <2> QED
    BY <1>1, <1>5, <2>1, <2>2
<1>7. Len(f \o p) <= Len(f \o b)
  BY <1>1, <1>4, <1>5
<1>8. \A k \in 1 .. Len(f \o p) : (f \o p)[k] = (f \o b)[k]
  BY <1>5, <1>6
<1>9. Bytes(f \o p) <= Bytes(f \o b)
  BY <1>2, <1>7, <1>8, BytesPrefix, Zenon
<1> QED
  BY <1>2, <1>3, <1>9 DEF p

(* A record is added to the buffer b.                                      *)
LEMMA BytesBuffered ==
  ASSUME NEW f \in Seq(Records), NEW b \in Seq(Records), NEW r \in Records
  PROVE  /\ f \o Append(b, r) \in Seq(Records)
         /\ Bytes(f \o Append(b, r)) = Bytes(f \o b) + Size(r)
<1>1. <<r>> \in Seq(Records)
  OBVIOUS
<1>2. f \o b \in Seq(Records)
  BY ConcatProperties, Zenon
<1>3. Append(b, r) = b \o <<r>> /\ Append(f \o b, r) = (f \o b) \o <<r>>
  BY <1>2, AppendIsConcat, Zenon
<1>4. (f \o b) \o <<r>> = f \o (b \o <<r>>)
  <2> DEFINE c == <<r>>
  <2>1. c \in Seq(Records)
    BY <1>1
  <2> HIDE DEF c
  <2>2. (f \o b) \o c = f \o (b \o c)
    BY <2>1, ConcatAssociative
  <2> QED
    BY <2>2 DEF c
<1>5. Bytes(Append(f \o b, r)) = Bytes(f \o b) + Size(r)
  BY <1>2, BytesAppend, Zenon
<1>6. Append(f \o b, r) \in Seq(Records)
  BY <1>2, AppendProperties, Zenon
<1> QED
  BY <1>3, <1>4, <1>5, <1>6, Zenon

(* While file 0 is open.                                                   *)
LEMMA OpenFile ==
  ASSUME IInv, Charged, fd = "file 0"
  PROVE  /\ files[0] \in Seq(Records) /\ buf \in Seq(Records) /\ current \in Nat
         /\ Bytes(files[0] \o buf) <= current
         /\ Bytes(files[0] \o buf) \in Nat
         /\ \A n : Drained(n)[0] = files[0] \o SubSeq(buf, 1, n)
<1>1. files \in FileSystem /\ 0 \in 0 .. MaxNum /\ buf \in Seq(Records) /\ current \in Nat
  BY Facts
<1>2. files[0] # Absent
  BY DEF IInv, Phases
<1>3. files[0] \in Seq(Records)
  BY <1>1, <1>2 DEF FileSystem
<1>4. \A n : Drained(n)[0] = files[0] \o SubSeq(buf, 1, n)
  BY <1>1 DEF Drained, FileSystem
<1>5. files[0] \o buf \in Seq(Records)
  BY <1>1, <1>3, ConcatProperties, Zenon
<1>6. Bytes(files[0] \o buf) \in Nat
  BY <1>5, BytesType, Zenon
<1> QED
  BY <1>1, <1>3, <1>4, <1>6, Zenon DEF Charged

LEMMA OneRecord == \A r \in Records : Bytes(<<>> \o <<r>>) = Size(r)
<1> SUFFICES ASSUME NEW r \in Records PROVE Bytes(<<>> \o <<r>>) = Size(r)
  OBVIOUS
<1>1. <<>> \o <<r>> = Append(<<>>, r)
  OBVIOUS
<1>2. Bytes(<<>>) = 0
  <2>1. {k \in DOMAIN <<>> : <<>>[k] \in Long} = {} /\ Len(<<>>) = 0
    OBVIOUS
  <2> QED
    BY <2>1, EmptyFile, FS_EmptySet DEF Bytes
<1>3. Bytes(Append(<<>>, r)) = Bytes(<<>>) + Size(r)
  BY BytesAppend, EmptyFile
<1> QED
  BY <1>1, <1>2, <1>3 DEF Size

LEMMA NoRecord == Bytes(<<>> \o <<>>) = 0
<1>1. <<>> \o <<>> = <<>>
  OBVIOUS
<1>2. {k \in DOMAIN <<>> : <<>>[k] \in Long} = {} /\ Len(<<>>) = 0
  OBVIOUS
<1> QED
  BY <1>1, <1>2, EmptyFile, FS_EmptySet DEF Bytes

(* One step: Charged is kept, and the limit respected.                     *)
LEMMA ChargedOK ==
  ASSUME IInv, Charged, Next
  PROVE  /\ Charged'
         /\ Wrote /\ fd' = "file 0" => \/ Bytes(files'[0] \o buf') <= max
                                       \/ Len(files'[0] \o buf') = 1
<1>1. CASE \E c \in Configs : Starts(c)
  <2>1. PICK c \in Configs : Starts(c)
    BY <1>1
  <2>2. fd = "null" /\ buf = <<>> /\ buf' = buf
    BY <2>1 DEF Starts, IInv, Phases
  <2>3. ~Wrote
    BY <2>2 DEF Wrote
  <2>4. ASSUME fd' = "file 0" PROVE Bytes(files'[0] \o buf') <= current'
    <3>1. Opens(CreateDirectory(dirs), files, FALSE) /\ current' = SizeAtOpen
      BY <2>1, <2>2, <2>4 DEF Starts, OpenRefused
    <3>2. files' \in FileSystem /\ files'[0] # Absent /\ 0 \in 0 .. MaxNum
      BY <3>1, OpenedFiles, Facts
    <3>3. files'[0] \in Seq(Records)
      BY <3>2 DEF FileSystem
    <3>4. files'[0] \o buf' = files'[0]
      BY <2>2, <3>3
    <3>5. Bytes(files'[0]) \in Nat
      BY <3>3, BytesType
    <3> QED
      BY <3>1, <3>4, <3>5 DEF SizeAtOpen
  <2> QED
    BY <2>3, <2>4 DEF Charged
<1>2. CASE Logs
  <2>1. /\ current' = current + Size(next) /\ next \in Records
        /\ current \in Nat /\ Size(next) \in Nat /\ max \in Nat
    <3>1. next <= MaxRecords /\ current' = current + Size(next)
      BY <1>2 DEF Logs
    <3> QED
      BY <3>1, Facts DEF Records, Size
  <2>2. CASE fd' # "file 0"
    BY <2>2 DEF Charged
  <2>3. CASE fd' = "file 0"
    <3>1. Writes(next) /\ fd = "file 0"
      BY <1>2, <2>3 DEF Logs
    <3>2. ~(current' > max)
      BY <1>2, <2>3 DEF Logs
    <3> DEFINE had == Bytes(files[0] \o buf)
               has == Bytes(files'[0] \o buf')
    <3>3. had \in Nat /\ had <= current
      BY <3>1, OpenFile, Zenon
    <3>4. CASE buf' = Append(buf, next) /\ files' = files
      <4>1. has = had + Size(next)
        BY <2>1, <3>1, <3>4, OpenFile, BytesBuffered, Zenon
      <4> HIDE DEF had, has
      <4>2. has <= current' /\ has <= max
        BY <2>1, <3>2, <3>3, <4>1
      <4> QED
        BY <4>2, Zenon DEF Charged, has
    <3>5. CASE buf' = <<>> /\ \E n \in 0 .. Len(buf) : files' = Drained(n)
      <4>1. PICK n \in 0 .. Len(buf) : files' = Drained(n)
        BY <3>5
      <4>2. has = Bytes(files[0] \o SubSeq(buf, 1, n))
        <5>1. files'[0] = files[0] \o SubSeq(buf, 1, n) /\ buf' = <<>>
          BY <3>1, <3>5, <4>1, OpenFile, Zenon
        <5>2. (files[0] \o SubSeq(buf, 1, n)) \o <<>> = files[0] \o SubSeq(buf, 1, n)
          BY <3>1, OpenFile, BytesDrained, Zenon
        <5> QED
          BY <5>1, <5>2, Zenon
      <4>3. has <= had
        BY <3>1, <4>1, <4>2, OpenFile, BytesDrained, Zenon
      <4>4. has \in Nat
        BY <3>1, <4>1, <4>2, OpenFile, BytesDrained, BytesType, Zenon
      <4>5. ~Wrote
        BY <3>5 DEF Wrote
      <4> HIDE DEF had, has
      <4>6. has <= current'
        BY <2>1, <3>3, <4>3, <4>4
      <4> QED
        BY <4>5, <4>6, Zenon DEF Charged, has
    <3> QED
      BY <3>1, <3>4, <3>5 DEF Writes
  <2> QED
    BY <2>2, <2>3
<1>3. CASE Skips \/ Removes \/ Renames
  <2>1. phase # "idle" /\ fd' = fd
    BY <1>3 DEF Skips, Removes, Renames, Rotates
  <2>2. fd' = "null"
    BY <2>1 DEF IInv, Phases
  <2> QED
    BY <2>2 DEF Charged
<1>4. CASE RenameRefused
  <2>1. /\ phase = "rename_file_" /\ current' = Counts(0) /\ buf' = buf
    BY <1>4 DEF RenameRefused
  <2>2. PICK fs \in {files, [files EXCEPT ![i] = Absent]} :
          Opens(dirs, fs, TRUE) \/ OpenRefused(dirs, fs)
    BY <1>4 DEF RenameRefused
  <2>3. fs \in FileSystem /\ \A n \in 0 .. MaxNum : fs[n] \in {files[n], Absent}
    BY <2>2, Facts DEF FileSystem
  <2>4. buf = <<>>
    BY <2>1 DEF IInv, Phases
  <2>5. fd' = "file 0" => files'[0] = <<>>
    BY <2>1, <2>2, <2>3, OpenedAnew
  <2>6. ~Wrote
    BY <2>1, <2>4 DEF Wrote
  <2>7. fd' = "file 0" => current' = 0
    BY <2>1 DEF Counts
  <2>8. ASSUME fd' = "file 0" PROVE Bytes(files'[0] \o buf') <= current'
    <3>1. files'[0] \o buf' = <<>> \o <<>>
      BY <2>1, <2>4, <2>5, <2>8, Zenon
    <3>2. Bytes(files'[0] \o buf') = 0
      BY <3>1, NoRecord, Zenon
    <3>3. \A m, n : m = 0 /\ n = 0 => m <= n
      OBVIOUS
    <3> QED
      BY <2>7, <2>8, <3>2, <3>3, Zenon
  <2> QED
    BY <2>6, <2>8, Zenon DEF Charged
<1>5. CASE Reopens
  <2>1. phase = "rotate_" /\ current' = Counts(Size(record)) /\ i = 0
    BY <1>5 DEF Reopens
  <2>2. Opens(dirs, files, TRUE) \/ OpenRefused(dirs, files)
    BY <1>5 DEF Reopens
  <2>3. fd' \in {"null", "file 0"} /\ (fd' = "file 0" => files'[0] = <<>>)
    BY <2>1, <2>2, OpenedAnew, Facts
  <2>4. record \in Records
    BY <2>1 DEF IInv, Phases
  <2>5. fd' = "file 0" => current' = Size(record) /\ (buf' = <<>> \/ buf' = <<record>>)
    BY <1>5, <2>1 DEF Reopens, OpenRefused, Counts
  <2>6. CASE fd' = "null"
    BY <2>6 DEF Charged
  <2>7. CASE fd' = "file 0" /\ buf' = <<>>
    <3>1. ~Wrote
      BY <2>7 DEF Wrote
    <3>2. 0 <= Size(record)
      BY DEF Size
    <3>3. files'[0] \o buf' = <<>> \o <<>> /\ current' = Size(record)
      BY <2>3, <2>5, <2>7, Zenon
    <3>4. Bytes(files'[0] \o buf') = 0
      BY <3>3, NoRecord, Zenon
    <3>5. Bytes(files'[0] \o buf') <= current'
      BY <3>2, <3>3, <3>4
    <3> QED
      BY <3>1, <3>5, Zenon DEF Charged
  <2>8. CASE fd' = "file 0" /\ buf' = <<record>>
    <3>1. Bytes(files'[0] \o buf') = Size(record) /\ Size(record) \in Nat
      BY <2>3, <2>4, <2>8, OneRecord DEF Size
    <3>2. Len(<<>> \o <<record>>) = 1
      OBVIOUS
    <3>3. Len(files'[0] \o buf') = 1
      BY <2>3, <2>8, <3>2
    <3>5. \A m, n : m \in Nat /\ m = n => m <= n
      OBVIOUS
    <3>4. Bytes(files'[0] \o buf') <= current'
      BY <2>5, <2>8, <3>1, <3>5, Zenon
    <3> QED
      BY <3>3, <3>4, Zenon DEF Charged
  <2> QED
    BY <2>3, <2>5, <2>6, <2>7, <2>8
<1>6. CASE Flushes
  <2>1. Drains /\ UNCHANGED <<fd, current>>
    BY <1>6 DEF Flushes
  <2>2. PICK n \in 0 .. Len(buf) : files' = Drained(n)
    <3>1. Len(buf) \in 0 .. Len(buf)
      BY Facts
    <3> QED
      BY <2>1, <3>1 DEF Drains
  <2>3. buf' = <<>>
    BY <2>1 DEF Drains
  <2>4. ~Wrote
    BY <2>3 DEF Wrote
  <2>5. ASSUME fd = "file 0" PROVE Bytes(files'[0] \o buf') <= current
    <3> DEFINE had == Bytes(files[0] \o buf)
               has == Bytes(files'[0] \o buf')
    <3>1. had \in Nat /\ had <= current /\ current \in Nat
      BY <2>5, OpenFile, Zenon
    <3>2. has = Bytes(files[0] \o SubSeq(buf, 1, n))
      <4>1. files'[0] = files[0] \o SubSeq(buf, 1, n)
        BY <2>2, <2>5, OpenFile, Zenon
      <4>2. (files[0] \o SubSeq(buf, 1, n)) \o <<>> = files[0] \o SubSeq(buf, 1, n)
        BY <2>5, OpenFile, BytesDrained, Zenon
      <4> QED
        BY <2>3, <4>1, <4>2, Zenon
    <3>3. has <= had
      BY <2>5, <3>2, OpenFile, BytesDrained, Zenon
    <3>4. has \in Nat
      BY <2>5, <3>2, OpenFile, BytesDrained, BytesType, Zenon
    <3> HIDE DEF had, has
    <3>5. has <= current
      BY <3>1, <3>3, <3>4
    <3> QED
      BY <3>5 DEF has
  <2> QED
    BY <2>1, <2>4, <2>5 DEF Charged
<1>7. CASE Removed
  <2>1. fd' # "file 0"
    BY <1>7 DEF Removed
  <2> QED
    BY <2>1 DEF Charged
<1>8. CASE Dies
  <2>1. fd' = "null"
    BY <1>8 DEF Dies
  <2> QED
    BY <2>1 DEF Charged
<1> QED
  BY <1>1, <1>2, <1>3, <1>4, <1>5, <1>6, <1>7, <1>8 DEF Next

(* sink_it_ rotates before the record that would take file 0 and the       *)
(* buffer beyond the limit, for any sizes of records, also after restarts  *)
(* with another limit and failed rotations: only a record that is alone    *)
(* may be larger.                                                          *)
THEOREM LogFileWithinLimit == Spec => WithinLimit
<1> DEFINE Step == Wrote /\ fd' = "file 0" => \/ Bytes(files'[0] \o buf') <= max
                                              \/ Len(files'[0] \o buf') = 1
<1>1. Init => Charged
  BY DEF Init, Charged
<1>2. ASSUME IInv, Charged, [Next]_vars PROVE Charged' /\ [Step]_vars
  <2>1. CASE Next
    BY <1>2, <2>1, ChargedOK
  <2>2. CASE UNCHANGED vars
    BY <1>2, <2>2 DEF Charged
  <2> QED
    BY <1>2, <2>1, <2>2
<1>3. [][Step]_vars => WithinLimit
  BY PTL DEF WithinLimit
<1> HIDE DEF Step
<1> QED
  BY <1>1, <1>2, <1>3, Invariant, PTL DEF Spec
-----------------------------------------------------------------------------
(* The configuration.                                                      *)

LEMMA ReadSection ==
  ASSUME NEW c \in Configs, NEW k \in 1 .. 3, NEW s,
         \A j \in Chain(c) : Complete(c[j])
  PROVE  /\ Reached(c) = Chain(c)
         /\ Overwritten(s, c, k) =
              IF k \in Chain(c) THEN [num |-> c[k].num, size |-> c[k].size] ELSE s
<1>1. Reached(c) = Chain(c)
  <2>1. ASSUME NEW j \in Chain(c), NEW l \in 1 .. j - 1 PROVE l \in Chain(c)
    BY <2>1 DEF Chain
  <2> QED
    BY <2>1 DEF Reached, Chain
<1>2. ASSUME k \in Chain(c)
      PROVE  Overwritten(s, c, k) = [num |-> c[k].num, size |-> c[k].size]
  <2>1. Numbers(c[k]) /\ c[k].num # Bad
    BY <1>2 DEF Complete, Numbers
  <2> QED
    BY <1>1, <1>2, <2>1 DEF Overwritten
<1>3. ASSUME k \notin Chain(c) PROVE Overwritten(s, c, k) = s
  BY <1>1, <1>3 DEF Overwritten
<1> QED
  BY <1>1, <1>2, <1>3

(* A configuration of which all that is reached can be read can be read to *)
(* the end of the chain.                                                   *)
LEMMA ReadableChain ==
  ASSUME NEW c \in Configs, Readable(c)
  PROVE  \A k \in Chain(c) : Complete(c[k])
<1>1. /\ Chain(c) \subseteq {1, 2, 3}
      /\ 2 \in Chain(c) => 1 \in Chain(c)
      /\ 3 \in Chain(c) => 2 \in Chain(c)
  BY DEF Chain
<1>2. ASSUME NEW k \in Chain(c), \A j \in 1 .. k - 1 : Complete(c[j])
      PROVE  Complete(c[k])
  BY <1>2 DEF Chain, Reached, Readable
<1>3. 1 \in Chain(c) => Complete(c[1])
  <2>1. \A j \in 1 .. 1 - 1 : Complete(c[j])
    OBVIOUS
  <2> QED
    BY <1>2, <2>1
<1>4. 2 \in Chain(c) => Complete(c[2])
  <2>1. \A j \in 1 .. 2 - 1 : j = 1
    OBVIOUS
  <2>2. 2 \in Chain(c) => \A j \in 1 .. 2 - 1 : Complete(c[j])
    BY <1>1, <1>3, <2>1
  <2> QED
    BY <1>2, <2>2
<1>5. 3 \in Chain(c) => Complete(c[3])
  <2>1. \A j \in 1 .. 3 - 1 : j = 1 \/ j = 2
    OBVIOUS
  <2>2. 3 \in Chain(c) => \A j \in 1 .. 3 - 1 : Complete(c[j])
    BY <1>1, <1>3, <1>4, <2>1
  <2> QED
    BY <1>2, <2>2
<1> QED
  BY <1>1, <1>3, <1>4, <1>5

(* The settings are those of the last section of the chain.                *)
LEMMA LastSection ==
  ASSUME NEW c \in Configs, Chain(c) # {} \/ settings = Default,
         \A j \in Chain(c) : Complete(c[j])
  PROVE  Loaded(c) = Wanted(c)
<1> DEFINE Setting(k) == [num |-> c[k].num, size |-> c[k].size]
           Of(s, k) == IF k \in Chain(c) THEN Setting(k) ELSE s
<1>1. Loaded(c) = Of(Of(Of(settings, 1), 2), 3)
  <2>1. 1 \in 1 .. 3 /\ 2 \in 1 .. 3 /\ 3 \in 1 .. 3
    OBVIOUS
  <2>2. ASSUME NEW k \in 1 .. 3, NEW s PROVE Overwritten(s, c, k) = Of(s, k)
    BY ReadSection
  <2> HIDE DEF Of
  <2>3. Loaded(c) = Overwritten(Overwritten(Overwritten(settings, c, 1), c, 2), c, 3)
    BY DEF Loaded
  <2>4. \A s : /\ Overwritten(s, c, 1) = Of(s, 1)
               /\ Overwritten(s, c, 2) = Of(s, 2)
               /\ Overwritten(s, c, 3) = Of(s, 3)
    BY <2>1, <2>2
  <2> QED
    BY <2>3, <2>4
<1>2. /\ 1 \in Chain(c) <=> c[1] # Missing
      /\ 2 \in Chain(c) <=> c[1] # Missing /\ c[2] # Missing
      /\ 3 \in Chain(c) <=> c[1] # Missing /\ c[2] # Missing /\ c[3] # Missing
      /\ Chain(c) \subseteq {1, 2, 3}
  BY DEF Chain
<1>3. CASE 1 \notin Chain(c)
  <2>1. Chain(c) = {}
    BY <1>2, <1>3
  <2>2. Loaded(c) = settings
    BY <1>1, <2>1
  <2> QED
    BY <2>1, <2>2 DEF Wanted
<1>4. ASSUME NEW k \in 1 .. 3, k \in Chain(c), \A j \in Chain(c) : j <= k
      PROVE  Wanted(c) = Setting(k)
  <2>1. \A m \in Chain(c) : (\A j \in Chain(c) : j <= m) => m = k
    BY <1>2, <1>4
  <2>2. (CHOOSE m \in Chain(c) : \A j \in Chain(c) : j <= m) = k
    BY <1>4, <2>1
  <2> QED
    BY <1>4, <2>2, Zenon DEF Wanted
<1> HIDE DEF Setting
<1>5. CASE 1 \in Chain(c) /\ 2 \notin Chain(c)
  <2>1. Chain(c) = {1}
    BY <1>2, <1>5
  <2>2. Wanted(c) = Setting(1)
    BY <1>4, <2>1
  <2>3. 1 \in Chain(c) /\ 2 \notin Chain(c) /\ 3 \notin Chain(c)
    BY <2>1
  <2> QED
    BY <1>1, <2>2, <2>3, Zenon
<1>6. CASE 2 \in Chain(c) /\ 3 \notin Chain(c)
  <2>1. Chain(c) = {1, 2}
    BY <1>2, <1>6
  <2>2. Wanted(c) = Setting(2)
    BY <1>4, <2>1
  <2> QED
    BY <1>1, <1>6, <2>2, Zenon
<1>7. CASE 3 \in Chain(c)
  <2>1. Chain(c) = {1, 2, 3}
    BY <1>2, <1>7
  <2>2. Wanted(c) = Setting(3)
    BY <1>4, <2>1
  <2> QED
    BY <1>1, <1>7, <2>2, Zenon
<1> QED
  BY <1>2, <1>3, <1>5, <1>6, <1>7

(* CLog::init fails exactly for an entry that cannot be read or a refusal, *)
(* although CreateDirectory makes only the first directory, and takes the  *)
(* settings from the last section of the chain, whatever a failed one has  *)
(* left: for any configuration.                                            *)
THEOREM LogFileStartsAsConfigured == Spec => StartsAsConfigured
<1> DEFINE Step ==
      \A c \in Configs :
        Starts(c) /\ ~refused'
          => /\ proc' = "on" <=> \A k \in Chain(c) : Complete(c[k])
             /\ proc' = "on" /\ (Chain(c) # {} \/ settings = Default)
                  => settings' = Wanted(c)
<1>1. ASSUME IInv, [Next]_vars PROVE [Step]_vars
  <2>1. ASSUME NEW c \in Configs, Starts(c), ~refused'
        PROVE  /\ proc' = "on" <=> \A k \in Chain(c) : Complete(c[k])
               /\ proc' = "on" /\ (Chain(c) # {} \/ settings = Default)
                    => settings' = Wanted(c)
    <3>1. settings' = Loaded(c) /\ proc = "new"
      BY <2>1 DEF Starts
    <3>2. ~OpenRefused(dirs, files)
      BY <2>1 DEF OpenRefused
    <3>3. ASSUME \A k \in Chain(c) : Complete(c[k]) PROVE proc' = "on"
      <4>1. 1 \in 1 .. 3 /\ Reached(c) = Chain(c)
        BY <3>3, ReadSection
      <4>2. Readable(c)
        BY <3>3, <4>1, Zenon DEF Readable
      <4>3. Opens(CreateDirectory(dirs), files, FALSE) /\ (fd' # "null" => proc' = "on")
        BY <2>1, <3>2, <4>2, Zenon DEF Starts
      <4>4. fd' = "file 0"
        BY <1>1, <4>3, OpenedFiles, Facts
      <4> QED
        BY <4>3, <4>4
    <3>4. ASSUME proc' = "on" PROVE \A k \in Chain(c) : Complete(c[k])
      <4>1. Readable(c)
        BY <2>1, <3>1, <3>4 DEF Starts
      <4> QED
        BY <4>1, ReadableChain
    <3> QED
      BY <3>1, <3>3, <3>4, LastSection
  <2> QED
    BY <2>1
<1>2. [][Step]_vars => StartsAsConfigured
  BY PTL DEF StartsAsConfigured
<1> HIDE DEF Step
<1> QED
  BY <1>1, <1>2, Invariant, PTL DEF Spec
=============================================================================
