------------------------------ MODULE LogFile ------------------------------
(***************************************************************************)
(* The log's files: CLog::init with its configuration and directories      *)
(* (include/Log.h, FileDir.h), and the rotating file that it opens         *)
(* (include/spdlog: sinks/rotating_file_sink-inl.h, details/               *)
(* file_helper-inl.h, details/os-inl.h).  One thread, the worker of        *)
(* AsyncLog, writes; another program may remove the directory, the kernel  *)
(* may refuse any call, and the process may die between any two of them    *)
(* and be started again with the same pid on the same day, as it is in a   *)
(* container: it then goes on with the same files.                         *)
(*                                                                         *)
(* Records are numbered.  Of the settings the level and the directory,     *)
(* which setLogAtt replaces, are left out.                                 *)
(***************************************************************************)
EXTENDS Integers, Sequences, FiniteSets

CONSTANTS
  Configs,      (* the configurations: see Config                          *)
  Missing, Bad, (* a section that is not there, a number that is no number *)
  Absent,       (* a file that does not exist                              *)
  DefaultNum, DefaultSize,
  Mega,         (* 1024 * 1024                                             *)
  WordSize,     (* the modulus of size_t                                   *)
  Long,         (* the records of size 2; the others have size 1           *)
  MaxNum,       (* BOUND: the old files that a configuration asks for      *)
  MaxRecords,   (* BOUND: the records that are logged                      *)
  MaxStarts     (* BOUND: calls of init                                    *)

(* The sections "default", that of the process' name, and that of its name *)
(* and pid.  A file that does not exist has no section.  One that is not   *)
(* JSON, or has no level that can be read, is Bad in the first number: it  *)
(* makes init throw before it assigns.  Of dir, which is read last, only   *)
(* counts whether it is a string.                                          *)
Entries == [num : (0 .. MaxNum) \cup {Bad}, size : Nat \cup {Bad}, dir : BOOLEAN]
Section == Entries \cup {Missing}
Config  == [1 .. 3 -> Section]

ASSUME LogFileAssumption ==
  /\ Configs \subseteq Config
  /\ Bad \notin Nat
  /\ Missing \notin Entries
  /\ Absent \notin Seq(Nat)
  /\ DefaultNum \in 0 .. MaxNum /\ DefaultSize \in Nat
  /\ Mega \in Nat \ {0} /\ WordSize \in Nat \ {0}
  /\ MaxNum \in Nat /\ MaxRecords \in Nat /\ MaxStarts \in Nat

Records == 1 .. MaxRecords

VARIABLES
  proc,         (* "new": not initialised; "on"                            *)
  settings,     (* _logConfig                                              *)
  max, num,     (* the sink's max_size_ and max_files_                     *)
  dirs,         (* how many of "log" and "log/<process>" exist             *)
  files,        (* file 0 and the numbered ones: what the kernel has       *)
  fd,           (* file_helper's fd_: "null", "file 0", or "unlinked"      *)
  buf,          (* the records in the buffer of fd_                        *)
  current,      (* current_size_                                           *)
  phase,        (* in "rotate_", in "rename_file_" between its calls, or   *)
                (* "idle"                                                  *)
  i,            (* its loop's index                                        *)
  record,       (* the record that sink_it_ has got                        *)
  refused,      (* history: the kernel has refused something during the    *)
                (* last init or for the last record                        *)
  next, starts  (* the numbers of the next record and of calls of init     *)

limits == <<settings, max, num>>
disk   == <<dirs, files>>
stream == <<fd, buf, current>>
job    == <<phase, i, record>>
vars   == <<proc, limits, disk, stream, job, refused, next, starts>>

Default == [num |-> DefaultNum, size |-> DefaultSize]

Init ==
  /\ proc = "new"
  /\ settings = Default /\ max = 0 /\ num = 0
  /\ dirs = 0 /\ files = [n \in 0 .. MaxNum |-> Absent]
  /\ fd = "null" /\ buf = <<>> /\ current = 0
  /\ phase = "idle" /\ i = 0 /\ record = 0
  /\ refused = FALSE
  /\ next = 1 /\ starts = 0
-----------------------------------------------------------------------------
(* The configuration.                                                      *)

Numbers(s) == s.num # Bad /\ s.size # Bad

Complete(s) == Numbers(s) /\ s.dir

(* The sections that are read: up to one that is not there, or that makes  *)
(* the conversion throw.                                                   *)
Reached(c) ==
  {k \in 1 .. 3 : /\ \A j \in 1 .. k : c[j] # Missing
                  /\ \A j \in 1 .. k - 1 : Complete(c[j])}

Readable(c) == \A k \in Reached(c) : Complete(c[k])

(* A section overwrites the settings s, number by number, and keeps what   *)
(* it has overwritten when a later entry makes it throw.                   *)
Overwritten(s, c, k) ==
  IF k \notin Reached(c) THEN s
  ELSE [num  |-> IF c[k].num = Bad THEN s.num ELSE c[k].num,
        size |-> IF Numbers(c[k]) THEN c[k].size ELSE s.size]

(* loadLogConfig. *)
Loaded(c) == Overwritten(Overwritten(Overwritten(settings, c, 1), c, 2), c, 3)

(* In bytes, as far as a size_t goes. *)
MaxSize(s) == (s.size * Mega) % WordSize
-----------------------------------------------------------------------------
(* Files.                                                                  *)

Size(r) == IF r \in Long THEN 2 ELSE 1

(* A file's records, and its bytes. *)
In(s) == IF s = Absent THEN {} ELSE {s[k] : k \in DOMAIN s}

Bytes(s) ==
  IF s = Absent THEN 0
  ELSE Len(s) + Cardinality({k \in DOMAIN s : s[k] \in Long})

(* The first n records of the buffer reach the kernel; those for a file    *)
(* without a name are gone.                                                *)
Drained(n) ==
  IF fd = "file 0" THEN [files EXCEPT ![0] = @ \o SubSeq(buf, 1, n)] ELSE files

(* fflush and fclose: all of the buffer, or, when a write is refused, some *)
(* of it; the rest is dropped.                                             *)
Drains ==
  /\ buf' = <<>>
  /\ \/ files' = Drained(Len(buf)) /\ refused' = FALSE
     \/ \E n \in 0 .. Len(buf) : files' = Drained(n) /\ refused' = TRUE

(* CreateDirectory is given a path with no slash at its end, and so makes  *)
(* the first directory only.  Its result is not looked at.                 *)
CreateDirectory(d) == IF d = 0 THEN 1 ELSE d

create_dir_Not(d) == d

(* os::create_dir makes all that are missing. *)
create_dir(d) == 2

(* file_helper::open in a file system fs with the first d directories.     *)
Opens(d, fs, truncate) ==
  /\ dirs' = create_dir(d)
  /\ IF dirs' = 2
     THEN /\ files' =
               [fs EXCEPT ![0] = IF truncate \/ @ = Absent THEN <<>> ELSE @]
          /\ fd' = "file 0"
     ELSE files' = fs /\ fd' = "null"

(* It throws when the kernel refuses it a directory or the file five times *)
(* over.                                                                   *)
OpenRefused(d, fs) ==
  /\ dirs' \in d .. 2
  /\ files' = fs /\ fd' = "null"
  /\ refused' = TRUE

SizeAtOpen_Zero == 0

(* What the constructor of the sink finds as the size of the file. *)
SizeAtOpen == Bytes(files'[0])

(* CLog::init in a process that has no log yet.  When it throws, the       *)
(* process may call it again.                                              *)
Starts(c) ==
  /\ proc = "new" /\ starts < MaxStarts
  /\ starts' = starts + 1
  /\ settings' = Loaded(c)
  /\ \/ /\ ~Readable(c)
        /\ refused' = FALSE
        /\ UNCHANGED <<proc, max, num, disk, fd, current>>
     \/ /\ Readable(c)
        /\ OpenRefused(dirs, files)
        /\ UNCHANGED <<proc, max, num, current>>
     \/ /\ Readable(c)
        /\ Opens(CreateDirectory(dirs), files, FALSE)
        /\ refused' = FALSE
        /\ IF fd' = "null" THEN UNCHANGED <<proc, max, num, current>>
           ELSE /\ proc' = "on"
                /\ max' = MaxSize(settings') /\ num' = settings'.num
                /\ current' = SizeAtOpen
  /\ UNCHANGED <<buf, job, next>>
-----------------------------------------------------------------------------
(* rotating_file_sink.                                                     *)

(* file_helper::write; the record may be lost, and some of the buffer too. *)
Writes(r) ==
  \/ /\ buf' = Append(buf, r)
     /\ refused' = FALSE
     /\ UNCHANGED files
  \/ /\ buf' = <<>>
     /\ refused' = TRUE
     /\ \E n \in 0 .. Len(buf) : files' = Drained(n)

(* sink_it_, up to the first rename when it rotates. *)
Logs ==
  /\ proc = "on" /\ phase = "idle" /\ next <= MaxRecords
  /\ record' = next /\ next' = next + 1
  /\ current' = current + Size(next)
  /\ IF current' > max
     THEN /\ Drains
          /\ fd' = "null"
          /\ phase' = "rotate_" /\ i' = num
     ELSE Writes(next) /\ UNCHANGED <<fd, phase, i>>
  /\ UNCHANGED <<proc, limits, dirs, starts>>

Rotates ==
  /\ phase = "rotate_" /\ i > 0
  /\ UNCHANGED <<proc, limits, dirs, stream, record, next, starts>>

Skips_Breaks ==
  /\ Rotates /\ files[i - 1] = Absent
  /\ i' = 0
  /\ UNCHANGED <<files, phase, refused>>

(* There is no file i - 1. *)
Skips ==
  /\ Rotates /\ files[i - 1] = Absent
  /\ i' = i - 1
  /\ UNCHANGED <<files, phase, refused>>

(* There is one: rename_file_ removes file i.  It does not look whether    *)
(* the kernel has refused.                                                 *)
Removes ==
  /\ Rotates /\ files[i - 1] # Absent
  /\ phase' = "rename_file_"
  /\ \/ files' = [files EXCEPT ![i] = Absent] /\ UNCHANGED refused
     \/ UNCHANGED files /\ refused' = TRUE
  /\ UNCHANGED i

Renames_Copies ==
  /\ phase = "rename_file_" /\ files[i - 1] # Absent
  /\ files' = [files EXCEPT ![i] = files[i - 1]]
  /\ phase' = "rotate_" /\ i' = i - 1
  /\ UNCHANGED <<proc, limits, dirs, stream, record, refused, next, starts>>

(* File i - 1 takes the number i. *)
Renames ==
  /\ phase = "rename_file_" /\ files[i - 1] # Absent
  /\ files' = [files EXCEPT ![i] = files[i - 1], ![i - 1] = Absent]
  /\ phase' = "rotate_" /\ i' = i - 1
  /\ UNCHANGED <<proc, limits, dirs, stream, record, refused, next, starts>>

Counts_First(n) == n

(* current_size_ is set when the file is open. *)
Counts(n) == IF fd' = "null" THEN current ELSE n

(* rename_file_ fails twice, also because another program has removed the  *)
(* directory: file 0 is emptied, and the record given up.                  *)
RenameRefused ==
  /\ phase = "rename_file_"
  /\ \E fs \in {files, [files EXCEPT ![i] = Absent]} :
       \/ Opens(dirs, fs, TRUE) /\ refused' = TRUE
       \/ OpenRefused(dirs, fs)
  /\ current' = Counts(0)
  /\ phase' = "idle"
  /\ UNCHANGED <<proc, limits, buf, i, record, next, starts>>

(* The end of rotate_, and of sink_it_. *)
Reopens ==
  /\ phase = "rotate_" /\ i = 0
  /\ \/ /\ Opens(dirs, files, TRUE)
        /\ IF fd' = "null" THEN UNCHANGED <<buf, refused>>
           ELSE \/ buf' = <<record>> /\ UNCHANGED refused
                \/ buf' = <<>> /\ refused' = TRUE
     \/ OpenRefused(dirs, files) /\ UNCHANGED buf
  /\ current' = Counts(Size(record))
  /\ phase' = "idle"
  /\ UNCHANGED <<proc, limits, i, record, next, starts>>

(* flush_: nothing when the file is not open. *)
Flushes ==
  /\ proc = "on" /\ phase = "idle" /\ buf # <<>>
  /\ Drains
  /\ UNCHANGED <<proc, limits, dirs, fd, current, job, next, starts>>
-----------------------------------------------------------------------------
(* The rest of the world.                                                  *)

(* Another program removes the directory with all that is in it. *)
Removed ==
  /\ dirs > 0
  /\ dirs' = 0 /\ files' = [n \in 0 .. MaxNum |-> Absent]
  /\ fd' = IF fd = "file 0" THEN "unlinked" ELSE fd
  /\ UNCHANGED <<proc, limits, buf, current, job, refused, next, starts>>

(* The process ends in any way, and is started again.  Some of the buffer  *)
(* may have reached the kernel before, all of it when the end is orderly.  *)
Dies ==
  /\ starts > 0
  /\ proc' = "new" /\ settings' = Default /\ max' = 0 /\ num' = 0
  /\ \E n \in 0 .. Len(buf) : files' = Drained(n)
  /\ fd' = "null" /\ buf' = <<>> /\ current' = 0
  /\ phase' = "idle" /\ i' = 0 /\ record' = 0 /\ refused' = FALSE
  /\ UNCHANGED <<dirs, next, starts>>

Next ==
  \/ \E c \in Configs : Starts(c)
  \/ Logs \/ Skips \/ Removes \/ Renames \/ RenameRefused \/ Reopens \/ Flushes
  \/ Removed \/ Dies

Spec == Init /\ [][Next]_vars
-----------------------------------------------------------------------------
(* Properties.                                                             *)

TypeOK ==
  /\ proc \in {"new", "on"}
  /\ settings \in [num : 0 .. MaxNum, size : Nat]
  /\ max \in 0 .. WordSize - 1 /\ num \in 0 .. MaxNum
  /\ dirs \in 0 .. 2
  /\ files \in [0 .. MaxNum -> Seq(Records) \cup {Absent}]
  /\ fd \in {"null", "file 0", "unlinked"}
  /\ buf \in Seq(Records) /\ current \in Nat
  /\ phase \in {"idle", "rotate_", "rename_file_"}
  /\ i \in 0 .. MaxNum /\ record \in 0 .. MaxRecords
  /\ refused \in BOOLEAN
  /\ next \in 1 .. MaxRecords + 1 /\ starts \in 0 .. MaxStarts

Kept == In(buf) \cup UNION {In(files[n]) : n \in 0 .. MaxNum}

Wrote == buf' # <<>> /\ buf' # buf

(* The sections up to one that is missing; the last of them counts.        *)
Chain(c) == {k \in 1 .. 3 : \A j \in 1 .. k : c[j] # Missing}

Wanted(c) ==
  IF Chain(c) = {} THEN Default
  ELSE LET last == c[CHOOSE k \in Chain(c) : \A j \in Chain(c) : j <= k]
       IN  [num |-> last.num, size |-> last.size]

(* When the kernel refuses nothing, init fails exactly if an entry of a    *)
(* section in the chain cannot be read: that CreateDirectory leaves out    *)
(* the last directory, and that nobody looks at its result, is made up     *)
(* for; a section behind one that is missing does not count.  It takes the *)
(* settings from the last section of the chain, whatever an init that      *)
(* failed half-way has left of another configuration; only with no section *)
(* at all such remains are used in place of the defaults.                  *)
StartsAsConfigured ==
  [][\A c \in Configs :
       Starts(c) /\ ~refused'
         => /\ proc' = "on" <=> \A k \in Chain(c) : Complete(c[k])
            /\ proc' = "on" /\ (Chain(c) # {} \/ settings = Default)
                 => settings' = Wanted(c)]_vars

(* No record is written to a file that is not open, whatever has failed    *)
(* before; and one for which the kernel refuses nothing is written: the    *)
(* sink gets over every failed rotation.                                   *)
WrittenUnlessRefused ==
  [][/\ Wrote => fd' # "null"
     /\   /\ proc' = "on" /\ phase' = "idle" /\ ~refused'
          /\ phase # "idle" \/ next' # next
        => Wrote]_vars

(* Through restarts, which may change the limit, and failed rotations, no  *)
(* record takes the file beyond the limit, unless it is the only one.      *)
WithinLimit ==
  [][Wrote /\ fd' = "file 0" =>
       \/ Bytes(files'[0] \o buf') <= max
       \/ Len(files'[0] \o buf') = 1]_vars

Increasing(q) == q # Absent => \A j, k \in DOMAIN q : j < k => q[j] < q[k]

Aged(fs, b) ==
  /\ Increasing(b)
  /\ \A n \in 0 .. MaxNum : /\ Increasing(fs[n])
                             /\ \A r \in In(fs[n]), s \in In(b) : r < s
  /\ \A m, n \in 0 .. MaxNum :
       m < n => \A r \in In(fs[n]), s \in In(fs[m]) : r < s

(* The numbered files, the file and the buffer, oldest first, hold records *)
(* in the order in which they were logged, and none twice: also after a    *)
(* rotation that was interrupted half-way.                                 *)
AgeOrder == Aged(files, buf)

(* The files that a run with more of them has left: this one does not      *)
(* count them.                                                             *)
LeftOver(n) == n > num

(* When the kernel refuses nothing, a living process loses only records of *)
(* the last file that it counts.  They are older than all that it keeps in *)
(* the others and in the buffer, though not than those in the files left   *)
(* over, which it never touches.                                           *)
LosesOnlyOldest ==
  [][proc' = proc /\ ~refused' /\ dirs' >= dirs /\ fd # "unlinked"
       => /\ \A n \in 0 .. MaxNum : LeftOver(n) => files'[n] = files[n]
          /\ \A r \in Kept \ (Kept') :
               /\ r \in In(files[num])
               /\ \A n \in 0 .. MaxNum :
                    ~LeftOver(n) => \A q \in In(files'[n]) \cup In(buf') : r < q]_vars
=============================================================================
