------------------------------ MODULE AsyncLog ------------------------------
(***************************************************************************)
(* The asynchronous log that Log.h sets up (setLogAtt): threads that log,  *)
(* the periodic flusher, a bounded queue that blocks them when it is full, *)
(* and one worker that writes the file.  Code in include/Log.h and, under  *)
(* include/spdlog: async_logger-inl.h and, in details, thread_pool-inl.h,  *)
(* mpmc_blocking_q.h, periodic_worker-inl.h and registry-inl.h.            *)
(*                                                                         *)
(* What a thread does under the queue's mutex is one step, and so is each  *)
(* notification, which comes after the mutex is released.  The pool of the *)
(* worker is owned by the registry and, while it posts, by each thread; it *)
(* is destroyed by whoever drops it last.  A critical record aborts the    *)
(* process after a flush.  Left out: levels, texts, the sink's failures    *)
(* (LogFile) and the console logger that the flusher flushes too.          *)
(***************************************************************************)
EXTENDS Integers, Sequences, FiniteSets

CONSTANTS
  Callers,      (* the threads that log: the loop's and others             *)
  Main,         (* the one that calls safeClose                            *)
  Flusher,      (* the thread of the periodic flusher                      *)
  None,         (* no thread                                               *)
  Capacity,     (* messages that fit in the queue                          *)
  MaxRecords,   (* BOUND: records that are logged                          *)
  MaxTicks      (* BOUND: periods of the flusher                           *)

ASSUME AsyncAssumption ==
  /\ Main \in Callers /\ Flusher \notin Callers
  /\ IsFiniteSet(Callers)
  /\ None \notin Callers \cup {Flusher}
  /\ Capacity \in Nat \ {0} /\ MaxRecords \in Nat /\ MaxTicks \in Nat

Threads == Callers \cup {Flusher}

(* A record's id is its place among all the records; that of a flush or a  *)
(* terminate message is the number of the records before it.               *)
Message == [kind: {"log", "flush", "terminate"}, id: 0 .. MaxRecords]

Blank == [kind |-> "log", id |-> 0]

Q == INSTANCE RingQueue

VARIABLES
  alive,        (* the process has not aborted                             *)
  at,           (* at[t]: where thread t is                                *)
  task,         (* task[t]: what it is there for                           *)
  ring,         (* q_                                                      *)
  worker,       (* where the worker is                                     *)
  taken,        (* the message it has taken out                            *)
  file,         (* the ids of the records it has written                   *)
  synced,       (* how many of them the kernel has got                     *)
  tp,           (* whether the registry has the pool                       *)
  destroyer,    (* the thread that runs ~thread_pool, or None              *)
  flusherOn,    (* active_ of the periodic flusher                         *)
  down,         (* whether safeClose has returned                          *)
  accepted,     (* history: the number of records in or through the queue  *)
  calls, ticks  (* records and periods so far, for the bounds              *)

queueing == <<ring, accepted>>
writing  == <<taken, file, synced>>
closing  == <<tp, flusherOn, down>>
bounds   == <<calls, ticks>>
vars     == <<alive, at, task, queueing, worker, writing, closing, destroyer, bounds>>

TypeOK ==
  /\ alive \in BOOLEAN
  /\ at \in [Threads -> {"idle", "begin", "enqueue", "waiting", "notify", "join",
                         "stopping", "reset"}]
  /\ task \in [Threads -> {"none", "record", "critical", "flush", "last flush",
                           "shutdown"}]
  /\ ring \in Q!Ring
  /\ worker \in {"loop", "waiting", "notify", "handle", "stopped"}
  /\ taken \in Message
  /\ file \in Seq(1 .. MaxRecords) /\ synced \in 0 .. Len(file)
  /\ tp \in BOOLEAN /\ flusherOn \in BOOLEAN /\ down \in BOOLEAN
  /\ destroyer \in Threads \cup {None}
  /\ accepted \in 0 .. MaxRecords
  /\ calls \in 0 .. MaxRecords /\ ticks \in 0 .. MaxTicks

Init ==
  /\ alive = TRUE
  /\ at = [t \in Threads |-> "idle"] /\ task = [t \in Threads |-> "none"]
  /\ ring = Q!NewRing /\ accepted = 0
  /\ worker = "loop" /\ taken = Blank
  /\ file = <<>> /\ synced = 0
  /\ tp = TRUE /\ flusherOn = TRUE /\ down = FALSE
  /\ destroyer = None
  /\ calls = 0 /\ ticks = 0
-----------------------------------------------------------------------------
(* Posting.                                                                *)

Goes(t, place) == at' = [at EXCEPT ![t] = place]

(* The threads with a pointer to the pool from thread_pool_.lock(). *)
Holders == {t \in Threads \ {destroyer} : at[t] \in {"enqueue", "waiting", "notify"}}

PoolExists == tp \/ Holders # {}

(* What a thread goes on with after its message was posted or refused.  A  *)
(* refused flush is an exception that leaves a destructor, which ends the  *)
(* process as abort does.                                                  *)
Continues(t) ==
  \/ /\ task[t] \in {"record", "flush"}
     /\ Goes(t, "idle") /\ task' = [task EXCEPT ![t] = "none"]
     /\ UNCHANGED alive
  \/ /\ task[t] = "critical"
     /\ Goes(t, "begin") /\ task' = [task EXCEPT ![t] = "last flush"]
     /\ UNCHANGED alive
  \/ /\ task[t] = "last flush"
     /\ alive' = FALSE
     /\ UNCHANGED <<at, task>>

Starts(t, what) ==
  /\ at[t] = "idle"
  /\ Goes(t, "begin")
  /\ task' = [task EXCEPT ![t] = what]

(* A log macro: ~LogOpearator. *)
Logs(t) ==
  /\ alive /\ calls < MaxRecords
  /\ \E what \in {"record", "critical"} : Starts(t, what)
  /\ calls' = calls + 1
  /\ UNCHANGED <<alive, queueing, worker, writing, closing, destroyer, ticks>>

(* The periodic flusher calls flush_all. *)
Ticks ==
  /\ alive /\ flusherOn /\ ticks < MaxTicks
  /\ Starts(Flusher, "flush")
  /\ ticks' = ticks + 1
  /\ UNCHANGED <<alive, queueing, worker, writing, closing, destroyer, calls>>

(* sink_it_ and flush_ lock the pool, or throw when it does not exist any  *)
(* more; logger::log catches that.                                         *)
Begins(t) ==
  /\ alive /\ at[t] = "begin"
  /\ IF PoolExists
     THEN Goes(t, "enqueue") /\ UNCHANGED <<alive, task>>
     ELSE Continues(t)
  /\ UNCHANGED <<queueing, worker, writing, closing, destroyer, bounds>>

Posted(t) ==
  IF destroyer = t THEN [kind |-> "terminate", id |-> accepted]
  ELSE IF task[t] \in {"record", "critical"} THEN [kind |-> "log", id |-> accepted + 1]
  ELSE [kind |-> "flush", id |-> accepted]

(* mpmc_blocking_queue::enqueue, up to the release of the mutex. *)
Enqueues(t) ==
  /\ alive /\ at[t] = "enqueue"
  /\ IF Q!IsFull(ring)
     THEN Goes(t, "waiting") /\ UNCHANGED queueing
     ELSE /\ Goes(t, "notify")
          /\ ring' = Q!PushBack(ring, Posted(t))
          /\ accepted' = IF Posted(t).kind = "log" THEN accepted + 1 ELSE accepted
  /\ UNCHANGED <<alive, task, worker, writing, closing, destroyer, bounds>>

(* A condition variable may wake its waiters for no reason. *)
WakesUp(t) ==
  /\ alive /\ at[t] = "waiting"
  /\ Goes(t, "enqueue")
  /\ UNCHANGED <<alive, task, queueing, worker, writing, closing, destroyer, bounds>>

(* push_cv_.notify_one. *)
WorkerNotified == IF worker = "waiting" THEN "loop" ELSE worker

(* The worker is notified, and the pointer to the pool dropped: whoever    *)
(* has the last one runs ~thread_pool, which posts a terminate message.    *)
Notifies(t) ==
  /\ alive /\ at[t] = "notify"
  /\ worker' = WorkerNotified
  /\ CASE destroyer = t ->
            Goes(t, "join") /\ UNCHANGED <<alive, task, destroyer>>
       [] destroyer # t /\ ~tp /\ Holders = {t} ->
            Goes(t, "enqueue") /\ destroyer' = t /\ UNCHANGED <<alive, task>>
       [] OTHER -> Continues(t) /\ UNCHANGED destroyer
  /\ UNCHANGED <<queueing, writing, closing, bounds>>

(* ~thread_pool has joined the worker. *)
Joins(t) ==
  /\ alive /\ at[t] = "join"
  /\ worker = "stopped"
  /\ destroyer' = None
  /\ IF task[t] = "shutdown"
     THEN /\ Goes(t, "idle") /\ task' = [task EXCEPT ![t] = "none"]
          /\ down' = TRUE
          /\ UNCHANGED alive
     ELSE Continues(t) /\ UNCHANGED down
  /\ UNCHANGED <<queueing, worker, writing, tp, flusherOn, bounds>>
-----------------------------------------------------------------------------
(* registry::shutdown.                                                     *)

ShutsDown ==
  /\ alive /\ at[Main] = "idle" /\ flusherOn
  /\ Goes(Main, "stopping")
  /\ task' = [task EXCEPT ![Main] = "shutdown"]
  /\ UNCHANGED <<alive, queueing, worker, writing, closing, destroyer, bounds>>

(* ~periodic_worker takes the mutex that the flusher holds in its call of  *)
(* flush_all, and joins it; then drop_all.                                 *)
StopsFlusher ==
  /\ alive /\ at[Main] = "stopping"
  /\ at[Flusher] = "idle"
  /\ flusherOn' = FALSE
  /\ Goes(Main, "reset")
  /\ UNCHANGED <<alive, task, queueing, worker, writing, tp, down, destroyer, bounds>>

ResetsPool_OnlyJoins ==
  /\ alive /\ at[Main] = "reset"
  /\ tp' = FALSE
  /\ destroyer' = Main
  /\ Goes(Main, "join")
  /\ UNCHANGED <<alive, task, queueing, worker, writing, flusherOn, down, bounds>>

ResetsPool ==
  /\ alive /\ at[Main] = "reset"
  /\ tp' = FALSE
  /\ IF Holders = {}
     THEN /\ destroyer' = Main
          /\ Goes(Main, "enqueue")
          /\ UNCHANGED <<task, down>>
     ELSE /\ Goes(Main, "idle") /\ task' = [task EXCEPT ![Main] = "none"]
          /\ down' = TRUE
          /\ UNCHANGED destroyer
  /\ UNCHANGED <<alive, queueing, worker, writing, flusherOn, bounds>>

Thread(t) == Begins(t) \/ Enqueues(t) \/ Notifies(t) \/ Joins(t)

Closing == StopsFlusher \/ ResetsPool
-----------------------------------------------------------------------------
(* The worker: process_next_msg_.                                          *)

(* dequeue_for, up to the release of the mutex. *)
Dequeues ==
  /\ alive /\ worker = "loop"
  /\ IF Q!IsEmpty(ring)
     THEN worker' = "waiting" /\ UNCHANGED <<ring, taken>>
     ELSE /\ worker' = "notify"
          /\ taken' = Q!Front(ring)
          /\ ring' = Q!PopFront(ring)
  /\ UNCHANGED <<alive, at, task, accepted, file, synced, closing, destroyer, bounds>>

(* After ten seconds, or for no reason. *)
TimesOut ==
  /\ alive /\ worker = "waiting"
  /\ worker' = "loop"
  /\ UNCHANGED <<alive, at, task, queueing, writing, closing, destroyer, bounds>>

NotifiesCaller_OnlyIfItWasFull ==
  /\ alive /\ worker = "notify"
  /\ worker' = "handle"
  /\ LET waiting == {t \in Threads : at[t] = "waiting"}
     IN  IF waiting = {} \/ Q!Size(ring) # Capacity - 1 THEN UNCHANGED at
         ELSE \E t \in waiting : Goes(t, "enqueue")
  /\ UNCHANGED <<alive, task, queueing, writing, closing, destroyer, bounds>>

(* pop_cv_.notify_one. *)
NotifiesCaller ==
  /\ alive /\ worker = "notify"
  /\ worker' = "handle"
  /\ LET waiting == {t \in Threads : at[t] = "waiting"}
     IN  IF waiting = {} THEN UNCHANGED at
         ELSE \E t \in waiting : Goes(t, "enqueue")
  /\ UNCHANGED <<alive, task, queueing, writing, closing, destroyer, bounds>>

Flushes_Nothing == synced' = synced

(* backend_flush_. *)
Flushes == synced' = Len(file)

(* The record is formatted into the buffer of the file, which may spill. *)
Handles ==
  /\ alive /\ worker = "handle"
  /\ \/ /\ taken.kind = "log"
        /\ file' = Append(file, taken.id)
        /\ synced' \in synced .. Len(file')
        /\ worker' = "loop"
     \/ /\ taken.kind = "flush"
        /\ Flushes
        /\ worker' = "loop"
        /\ UNCHANGED file
     \/ /\ taken.kind = "terminate"
        /\ worker' = "stopped"
        /\ UNCHANGED <<file, synced>>
  /\ UNCHANGED <<alive, at, task, queueing, taken, closing, destroyer, bounds>>

Worker == Dequeues \/ NotifiesCaller \/ Handles
-----------------------------------------------------------------------------
Next ==
  \/ \E t \in Callers : Logs(t)
  \/ Ticks
  \/ \E t \in Threads : Thread(t) \/ WakesUp(t)
  \/ ShutsDown \/ Closing
  \/ Worker \/ TimesOut

Spec == Init /\ [][Next]_vars

(* Threads are scheduled.  Neither the time limit of the worker nor        *)
(* spurious wake-ups are counted on.                                       *)
FairSpec ==
  /\ Spec
  /\ WF_vars(Worker)
  /\ WF_vars(Closing)
  /\ \A t \in Threads : WF_vars(Thread(t))
-----------------------------------------------------------------------------
(* What is accepted and not yet carried out, oldest first. *)
Pending ==
  (IF worker \in {"notify", "handle"} THEN <<taken>> ELSE <<>>) \o Q!Contents(ring)

(* No terminate message has been accepted. *)
Accepting ==
  /\ worker # "stopped"
  /\ \A i \in DOMAIN Pending : Pending[i].kind # "terminate"

(* Through the ring, blocked callers, flushes and the shutdown, requests   *)
(* are carried out in order, each once, and none comes behind terminate;   *)
(* unless the process aborts, all that the queue accepts are carried out.  *)
(* ("Upon destruction, logs all remaining messages in the queue".)         *)
Journaled ==
  INSTANCE Journal WITH
    running  <- alive,
    requests <- Pending,
    open     <- Accepting

ImplementsJournal == Journaled!Spec

(* Notifications come after the mutex is released, and one wakes one       *)
(* waiter only.  Still, while callers wait, each free cell has a thread on *)
(* its way to it, or the worker about to notify one.                       *)
NoLostWakeup ==
  (\E t \in Threads : at[t] = "waiting") =>
    Capacity - Q!Size(ring) <= Cardinality({t \in Threads : at[t] = "enqueue"})
                               + (IF worker = "notify" THEN 1 ELSE 0)

(* No call blocks for ever, neither in the queue nor in the shutdown that  *)
(* waits for the flusher and the worker; when the calls end, all return.   *)
CallsReturn == \A t \in Threads : at[t] # "idle" ~> at[t] = "idle" \/ ~alive

(* A flush puts on the disk all that was accepted before it, whatever else *)
(* the queue holds: that much survives when the process aborts.            *)
FlushCovers ==
  [][worker = "handle" /\ worker' = "loop" /\ taken.kind = "flush"
       => synced' >= taken.id]_vars
=============================================================================
