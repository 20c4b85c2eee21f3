# SparkNet in TLA+

SparkNet is a small C++ network library for Linux: one event loop over `epoll`, TCP servers and
clients built from handlers and connections, and an asynchronous log. This directory holds a
formal model of it. TLC checks the modules on small instances, and TLAPS proves their main
properties for every value of the constants. Everything is translated from the code under
`src/include`. The line numbers below are of those files.

## 1. The system

### Components and their state

| component | source | state | operations |
|---|---|---|---|
| Buffer | `Buffer.h` | a vector, `_readIndex`, `_writeIndex` | `AppendData`, `HasWrite`, `ExtendSpace`, `Retrieve`, `RetrieveAll`, `Swap` |
| TcpConnection | `TcpConnection.h` | `_state`, input and output buffer, its Socket and Handler | `Start`, `send`, `ShutDown`, `Close`, `HandleRead`, `HandleWrite` |
| Handler | `Handler.h`, `HandlerImp.cpp` | `_fd`, `_events`, callbacks | `EnableRead`, `EnableWrite`, `DisableWrite`, `DisableAll`, `HandleEvent` |
| Epoller | `Epoller.h`, `EpollerImp.cpp` | `_handlers` (descriptor to Handler), `_events` (array for `epoll_wait`) | `Loop`, `Update` |
| TCPClient | `TcpClient.h` | `_state`, `_connHandler`, `_conn` | `Connect`, `Disconnect`, `Send`, `HandleWrite`, `HandleError`, `ConnEstablish`, `HandleClose` |
| Acceptor | `Acceptor.h` | listening Socket, Handler, `_idlefd` | `Start`, `HandleRead` |
| TcpServer | `TcpServer.h` | `_accepter`, `_conns`, `_connId` | `Start`, `OnNewConnect`, `RemoveConn` |
| Socket, NetOpt | `Socket.h`, `NetOpt.h` | a descriptor | system calls; `~Socket` closes |
| InetAdress | `InetAdress.h` | address, text | conversions |
| Logging | `Log.h`, and of `spdlog/` the asynchronous logger and the rotating file sink | configuration; a bounded queue, its worker, the periodic flusher; the files | `init`, the log macros, `flush`, `safeClose`; a critical record aborts the process |
| Directory creation | `FileDir.h`, `FileTools.h` | none | `CreateDirectory`, `GetShortFilename` |
| Singleton | `Singleton.h` | a shared pointer, a mutex | `GetInstance`, `DesInstance` |

spdlog, nlohmann json, date and catch2 are vendored; of spdlog, the part that SparkNet's log
consists of is modelled. `Samples/Echo` is an application of the library.

### How they interact

One thread runs `Epoller::Loop`. It waits in `epoll_wait`, then goes through the batch of events,
calling `HandleEvent` through the raw `Handler*` that each event carries. `HandleEvent` calls the
read, write and error callbacks, in that order, of its owner: an Acceptor, a TCPClient's attempt,
or a TcpConnection. These call the application's connection, message and disconnect callbacks,
from which the application calls `send`, `ShutDown`, `Close`, `Connect`, `Disconnect`. All of it
is nested calls on one stack. The kernel, the peers and the logger's threads are what runs
concurrently; they are felt at every system call.

A log macro builds a record and hands it to spdlog's asynchronous logger, which puts it in a
bounded queue and blocks when there is no room. One worker takes messages out and writes them to
the rotating file; a periodic flusher puts flush messages in. `safeClose` stops the flusher and
drops the pool that owns queue and worker; whoever drops the pool's last pointer tells the worker
to terminate and waits for it. The worker is the only one that touches the files.

A TcpConnection is held by `shared_ptr`s: its owner's (`_conn`, `_conns`), the application's, and
the temporary one of a running callback. Its Socket, which closes the descriptor, and its Handler
are members, and go with it. `~Handler` does not unregister anything.

### What is hard

* A descriptor has three lives: in the kernel, in the Epoller's map, and in the object that owns
  it. `close` drops the kernel's registration and not the map's entry, and numbers are reused.
* Objects are destroyed inside their own callbacks, and raw pointers wait in the batch.
* Callbacks may call anything: close, reconnect, send, shut down, on their own connection or on
  another whose event waits in the batch.
* `size_t nwrite = write(...)` (`TcpConnection.h:117`) hides errors of `write`.
* `Close()` tests nothing (`TcpConnection.h:172`): it can be called again, and by the loop on a
  connection that another callback has closed.
* The read callback runs on `EPOLLPRI` alone (`HandlerImp.cpp:52`), where `readv` may find nothing.
* Server sockets block (`accept` at `Acceptor.h:59` does not pass `SOCK_NONBLOCK` and
  `Socket::NoBlocking` is never called), client sockets do not: the same `send` runs on both.
* At the descriptor limit the acceptor gives up a spare descriptor for a moment, which other
  threads can take.
* The log's queue has two condition variables, notified after the mutex is released, one waiter
  at a time; the shutdown runs while others still log.
* A rotation is a series of renames that the kernel may refuse and that the process' death may cut
  short; the next process goes on with the files it finds, and counts their size from then on.
* Everything pending must end: bytes in the output buffer, a shutdown put off, the peer's end, a
  connection attempt, a connection in the backlog, a call blocked by the log's queue.

`PROJECT.json` lists each hazard at its line, with the properties that are about it.

### What makes each component correct

* Buffer: a first-in first-out queue of bytes, whose indices stay in order and which grows only
  when it must.
* TcpConnection: the peer receives what was sent and nothing else (which fails on a non-blocking
  socket: section 3), in order, and the end behind the last byte; `EPOLLOUT` is watched exactly
  while bytes wait; a closed connection is left alone, and the loop closes it once.
* Epoller and Handler: map, kernel and Handlers agree; `epoll_ctl` never fails; no ready handler
  starves.
* TCPClient: each attempt is answered once, each connection's end is told once, and last; no
  descriptor is left without an owner, and nothing freed is used.
* Acceptor and TcpServer: descriptors are accounted for, the spare one is got back, and no
  connection waits for ever.
* Logging, the queue: what is accepted is carried out once, in order; a flush covers all before it;
  no call blocks for ever, and none is lost in the shutdown.
* Logging, the files: the settings are those of the last section of the chain; the files, oldest
  first, are what was logged, less what was refused and the oldest of the files that are counted;
  they keep to the limit; the log goes on when the kernel allows it again.

## 2. The modules

| module | models | composed with |
|---|---|---|
| `ByteQueue` | what a buffer promises: a queue of bytes | `Buffer` implements it |
| `Buffer`, `MCBuffer` | `Buffer.h`, the two-area `readv` of `HandleRead` | |
| `Stream` | what a connection promises: bytes in order, then the end | `TcpConnection` implements it |
| `TcpConnection` | one connection, its `HandleEvent`, the kernel's socket, the peer | |
| `EpollTable` | `Epoller::Update`, the map and the kernel's registrations, as operators | used by the next two |
| `Epoller` | `Loop`, and Handlers with users of any kind | `EpollTable` |
| `TcpClient` | TCPClient with its connections, Epoller, descriptors and application | `EpollTable` |
| `TcpServer` | Acceptor and TcpServer under a limit of descriptors | |
| `Journal` | what the log promises: requests carried out in order, each once | `AsyncLog` implements it |
| `RingQueue` | `circular_q`, as operators | used by `AsyncLog` |
| `AsyncLog` | threads that log, flusher, queue, worker, shutdown | `RingQueue` |
| `LogFile`, `MCLogFile` | `CLog::init`, the directories, the rotating file and its failures | |
| `*_proofs` | the theorems | each extends its module; `TcpStream_proofs` extends `TcpConnection_proofs` |

A variable has the name of the member it stands for, without the underscore, and an action the
name of the handler. A handler that calls back is cut at the call: the first part is one action,
which ends with `pc`, `calls` or `running` in the callback, and another action is the rest of the
handler, when the callback has returned. In between only what the callback can do, and the outside
world, happens.

**Buffer.** Two buffers (`Swap` needs two) of a byte set. The vector is a sequence, the indices
are numbers, and `std::copy` within it is modelled as the overlapping copy that it is.

**TcpConnection.** Bytes are numbered in the order they are sent. `size_t` has the modulus
`WordSize`, so that `-1` and the arithmetic on it wrap as in the code: after a failed `write` the
code appends `len + 1` bytes from one byte in front of the data, and the model has this byte,
`Stray`. `Carries` says of a sequence that the application's own bytes in it are a given part of the
stream in order; `Received` and `Foreign` count the two kinds of bytes the peer has got, and
`Stream` has an action for each, the second only if it `Leaks`. A send on a blocking socket is a
call in progress (`pc = "blocked"`) that keeps the loop's thread, and so is a `readv` that has found
only an urgent byte (`pc = "reading"`). `mark` is the place of an urgent byte in the receive queue:
it makes `EPOLLPRI` ready, not `EPOLLIN`, and a `readv` stops in front of it or skips it. `Ready` is
what `epoll(7)` reports for a socket. What the application may do is a set of contexts for each
call; `Close` has no condition on the state, as in the code, and `asked` counts the application's
calls of it. `CriticalAborts` says whether the log level lets a critical record abort: the
destructor of the log record checks the level first. Here the application holds a pointer to the
connection throughout; `TcpClient` is the module that does without.

**EpollTable.** A poller is a record of the map (`table`), of the kernel's registrations
(`interest`) and of whether an ADD or MOD has failed, which aborts. `Update` chooses by the map;
`Closed` clears the registrations only. `ReadEvents` are `EPOLLIN` and `EPOLLPRI`, which the code
sets together and the kernel reports one by one.

**Epoller.** Any number of Handler objects and descriptors, all reused. The users are arbitrary
but for the rule in the module's comment: unregister before closing or destroying, and do not
destroy a Handler whose event waits. `Wait` takes any subset of the ready handlers of the size the
array allows, as the kernel may.

**TcpClient.** An attempt `k` has a Handler `<<"attempt", k>>` and, once connected,
`<<"connection", k>>`. `calls` is the stack of callbacks that have not returned. `Settle` is the
reference counting: after each step, connections that nothing holds are destroyed and their
sockets closed. `HandleEvent` goes on in a freed Handler where the code does: such a step is
recorded in `touched`, and may crash. `Polite` is the discipline of an application that connects
when it has no connection left and sends on and closes the current one only; without it the
application calls anything at any time, on every connection it has a pointer to (`HasPointer`),
also on one whose close callback is running. A connection's output buffer is empty or not, what it
has to read is ordinary bytes, an urgent byte or the end, and resets are not in this module: the
connection sees them as an end (`TcpConnection` has them).

**TcpServer.** Descriptors are counted, not named. Each system call of `Acceptor::HandleRead` is
an action of its own, as other threads may open and close descriptors between them; the logger's
thread does, when it rotates files. `meddled` is a history variable: whether one ever has.

**AsyncLog.** What a thread does under the queue's mutex is one step, and a notification is
another. `at[t]` is where a thread is in a post, `task[t]` what it posts and goes on with: a
record, a critical record with its flush and `abort`, the flusher's message, or the shutdown.
The pool exists while the registry (`tp`) or a posting thread (`Holders`) has a pointer; a thread
that finds none throws, as in the code, which `logger::log` catches and the flush of a critical
record does not. `destroyer` is the thread in `~thread_pool`. Waiters wake up for no reason too,
and the worker after its ten seconds. `Journal` sees the message that the worker holds as the
first of the requests.

**LogFile.** A configuration is the three sections that `loadLogConfig` reads in a chain: default,
process, process and pid; each is there, missing, or has an entry that cannot be read: a number, or
`dir`, which is read when the numbers are assigned. `MaxSize` multiplies in a `size_t` (`WordSize`).
A directory tree is the number of its directories that exist: `CreateDirectory` makes the first,
`create_dir` of spdlog both. A file is the records in it; `buf` is stdio's buffer, of which any part
may have reached the kernel when the process dies or the kernel refuses a write. `rotate_` takes one
step for each remove and one for each rename (`phase = "rename_file_"` is between them). Between any
two steps the process may die and be started again on the same files (`Dies`, then `Starts`), or
another program may remove the directory, after which the open file has no name (`fd = "unlinked"`).
`refused` remembers whether the kernel has refused anything in the last init or for the last record.

## 3. What the runs check

| run | instance | what it shows |
|---|---|---|
| `buffer` | 2 buffers, 3 byte values, vector of 2, stack array of 2, up to 4 readable bytes | queue, order of indices, growth only beyond half full |
| `connection_nonblocking` | send queue of 2, 4 bytes in sends of up to 3, 2 bytes received, urgent bytes, resets, 2 calls of `Close` in the message callback and by other handlers | own bytes in order and then the end; `EPOLLOUT` exactly while bytes wait; a put-off shutdown is not forgotten; the loop closes once, and closed is silent; pending bytes, shutdown and end get done |
| `connection_blocking` | the same with 5 bytes, blocking; sends and shutdown in the close callback too | no foreign byte unless reset; stream and end; the output buffer is unused; of all events only a lone urgent byte holds the loop |
| `connection_foreign_byte` | non-blocking, neither resets nor urgent bytes | **violated**: the peer gets a byte nobody sent |
| `epoller` | 2 handlers, 2 descriptors, array of 1 | map and kernel in step, and so ADD and MOD succeed; no handler starves while the array grows |
| `client_polite` | 2 attempts, 2 descriptors, refusals, urgent bytes on one of them | answers, ends, ownership, registrations, freed objects |
| `client_rude` | the same without urgent bytes, any calls, sends on the first connection | each attempt and each end told once, up to an assertion or a crash |
| `client_assert` | the same without refusals | **violated**: the assertion of `HandleClose` |
| `server` | 3 descriptors, 4 connections, other threads | descriptors accounted for; until another thread opens one, spare descriptor kept, turning away only when needed, nobody waits for ever |
| `server_short` | 2 descriptors, 3 connections, other threads | **violated**: a connection is left waiting |
| `async_log` | 2 threads and the flusher, queue of 2, 3 records, 1 period, a shutdown at any time | order, once each; no lost wake-up; a flush covers what came before; every call returns |
| `log_file` | 6 records of size 1 or 2, up to 2 old files, 8 configurations, 3 calls of init | order and age through interrupted rotations; limit; recovery; settings |

### The three disagreements

* **`connection_foreign_byte`** `send` tests `if (nwrite < 0)` and then `errno != EWOULDBLOCK`
  (`TcpConnection.h:122-126`), so that a write that would block is to be queued and a broken
  connection to be given up. `nwrite` is a `size_t` (line 117) and the branch is never taken:
  `remain` becomes `len + 1`, and that many bytes from `data - 1` on are queued (lines 137 and 146).
  In the trace the send queue is full, a send meets `EAGAIN`, and the peer then receives the byte in
  front of the data. Only sockets of clients are affected, as those of servers do not return
  `EAGAIN`. What is left of the promise is `OwnBytesInOrder`: the bytes that were sent are neither
  lost, repeated nor reordered; and a `Stream` that leaks.
* **`client_assert`** `HandleClose` states `assert(conn == _conn)` (`TcpClient.h:140`).
  `Disconnect` makes the state `DIS_CONNECTED` at once, so `Connect` may follow while the old
  connection lives. The new one takes its place in `_conn`. If the application has kept the old
  pointer, the old connection's end calls `HandleClose`, and the assertion fails; in a build
  without assertions the new connection is dropped.
* **`server_short`** The comment at `Acceptor.h:74` promises that a connection for which there is
  no descriptor is closed gracefully. Between `close(_idlefd)` and `accept` (lines 78 and 79)
  another thread may open a file. Then the accept fails, so does reopening `/dev/null`, and from
  then on nothing is left to give up: connections stay in the backlog, and the level-triggered
  event keeps the loop spinning.

What the same client models also show, and no text of the repository says otherwise: an
application that does not keep the old pointer has its connection destroyed by `ConnEstablish`
(line 131) while registered, and the map then has a descriptor the kernel does not know, so that
the next socket with this number aborts the process; a refused attempt leaks its socket and leaves
the client `CONNECTING` for ever (`OnlyRefusedLeak` allows just this); after the peer's end
`_state` stays `CONNECTED`, so `Connect` does nothing until `Disconnect`, which then calls through
a null pointer; and `Close()` writes to a freed connection if no one but its owner holds it.

Of a connection, likewise without a text to the contrary:

* An urgent byte without any other makes `readv` wait on a server's socket, which blocks: the loop
  stands still until that peer sends more, ends or resets (`ReadBlocks`). `EventsStillReady` says
  that no other event does this. A `send` to a peer that does not read holds the loop too.
* Each `Close()` calls the close callback, as often as it is made. An event of the batch that was
  waiting when another handler's callback closed the connection is handled all the same: it may
  bring a message, and the end calls the close callback once more. `ClosedIsSilent` begins when the
  event is done with, and `LoopClosesOnce` says that the loop itself adds one call at most.
* A `send` in the close callback that leaves bytes registers the handler again, behind
  `DisableAll`: on a non-blocking socket the closed connection goes on writing, and reads nothing.

And of the log:

* A critical record's flush is a message in the queue, and `abort` does not wait for it
  (`Log.h:236`): what `Journal` has accepted may be lost with the process, the critical record
  itself included. `FlushCovers` holds for the flushes that are carried out.
* `safeClose` returns at once when another thread has a pointer to the pool: that thread, when it
  has posted, posts the terminate message and waits for the worker (`ResetsPool`, `Notifies`).
* When a rename is refused twice, the current file is emptied and its records are lost, and so is
  the record (`rotating_file_sink-inl.h:111`). When the reopening is refused, each further record
  rotates the old files once more, writing nothing, until they are shifted out.
* The section of process and pid counts only if there is one for the process, that one only if
  there is a default. `dir` never counts, as `setLogAtt` replaces it, but it must be there: without
  it `init` throws when the section's numbers have been assigned. An `init` that is tried again
  starts from these, which `StartsAsConfigured` lets it use only if there is no section at all.
* A process that counts fewer files than the one before never touches those beyond its own. They
  stay, older than what it rotates out: `LosesOnlyOldest` speaks of the files that it counts.
* The size is in MiB, but the default of the constructor is in bytes: without a configuration
  files may grow to 10 TiB. A large size wraps in the multiplication, and may be a limit of 0:
  each record then rotates.
* After the directory is removed, records go to a file without a name until the next rotation.

### Bounds

Every bound is a constant marked BOUND, or a set given in the `.cfg`. They were chosen so that the
interesting cases happen with one to spare. The send queue (2) is smaller than a send (3) and than
the bytes in all (4 or 5): writes are complete, partial and refused, and the output buffer is used
again after it was empty. Two calls of `Close` besides the loop's are the second one in the same
callback, and one on a connection that the loop has closed, in all orders. Urgent bytes come one
after the other without a bound; a second one before the first is read is not modelled. Polite
clients get them on one of their two descriptors, the one that both attempts may have. The
application without discipline sends on the first attempt's connection only (`Sends`), while that is
the current one, an old one beside it, or in its close callback; it calls the rest on both. The
vector of 2 with 4 readable bytes is compacted and grown twice. With two handlers on two descriptors
a descriptor gets another Handler while the old one lives on or is reused; an array of one overflows
at once. Two attempts on two descriptors have the old and the new connection side by side, and the
second attempt on the descriptor of the first. Three descriptors are the spare one and two for
connections. Three threads on a queue of two block, and two of them at once when the records are not
taken out; a shutdown meets each of their steps. Six records of two sizes against limits of 0 (by
overflow), 2, 4 and 14 rotate with none, one and two old files, more often than there are files;
three calls of init are two restarts, or a failed init, a retry and a restart. Passing runs fire
every action.

The largest spaces are `client_rude` (1.0 million states), `connection_nonblocking` (390 000),
`client_polite` (208 000) and `connection_blocking` (147 000); the others are smaller.

`CHECK_DEADLOCK FALSE` is set where the system may stop: the process dies, or all bounded
inputs are used up and nothing is pending.

### Fairness

* `WF(Loop)` in TcpConnection, Epoller and TcpClient: the loop's thread is scheduled, callbacks
  return, and `epoll_wait` comes back to a ready descriptor, as level-triggered epoll does. It is
  weak fairness of the disjunction only: the loop, not each handler. That no handler starves
  (`Served`) follows from the array's growth, not from fairness to handlers.
* `WF(PeerReceives)`, `WF(PeerReceivesFin)` in TcpConnection: the peer reads on and the network
  delivers. `Drains` and `ShutDownEnds` need it; no run assumes that the peer ends its stream or
  resets it.
* In TcpClient, that a connection attempt ends: the kernel gives up after a timeout.
* `WF(HandleRead)` in TcpServer: the acceptor's event comes again while connections wait. This
  takes the callbacks of the connections to return, which the code does not guarantee: their
  sockets block, and a peer that does not read, or sends one urgent byte, holds the loop. What
  `NoneIsLeftUnlessMeddled` shows is that the acceptor itself leaves nobody waiting. It is not
  assumed that connections end: all descriptors may be held for ever.
* `WF(Worker)`, `WF(Closing)` and `WF(Thread(t))` for each thread in AsyncLog: threads are
  scheduled and mutexes are handed on. The worker's time limit and spurious wake-ups may happen but
  are not counted on, so that `CallsReturn` rests on the notifications.
* `LogFile` has safety properties only, and states no fairness.

## 4. What is proved

`tlapm` checks every leaf. Each theorem holds for all values of the constants that satisfy the
assumption its module names (`BufferAssumption`, `ConnectionAssumption`, ...), which TLC evaluates
in the runs: sizes are natural numbers, flags are Boolean, a null pointer is no Handler,
`size_t` is wider than the bytes that are sent.

* **`Buffer_proofs`**: types, indices in order, a buffer that was emptied starts at 0, the growth
  bound, and that Buffer implements ByteQueue. The inductive invariant is `TypeOK /\ IndexOrder`
  (`Ordered` for each buffer); the work is in the lemmas on concatenation and sub-sequences, as
  the copy to the front keeps the readable bytes although it overlaps them. That an emptied buffer
  is reset is inductive only on top of it.
* **`TcpConnection_proofs`**: `TypeOK`, `WriteInterest`, `ShutDownPending`, `EventsStillReady`,
  `BlockingNeverQueues`, `DiesOnlyOfReset`. `EventsStillReady` speaks of the places in `HandleEvent`
  where a call could block; `ReportedRead` and `ReportedWrite` extend it to every place from which
  the loop may still come there, through callbacks, a close and a blocked write. `InterestIsOwed`
  and `PutOff` tie `EPOLLOUT` and a shutdown put off to the bytes that wait, also while a close is
  under way. `FinIsLast`, under the application's discipline, says that after the FIN nothing waits,
  which leaves a reset as the only way to a refused write and a failed shutdown.
* **`Epoller_proofs`**: `TypeOK`, `InStep` (which says too that no ADD or MOD has failed) and
  `Watched`, which are inductive together with two facts: a descriptor without registration has no
  events left over (`Blank`), and two living Handlers never have one descriptor (`OneEach`).
  `UpdateEffect` then says what `Update` does to both tables; the steps of the users are instances
  of it.
* **`TcpServer_proofs`**: `TypeOK`, `Accounted`, `IdleKept` and `TurnsAwayOnlyWhenShort`. The
  invariant counts: descriptors add up to the limit (`Accounted`), arrivals to those that wait,
  were accepted or were turned away (`Counted`), from which follows that the number of a new
  connection is fresh; and, until another thread opens one, it says how many descriptors are free
  at each of the acceptor's calls (`SparePhases`).
* **`LogFile_proofs`**: `TypeOK` and all five properties of the `log_file` run, for any
  configurations, limits, refusals and restarts. `AgeOrder` is inductive with `Numbered` (the next
  record is newer than all that are kept) and `Phases`: in a rotation the file is closed and the
  buffer empty, and the file that the loop's index names does not exist unless it is the last, so
  that a rename covers nothing and a remove takes only the last file; and a file that is not open
  makes the next record rotate, which is why no record is written through a null pointer.
  `WrittenUnlessRefused` follows for each step from this invariant, and so does `LosesOnlyOldest`:
  in the removal `AgeOrder` makes what is lost older than the rest, and no step writes beyond `num`.
  `StartsAsConfigured` is a statement on `Loaded`: if the chain can be read, its last section has
  overwritten all that was there before. `WithinLimit` needs one fact more, `Charged`: while the
  file is open under its name, the bytes in file and buffer are at most `current_size_`. The
  constructor's reading of the size starts it, and refused writes only lose bytes; the lemmas on
  `Bytes` of concatenations and prefixes carry it.
* **`TcpStream_proofs`** (on top of `TcpConnection_proofs`): the bytes and the close.
  `OwnBytesInOrder` and `NoStrayUnlessReset` hold for all constants, also for an application that
  sends late or in the close callback. `StreamInv` makes the first inductive: what the peer has got
  is the stream's beginning and what is under way (`Undelivered`: kernel queue, output buffer, a
  blocked write) is the rest of it (`InTransit`); a blocked write finds the output buffer empty
  (`OneCall`); a reset empties the kernel's queue (`Discarded`); and a write in progress fits in a
  `size_t` (`CallFits`), so that the remainder after a partial write is its tail. `NoStrayUnderWay`
  does the same for the second: on a blocking socket the byte in front of the data stays in the
  output buffer, from which nothing leaves (`BlockingNeverQueues`). Then, for an application that
  does not send in the close callback (`SilentInClose`; a send that leaves bytes would register the
  handler again behind `DisableAll`), `LoopClosesOnce` and `ClosedIsSilent`, whoever calls
  `Close()`, how often and from where; `CloseInv` says where the loop can be in a connection that
  was closed, and that its own call of the callback is the last thing it does there. Last,
  `ImplementsStream`: each step of the connection is a step of `Stream` or a stutter, for an
  application that does not send after `ShutDown` nor shut down in the close callback
  (`Disciplined`). `EndSeen` says what `Stream`'s guards need: the end that the peer has seen lies
  behind everything written. The stream leaks only if the socket does not block; this rests on
  `NoStrayUnderWay`.
* **`AsyncLog_proofs`**: `TypeOK`, `NoLostWakeup`, `FlushCovers`, and that AsyncLog implements the
  safety part of Journal (`JournalCorrect`), for any set of threads and any capacity. `NoLostWakeup`
  is inductive only where the pool is destroyed in order: `Pool` says that its destroyer is the
  only one with a pointer to it, `Closed` that nobody has a message to post behind terminate.
  `Ordered` links the ids of what is pending, message by message, from the length of the file to
  the number accepted; from it follow `FileInOrder` (the file holds records 1, 2, ... in order)
  and `FlushCovers`. `Counted` gives each record an id of its own. The lemmas on the ring say
  that a push appends to `Contents` and a pop takes its head, wherever the indices wrap.
* **`TcpClient_proofs`**: `TypeOK`, for all constants; `ToldOnce` when the build evaluates `assert`
  (`Asserts`), whatever the application calls; for an application with the discipline of `Polite`,
  `InStep`, `OnlyRefusedLeak`, `EndIsLast` and `AssertHolds`; and if it also keeps its pointers
  (`Keeps`), `FreedUseOnlyWhenRefused`. The invariant `ClientInv` has these layers:
  * `BasicInv`. Every step tells one attempt one thing, or nothing (`NextNarrates`): it begins,
    hears, ends or fails. An attempt under way has been told nothing, a connection that has left
    any trace was told of first, and with assertions the current one has not ended.
  * `PoliteInv`. `Structure` ties four tables together: which Handlers live and what they wait for,
    given `_conn` and `_connHandler` (`Current`); that no two living ones share a descriptor and
    each open one has its own (`Owned`); and that map and kernel hold exactly those that wait for
    something (`Registered`). A connection that was closed waits for nothing, so that destroying it
    (`Settle`, the reference counts) leaves no stale entry: this is why `~Handler` may leave the
    map alone, and why `InStep` fails without the discipline. `Phases` links `_state` to the two
    pointers. `BatchNow` and `EventNow` say that an event of the batch is of a Handler that is
    current, one for each, until its phase has passed; they need `RefusedIf`, that the error
    flag comes from a refused socket, and stays true of it while the event waits.
  * `KeptInv`. Each living connection, each callback that has not returned and each event in
    progress is of a connection to which the application has a pointer. A pointer is dropped only
    after the end, when no event is left.

The hypotheses are met by runs: `Disciplined` and `SilentInClose` by `connection_nonblocking`,
`Polite`, `Keeps` and `Asserts` by `client_polite`, and `Asserts` by `client_rude`.
`connection_blocking`, where the application sends and shuts down in the close callback, meets
neither of the first two: there TLC shows `ImplementsStream`. `client_assert` shows that
`AssertHolds` needs `Polite`.

Model-checked only: all liveness (`Drains`, `ShutDownEnds`, `PeerEndCloses`, `Served`, `Answered`,
`EndIsTold`, `NoneIsLeftUnlessMeddled`, `CallsReturn`, and the fairness of Journal in
`ImplementsJournal`), which is out of the provers' reach. All invariants and all action properties
that the passing runs check are theorems.

## 5. What is not modelled

* Singleton: its one use (`Log.h:153`) initialises a static object before `main`, on one thread,
  and nothing calls `DesInstance`, so that the races its double-checked locking has are out of
  this program's reach. InetAdress: conversions without state, whose texts go to records and names
  only (`FromIpPort` leaves out a non-empty address).
* Of the log: levels (a record below the level is not made at all), texts and formatting, the
  console logger that the flusher flushes too, `init` after one that succeeded, and a queue of
  more than one worker, which `setLogAtt` does not ask for. AsyncLog has sinks that do not fail and
  LogFile a single thread: the worker catches what a sink throws, and nothing of it reaches the
  queue.
* `TcpServer::Start` a second time (the old Acceptor closes its socket twice and `~Socket`
  aborts), a server without a callback (`Acceptor.h:69`), errors of `accept` other than `EMFILE`,
  and errno changed by logging before it is tested (line 76).
* The client's and the server's own destruction: the comments in their destructors leave the
  release of resources to the user.
* `HandleError` of TCPClient runs only through a freed Handler, as a refused socket is writable
  too and `HandleWrite` comes first; its effect is part of the undefined behaviour recorded in
  `touched`.
* The read of `std::function` that `_connHandler.reset()` destroys while it runs is taken to be
  harmless: the code does not touch it afterwards.
* Names and addresses of connections, socket options; the vendored libraries but for the log's part
  of spdlog. By lines these libraries are nearly all of `src` (json, date, fmt and catch2 have
  some 80 000, SparkNet itself under 2 000): they are generic code that keeps no state of this
  system, so that most lines of the tree stay without a definition here by choice.

## 6. Plan

Done: 1. Buffer with ByteQueue; 2. TcpConnection with Stream; 3. EpollTable and Epoller;
4. TcpClient; 5. TcpServer; 6. AsyncLog with RingQueue and Journal; 7. LogFile; the theorems of
section 4.

Next, in this order:

1. Shorter proofs: `StructureStep` and `PendingStep` of the client have a case for each
   action, several of which differ only in names.
2. The client without the discipline: what remains of `InStep` when the application keeps its
   pointers but calls `Connect` while a connection is left.
3. A composition of AsyncLog and the loop, in which a full queue holds the connections' events; it
   needs only the fact, shown by `CallsReturn`, that the call returns.

Liveness stays with TLC.
