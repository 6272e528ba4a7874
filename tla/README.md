# A TLA+ verification of libnbuss

libnbuss is a C++ library for non blocking servers over Unix and TCP sockets
(`libnbuss/`), with clients, a demo program and tests. This directory models
it in TLA+, checks the models with TLC on small instances, and proves the safety
results with TLAPS for every instance.

File names without a directory are files of `libnbuss/`.

## 1. Inventory

| Part | State | Operations | Works with |
|---|---|---|---|
| `IGenericServer` life cycle | `stop_server`, `is_listening`, `mtx`/`cv`, `listen_sock`, `epollfd`, `commandPipe` | `listen`, `terminate`, `wait_for_server_ready`, `closeSockets` | the thread that runs `listen`, any thread that stops it |
| `IGenericServer` event loop | `incoming_conn_fd`, `activeConnections`, `is_socket_IO`, the event batch | `listen`'s loop, `close`, `remove_from_epoll`, `set_IO`, `unset_IO`, `is_IO` | kernel (epoll, accept, descriptor reuse), peers, callback |
| `IGenericServer` input and output | none | `write`, `read`, `read_one_buffer`, `read_one_buffer_t`, `set_fd_non_blocking` | kernel |
| `ThreadedServer` | `workerThread` | `start`, `stop` | decorates an `IGenericServer` |
| `ThreadedServer2` | `readyToWriteSet`, `stopServer`, `running`, `internalSocketData` | `start`, `stop`, `internal_callback`, `write`, `close`, `cleanup`, `write_queue_worker`, `write_holding_lock` | decorates an `IGenericServer`; one `SocketData` per descriptor |
| `SocketData` | `uses`, `usesMutex`, `usesCv`, `writeQueue`, `writeQueueMutex` | `lock`, `release`, `cleanup` | `ThreadedServer2` |
| `WorkQueue` | `deque`, `deque_mutex`, `deque_cv`, `consumers_must_terminate`, the consumer threads | `producer_callback`, `consumer`, `close`, `start`, `stop` | `ThreadedServer2` below it, a callback above |
| `BaseClient`, `UnixSocketClient`, `TcpClient` | `data_socket` and its `O_NONBLOCK` | `connect`, `write`, `read`, `close` | a server |
| `UnixSocketServer`, `TcpServer` | `listen_sock` | constructors, `checkParameters`, `setup` (`TcpServer` retries), destructors | `IGenericServer`, the kernel's addresses |
| `UnixPipe`, `FileDescriptor` | descriptors | creation, `write`, `close` | `IGenericServer` |
| `Crc16` | `crc_tab16` | `crc_16`, `crc_modbus`, `update_crc_16` | the tests' reading loop |
| `IThreadable`, `Logger`, `FiniteStateMachine` | none of their own | | |

What makes the system hard, and what correctness means for each part:

* **Life cycle.** Several threads start, stop and wait through two flags and
  one condition variable that is woken with `notify_one`. `stop()` must return
  with everything closed, `start()` with the server listening, and `listen()`
  must not return for any other reason.
* **Event loop.** Connections are watched edge-triggered, and the kernel reuses
  the numbers of closed descriptors, also within a batch of events. No data and
  no hang-up may be forgotten, no event may reach the wrong connection, and the
  bookkeeping must be exact.
* **`SocketData`.** A counting lock whose `cleanup()` resets the counter from
  inside, without the mutex.
* **`ThreadedServer2`.** `write()` uses one mutex, the worker and `close()` use
  another lock, on the same queue and descriptor.
* **`WorkQueue`.** Producers, consumers, `close()` and `stop()` race over a
  deque. Items of closed connections must not be processed.
* **Construction.** `pipe`, `socket` and `bind` may each fail, addresses
  are shared with other servers, and descriptors run out. What earlier steps took
  must be given back, and nothing that is another server's.
* **Input and output.** System calls succeed in part, would block, or fail
  after an earlier success. Every byte must be accounted for, and a checksum that
  is kept over the pieces must be the checksum of the whole.

`PROJECT.json` lists the hazards one by one at their source lines.

## 2. Modules

```
SocketData      <- SocketWrites      the lock of a descriptor; ThreadedServer2's use of it
EventLoop       <- EchoServer        listen's loop; the loop with the echo callback
ConnectionService                    what EchoServer promises the application
ServerLifecycle                      listen, terminate, start, stop
EchoServer + ServerLifecycle = Server   a running server with clients
WriteWorker                          ThreadedServer2's threads
WorkQueue                            the queue, its consumers, a listening thread
ServerSetup     <- MCServerSetup     constructors and destructors of both servers
IoLoops <- Client                    read and write of servers and of clients
Client + Crc16 = Transfer <- MCTransfer  a transfer with its checksum
```

`SocketWrites`, `EchoServer`, `ServerLifecycle`, `Server`, `WriteWorker`,
`WorkQueue`, `ServerSetup` and `Transfer` each have a module `...Proofs`. The
theorems about `SocketData` are in `SocketWritesProofs`, those about `IoLoops`,
`Client` and `Crc16` in `TransferProofs`.

Conventions. Variables and actions keep the names of the C++ code. A thread has
a program counter (`pc`, `lpc` for the listening thread, `spc`, `wpc`, `cpc`,
`opc`, `tpc`), and one action is one piece of a method that no other thread can
observe half done: a critical section, one access to an unprotected shared
variable, or one system call. `notify_one` wakes one waiting thread or nobody.
Spurious wakeups are actions without fairness. A label `"dead"` stands for the
end of the process (an exception that leaves a thread, a fatal signal).
Variables described as history are read by properties only. An operator whose
comment begins with "Mutant:" is a deliberately wrong variant of the definition
after it; it is not part of any specification, and shows that a property can
fail.

* **`SocketData`** splits `uses++` and `uses--` into load and store, because
  `cleanup(false)` writes `uses` without `usesMutex`. `Workers` lock and
  release; `Closers` also call `cleanup()` inside the lock.
* **`SocketWrites`** follows one descriptor through successive connections, with
  concurrent writers, the worker, and threads that close. It extends
  `SocketData` and conjoins its actions.
* **`ServerLifecycle`** has the listening thread (`Listen...`, `Close...`), an
  `Owner` who calls `start` and `stop` of `ThreadedServer`, and other threads
  that call `terminate` or `wait_for_server_ready`. The command pipe is a
  Boolean; it is never drained, as in the code. `start()` may fail to create its
  thread (`StartNoThread`): it logs the exception and waits all the same.
* **`EventLoop`** has the kernel's side (connections, readiness, pending edges,
  descriptor numbers; all external) and the loop. A composing module supplies
  the callback. **`EchoServer`** supplies the one of
  `test/testlibnbuss/unixsocket_tests.cpp`: it reads into up to `MaxBuffers`
  buffers and writes each, sleeping and trying again while a write returns -1.
  `ReadJobs` says which jobs a listener reads on, and `Retries` whether it tries
  again; the listener of the README and of `main/main.cpp` reads on one job and
  writes once. (`test/testlibnbuss/test_common.cpp:71-90` retries only on EAGAIN
  and ends the process on other errors.) `FailedBinds` is what `activeConnections`
  starts below 0: `TcpServer.cpp:219` calls the member `close()` for each address
  it could not bind. `close()` is split before `activeConnections--`, which is
  outside the mutex.
* **`ConnectionService`** is what `IGenericServer.h` promises an application: a
  connection is announced once, one callback runs at a time, jobs are given for
  announced connections that are not closed, `SOCKET_IS_CLOSED` comes once for a
  connection that the server closed by itself, and at the end everything is
  closed. The process may also die, and then reports nothing any more.
  `EchoServer` implements it with the mapping `ServiceConn`, `ServiceCurrent`:
  descriptors, batches, epoll and the counters are hidden.
* **`Server`** runs the loop of `EchoServer` inside the `listen()` of
  `ServerLifecycle` (`L == INSTANCE ServerLifecycle`). `stop_server` and the
  listening thread are shared: entering and leaving `listen()` are steps of the
  life cycle, the flag's test and `epoll_wait` are one step in both, and the
  handling of events is a step of the loop alone. Clients connect, send, stop
  reading and close at any time.
* **`WriteWorker`** has the start, the stop, the listening thread's insertions
  and the worker's wait. The drain is one step here. Either thread may fail to be
  created, which `start()` only logs; `join()` of a missing worker throws
  (`StopJoinThrows`).
* **`WorkQueue`** has the listening thread reduced to what reaches the queue
  (the tests of `stop_server`, accept, batches, smart close, push, notify, and the
  exceptions that end the process), the consumers with the callback
  of `test/testlibnbuss/workqueue_test.cpp`, and the thread that stops. A popped
  slot that is read after the unlock gives the item, a newer item in the same
  slot, or anything if its memory was freed (`SlotContents`).
* **`ServerSetup`** has one thread per server that constructs it, lets it listen
  and destroys it, one system call a step. The kernel's descriptors and addresses
  are external: an address is free, bound to a descriptor, or left over (a port
  in TIME_WAIT, the file of a closed Unix socket). `unlink()` may fail, and its
  result is not tested. `sun_path` is a constant function of the server's name,
  since the code cuts a long name. `activeConnections` keeps here only whether it
  is below 0. `FileDescriptor::close` keeps its number when `::close` fails; on
  an open socket, pipe or epoll descriptor Linux always frees the number, so
  that branch is not taken and `CloseSockets` has no such outcome.
* **`IoLoops`** enumerates what each `::read` and `::write` may return, and
  keeps in `moved` the bytes the kernel really moved. **`Client`** adds the
  calls of a client of either kind: connect, close, the blocking mode of large
  writes, the flag arithmetic of `set_fd_non_blocking` and its failures, and the
  narrowing of the count to `int` (`ToInt`, with `IntHalf` for 2^31).
* **`Crc16`** has the table and the checksum functions bit by bit: a word is the
  set of its bits that are 1, so that `^` is the symmetric difference, and the
  width of a word is the range of its bits. The reference is the remainder of a
  long division of polynomials over GF(2), as sets of exponents. **`Transfer`** is the reading loop of
  `test/testlibnbuss/testlibnbuss.cpp`, which keeps a checksum over the buffers.

## 3. Runs

### Passing

| Run | Specification | What holds |
|---|---|---|
| `ServerLifecycle` | fair | with any overlap of callers: `ReturnsOnlyOnTerminate`, `DoneMeansClosed`; as long as the owner is alone: `StartMeansListening`, `PipeNotDelivered`, `TerminateMeansTerminated`, `StopReturns`, and `StartReturns` if the thread was created |
| `EchoServer` | safety | `FdsTracked`, `CountExact`, `EventsFresh`, `SmartCloseOnlyUnused` over descriptor reuse inside a batch, and the refinement `ImplementsService` |
| `Server` | fair | `QuietAfterStop`: after `terminate()` no callback runs and nothing is open; if clients read (`ClientsRead`), `StopReturnsUnderLoad` whatever else they do, `BacklogServed`: whoever connects is accepted or the server stops, and `ReadinessHandled`: no edge of the edge-triggered watch is lost |
| `WorkQueue` | fair | `PoppedInOrder`, `NoStrandedItem`, `StoppedIsQuiet`, `ItemsConsumed` |
| `SocketWrites` | safety | `WritesContiguous`; `LockNeverLeaks` and `OverlapBound`: the damage `cleanup()` does to the lock is bounded; the refinement `UsesSocketDataLock` |
| `SocketWrites_Live` | fair | `CallsReturn`: nobody waits for ever on the two locks |
| `WriteWorker` | fair | `NoLostWakeup`, `StopReturns`, `ReadyServed` |
| `Transfer` | safety | `WriteCountExact`, `ReadKeepsBytes`, `LargeWriteIsWhole`, `CountNeverOverstates`; `ChunkedChecksum`: the running checksum is the CRC of what was received; `NextByteChecksum`: the same for every next byte |
| `ServerSetup` | fair | `DescriptorsAccounted`, `ListeningIsWakeable`, `OldFileIsNoObstacle`, `FiveAttempts`, `ConstructorReturns` |

`ClientsRead` is what the echo listener needs of its clients: no open connection
keeps a full send buffer, or an error, for ever. The listener retries a write in
the server's only thread, so a client that sends and never reads holds up all
the others and `stop()` (`StopReturnsAnyway` below). `OldFileIsNoObstacle` says
that a Unix server whose name fits `sun_path` finds the path taken after its
`unlink()` only if that `unlink()` failed or another server has bound the path
since. `CountExact` speaks of a running loop and allows for the failed binds; it
says nothing of a stopped server, nor of a second `close()` of one descriptor.

The type invariants (`TypeOK`, `ClientTypeOK`, `ServerTypeOK`) hold of these
instances too. `ServerTypeOK` is checked with its run; all of them are proved.

### Disagreements between the code and what it says of itself

Three runs each check one statement of a comment, a declaration or the README
that TLC finds violated; `PROJECT.json` quotes both sides under "findings".

* `WorkQueue_StopReturns`: `stop()` sets `consumers_must_terminate` without
  `deque_mutex`; a consumer that tested it before can begin to wait after the
  last `notify_one`, and `stop()` waits for it for ever. The trace is this one:
  the listening thread has ended, and the consumer sleeps.
* `SocketWrites_AcceptedIsKept`: `write()` queues the rest of a partial write on
  a copy of the queue; the bytes are lost although the full size is returned.
* `EchoServer_Readme`: the listener of the repository's README reads on
  `AVAILABLE_FOR_READ` only. Data on a connection that is also writable comes as
  `AVAILABLE_FOR_READ_AND_WRITE`, once, and stays unread: `ReadinessHandled`,
  which the test listener satisfies in run `Server`, fails.

The modules state further such sentences in a last section of their own. No run
is kept for them; TLC refutes each with the constants of the run named and the
changes given here.

| Statement | Run and constants | What the code does |
|---|---|---|
| `SocketData`: `UsesNonNegative`, `MutualExclusion` | `SocketWrites` | `cleanup()` inside the lock sets `uses` to 0, so a second thread enters and the counter ends at -1; `OverlapBound` and `CounterLag` say how far this goes |
| `SocketWrites`: `CloseExcludesWrite` | `SocketWrites` | `close()` and `write()` do not exclude each other |
| `ServerLifecycle`: `TerminateAlwaysTerminates` | `ServerLifecycle`, `Terminators = {t1}` | `terminate()` before the server listens does nothing |
| `StopAlwaysReturns` | the same, fair | a second `terminate()` takes the stop request back |
| `ReadyReturns` | `Terminators = {}`, fair | of two threads waiting for readiness one is not woken |
| `StartAlwaysReturns` | `ServerLifecycle`, fair | without a listening thread `start()` waits for ever |
| `RestartPossible`, `SecondStartThrows` | `ServerLifecycle` | after `stop()` the listening socket is gone; the guard against a second `start()` reads the wrong object |
| `EchoServer`: `SmartCloseHonoured` | `EchoServer` | `unset_IO` is called with the listening descriptor |
| `WriteReturns` | `EchoServer` | SIGPIPE ends the process |
| `NoneActiveWhenStopped` | `EchoServer` | `closeSockets()` does not lower `activeConnections` |
| `Server`: `StopReturnsAnyway` | `Server` | a client that does not read holds the listening thread in the retries of a write |
| `WriteWorker`: `StartReturns` | `WriteWorker` | without a listening thread `start()` waits for ever |
| `ServerSetup`: `NewServerHasNone` | `ServerSetup` | a failed `bind()` lowers `activeConnections` before there is a connection |
| `WorkQueue`: `CloseRemovesItems` | `WorkQueue`, one consumer, `MaxEvents = 5` | an item can be pushed between the marking and the removal from epoll |
| `ActiveNonNegative` | one consumer, `MaxEvents = 4` | a connection is closed, and counted, twice |
| `ItemIntact` | `MaxEvents = 4` | a popped slot is read after the unlock |
| `CloseSurvivesStop` | one consumer, `MaxEvents = 4` | `remove_from_epoll` writes through a null pointer |
| `IoLoops`: `PartialSuccessReported` | `Transfer` | -1 after a partial success |
| `ReadReturnsData` | `Transfer` | a buffer that was never filled is returned |
| `Client`: `NonBlockingAgain` | `Transfer` | the socket stays blocking after a large write |

Because `write()` queues unsent data on a copy (`ThreadedServer2.cpp:233`), the
real write queue is always empty (theorem `QueueAlwaysEmpty`). `SocketWrites`
models the worker's drain in full (`DrainPop`, `DrainWrite`), but the worker only
ever finds nothing to do: `WritesContiguous` says nothing about drained data. The
variant `PushFront_Shared`, in which `write()` pushes onto the shared queue,
reaches the drain and violates `WritesContiguous`: the worker does not take
`writeQueueMutex`, so a repair of the copy alone would mix messages.

`DescriptorsAccounted` names the one leak there is: `open_unix_socket()` does not
close its socket when `bind()` fails. `leaked` counts these.

### Bounds

* `ServerLifecycle`: `MaxStarts = 2` covers restart and double start; two
  terminators and a waiter give every overlap of the shared flags.
* `EchoServer`: two connections and two descriptors, so that a number is reused
  while another connection is open, `MAX_EVENTS = 2`, so that a batch can be
  full (listening socket and two connections ready), `MaxBuffers = 2`, so that a
  retry comes before and after another buffer, and `FailedBinds = 1`.
* `Server`: two connections over one descriptor, so that the second always reuses
  it, and one start. `MAX_EVENTS = 1`: the listening socket and a connection that
  are ready together do not fit into a batch. Liveness follows one connection
  (`Followed`): connections are interchangeable.
* `WorkQueue`: two consumers (the slot race needs two), `MaxEvents = 3` pushed
  items, `MaxConns = 2` successive connections on one descriptor. `MayStop`
  says whether `stop()` is called.
* `SocketWrites`: one worker, the listener and a closer, one call each; two
  writers with messages of two bytes (`MsgSize`), the smallest that can be cut;
  two successive connections. The liveness run has two calls each
  (`MaxCalls`), messages of one byte and one connection: a store that is late by
  a whole lock and release of another thread, with a waiter besides, occurs.
* `WriteWorker`: two descriptors, four events. `ReadyServed` needs the bound
  `MaxEvents`: the worker takes the lowest descriptor first.
* `Transfer`: writes of up to four bytes, buffers of three, elements of two
  bytes, three reads: short, exact and multiple transfers all occur. The
  threshold 4096 is scaled to 2 (`BlockingThreshold`), and `IntHalf = 3` lets a
  count of three wrap. `Data` has four bytes,
  among them 0 and 255; `NextByteChecksum` tries zero and the bytes of one bit
  after every prefix; theorem `NextByteCorrect` has all 256.
* `ServerSetup`: one TCP server with two addresses, two Unix servers whose names
  are cut to the same path, four descriptors for at most three constructor calls,
  so that they run out at every step. The number of attempts, five, is not scaled.

Runs that may stop (every thread has made its calls, the server has ended) have
deadlock checking off; waiting for ever is covered by the liveness properties.

### Fairness

Weak fairness per thread, of the steps it takes by itself: the scheduler runs
every thread that can run. Most mutexes are held within one action; `usesMutex`
and `writeQueueMutex` are held over a few, and as the calls are finitely many
(`MaxCalls`, one message a writer) whoever waits for them gets them under weak
fairness. No fairness is assumed of clients, of calls from outside (`Stop`, `Terminate`, `write()`,
constructors), of spurious wakeups, or of failures. `SocketWrites` assumes that a
`::write` of a non blocking socket returns, and `WriteWorker` that the callback
returns and that a drain ends (`CallsReturn` of `SocketWrites`).

`Server` adds strong fairness of `PollReports(f)` for each descriptor: a
descriptor that is ready again and again when `epoll_wait` is called is reported.
This is the kernel's: `epoll_wait` takes from the head of the ready list, and what
is ready and did not fit stays there for the next call, before what comes later.
Weak fairness would let one busy descriptor fill every batch of one.

## 4. Proofs

All theorems hold for every value of the constants that satisfies the module's
named assumption: finite sets of threads or descriptors where a count is taken,
markers such as `None` that are none of the things they are told apart from,
bounds that are natural numbers. Each module has an inductive invariant, the
result that it is one (`...Invariance`), and corollaries for the properties.
Lemmas go one conjunct at a time, with a step for each action.

* **`SocketWritesProofs`**, on `SocketData`: `LockNeverLeaks`, `OverlapBound`,
  `CounterLag`, `NoStranding`. The first two are not inductive: the store of
  `uses++` or `uses--` writes a value loaded earlier, which `cleanup()` may have
  made stale. `CounterLag` bounds every loaded value by the number of threads
  inside and the cleanups made; it survives because `usesMutex` keeps that number
  constant from a load to its store. On `SocketWrites`: every step of
  `ThreadedServer2` is a step of `SocketData` or leaves its variables alone
  (`SocketDataRefinement`), so `LockNeverLeaks` and `OverlapBound` carry over
  (`LockBoundsHold`). `WritesContiguous` needs three more facts: a message not
  being written has no byte on a wire, the queue is empty, and a `write()` in the
  middle of its message finds its last byte at the end of the wire, since
  `writeQueueMutex` admits one writer.
* **`ServerLifecycleProofs`**: with any callers, `ReturnsOnlyOnTerminate` from
  `StopRequested` (a set `stop_server` was requested) and `DoneMeansClosed` from
  `ClosedInOrder` (which descriptor is closed at which point of
  `closeSockets()`). While the owner is alone, `AloneInv` relates the owner's
  place to the listening thread's, to the flags and to what is open; from it
  follow `StartMeansListening`, `PipeNotDelivered` and
  `TerminateMeansTerminated`.
* **`EchoServerProofs`**: `EchoInv` adds to the four invariants of the run that a
  connection has one descriptor (`OneFd`), what the thread's locals hold at each
  place (`Stages`), and `BatchOnce`: the events of a batch are for different
  descriptors, none for the one being handled. So a descriptor closed in a
  callback has no event left in the batch, and may be reused without an event
  reaching the wrong connection.
* **`ServerProofs`**: `LifecycleRefinement`, seen through the variables of the
  life cycle the composition is `ServerLifecycle`, so that the theorems proved
  there are cited here through an instance; with `ClosedForGood` (a loop that has
  stopped has nothing open) this gives `QuietAfterStop`. `ServerTypeCorrect` has
  the types of both halves. `ServiceRefinement` shows each step of `EchoServer`
  to be a step of `ConnectionService` or a stutter, and `ServerImplementsService`
  that the composition implements it too. Until the process ends, its steps are
  steps of `EchoServer` (whose invariant and lemmas are used again) or do not
  show; a second `start()` may end the process anywhere in the loop, which is a death of
  the service (`EndIsDie`). The listening socket is gone after one `listen()`, so
  one life of the service covers any number of starts.
* **`WriteWorkerProofs`**: `NoLostWakeup`, because `stopServer` and
  `readyToWriteSet` change under the mutex that the worker tests them with. Hence
  `JoinedWorkerRuns`: `stop()` never joins a worker that sleeps.
* **`WorkQueueProofs`**: `PoppedInOrder`, `NoStrandedItem`, `StoppedIsQuiet`,
  whatever `close()` and `stop()` do. The items in the deque are numbered without
  a gap, the one about to be pushed has the next number (`NextItem`), and the
  listening thread has ended before the consumers are notified (`Ended`).
* **`ServerSetupProofs`**: `DescriptorsAccounted`, `ListeningIsWakeable`,
  `OldFileIsNoObstacle` (with an `unlink()` that may fail), `FiveAttempts`.
  `Stages` says what a server holds at each
  place of its constructor and destructor, `PipeApart` that its sockets are not
  ends of its own pipe. Each action changes what one server holds;
  `MovesAccounted` says once what such a change must satisfy.
* **`TransferProofs`**, on `Crc16`: `ChecksumCorrect`, for every start value and
  every sequence of bytes the table-driven checksum is the remainder of the
  polynomial division. `Holds` relates the partial remainder after `m` steps of the
  division to a 16-bit register: the register, mirrored, and below it the bits
  of the message not yet reached. Cancelling the next term is shifting one bit
  into the register (`CancelIsShift`), and one access to the table does what
  eight such shifts do (`ByteIsEightBits`). `Chunks` says that a
  checksum may be carried from piece to piece. On the calls: `CallInv`, the
  inductive invariant, says that during a call the counters and buffers are the
  history of its system calls, and that a client's socket blocks where it has to.
  With it, `WriteCountExact`, `ReadKeepsBytes`, `LargeWriteIsWhole` and
  `CountNeverOverstates` hold for any sizes. `StreamInv` adds that the running
  checksum is the one of the bytes received; with `ChecksumCorrect` this gives
  `ChunkedChecksum` and `NextByteChecksum` for any data.

`TransferProofs` needs induction over data, for sums and for the rounds of the
loops. The library's induction theorems have an operator as parameter, which the
provers cannot instantiate. The module states induction about a set instead
(lemma `Induction`), from the fact that the natural numbers are well founded. A
loop is a recursive function: `Rounds` says that it is the sequence that starts
with the given value and goes on by the given step, `SameRounds` that two such
sequences are equal.

Only model-checked: liveness under fairness (`StopReturns`, `StartReturns`,
`StopReturnsUnderLoad`, `BacklogServed`, `ReadinessHandled`, `ItemsConsumed`,
`CallsReturn`, `ReadyServed`, `ConstructorReturns`), which is out of the reach of
the provers. Every other property of a passing run is a theorem.

## 5. Not modelled

* `IThreadable` is an interface, `Logger` sets up an external library, the C
  client and `main()` of the demo are fixed sequences of input and output.
* `FiniteStateMachine.h` is a generic table that nothing instantiates: without
  transitions there is no behaviour. The same goes for the free functions at
  `TcpServer.cpp:84-145` and for `UnixPipe::read`, which nothing calls.
* `get_buffers_size` and the printing of events only read kernel state.
* Memory is modelled only where a property depends on it (the popped slot of the
  work queue); the leak of `WriteItem` buffers is not.
* The order of the kernel's ready list beyond the fairness above, and the
  order of bytes on a socket between processes, are the kernel's.
* A callback that itself calls `terminate()` waits for its own thread;
  `IGenericServer.h:129` speaks of another thread, and no listener does it.

## 6. What could follow

`WorkQueue` has a reduced listening thread of its own; it could be composed with
`EventLoop` as `Server` is, at the price of a much larger instance. A repaired
`ThreadedServer2::write`, which keeps the queue, would make the drain of
`SocketWrites` reachable, and with it new proofs necessary.
