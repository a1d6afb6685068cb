# Verification of ppshuai_libiocpserver

This directory holds TLA+ models of the IOCP server library in `src/src/IOCPS` and of the
sample server built on it, the TLC configurations that model-check them, and proofs, checked
by TLAPS, about all but one of the detailed modules. The library is a C++ completion-port TCP server
(`CBaseIOCPServer`), two message layers on top of it (text and package), two clients, a
thread pool and containers; the sample is a market-data server with a push thread, a trading
connection, an HTTP and websocket service and redis clients.

Line numbers are of the files in `src/src/IOCPS`; comments quoted from them are translated
from Chinese.

To run a model: `tlc -config <cfg> <module>` with the pairs of the table in section 5.
To check the proofs: `tlapm SequenceLemmas.tla` and `tlapm <module>_proofs.tla` (the longest,
`MCProtocols_proofs`, takes fifteen minutes).

## 1. Inventory

### The connection server (`BaseIOCPServer.cpp/.h`, `IOCPMutex.h`)

*State.* One `PER_SOCKET_CONTEXT` per connection: `m_Socket`, the recursive lock `m_Lock`,
the reference count `m_NumberOfPendingIO`, a receive context, and a send context with
`BufferReader` (the buffer being sent, with its `m_nPosition`) and `m_SendBufferList`. The
server has the table of contexts under `m_ContextLock`, `m_nCurrentConnectCount`,
`m_bIsShutdown`, one accept context for each worker, the completion port, the threads.

*Operations.* Worker threads dequeue completions and run `OnClientIoAccept`, `OnClientIoRead`
or `OnClientIoWrite`; these call back the derived class (`NotifyNewConnection`,
`NotifyReceivedPackage`, `NotifyWriteCompleted`, `NotifyDisconnectedClient`). `Send(context)`
runs inside callbacks, `Send(guid)` in any application thread. `CloseClient` and
`ReleaseSocketContext` are called by all of them. `Startup` and `Shutdown` are the owner's.

*What is hard.* There is no owner of a context: the thread that brings the count to zero
deletes it, whichever it is, while others look contexts up in the table. Two locks are
taken in a fixed order in some paths and seem to be taken in the other one in `Send`. The
kernel keeps pointers to contexts. `BufferReader` is used both inside and outside
`m_Lock`. `Shutdown` runs while workers accept, read and close. Any post can fail, in two
different ways, and every caller has to handle both. The handle of the port itself is written
by every accept handler (483), while workers wait on it and `Shutdown` posts to it.

*Correct means:* the count is exact, so the context is deleted by the last user and by
nobody earlier; locks are taken in one order; a connection has one receive at a time and
one disconnect notification; the connection limit holds; bytes leave once and in order;
`Shutdown` returns and leaves nothing running.

### Message layers (`TextIOCPServer`, `PackageIOCP`)

Both keep, beside the connection, a reassembly buffer per GUID and cut the byte stream
into messages inside `NotifyReceivedPackage`, closing the connection on oversized input.
They take no lock on the bytes; they rely on the receives of one connection being serial.
The text server counts references on the buffer, the package server deletes it in the
disconnect callback. Correct means: the messages delivered are those sent, whatever the
division of the stream into receives, and no buffer is used after its deletion.

### Clients (`TextIOCPClient`, `PackageIOCPClient`, `SampleTextClient`)

One thread per client: select, connect, receive, send queue, reconnect by the application.
`m_Socket`, `m_bIsConnected` and the send queue are shared with the application's threads.
Correct means: each connect is notified once, each disconnect after it, and a failed
connection can be opened again.

### Thread pool (`ThreadPool.cpp/.h`, `RunObject.h`)

A list of functions, a map of threads with a `bFree` flag and a manual-reset event each,
one critical section `m_cs`, and `Create` and `Destroy`, which take no lock. Correct means: a
function runs once, none waits while a thread could run it, no thread is lost, and what
`Destroy` does to the threads it overtakes stays within bounds.

### Containers and buffers (`table.c`, `IOCPBuffer*`, `IOCPQueue.h`, `IOCPMemPool.h`)

`pt_table` is a chained hash table; `CIOCPBuffer` a reference-counted byte array with a
reader and a writer over 32-bit positions, whose blocks come from a pool; `IOCPQueue` a linked
list. Sequential code, shared under the locks of their users, but an enumeration calls back
into code that erases, counts are shared by handles in several threads, and sums of 32-bit
lengths wrap. Correct means: the table is a map, a block is in the pool or in use, and no
read or write leaves its buffer.

### Websocket helper (`WebsocketHelper.cpp`)

Frames in both directions, SHA-1, base64 and the accept key; sequential, and hard only at the
boundaries: 126 and 65536 bytes, the last block of a message, the size of the buffers.

### Sample server (`SampleTextServer`)

- *Program* (`SampleTextServer.cpp`). `_tmain` gives the tick queue to the trading connection
  and to `MyIOCP`, starts both, and converts the bars it asks for to local time.
- *Sessions and push thread* (`MyIOCP`). `m_SessionList` is written by workers and iterated and
  erased from by the push thread, without a lock; the thread uses contexts by pointer. Correct
  means: an open connection has a session, ticks arrive in order and each at one place.
- *Trading connection* (`CMTTickInstance`, `MarketServerPublisher.h`). `Start` makes eight calls
  that may each fail; `Stop` takes it down; a thread keeps a publisher connected to redis by a
  timer. Correct means: a failure leaves nothing behind, `Stop` ends the thread, nobody uses
  the publisher after it, and a refused connection is tried again.
- *Market server* (`ServiceHelper.h`). Handlers of websocketpp queue connection actions for one
  thread and quotes for another; a subscriber with a timer brings the quotes from redis; HTTP
  handlers call the trading manager and wait for its dealer; three functions start all of it.
- *Manager session* (`SimpleManager.cpp`, `DealerSink.h`). One deposit, one order whose answer
  comes from another thread, one withdrawal.
- *Helpers.* JSON texts, the synchronous test of redis.

### Vendored headers with code of their own

The adapters of hiredis to four event loops, and the owners of `Win32_SmartHandle.h`. They are
shipped with the repository and little state machines; the other third-party code is not
modelled.

### How they interact

Application threads call `Send(guid)` and `Shutdown`; workers call the derived class, which
calls `Send(context)` and `CloseClient` back; the kernel and the workers exchange operations
and completion packets through the port; the sample's push thread reads the table of
contexts directly; the trading interface calls `OnTick` and `OnDealerAnswer` from threads of
its own; redis and the browsers call the market server through one io_service. Everything
shared is behind `m_Lock`, `m_ContextLock`, an interlocked operation, another lock, or nothing
at all; the models keep that distinction.

## 2. Modules

| Module | Code | Relation |
|---|---|---|
| `ConnectionService` | (abstract) what the server promises of a connection | implemented by `SocketContext` |
| `SocketContext` | accept, read and write handlers, both `Send`s, `CloseClient`, `ReleaseSocketContext`, close-all of `Shutdown` | the core |
| `BytePipe` | (abstract) bytes go out once and in order | implemented by `SendPipeline` |
| `SendPipeline` | `BufferReader`, `m_nPosition`, `m_SendBufferList`, partial sends | the send path of `SocketContext`, with data |
| `ServerLifecycle` | `Startup`, `Shutdown`, accept contexts, completion port, NULL packets | the server around `SocketContext` |
| `ThreadPool` | `ThreadPool.cpp/.h`, `RunObject.h` | stands alone |
| `FiniteMap` | (abstract) a finite map | implemented by `PtTable` |
| `PtTable` | `table.c`, the context list | what `SocketContext` calls the table |
| `SharedBuffer` | `IOCPBuffer*`, `IOCPMemPool.h` | what the layers keep bytes in |
| `TextServer`, `PackageServer` | `TextIOCPServer`, `PackageIOCP` | on the serial receives of `SocketContext` |
| `TextClient`, `PackageClient` | `TextIOCPClient`, `PackageIOCPClient`, `SampleTextClient` | the other ends |
| `WebSocket` | `WebsocketHelper.cpp` | stands alone |
| `SampleMain` | `SampleTextServer.cpp` | around the next two |
| `SampleServer` | `MyIOCP`, the queue of `OnTick` | on the notifications of the server |
| `TradingConnection` | `CMTTickInstance`, `MarketServerPublisher.h` | |
| `MarketServer` | `CMarketServer` around `on_http` | |
| `HttpService` | `CMarketServer::on_http`, `CDealerSink` | one handler of the market server |
| `MarketStart` | the three start functions, TLS settings | around `MarketServer` |
| `ManagerSession` | `SimpleManager.cpp`, `DealerSink.h` | stands alone |
| `JsonText`, `RedisClients` | `JsonHelper.h`, the texts of `MacroDefine.h`, `RedisHelper.h` | helpers |
| `EventAdapter`, `HandleOwner` | hiredis `adapters/*.h`, `Win32_SmartHandle.h` | vendored |
| `MCSocketContext`, `MCSendPipeline`, `MCWorkers`, `MCProtocols`, `MCSample` | – | symmetry, constants, and the choice of the module that is run |
| `SequenceLemmas`, `<M>_proofs` for seven modules | – | section 7 |

`MCSendPipeline`, `MCWorkers`, `MCProtocols` and `MCSample` check several modules in one run.
`subject`, chosen in the first state, says which module takes the steps; the variables of the
others stay as they started, since these modules share no state. Fairness and liveness are
stated for the behaviours of the subject they are about. A property `XIsSound` is the
conjunction of the named parts its module defines: the type invariant and the relations of
section 4. `MCSendPipeline` has two subjects of the same module: one worker with four buffers,
and two workers and a sender that race (`Race...`).

### SocketContext

A step ends where another thread can interfere: before a lock is taken, at an interlocked
operation, at an unlocked read of shared state. `pc[t]` names the place, `op[t]` the handler,
`cur[t]` the context, `ret[t]` what follows a `CloseClient`. Critical sections that cannot
block inside are one step. Two can, so their lock is held across steps: a `Send` whose post
fails goes on to `CloseClient` and `ReleaseSocketContext` *inside* `m_Lock` (lines 785-790),
and `Send(guid)` and the enumeration of `Shutdown` hold `m_ContextLock` while they take
`m_Lock`. `IOCPMutex` is a recursive critical section: `CanLock` lets the owner in again.

| Variable | Code |
|---|---|
| `life` | `OP_NEW` / `OP_DELETE` of the context |
| `socketOpen` | `m_Socket != INVALID_SOCKET` |
| `pendingIO` | `m_NumberOfPendingIO` |
| `mLock`, `contextLock` | owners of `m_Lock`, `m_ContextLock` |
| `hasReader`, `queued` | `BufferReader != NULL`, `m_SendBufferList.Size()` |
| `recvPosted`, `sendsPosted` | operations the kernel has not completed |
| `announced` | `NotifyNewConnection` was called: the application knows the GUID |
| `table`, `connectCount`, `shutdown` | `m_ContextList`, `m_nCurrentConnectCount`, `m_bIsShutdown` |
| `m_hIOCP`, `ports`, `portOf` | the handle; ports made, numbered from the first of `Startup`; what `CreateIoCompletionPort` answered for a context |
| `waitsOn`, `key` | of a worker: the port it waits on, and `lpCompletionKey`, which a wait that fails leaves as it was |
| `disconnects`, `abandoned`, `overdrawn`, `calls` | history: notifications, a count the accept handler never gave back, counts released by a stale key, calls made |

`UpdateCompletionPort` (168-171) is two steps: the call, and the store of what it answered, with
the notification after it (`AnnounceAccept`). For an open socket the answer is the port itself.
For one that `Shutdown` closed between `AddContext` and the call it is NULL, or a new port once
`m_hIOCP` is NULL. A worker that then comes back to the loop (`WaitForPacket`) waits on NULL,
fails, and goes on with the key of its last completion: it tries again for that of the listening
socket, releases the context once more for that of a connection (`CloseAgain`, 612-616,
`op = "stale"`), and uses what is on the stack if there was none (`UseUninitialisedKey`). A worker
that already is inside the old port stays there. Such a release may delete a context that others
still use: they go on as if its memory were as it was, or the process dies (`UseFreedContext`).

Abstracted: the bytes (in `SendPipeline`), GUIDs, addresses, and the callback's own work,
which is a choice among doing nothing, sending an answer, and closing the connection. A
use of `BufferReader` after another thread set it to `NULL` ends the process (`crashed`).

### SendPipeline

A byte is `<<buffer, offset>>`. The kernel sends posted ranges in order, whole or in part,
and puts their lengths in the port; workers add them to `m_nPosition`, delete the finished
reader, take the next from the list and post from `m_nPosition`. `pc` and `size` are the
locals of `OnClientIoWrite`. Sends come from application threads, from `NotifyReceivedPackage`
and from `NotifyWriteCompleted`. Left out, because `SocketContext` has them: counts, deletion.

### ServerLifecycle

`phase` is where the owner's thread is in `Shutdown`: flag (694), closing of the listening
socket (697), deletion of the accept contexts one at a time (702-717), close-all (719-727),
NULL packets (729-732), waiting for the threads (734). A slot is
an accept context; its `AcceptEx` is in the kernel, in the port, in a worker's hands, or
nowhere (`CreateAcceptSocket` failed, which the code ignores). A completed operation counts
as complete when its packet is queued, as `HasOverlappedIoCompleted` does, not when a
worker is done with it. A worker past the test of `m_bIsShutdown` may admit its connection
after the enumeration: such connections stay open and are kept in the model. Left out: sends,
the limit (a rejection may happen at any time).

The ports are FIFO queues, of which `Startup` makes the first. `AdmitAccept`,
`UpdateCompletionPort` and `StorePort` are 479-482, 168-171 and 483-485: the close-all of
`Shutdown` may fall between them, and then `m_hIOCP` becomes NULL (`lost`). `home` is what the
call answered for a socket, `inside` the port a worker is still inside of when `m_hIOCP` is
another one, `key` its `lpCompletionKey`. `PostPill` posts to `m_hIOCP` as it is by then, which
for NULL does nothing. `TryAgain`, `ReleaseAgain`, `ExitUninitialised` and `UseFreedContext` are
what a worker makes of a wait on NULL; after a use of freed memory (`undefined`) no worker is
followed any further.

### ThreadPool

A critical section of `m_cs` is one step, and `Run` has two: the list, then the search for a
free thread. The event stays signalled until `FinishNotify` resets it. A pool is created by
its constructor or later, thread after thread, and `Create` may fail at any of them; `Run`
while no thread could be woken lists a function for nobody (`unheard`). The events of `Create` are
used whether they could be made or not: the wait of a thread without one (`eventless`) fails and the
thread returns, but stays in the map as free, where `Run` may choose it and wake nobody. `SetPoolSize` may change the number while
`Create` runs. `Destroy` is five steps without a lock; it waits once, for a fixed time, so the
model lets it go on at any moment. `late` are the threads that were past `CheckThreadStop` when
it began, `deleted` and `disposed` say who deleted what; `Destroy` also sets `pData` to NULL (253),
so a late thread runs its function with NULL and deletes nothing. Left out: a second `Create` after
`Destroy`, and the threads of a pool whose constructor threw.

### PtTable and SharedBuffer

`head[i]` is the chain of a bucket. The operations run inside `m_ContextLock` and are one step,
but the enumeration, which calls back: `EnumBegin`, `EnumVisit` (the callback, which may erase
the node it is called for), `EnumNext` (to the node saved before), `EnumEnd`.

A block of `SharedBuffer` has a count that starts with whatever its memory held, because the
constructor does not set it; lengths, capacities, counts and positions are numbers modulo
`Modulus`, string lengths modulo `ShortModulus`. A handle's operation is one step. `wrapped`
and `outside` remember a sum that exceeded its width and a read past the data.

### TextServer and PackageServer

A byte is its position in the peer's stream, so what is notified can be compared with what was
sent. In the text server `closer` and `receiver` are the two threads that share a buffer: the
one in `CloseClient` and the one worker in `NotifyReceivedPackage`. Releasing is three steps:
the decrement outside the lock, the removal from the map, the deletion. In the package server
`DelContext` deletes under `m_critical`, while the receive uses what `GetContext` returned. The
test of line 84 is modelled as it is written. A connection that `Shutdown` closes during its
accept is ended first and made afterwards: its context is deleted by nobody.

### TextClient

`pc` is where the client's thread is in a round of its loop: `select`, the tests of its result
under `m_Mutex` (`lock`, `send`, `read`), and `CloseConnect` in two steps, `closesocket` and
the clearing of the buffers, because `Connect` takes no lock and may install the next socket
between them. `fds` holds what `select` reported and is not tested yet; after a close in the
middle of a round the bits may or may not belong to the next socket's handle. A byte names
its connection and text, so that what leaks from one connection to the next shows. `recv`
returns any part of what the peer sent, `send` takes any part of a text, and either may find
the connection closed or reset. A return of 0 from `recv` sets no error: `wouldBlock` is what
`WSAGetLastError` still says. The destructor closes the socket and ends the thread, after its
wait of ten seconds wherever it is. Left out: host lookup, notifications other than through
`m_bIsConnected`.

### PackageClient

The same loop with the package header, and the three notifications in `status`. A hold of
`m_Mutex` is one step for the send and one for the receive, and `CloseConnect` is one step: the
window inside it is in `TextClient`. The destructor of both needs no lock: it may end the
thread while that owns `m_Mutex`.

### WebSocket

Pure functions of bytes: the state is the last operation with its input and its result.
`packData`, `WebRecv`, `SHA1`, `base64` are the code's steps; the properties compare them with
the definitions of RFC 6455, FIPS 180 and RFC 4648. `m_UnpackData` has room for `UNPACKDATA` (1024)
bytes, and `unsigned long` for four: a receive with more than that (line 84) or with the long
length field (120-121) may also end as `Outside`, bytes beside the buffer written. The layout
of the handshake's text is left out.

### The sample server

- `SampleServer`: a connection is seen through its notifications. The push thread's `at`, `it`
  and `tick` are its place, iterator and the tick it took; each access to `m_SessionList` is a
  step of its own, since there is no lock. What two overlapping accesses do to the tree of the
  `std::map` is not modelled.
- `SampleMain`: the steps of `_tmain` with ticks, pushes and changes of the zone in between.
  One bar is converted at a time.
- `TradingConnection`: `at` is the call `Start` or `Stop` makes next; each may fail. The redis
  client and its two timers run in the thread that `Start` spawned.
- `MarketServer`: each of the three threads takes, applies or sends one thing per step; the
  quote thread holds `m_connection_lock` for a whole round.
- `HttpService`: a request that does not wait is one step from look-up to answer; an order waits
  for `Execute`, `Assign`, `SetEvent` of the dealer's thread or for the timeout. A number that
  does not parse throws, and nothing catches it: `dead`. `kline`, `kline_new` and `history_order`
  set `mtapiRes` to `MT_RET_OK_NONE` and their calls of the manager are commented out, so they
  answer an error whatever they are asked (`QueryNever`).
- `MarketStart`: `pc` is the statement of one of the three start functions. Leaving one destroys
  the servers on its stack; `boost::thread` detaches in its destructor. An exception of `on_http`
  leaves `io_service::run` and the function (`on_http`).
- `ManagerSession`: `at` is the next call of `simple_wmain`, which leaves by many paths.

### The helpers

- `JsonText`: a text is a sequence of tokens; of a value it keeps whether it has a quote in it.
  `json_data_make` takes whatever its callers hand over, finished by `json_end` or not
  (`ServiceHelper.h:1219-1221`).
- `RedisClients`: `sync_test` and `redisclient_main`, each with a client of its own and with other
  users of its key. `CRedisClient` and `CCRedisClient` are left out: `getInstance` hands out a
  pointer to const and `InitEnv` is not const, so no caller can reach it.
- `EventAdapter`: one record (`record`, `flags`) and what the loop really watches (`watched`),
  under any order of hiredis calls, events and a free in the middle of a callback.
- `HandleOwner`: handles are numbers that Windows gives out again, so that closing twice may
  close somebody else's.

## 3. Hazards and where they are looked at

| Code | Hazard | Properties |
|---|---|---|
| `BaseIOCPServer.cpp` 319-800 | who deletes a context; which lock first; the post that fails in two ways; the reader tested outside the lock | `SocketContext`, `SendPipeline` |
| `BaseIOCPServer.cpp` 168-171, 483 | `m_hIOCP` replaced by NULL while workers wait and `Shutdown` posts | `PendingIOIsExact`, `NoUseAfterFree`, `ClosedIsDeleted`, `CallsReturn`, `ServerIsSound`, `ShutdownReturns` |
| `BaseIOCPServer.cpp` 477, 694-734 | sockets and slots shared by workers; what is admitted behind `Shutdown`'s back | `ServerIsSound`, `ShutdownReturns` |
| `ThreadPool.cpp` 125-358 | a wake-up lost between two threads; functions given before `Create`; `Destroy` without the lock | `PoolIsSound`, `AllStarted` |
| `IOCPBuffer.cpp` 9 | an uninitialised count; sums that wrap | `BuffersAreSound` |
| `TextIOCPServer.cpp` 46-110 | the count reaches zero outside the lock; the limit | `TextServerIsSound` |
| `PackageIOCP.cpp` 40, 56, 84 | deletion during a receive; an end before the beginning; an inverted test | `PackageServerIsSound`, `JamIsPermanent` |
| the two clients | flags, queues and bytes that outlive a lost connection | `ClientIsSound`, `ClientMovesOn`, `PackageClientIsSound` |
| `WebsocketHelper.cpp` 84-152 | copies that leave their buffers; boundaries of frames and blocks | `WebSocketIsSound` |
| `MyIOCP.cpp` 21-123 | pointers and iterators without a lock | `PushIsSound`, `PushMovesOn` |
| `MacroDefine.h` 249, `MarketServerPublisher.h` 43-79 | a start that fails half-way; a timer and a stop | `TradingIsSound`, `TradingPromises` |
| `ServiceHelper.h` 1164-1682, `DealerSink.h` 79 | late answers; queues between threads; threads that outlive a server | `HttpIsSound`, `SessionIsSound`, `MarketIsSound`, `StartIsSound` |

`PROJECT.json` has all of them with their lines.

## 4. Properties

Every module has one type invariant (`TypeOK`). Beside it:

*Connections, send path, lifecycle*

- `PendingIOIsExact`: `m_NumberOfPendingIO` equals operations in the kernel, plus handlers
  owning a completed one, plus a failed `Send` not yet released, plus abandoned accepts, minus
  the releases by stale keys, which happen to closed contexts only and after `Shutdown` began.
- `NoUseAfterFree`: no handler, `Send` or `CloseClient` on a deleted context, and no operation
  outstanding on one, unless a worker acted on it with a stale key, which takes a `Shutdown`.
- `LocksAreOrdered`: a thread inside `Send`'s `m_Lock` never goes on to `m_ContextLock`; its
  release is never the last one. `Send(guid)` and `Shutdown` take the opposite order.
- `ReceivesAreSerial`: a connection has one receive, posted or handled, at a time.
- `DisconnectedOnce` (with the same exception for its second half), `ConnectCountIsExact`,
  `LimitIsRespected`: close and admission.
- `DisconnectFollowsConnect`: the end of a connection is notified after its beginning, except
  when `Shutdown` closes a context that `AddContext` has just published (482-485).
- `NoBufferIsForgotten` (counts) and `NothingForgotten` (bytes): an open connection with
  something to send has a send under way.
- `ImplementsService`: `SocketContext` refines `ConnectionService`.
- `CallsReturn`: no deadlock between the two locks; a thread is back in its wait, or fails to
  wait because `m_hIOCP` is NULL. `ClosedIsDeleted`: a closed context goes, unless it was
  abandoned, the process crashed, or `m_hIOCP` does not name the port of `Startup` any more.
- `SendsAreOrderly` = `OneSendInFlight` and `CompletedInOrder`; `ImplementsPipe`; `AllSent`.
- `ServerIsSound` = `PortLostInShutdown` (until `Shutdown` has closed all connections, `m_hIOCP` is
  the port of `Startup`) and, as long as no `Shutdown` lost the port, `SocketsAreNotShared`, `SlotsAreExclusive`, `PillsMatchThreads`,
  `NothingRunsAfterShutdown`, `LostOnlyByFailure` (an accept context is out of use only after a
  failed `CreateAcceptSocket`), `LateAdmissionsAreBounded` (each worker can admit at most one
  connection that `Shutdown` does not close). `ShutdownReturns`, unless the port was lost, or a
  worker was left with a deleted accept context.

*Threads and containers*

- `PoolIsSound` = `StartedOnce`, `NoLostWakeup`, `SleepersAreFree`, `DeletedAreRare`,
  `DisposedAfterRun`, `CreatedEnough`: see the comments of `ThreadPool`. `AllStarted`: every function
  is started but those whose `Run` found nobody to wake, and these with the next one.
- `TableIsSound` = `SizeIsExact`, `EnumVisitsAll`, `FindIsLookup`; `ImplementsMap`.
- `BuffersAreSound` = `CleanBlocksAreExact` (a block whose count began at zero is in the pool
  exactly when nobody uses it), `DataFits`, `ReadsStayInside` (unless a sum wrapped).
- `MarketIsSound` = `ConnectionsAreExact` (when no action waits, the registered connections are
  the open ones), `NewestFirst`; `RoundReachesAll`, `ClosedAreForgotten`, `Resubscribes`.

*Protocols*

- `ClientIsSound` = `WireInOrder`, `TextsAreWhole`: nothing is carried from one connection to the
  next. `ClientMovesOn` = `BrokenIsDropped`, `QueuedIsSent`.
- `TextServerIsSound` = `MisusedOnlyInWindow` (a deleted buffer is used only if it was handed out
  between the decrement and the removal), `NothingLeftBehind`, `OpenFindsBuffer`,
  `TextsAreWhole`, `LimitIsFair`.
- `PackageServerIsSound` = `MisusedOnlyIfDeletedInUse`, `LeaksAreUnused` (a context made after the
  end of its connection stays, and nobody uses it), `PackagesInOrder`, `OneAtATimeWorks`,
  `JamIsBounded`; `JamIsPermanent`: what the inverted test does and does not do.
- `PackageClientIsSound` = `StatusAlternates`, `WireInOrder`, `PackagesInOrder`,
  `DestructorCloses`.
- `WebSocketIsSound` = `PackIsAFrame`, `PackStaysInside`, `ReceiveIsInverse`, `ReceiveStaysInside`
  (which receives leave the buffers, and that no others do), `PadIsStandard`,
  `Base64Decodes`, `AcceptKeyIsStandard`.

*Sample server*

- `PushIsSound` = `OpenHasSession`, `TicksInOrder`, `EachTickOnce`, `UnsetQueueIsVoid`;
  `PushMovesOn` = `GoneIsErased`, `QueueDrains`.
- `TradingIsSound` = `FailedLeavesNothing`, `StartedIsConnected`, `TicksHavePublisher`,
  `StoppedIsEmpty`, `RunsUntilStopped`; `TradingPromises` = `FailureIsFinal`,
  `PublisherConnects`, and `SessionEnds` of the manager session.
- `HttpIsSound` = `SuccessMeansDone`, `UntoldOnlyByTimeout`, `StrayOnlyAfterTimeout`,
  `OnlyUsersLeak`. `SessionIsSound` = `AnswerIsWhole`, `ExecutedIsPrinted`,
  `StrayOnlyAfterTimeout`, `ExitIsClean`.
- `StartIsSound` of `MCSample` = that of `MarketStart` (`StrayOnlyAfterFailure`,
  `ServesBothOrNone`, `QueuesAreServed`, `CiphersComeLast`) and `MainIsSound` (`QueueIsSet`,
  `ServesConnected`, `BarsRoundTrip`, `BarsMixAtMostTwo`, `AnswersLeak`).
- `HelpersAreSound` = `JsonIsSound` (`CommasDecide`, `AnswersAreNotAsShown`,
  `ParseStopsAtFirstMissing`), `ClientsAreSound` (`AlonePrintsOwn`), `AdaptersAreSound`,
  `HandlesAreOwned`.

Several of these say exactly when the code does what it should not: a deleted buffer used only
in one window, a sink answered after its handler left only after a timeout, a destroyed server
used only after a failed start, an owner that shares its handle only when it was copied, a
context released by a stale key only after `Shutdown` lost the port. The run shows that there is no other way, and the exceptions are section 6's observations.

Each property has a mutant (`..._<Bug>` next to the definition it replaces) that TLC refutes: a
count not raised, a lock kept, a socket not exchanged, a wake-up forgotten, an off-by-one.

## 5. Runs

| Run | Module and cfg | Question |
|---|---|---|
| context_safety | `MCSocketContext`, `SocketContextSafety` | do counts, locks, deletion, admission and the refinement hold? (1.4 million states) |
| context_live | `MCSocketContext`, `SocketContextLive` | does every call return, is every closed context deleted? (130 thousand) |
| context_abandoned | `MCSocketContext`, `SocketContextAbandoned` | finding 1 |
| pipeline | `MCSendPipeline`, `SendPipeline` | is the send path right with one thread, does the race of several ever stop it, and are the buffers sound? (389 thousand) |
| pipeline_twice | `MCSendPipeline`, `SendPipelineTwice` | finding 3 |
| lifecycle | `ServerLifecycle`, `ServerLifecycle` | does Shutdown return, and what can be left behind? (101 thousand) |
| workers | `MCWorkers`, `Workers` | pool, context table and market server (414 thousand) |
| protocols | `MCProtocols`, `Protocols` | the two clients, the two servers, websocket frames (627 thousand) |
| package_split | `MCProtocols`, `PackageSplit` | finding 4 |
| sample | `MCSample`, `Sample` | the ten modules of the sample and its helpers (180 thousand) |
| push_by_pointer | `MCSample`, `PushByPointer` | finding 2 |
| client_reconnect | `TextClient`, `TextClientSample` | finding 5 |

Deadlock is checked, except in the runs that may stop for good with every call made and every
connection closed (`SendPipeline`, `Workers`, `Sample`); the others rest in an `AtRest` step, if at all.

### Bounds, and why they are enough

- *context_safety*: three connections with `Limit` 2, so that two accepts race for the last
  place and one is rejected, and a place freed by a close is taken again; two workers, so
  two handlers of one context overlap; one thread in `Send(guid)`, one in `Shutdown`; two
  `Send` calls, so that one is queued behind the other and the double post happens.
  Connections, workers and senders are interchangeable, and the run has no liveness
  property: symmetry is sound. The theorems of section 7 lift every bound.
  `MaxRepeats` 2 lets workers release with a stale key twice: a second release of one context,
  and one of each of two.
- *context_live*: two connections with a limit of one, so that one is admitted while the other is
  closed, and both lock orders (`Send(guid)` and `Shutdown` against a worker in `Send`); one
  release by a stale key; no symmetry.
- *pipeline*: buffers of 3, 1, 2 and 1 bytes: a buffer sent in three parts, a completed buffer
  with an empty list and with two waiting behind it; the race has two workers and a sender.
  Buffers: two handles, two blocks and a pool of two, so that a block is shared, copied on
  writing and taken from the pool again; numbers modulo 8 and allocation by 4, so that sums
  of two lengths wrap; a count that starts with 0 or 1; a string of 5 with lengths modulo 4.
- *lifecycle*: two runs of the server, so that what the first leaves behind meets the second, if
  the first `Shutdown` returned; two workers and accept contexts; three sockets, so that a slot is posted again while the
  accepted socket is in a worker's hands, and creation also fails for want of a socket.
- *workers*: two threads, two callers, three functions (one a run object): both threads busy
  with one waiting. `SetPoolSize` asks for no less than there is already (`SizeMatters`), which would
  end `Create` where it is. Five GUIDs in two chains: a chain of three, so that the first, a middle
  and the last node are erased. Two connections and two quotes, one loss of redis: one
  connection closes in a round, a quote comes in front of one that waits.
- *protocols*: two connections of each client, so that the second meets what the first left;
  texts of one to four bytes against receives of two and a limit of three, so that a receive
  holds part of one or one and a half, and the limit is met and exceeded; packages with and
  without payload and one with a wrong title, received by up to four bytes with a header of
  two: several packages in one receive, and one in three. Websocket lengths around 55/56, 63/64,
  125/126, 255/256 and 1020-1025, received ones on both sides of `UNPACKDATA`.
- *sample*: two connections and two ticks (a subscriber before and after another in the map);
  two requests (a late answer meets the next); two losses of redis; three keys; two callers of
  one redis key and one restart of redis; two owners and three handles; three zones, three
  bars.

### Fairness, and what justifies it

- A thread inside the library is scheduled (weak fairness). Where the calls that take a critical
  section are finitely many (`SocketContext`, `ThreadPool`), that is enough: a waiter does not
  have to win against others again and again. It is assumed to win, by strong fairness, the
  `m_Lock` of the write handler in `SendPipeline` and `m_connection_lock` between the rounds of
  `MarketServer`; Windows wakes a waiter when the section is left.
- `closesocket` cancels what is posted on the socket, and a queued packet has finitely many
  before it: completions of a *closed* socket are dequeued by workers that come back to their port
  again and again (strong, as any worker may be busy with others each time). Workers that do
  not come back, because `m_hIOCP` names another port, dequeue nothing.
- The kernel completes an `AcceptEx` once the listening socket is closed, and goes on
  transmitting on an open connection of a live peer (or it breaks).
- Functions given to the pool return. The push thread, the publisher's thread and the threads
  of the market server run; timers fire; an attempt to connect to redis ends in one way or
  the other.
- The client's loop goes on, and the kernel of a live connection takes bytes again and again.
- `WaitForSingleObject` of `CDealerSink::Wait` ends by the event or by its timeout; calls of the
  trading interface return.
- Nothing is assumed of peers, of redis' willingness, of dealers, of callers of `Send`,
  `Startup` or `Shutdown`, or of failures.

## 6. Findings

1. *context_abandoned* (`BaseIOCPServer.cpp:498`). If `Send(guid)` (once announced) or `Shutdown`
   closes the connection between `AddContext` and the handler's first receive, `PostClientIoRead`
   returns `PostIoInvalicSocket`, which the accept handler does not test. Its count is never
   given back; context and table entry stay for ever. The other two handlers test both results.
2. *push_by_pointer* (`SampleTextServer/MyIOCP.cpp:21`). The push thread uses what `GetContext`
   returned without the lock its comment asks for; a worker may delete the context in between.
3. *pipeline_twice* (`BaseIOCPServer.cpp:557`). `OnClientIoWrite` tests `BufferReader` after it
   left `m_Lock`. If it left no reader and a `Send` installs and posts one in between, the
   handler posts it a second time: the peer gets the buffer twice, and of two completions
   the second may find the reader deleted.
4. *package_split* (`PackageIOCP.cpp:84`). The test of the length is the wrong way round: with
   less than a package in the buffer it goes on, and notifies what has not arrived. With more
   than one it waits, and never stops waiting (`JamIsPermanent`) until the limit closes the
   connection. The client repeats the test (`PackageIOCPClient.cpp:101`).
5. *client_reconnect* (`TextIOCPClient.cpp:85`). A failed receive closes the socket but leaves
   `m_bIsConnected` set and notifies nobody. The sample client (`SampleTextClient.cpp:17`)
   connects only while the flag is clear: it never does again.

In spite of 3, counts stay exact and no context is deleted early: each post carries its own
count. That is what `PendingIOIsExact` and its theorem say, double posts included.

Observations without a run of their own. The properties state each as the exception it is, or the
map's lines show it. The first four contradict what the source says:

- The port may be lost (`:170`, `:483`). When the enumeration of `Shutdown` falls between
  `AddContext` and `UpdateCompletionPort` of an accept handler, `CreateIoCompletionPort` answers
  NULL for the closed socket and that is stored in `m_hIOCP`. The NULL packets that, as the
  comment above the loop says (`:729`), "let the threads exit safely" are posted to nothing,
  and the wait at 734 does not end; workers meanwhile act on the context of their last
  completion again and again (612-616). `ShutdownReturns`, `PendingIOIsExact`, `NoUseAfterFree` and
  `ClosedIsDeleted` have it as their exception, and `ServerIsSound` says when it can happen.
- `json_data_make` does not make the `{"result":true,"msg":"success","data":{}}` of the comment
  above it (`MacroDefine.h:557`): its last member has a comma behind it, which `read_json`
  refuses, and its data is a string with unescaped quotes (`AnswersAreNotAsShown`).
- `ThreadPool.cpp:125` says that the constructor creates the pool by default;
  `ThreadPool.h:130` has `bCreateNow = false`.
- `WebRecv`'s comment (`WebsocketHelper.cpp:124`) warns of a core dump "if data is too long" at the
  copy of a long frame's payload. Two copies before it are the ones that can leave their
  buffers: the one of the whole frame (84), from 1025 bytes on, and the one of the long length
  (121), for every such frame, however short its data (`ReceiveStaysInside`).

The others contradict nothing:

- An accept context may be deleted while the worker that dequeued it before the flag was set is
  still at work on it (`:706`), and a connection admitted after the enumeration stays open.
- `m_nRefs` of a block of bytes is not initialised: a block that starts with another value never
  returns to the pool, or too early.
- The text server's buffer may be handed out between its last decrement and its removal from
  the map; a receive after that inserts a NULL entry that stays.
- A dealer's answer after the timeout writes into a sink that is gone; the handlers of account
  requests keep their user objects; `name_update` and `balance_query` answer success whatever
  the manager said; a number that does not parse ends the process.
- A failed `Start` of the trading connection is final, since only the constructor makes the
  factory. A failed start of the market server leaves threads with a destroyed server.
- `kline`, `kline_new` and `history_order` never answer success: the call that would set their
  result is commented out (`ServiceHelper.h:319`, `383`, `1009`). An exception of `on_http` ends the
  market server.
- A package connection closed by `Shutdown` during its accept leaves a context nobody deletes.
- `ParseJson` asks for an `int` where `CreateJson` wrote `true`, so the self-test always fails.
- `sync_test` returns `EXIT_SUCCESS`, which is 0, as a `BOOL`.

## 7. Proofs

TLC shows the properties on the instances above, TLAPS for every value of the constants:
every number of connections, threads and calls, every stream of texts or packages, every limit.

| Module | Theorem | Says |
|---|---|---|
| `SocketContext_proofs` | `TypesAreCorrect`, `CountIsExact`, `NoAccessAfterDelete`, `LockOrderHolds`, `ReceivesNeverOverlap`, `OneDisconnect`, `NotificationsInOrder`, `ConnectCountHolds`, `LimitHolds`, `NoForgottenBuffer` | the ten invariants of context_safety |
| | `Refinement` | `ImplementsService` |
| `ServerLifecycle_proofs` | `ServerHolds` | `ServerIsSound` |
| `SendPipeline_proofs` | `NothingIsForgotten` | `NothingForgotten`, for any number of threads |
| | `SendsStayOrderly`, `PipeIsImplemented` | `SendsAreOrderly` and `ImplementsPipe`, for one worker and no other sender |
| `MCSendPipeline_proofs` | `RaceIsNotForgotten` | `RaceNothingForgotten`: the same theorem for the instance that races |
| | `BuffersHold` | `BuffersAreSound` |
| `MCWorkers_proofs` | `PoolHolds`, `MarketHolds` | `PoolIsSound`, `MarketIsSound` |
| | `TableHolds`, `TableIsMap` | `TableIsSound`, `ImplementsMap` |
| `MCProtocols_proofs` | `TextsHold`, `PackagesHold` | `TextServerIsSound`, `PackageServerIsSound` |
| | `ClientHolds`, `PackageClientHolds` | `ClientIsSound`, `PackageClientIsSound` |
| | `JamHolds` | `JamIsPermanent` |
| `MCSample_proofs` | `PushHolds`, `TradingHolds`, `HttpHolds`, `SessionHolds`, `StartHolds`, `HelpersHold` | `PushIsSound`, `TradingIsSound`, `HttpIsSound`, `SessionIsSound`, `StartIsSound`, `HelpersAreSound` |
| the four of MC modules | `PipelineHolds`, `WorkersHold`, `ProtocolsHold`, `SampleHolds` | the same of the specification of each run |

`SequenceLemmas` has what several of these need: induction over the naturals, stated with a set
(`Induction`, from `LeastNatural`), what `FlattenSeq` does to sequences that grow at the end, and
that a function defined by recursion from 0 on exists and has its equations (`RecursionExists`).

The theorems about the modules of an MC module speak of their instances there: `Server!Spec` is
the specification of the text server alone, in the variables of `MCProtocols`, and `Spec` that of
the text client, which `MCProtocols` extends. A behaviour of `MCSpec`, the specification of the
run, takes the steps of one of them while the variables of the others stand still.
`PipelineHolds`, `WorkersHold`, `SampleHolds` and `ProtocolsHold` carry the theorems over to it: a
step of `MCNext` is, for each module, a step of that module or a stutter, so `MCSpec` implies
together what its run checks, but for liveness and `WebSocketIsSound`; `PipelineHolds` and
`WorkersHold` under the hypotheses of the theorems they rest on.

### Assumptions

- `ThreadsAssumption`, `BoundsAssumption` of `SocketContext`: finite disjoint sets of workers,
  senders and stoppers; natural bounds. `LifecycleAssumption`: finitely many workers, at least one.
- `PipelineAssumption`: no buffer is empty, workers are finitely many. `RaceAssumption`: the same
  of the workers of the race. "One worker and no other sender" is a hypothesis of the two theorems
  that say so (`Lonely`); finding 3 shows that they are false without it.
- `BufferAssumption`: counts and lengths fit a `DWORD`: fewer handles than a count can hold, and a
  size that can be rounded up to whole allocation units. Sums of two may still wrap.
- `PoolAssumption`: a thread at least. The theorems about the table assume a chain at least and
  natural GUIDs, which is what `TABLE_NORMAL_COUNT` and `m_guid` are.
- `ProtocolsAssumption`: limits are numbers, a header has a byte at least, a text has a length
  above zero. Package and text streams are otherwise arbitrary.
- `SampleAssumption`: numbers are numbers, and 0 is not a GUID or a caller (it means none).

TLC evaluates the named ones on the runs.

### The arguments

No property is inductive alone.

- `SocketContext`: that no context is used after its deletion needs the exact count; that the
  count can be decremented needs to know which threads own one, hence where each thread can
  be, and where a stale key can lead: who acts on one does so on a context that was closed and
  that `Shutdown` lost the port for (`StaleOK`, `PortOK`); that `Send(guid)` may use a context without a count needs that it is in the table and
  that the table's lock is held; that `Send` never deletes needs that whoever led it there owns
  a count of its own, or the table's lock; that notifications come in order needs that only
  the accept handler and `Shutdown` work on a context that was not announced.
  `InvariantHolds` proves the conjunction, one lemma per action, with lemmas on the
  cardinalities of the holders when one thread moves. `Refinement` maps each step to
  `Connect`, `Close`, `Delete` or a stutter.
- `ServerLifecycle`: `SlotsFit` counts the packets of each accept context, `SocketsFit` says who
  owns a socket, `PillCount` relates NULL packets to living threads. That no accept
  completion outlives the threads needs `Fifo`: every NULL packet is behind all of them.
  `LateFit` adds up the connections open after the enumeration and the workers that can
  still admit one: the sum never exceeds the number of workers, since one that has admitted
  its connection finds the flag set the next time.
- `SendPipeline`: `SomebodyCares` says that a reader on an open connection has a send posted, a
  completion in the port or a worker in the write handler. With one worker, `AtMostOne` says
  that exactly one of these has it, and how far inside the buffer it is. The order of the bytes
  then follows: completed, reader and queue, put together, are what was accepted, and the wire is
  the completed buffers and the sent part of the reader's. Each step of the send path is `Accept`
  or `Transmit` of `BytePipe`, or changes neither.
- `SharedBuffer`: a count is what it started with plus its handles, so blocks that started at zero
  reach zero exactly when the last handle goes; those are once in the pool or not at all. Data
  fits as long as no sum wrapped.
- `ThreadPool`: `AwakeHaveEvent` (a thread at work still has the event that woke it, or never had
  one) is what makes `NoLostWakeup` inductive; `JobsArePlaced` gives each function one place; `LateOnes` bounds the
  functions started after their deletion by the threads that can still start one.
- `PtTable`: while an enumeration runs, what it has to reach is what it visited and what is ahead
  of the cursor in its chain and the later ones. The lemmas say what adding at the end and
  removing anywhere do to a chain and to what follows a node in it.
- `MarketServer`: `Story` follows the actions of one connection through the queue: a closed
  connection that is registered, or about to be, has its UNSUBSCRIBE behind.
- `TextServer`: `TxtInv` has, per connection, the count as the number of references (the map's and
  the receive's); where the last of them is released (in turn, or in the window between the
  decrement and the removal, where a receive may overtake it); and the bytes: what is in the
  buffer are the peer's bytes from the end of the last text notified to the last one received,
  without a gap. `GetStringLen`'s loop cuts exactly the complete texts off such a run, by
  induction over its passes, so the texts notified stay the peer's first ones, and a peer is
  closed for its length only if one of its texts is too long.
- `PackageServer`: as long as nothing was notified too early (`overrun`), the buffer is the run of
  bytes behind the last package notified, and it takes the first size of such a run to be whole.
  With more than one package in it, the test of line 84 stays false whatever is added:
  `JamIsPermanent` follows from a run that only grows.
- `PackageClient`: the queue is the last of the packages accepted on the present connection, the
  wire is the whole packages before the one in hand and of that its bytes up to `m_nPosition`;
  a close empties all of it together with the socket, so a new connection begins with nothing.
  What was received is, before an overrun, the run behind the last package notified, as in the
  server. `PckStatus` says that the last notification agrees with `m_bIsConnected`, and the life
  of the thread where the destructor may find it.
- `TextClient`: `CliInv` says the same of the text client, where `CloseConnect` is two steps with a
  `Connect` possible in between. The life of a socket is split accordingly: while the thread is
  in its loop, `CliSends` and `CliReceives` relate the buffers to the connection of the present
  socket; between `closesocket` and the clearing they still belong to the connection that is gone,
  and `CliFresh` says of one that was opened meanwhile that nothing was accepted, written or
  notified on it yet. The peer's bytes of a connection are one endless sequence (`Flow`):
  `m_ReceivedBytes` is the stretch of it behind the last text notified, what `recv` has not
  returned the stretch behind that, and stretches join and split at any place. `GetStringLen`'s
  loop is a function over the places of the buffer; by induction over them (`CliCuts`) it has
  cut, up to each place, the texts that end there and no others. The wire is the texts before the
  one in hand, whole, and of that its bytes up to the reader's position.
- `SampleServer`: each tick is somewhere: in the deque, in the hand of the push thread, lost, or
  received at one place; those in the deque are younger than the one in hand, and that one
  than everything received. The iterator points into the map or at its end.
- `HttpService`: on_http waits for the newest request only, and what was answered in time is
  settled (`HeardInTime`), so what comes late comes after a timeout.
- `MarketStart`, `SampleMain`: the statement the program is at decides what each server, thread and
  flag is. For the bars, a number of the first ones has the offset of the zone that is gone.
- `JsonText`: a text that grows alternates members and commas (`Grown`), and can be read exactly if
  no value has a quote in it and only the last member lacks its comma. `RedisClients`: the key in
  redis is what some caller past its SET set, or nothing after a restart. `EventAdapter`: what a
  live record watches is what its flags say (libevent has none), and a dead one watches nothing.
  `HandleOwner`: unless an owner was copied or a handle guessed, valid handles are open ones with
  one owner each, before and after each call.
- `ManagerSession`, `TradingConnection`: what is held at each place, and how far the answer, or
  what keeps `io_service::run` from returning, can be there.

### Only model-checked

- Liveness, fairness and `ENABLED` (`CallsReturn`, `ClosedIsDeleted`, `AllSent`, `ShutdownReturns`,
  `WorkersMoveOn`, `ClientMovesOn`, `PushMovesOn`, `TradingPromises`).
- `WebSocketIsSound`: it compares with RFC 6455, FIPS 180 and RFC 4648 on concrete lengths, texts
  and digests, and there is nothing but their computation to prove.

## 8. Not modelled

- Failures of `CreateThread` and `CreateIoCompletionPort` in `Startup`: lines 657-679 test neither
  and return TRUE; the models start from a port and threads that were made. Data races on
  plain fields that are only read for logging. Overlapping accesses to one `std::map`
  (`m_SessionList`) inside its tree: they are undefined behaviour, each access is one step here,
  so an insert that is lost to another one is not in the model.
- What a program does to freed memory it uses: the models stop there (`undefined`), or go on with
  the memory as it was or not at all (`crashed`, `misused`).
- A second `Create` of a destroyed pool, and the threads of a pool whose constructor threw.
- The layout of texts: the websocket handshake, the formatting of HTTP answers and quotes, how
  JSON prints a value; host lookup of the clients.
- What nobody calls: `SetAllocateCount`, `DeleteAll`, `errorPubProxy`, `MyIOCP(void)` beyond its
  push thread, `on_tls_init_tlsv1`, `CMarketServer()`, `CMarketServer::run`,
  `get_password_callback`, `ConvertToPeriodData`. `on_fail` only logs.
- The allocation helpers (`new` and `delete` under other names) and debug output.
- Redis, websocketpp, boost and the trading interface: external, with every call free to fail.
  `ServiceHelper.h`, `RedisHelper.h` and `JsonHelper.h` are included by no file of the sample's
  project; they are modelled as they would run. Third-party code is not modelled, except the
  hiredis adapters and `Win32_SmartHandle.h`, which are small protocols of their own: nothing of
  the repository uses the first, only vendored headers the second.

## 9. What could follow

A composition of `SocketContext` with `TextServer`, which today rests on `ReceivesAreSerial` and
on the order of the notifications as properties of the first.
