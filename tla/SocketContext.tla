---------------------------- MODULE SocketContext ----------------------------
(***************************************************************************)
(* The life of a PER_SOCKET_CONTEXT of CBaseIOCPServer: admission by       *)
(* OnClientIoAccept, the receive loop, the send chain, CloseClient, and    *)
(* the reference count m_NumberOfPendingIO that decides when the context   *)
(* is deleted.                                                             *)
(*                                                                         *)
(* A step is a stretch of code between two points where another thread can *)
(* interfere: an acquisition of m_Lock or m_ContextLock, an interlocked    *)
(* operation, or an unlocked read of shared state. A critical section that *)
(* cannot block inside is one step; the two that can (Send whose post      *)
(* fails, Send(guid) and the enumeration of Shutdown) hold their lock over *)
(* several steps. The recursion of the critical sections (IOCPMutex) is    *)
(* CanLock: the owner may enter again.                                     *)
(*                                                                         *)
(* Data are left out: a buffer is "there or not" (hasReader) and a queue   *)
(* is its length; SendPipeline has the bytes. A completion is dequeued by  *)
(* the step that dispatches it.                                            *)
(*                                                                         *)
(* m_hIOCP is shared and written without a lock: OnClientIoAccept stores   *)
(* what CreateIoCompletionPort answers for the new socket, which is NULL   *)
(* when Shutdown closed the socket after AddContext. A worker whose wait   *)
(* on NULL fails acts on the completion key of its last packet.            *)
(***************************************************************************)
EXTENDS Integers, FiniteSets

CONSTANTS
    Contexts,    \* connections; each gets one PER_SOCKET_CONTEXT when admitted
    Workers,     \* WorkerThread instances
    Senders,     \* application threads that call Send(guid, buffer)
    Stoppers,    \* threads that call Shutdown (its close-all part)
    Limit,       \* m_nLimitConnectCount
    MaxSends,    \* bound of the model: Send calls made by the application
    MaxRepeats,  \* bound of the model: releases of a context by a stale key
    Server,      \* the completion key of the listening socket
    Nobody,      \* owner of a free lock
    NoContext    \* cur of a thread that works on no context

Threads == Workers \cup Senders \cup Stoppers

ASSUME ThreadsAssumption ==
    /\ IsFiniteSet(Threads) /\ IsFiniteSet(Contexts)
    /\ Nobody \notin Threads /\ NoContext \notin Contexts
    /\ Server \notin Contexts /\ Server # NoContext
    /\ Workers \cap Senders = {} /\ Workers \cap Stoppers = {}
    /\ Senders \cap Stoppers = {}

ASSUME BoundsAssumption ==
    Limit \in Nat /\ MaxSends \in Nat /\ MaxRepeats \in Nat

\* Completion ports are numbered in the order they are made; NULL is none.
NULL == 0

VARIABLES
    \* the context
    life,         \* "unborn" -> "live" (OP_NEW) -> "freed" (OP_DELETE)
    socketOpen,   \* m_Socket # INVALID_SOCKET
    pendingIO,    \* m_NumberOfPendingIO
    mLock,        \* owner of m_Lock between steps
    hasReader,    \* m_SendContext.BufferReader # NULL
    queued,       \* m_SendBufferList.Size()
    disconnects,  \* NotifyDisconnectedClient calls made for the context
    abandoned,    \* the accept handler returned with no receive posted
    \* the kernel
    recvPosted,   \* a WSARecv is outstanding
    sendsPosted,  \* WSASend operations outstanding
    \* the server
    contextLock,  \* owner of m_ContextLock between steps
    table,        \* contexts found by pt_table_find
    announced,    \* connections NotifyNewConnection told the application of
    connectCount, \* m_nCurrentConnectCount
    shutdown,     \* m_bIsShutdown
    crashed,      \* the process dereferenced a NULL BufferReader
    calls,        \* Send calls made so far (bound: MaxSends)
    \* the completion port
    m_hIOCP,
    ports,        \* completion ports made so far; Startup makes the first
    portOf,       \* of a context: what CreateIoCompletionPort answered for it
    waitsOn,      \* of a worker in GetQueuedCompletionStatus: the port
    overdrawn,    \* releases of the context by workers with a stale key
    \* the threads
    pc, op, cur, ret,
    key           \* lpCompletionKey of a worker on its way to the next wait

contextVars == <<life, socketOpen, pendingIO, mLock, hasReader, queued,
                 disconnects, abandoned, recvPosted, sendsPosted>>
serverVars == <<contextLock, table, announced, connectCount, shutdown, crashed,
                calls>>
portVars == <<m_hIOCP, ports, portOf, waitsOn, overdrawn>>
threadVars == <<pc, op, cur, ret, key>>
vars == <<contextVars, serverVars, portVars, threadVars>>

(***************************************************************************)
(* op: the handler a thread is in; "stale" is a failed wait taken for a    *)
(* failed completion. pc: where it is; "loop" is between a handler and the *)
(* next wait, "idle" inside the wait or outside the library. ret: what     *)
(* follows a CloseClient.                                                  *)
(***************************************************************************)
Ops == {"none", "accept", "read", "write", "stale", "guid", "enum"}
PCs == {"loop", "idle", "over", "admit", "update", "announce", "notify",
        "post", "advance", "measure", "swap", "check", "send", "close",
        "closing", "release", "erase", "free", "unlist", "begin", "enum",
        "stopped"}
Returns == {"release", "post", "enum"}

Init ==
    /\ life = [c \in Contexts |-> "unborn"]
    /\ socketOpen = [c \in Contexts |-> FALSE]
    /\ pendingIO = [c \in Contexts |-> 0]
    /\ mLock = [c \in Contexts |-> Nobody]
    /\ hasReader = [c \in Contexts |-> FALSE]
    /\ queued = [c \in Contexts |-> 0]
    /\ disconnects = [c \in Contexts |-> 0]
    /\ abandoned = [c \in Contexts |-> FALSE]
    /\ recvPosted = [c \in Contexts |-> FALSE]
    /\ sendsPosted = [c \in Contexts |-> 0]
    /\ contextLock = Nobody
    /\ table = {}
    /\ announced = {}
    /\ connectCount = 0
    /\ shutdown = FALSE
    /\ crashed = FALSE
    /\ calls = 0
    /\ m_hIOCP = 1
    /\ ports = 1
    /\ portOf = [c \in Contexts |-> NULL]
    /\ waitsOn = [w \in Workers |-> NULL]
    /\ overdrawn = [c \in Contexts |-> 0]
    /\ key = [w \in Workers |-> NoContext]
    /\ pc = [t \in Threads |-> IF t \in Workers THEN "loop" ELSE "idle"]
    /\ op = [t \in Threads |-> "none"]
    /\ cur = [t \in Threads |-> NoContext]
    /\ ret = [t \in Threads |-> "release"]

-----------------------------------------------------------------------------
(* Control of a thread. *)

One(b) == IF b THEN 1 ELSE 0

At(t, p) == pc[t] = p /\ ~crashed

Goto(t, p) ==
    /\ pc' = [pc EXCEPT ![t] = p]
    /\ UNCHANGED <<op, cur, ret, key>>

\* Starts to handle context c in handler o at p.
Enter(t, o, c, p) ==
    /\ pc' = [pc EXCEPT ![t] = p]
    /\ op' = [op EXCEPT ![t] = o]
    /\ cur' = [cur EXCEPT ![t] = c]
    /\ UNCHANGED <<ret, key>>

\* Calls CloseClient, to continue at r.
CallClose(t, r) ==
    /\ pc' = [pc EXCEPT ![t] = "close"]
    /\ ret' = [ret EXCEPT ![t] = r]
    /\ UNCHANGED <<op, cur, key>>

\* Starts to handle a failed completion of c: CloseClient, then release.
EnterClose(t, o, c) ==
    /\ pc' = [pc EXCEPT ![t] = "close"]
    /\ op' = [op EXCEPT ![t] = o]
    /\ cur' = [cur EXCEPT ![t] = c]
    /\ ret' = [ret EXCEPT ![t] = "release"]
    /\ UNCHANGED key

\* Out of the library; a worker goes on to its next wait, and what it handled
\* was the context whose address is the key of the packet.
Finish(t) ==
    /\ pc' = [pc EXCEPT ![t] = IF t \in Workers THEN "loop" ELSE "idle"]
    /\ key' = IF t \in Workers
              THEN [key EXCEPT ![t] = IF op[t] = "accept" THEN Server ELSE cur[t]]
              ELSE key
    /\ op' = [op EXCEPT ![t] = "none"]
    /\ cur' = [cur EXCEPT ![t] = NoContext]
    /\ ret' = [ret EXCEPT ![t] = "release"]

\* m_Lock is free, or owned by the caller.
CanLock(t, c) == mLock[c] \in {Nobody, t}

\* The thread is inside Send: only a Send whose post failed keeps m_Lock
\* from one step to the next.
InSend(t) == cur[t] \in Contexts /\ mLock[cur[t]] = t

\* Where Send returns to: Send(guid) must leave m_ContextLock, a callback
\* returns to its handler, which then posts the next receive.
AfterSend(t) == IF op[t] = "guid" THEN "unlist" ELSE "post"

-----------------------------------------------------------------------------
(* OnClientIoAccept. *)

\* The interlocked count of the accepted connection c; the listening socket
\* belongs to the port of Startup. An accept completion that is dequeued after
\* Shutdown began is dropped by WorkerThread.
OverLimit_OffByOne(n) == n > Limit + 1
OverLimit(n) == n > Limit

CountAccept(w, c) ==
    /\ At(w, "idle") /\ waitsOn[w] = 1 /\ ~shutdown
    /\ life[c] = "unborn" /\ \A t \in Threads : cur[t] # c
    /\ connectCount' = connectCount + 1
    /\ Enter(w, "accept", c,
             IF OverLimit(connectCount + 1) THEN "over" ELSE "admit")
    /\ UNCHANGED <<contextVars, contextLock, table, announced, shutdown,
                   crashed, calls, portVars>>

\* Over the limit: the count goes back, the socket is closed and the accept
\* is posted again; no context was allocated.
RejectAccept_KeepsCount(w) ==
    /\ At(w, "over")
    /\ Finish(w)
    /\ UNCHANGED <<contextVars, serverVars, portVars>>

RejectAccept(w) ==
    /\ At(w, "over")
    /\ connectCount' = connectCount - 1
    /\ Finish(w)
    /\ UNCHANGED <<contextVars, contextLock, table, announced, shutdown,
                   crashed, calls, portVars>>

\* A mutant that posts the receive with no notification before it.
AdmitAccept_PostsFirst(w) ==
    LET c == cur[w] IN
    /\ At(w, "admit") /\ contextLock = Nobody
    /\ life' = [life EXCEPT ![c] = "live"]
    /\ socketOpen' = [socketOpen EXCEPT ![c] = TRUE]
    /\ pendingIO' = [pendingIO EXCEPT ![c] = @ + 1]
    /\ table' = table \cup {c}
    /\ Goto(w, "post")
    /\ UNCHANGED <<mLock, hasReader, queued, disconnects, abandoned,
                   recvPosted, sendsPosted, contextLock, announced,
                   connectCount, shutdown, crashed, calls, portVars>>

\* AllocateSocketContext with the count of the receive to come, and AddContext
\* under m_ContextLock.
AdmitAccept(w) ==
    LET c == cur[w] IN
    /\ At(w, "admit") /\ contextLock = Nobody
    /\ life' = [life EXCEPT ![c] = "live"]
    /\ socketOpen' = [socketOpen EXCEPT ![c] = TRUE]
    /\ pendingIO' = [pendingIO EXCEPT ![c] = @ + 1]
    /\ table' = table \cup {c}
    /\ Goto(w, "update")
    /\ UNCHANGED <<mLock, hasReader, queued, disconnects, abandoned,
                   recvPosted, sendsPosted, contextLock, announced,
                   connectCount, shutdown, crashed, calls, portVars>>

\* UpdateCompletionPort asks for an association of the socket with m_hIOCP. An
\* open socket gets it, or a new port if m_hIOCP is NULL. The context may have
\* been closed since it was added: then the handle of a closed socket is
\* refused, and INVALID_SOCKET, which is INVALID_HANDLE_VALUE, asks for a new
\* port, refused as well if m_hIOCP names one.
UpdateCompletionPort(w) ==
    LET c == cur[w] IN
    /\ At(w, "update")
    /\ \/ /\ m_hIOCP # NULL
          /\ portOf' = [portOf EXCEPT ![c] = IF socketOpen[c] THEN m_hIOCP ELSE NULL]
          /\ UNCHANGED ports
       \/ /\ m_hIOCP = NULL
          /\ ports' = ports + 1
          /\ portOf' = [portOf EXCEPT ![c] = ports + 1]
       \/ /\ m_hIOCP = NULL /\ ~socketOpen[c]
          /\ portOf' = [portOf EXCEPT ![c] = NULL]
          /\ UNCHANGED ports
    /\ Goto(w, "announce")
    /\ UNCHANGED <<contextVars, serverVars, m_hIOCP, waitsOn, overdrawn>>

\* The answer is stored in m_hIOCP, whatever it is, and NotifyNewConnection is
\* called: only now the application knows the GUID.
AnnounceAccept(w) ==
    /\ At(w, "announce")
    /\ m_hIOCP' = portOf[cur[w]]
    /\ announced' = announced \cup {cur[w]}
    /\ Goto(w, "post")
    /\ UNCHANGED <<contextVars, contextLock, table, connectCount, shutdown,
                   crashed, calls, ports, portOf, waitsOn, overdrawn>>

-----------------------------------------------------------------------------
(* WorkerThread's wait on m_hIOCP. *)

\* GetQueuedCompletionStatus: the worker waits on the port m_hIOCP names now,
\* and the next packet of that port overwrites its key.
WaitForPacket(w) ==
    /\ At(w, "loop") /\ m_hIOCP # NULL
    /\ waitsOn' = [waitsOn EXCEPT ![w] = m_hIOCP]
    /\ key' = [key EXCEPT ![w] = NoContext]
    /\ pc' = [pc EXCEPT ![w] = "idle"]
    /\ UNCHANGED <<contextVars, serverVars, m_hIOCP, ports, portOf, overdrawn,
                   op, cur, ret>>

\* The wait on NULL fails at once and stores no key. With the server's key the
\* worker only tries again, since Shutdown has begun (AtRest).
WaitFails(w) == At(w, "loop") /\ m_hIOCP = NULL

\* With the key of a context the failure is taken for one of its operations:
\* the context is closed and a count released that nobody owns.
CloseAgain(w) ==
    LET c == key[w] IN
    /\ WaitFails(w) /\ c \in Contexts /\ overdrawn[c] < MaxRepeats
    /\ EnterClose(w, "stale", c)
    /\ UNCHANGED <<contextVars, serverVars, portVars>>

\* No packet yet: lpCompletionKey is not initialised. NULL ends the thread,
\* any other value is dereferenced.
UseUninitialisedKey(w) ==
    /\ WaitFails(w) /\ key[w] = NoContext
    /\ \/ pc' = [pc EXCEPT ![w] = "stopped"] /\ UNCHANGED crashed
       \/ crashed' = TRUE /\ UNCHANGED pc
    /\ UNCHANGED <<contextVars, contextLock, table, announced, connectCount,
                   shutdown, calls, portVars, op, cur, ret, key>>

\* A handler goes on with a context that was deleted: as long as the memory is
\* as it was the other actions say what happens; otherwise the process dies.
UseFreedContext(t) ==
    /\ ~crashed /\ cur[t] \in Contexts /\ life[cur[t]] = "freed"
    /\ crashed' = TRUE
    /\ UNCHANGED <<contextVars, contextLock, table, announced, connectCount,
                   shutdown, calls, portVars, threadVars>>

-----------------------------------------------------------------------------
(* WorkerThread's dispatch of a completion, and PostClientIoRead. *)

\* A mutant that posts the next receive before it handles this one.
DispatchRead_RepostsFirst(w, c) ==
    /\ At(w, "idle") /\ waitsOn[w] = portOf[c] /\ recvPosted[c]
    /\ Enter(w, "read", c, "notify")
    /\ UNCHANGED <<contextVars, serverVars, portVars>>

\* A receive completed with data: OnClientIoRead calls back the application.
DispatchRead(w, c) ==
    /\ At(w, "idle") /\ waitsOn[w] = portOf[c] /\ recvPosted[c]
    /\ recvPosted' = [recvPosted EXCEPT ![c] = FALSE]
    /\ Enter(w, "read", c, "notify")
    /\ UNCHANGED <<life, socketOpen, pendingIO, mLock, hasReader, queued,
                   disconnects, abandoned, sendsPosted, serverVars, portVars>>

\* A receive failed, or completed with no data: the peer is gone, or the
\* socket was closed here and the operation cancelled.
DispatchFailedRead(w, c) ==
    /\ At(w, "idle") /\ waitsOn[w] = portOf[c] /\ recvPosted[c]
    /\ recvPosted' = [recvPosted EXCEPT ![c] = FALSE]
    /\ EnterClose(w, "read", c)
    /\ UNCHANGED <<life, socketOpen, pendingIO, mLock, hasReader, queued,
                   disconnects, abandoned, sendsPosted, serverVars, portVars>>

\* NotifyReceivedPackage: the application does nothing, sends an answer, or
\* closes the connection (CTextIOCPServer and PackageIOCP do on bad input).
NotifyReceived(w) ==
    /\ At(w, "notify")
    /\ \/ Goto(w, "post") /\ UNCHANGED calls
       \/ CallClose(w, "post") /\ UNCHANGED calls
       \/ calls < MaxSends /\ calls' = calls + 1 /\ Goto(w, "send")
    /\ UNCHANGED <<contextVars, contextLock, table, announced, connectCount,
                   shutdown, crashed, portVars>>

\* PostClientIoRead on an open socket, from either handler.
PostReadAccepted(w) ==
    LET c == cur[w] IN
    /\ At(w, "post") /\ op[w] \in {"accept", "read"}
    /\ CanLock(w, c) /\ socketOpen[c]
    /\ recvPosted' = [recvPosted EXCEPT ![c] = TRUE]
    /\ Finish(w)
    /\ UNCHANGED <<life, socketOpen, pendingIO, mLock, hasReader, queued,
                   disconnects, abandoned, sendsPosted, serverVars, portVars>>

\* PostIoFailed: both handlers close and release.
PostReadFailed(w) ==
    LET c == cur[w] IN
    /\ At(w, "post") /\ op[w] \in {"accept", "read"}
    /\ CanLock(w, c) /\ socketOpen[c]
    /\ CallClose(w, "release")
    /\ UNCHANGED <<contextVars, serverVars, portVars>>

\* PostIoInvalicSocket: OnClientIoRead closes and releases as well.
PostReadInvalid(w) ==
    LET c == cur[w] IN
    /\ At(w, "post") /\ op[w] = "read"
    /\ CanLock(w, c) /\ ~socketOpen[c]
    /\ CallClose(w, "release")
    /\ UNCHANGED <<contextVars, serverVars, portVars>>

\* PostIoInvalicSocket in OnClientIoAccept, which tests PostIoFailed only: it
\* returns without giving its count back.
AbandonAccept(w) ==
    LET c == cur[w] IN
    /\ At(w, "post") /\ op[w] = "accept"
    /\ CanLock(w, c) /\ ~socketOpen[c]
    /\ abandoned' = [abandoned EXCEPT ![c] = TRUE]
    /\ Finish(w)
    /\ UNCHANGED <<life, socketOpen, pendingIO, mLock, hasReader, queued,
                   disconnects, recvPosted, sendsPosted, serverVars, portVars>>

-----------------------------------------------------------------------------
(* OnClientIoWrite. Two completions of one context may be handled at once, *)
(* and BufferReader is read outside m_Lock, so every use of it can find    *)
(* NULL: the process then crashes.                                         *)

DispatchWrite(w, c) ==
    /\ At(w, "idle") /\ waitsOn[w] = portOf[c] /\ sendsPosted[c] > 0
    /\ sendsPosted' = [sendsPosted EXCEPT ![c] = @ - 1]
    /\ Enter(w, "write", c, "advance")
    /\ UNCHANGED <<life, socketOpen, pendingIO, mLock, hasReader, queued,
                   disconnects, abandoned, recvPosted, serverVars, portVars>>

DispatchFailedWrite(w, c) ==
    /\ At(w, "idle") /\ waitsOn[w] = portOf[c] /\ sendsPosted[c] > 0
    /\ sendsPosted' = [sendsPosted EXCEPT ![c] = @ - 1]
    /\ EnterClose(w, "write", c)
    /\ UNCHANGED <<life, socketOpen, pendingIO, mLock, hasReader, queued,
                   disconnects, abandoned, recvPosted, serverVars, portVars>>

\* m_nPosition += dwIoSize, then NotifyWritePackage.
AdvancePosition(w) ==
    /\ At(w, "advance") /\ hasReader[cur[w]]
    /\ Goto(w, "measure")
    /\ UNCHANGED <<contextVars, serverVars, portVars>>

\* m_nPosition >= GetLength(), then NotifyWriteCompleted: the buffer is sent,
\* or a part of it is left.
MeasurePosition(w) ==
    /\ At(w, "measure") /\ hasReader[cur[w]]
    /\ \E p \in {"swap", "check"} : Goto(w, p)
    /\ UNCHANGED <<contextVars, serverVars, portVars>>

\* The critical section: the finished reader is deleted, the next queued
\* buffer becomes the reader.
SwapReader(w) ==
    LET c == cur[w] IN
    /\ At(w, "swap") /\ CanLock(w, c)
    /\ hasReader' = [hasReader EXCEPT ![c] = queued[c] > 0]
    /\ queued' = [queued EXCEPT ![c] = IF @ > 0 THEN @ - 1 ELSE 0]
    /\ Goto(w, "check")
    /\ UNCHANGED <<life, socketOpen, pendingIO, mLock, disconnects,
                   abandoned, recvPosted, sendsPosted, serverVars, portVars>>

\* if (BufferReader), read after m_Lock was released.
CheckReader_ForgetsNext(w) ==
    /\ At(w, "check")
    /\ Goto(w, "release")
    /\ UNCHANGED <<contextVars, serverVars, portVars>>

CheckReader(w) ==
    /\ At(w, "check")
    /\ Goto(w, IF hasReader[cur[w]] THEN "post" ELSE "release")
    /\ UNCHANGED <<contextVars, serverVars, portVars>>

\* PostClientIoWrite of the rest, or of the next buffer, with the count of
\* the completion at hand.
PostWriteAccepted(w) ==
    LET c == cur[w] IN
    /\ At(w, "post") /\ op[w] = "write"
    /\ CanLock(w, c) /\ socketOpen[c] /\ hasReader[c]
    /\ sendsPosted' = [sendsPosted EXCEPT ![c] = @ + 1]
    /\ Finish(w)
    /\ UNCHANGED <<life, socketOpen, pendingIO, mLock, hasReader, queued,
                   disconnects, abandoned, recvPosted, serverVars, portVars>>

\* PostIoFailed or PostIoInvalicSocket.
PostWriteFailed(w) ==
    LET c == cur[w] IN
    /\ At(w, "post") /\ op[w] = "write"
    /\ CanLock(w, c) /\ (socketOpen[c] => hasReader[c])
    /\ CallClose(w, "release")
    /\ UNCHANGED <<contextVars, serverVars, portVars>>

\* The reader is gone where the handler, or PostClientIoWrite on an open
\* socket, dereferences it.
DereferenceNull(w) ==
    LET c == cur[w] IN
    /\ \/ At(w, "advance")
       \/ At(w, "measure")
       \/ At(w, "post") /\ op[w] = "write" /\ CanLock(w, c) /\ socketOpen[c]
    /\ ~hasReader[c]
    /\ crashed' = TRUE
    /\ UNCHANGED <<contextVars, threadVars, contextLock, table, announced,
                   connectCount, shutdown, calls, portVars>>

-----------------------------------------------------------------------------
(* Send(PER_SOCKET_CONTEXT*, buffer), CloseClient and                      *)
(* ReleaseSocketContext: called by every kind of thread.                   *)

\* Send's body: with a reader in place the buffer is queued, otherwise it
\* becomes the reader, the count is raised and the send is posted. A failed
\* post goes on to CloseClient and ReleaseSocketContext inside m_Lock.
SendToClosed(t) ==
    LET c == cur[t] IN
    /\ At(t, "send") /\ CanLock(t, c) /\ ~socketOpen[c]
    /\ Goto(t, AfterSend(t))
    /\ UNCHANGED <<contextVars, serverVars, portVars>>

SendQueues(t) ==
    LET c == cur[t] IN
    /\ At(t, "send") /\ CanLock(t, c) /\ socketOpen[c] /\ hasReader[c]
    /\ queued' = [queued EXCEPT ![c] = @ + 1]
    /\ Goto(t, AfterSend(t))
    /\ UNCHANGED <<life, socketOpen, pendingIO, mLock, hasReader,
                   disconnects, abandoned, recvPosted, sendsPosted,
                   serverVars, portVars>>

SendPosts_WithoutEnter(t) ==
    LET c == cur[t] IN
    /\ At(t, "send") /\ CanLock(t, c) /\ socketOpen[c] /\ ~hasReader[c]
    /\ hasReader' = [hasReader EXCEPT ![c] = TRUE]
    /\ \/ /\ sendsPosted' = [sendsPosted EXCEPT ![c] = @ + 1]
          /\ Goto(t, AfterSend(t))
          /\ UNCHANGED mLock
       \/ /\ mLock' = [mLock EXCEPT ![c] = t]
          /\ CallClose(t, "release")
          /\ UNCHANGED sendsPosted
    /\ UNCHANGED <<life, socketOpen, pendingIO, queued, disconnects,
                   abandoned, recvPosted, serverVars, portVars>>

SendPosts(t) ==
    LET c == cur[t] IN
    /\ At(t, "send") /\ CanLock(t, c) /\ socketOpen[c] /\ ~hasReader[c]
    /\ hasReader' = [hasReader EXCEPT ![c] = TRUE]
    /\ pendingIO' = [pendingIO EXCEPT ![c] = @ + 1]
    /\ \/ /\ sendsPosted' = [sendsPosted EXCEPT ![c] = @ + 1]
          /\ Goto(t, AfterSend(t))
          /\ UNCHANGED mLock
       \/ /\ mLock' = [mLock EXCEPT ![c] = t]
          /\ CallClose(t, "release")
          /\ UNCHANGED sendsPosted
    /\ UNCHANGED <<life, socketOpen, queued, disconnects, abandoned,
                   recvPosted, serverVars, portVars>>

\* CloseClient, the critical section: m_Socket is exchanged for
\* INVALID_SOCKET, and the thread that took the socket away closes it.
ExchangeSocket_KeepsSocket(t) ==
    LET c == cur[t] IN
    /\ At(t, "close") /\ CanLock(t, c)
    /\ Goto(t, IF socketOpen[c] THEN "closing" ELSE ret[t])
    /\ UNCHANGED <<contextVars, serverVars, portVars>>

ExchangeSocket(t) ==
    LET c == cur[t] IN
    /\ At(t, "close") /\ CanLock(t, c)
    /\ socketOpen' = [socketOpen EXCEPT ![c] = FALSE]
    /\ Goto(t, IF socketOpen[c] THEN "closing" ELSE ret[t])
    /\ UNCHANGED <<life, pendingIO, mLock, hasReader, queued, disconnects,
                   abandoned, recvPosted, sendsPosted, serverVars, portVars>>

\* CloseClient after m_Lock: NotifyDisconnectedClient, the connect count,
\* and closesocket, which cancels what is posted.
CloseSocket(t) ==
    LET c == cur[t] IN
    /\ At(t, "closing")
    /\ disconnects' = [disconnects EXCEPT ![c] = @ + 1]
    /\ connectCount' = connectCount - 1
    /\ Goto(t, ret[t])
    /\ UNCHANGED <<life, socketOpen, pendingIO, mLock, hasReader, queued,
                   abandoned, recvPosted, sendsPosted, contextLock, table,
                   announced, shutdown, crashed, calls, portVars>>

\* What follows ReleaseSocketContext: Send leaves m_Lock and returns, a
\* handler is done.
AfterRelease(t) ==
    IF InSend(t)
    THEN mLock' = [mLock EXCEPT ![cur[t]] = Nobody] /\ Goto(t, AfterSend(t))
    ELSE UNCHANGED mLock /\ Finish(t)

\* ReleaseSocketContext: ExitIOLoop; at zero the context is to be deleted. The
\* count is a ULONG: one that goes below zero, here a negative number, is not
\* "<= 0" in the code either.
ReleaseSocketContext_NeverDeletes(t) ==
    LET c == cur[t] IN
    /\ At(t, "release")
    /\ pendingIO' = [pendingIO EXCEPT ![c] = @ - 1]
    /\ overdrawn' = [overdrawn EXCEPT ![c] = @ + One(op[t] = "stale")]
    /\ AfterRelease(t)
    /\ UNCHANGED <<life, socketOpen, hasReader, queued, disconnects, abandoned,
                   recvPosted, sendsPosted, serverVars, m_hIOCP, ports, portOf,
                   waitsOn>>

ReleaseSocketContext_OffByOne(t) ==
    LET c == cur[t] IN
    /\ At(t, "release")
    /\ pendingIO' = [pendingIO EXCEPT ![c] = @ - 1]
    /\ overdrawn' = [overdrawn EXCEPT ![c] = @ + One(op[t] = "stale")]
    /\ IF pendingIO[c] <= 2
       THEN Goto(t, "erase") /\ UNCHANGED mLock
       ELSE AfterRelease(t)
    /\ UNCHANGED <<life, socketOpen, hasReader, queued, disconnects, abandoned,
                   recvPosted, sendsPosted, serverVars, m_hIOCP, ports, portOf,
                   waitsOn>>

ReleaseSocketContext(t) ==
    LET c == cur[t] IN
    /\ At(t, "release")
    /\ pendingIO' = [pendingIO EXCEPT ![c] = @ - 1]
    /\ overdrawn' = [overdrawn EXCEPT ![c] = @ + One(op[t] = "stale")]
    /\ IF pendingIO[c] = 1
       THEN Goto(t, "erase") /\ UNCHANGED mLock
       ELSE AfterRelease(t)
    /\ UNCHANGED <<life, socketOpen, hasReader, queued, disconnects, abandoned,
                   recvPosted, sendsPosted, serverVars, m_hIOCP, ports, portOf,
                   waitsOn>>

\* DeleteContext, under m_ContextLock.
DeleteContext(t) ==
    /\ At(t, "erase") /\ contextLock \in {Nobody, t}
    /\ table' = table \ {cur[t]}
    /\ Goto(t, "free")
    /\ UNCHANGED <<contextVars, contextLock, announced, connectCount,
                   shutdown, crashed, calls, portVars>>

\* OP_DELETE<PER_SOCKET_CONTEXT>.
FreeContext(t) ==
    /\ At(t, "free")
    /\ life' = [life EXCEPT ![cur[t]] = "freed"]
    /\ AfterRelease(t)
    /\ UNCHANGED <<socketOpen, pendingIO, hasReader, queued, disconnects,
                   abandoned, recvPosted, sendsPosted, serverVars, portVars>>

-----------------------------------------------------------------------------
(* Send(guid, buffer): m_ContextLock is held over the search and the Send. *)
(* The application sends to the connections it was told of.                *)

FindToSend_Unlocks(s, c) ==
    /\ At(s, "idle") /\ contextLock = Nobody /\ c \in announced
    /\ calls < MaxSends /\ calls' = calls + 1
    /\ IF c \in table THEN Enter(s, "guid", c, "send")
                      ELSE UNCHANGED threadVars
    /\ UNCHANGED <<contextVars, contextLock, table, announced, connectCount,
                   shutdown, crashed, portVars>>

FindToSend(s, c) ==
    /\ At(s, "idle") /\ contextLock = Nobody /\ c \in announced
    /\ calls < MaxSends /\ calls' = calls + 1
    /\ IF c \in table
       THEN contextLock' = s /\ Enter(s, "guid", c, "send")
       ELSE UNCHANGED <<contextLock, threadVars>>
    /\ UNCHANGED <<contextVars, table, announced, connectCount, shutdown,
                   crashed, portVars>>

LeaveSend_KeepsLock(s) ==
    /\ At(s, "unlist")
    /\ Finish(s)
    /\ UNCHANGED <<contextVars, serverVars, portVars>>

LeaveSend(s) ==
    /\ At(s, "unlist")
    /\ contextLock' = Nobody
    /\ Finish(s)
    /\ UNCHANGED <<contextVars, table, announced, connectCount, shutdown,
                   crashed, calls, portVars>>

-----------------------------------------------------------------------------
(* Shutdown's close-all: CloseClient for every context of the table, under *)
(* m_ContextLock. No socket of the table opens while the lock is held, so  *)
(* visiting the open ones, in any order, is what pt_table_enum does.       *)

RaiseShutdown(k) ==
    /\ At(k, "idle") /\ ~shutdown
    /\ shutdown' = TRUE
    /\ Goto(k, "begin")
    /\ UNCHANGED <<contextVars, contextLock, table, announced, connectCount,
                   crashed, calls, portVars>>

BeginCloseAll(k) ==
    /\ At(k, "begin") /\ contextLock = Nobody
    /\ contextLock' = k
    /\ Goto(k, "enum")
    /\ UNCHANGED <<contextVars, table, announced, connectCount, shutdown,
                   crashed, calls, portVars>>

CloseNext(k, c) ==
    /\ At(k, "enum") /\ c \in table /\ socketOpen[c]
    /\ pc' = [pc EXCEPT ![k] = "close"]
    /\ op' = [op EXCEPT ![k] = "enum"]
    /\ cur' = [cur EXCEPT ![k] = c]
    /\ ret' = [ret EXCEPT ![k] = "enum"]
    /\ UNCHANGED <<contextVars, serverVars, portVars, key>>

EndCloseAll_KeepsLock(k) ==
    /\ At(k, "enum") /\ \A c \in table : ~socketOpen[c]
    /\ pc' = [pc EXCEPT ![k] = "stopped"]
    /\ UNCHANGED <<contextVars, serverVars, portVars, op, cur, ret, key>>

EndCloseAll(k) ==
    /\ At(k, "enum") /\ \A c \in table : ~socketOpen[c]
    /\ contextLock' = Nobody
    /\ pc' = [pc EXCEPT ![k] = "stopped"]
    /\ op' = [op EXCEPT ![k] = "none"]
    /\ cur' = [cur EXCEPT ![k] = NoContext]
    /\ ret' = [ret EXCEPT ![k] = "release"]
    /\ UNCHANGED <<contextVars, table, announced, connectCount, shutdown,
                   crashed, calls, portVars, key>>

-----------------------------------------------------------------------------
\* A thread in the middle of an operation takes its next step.
ContinueAccept(w) ==
    \/ RejectAccept(w) \/ AdmitAccept(w)
    \/ UpdateCompletionPort(w) \/ AnnounceAccept(w)

ContinueLoop(w) ==
    WaitForPacket(w) \/ CloseAgain(w) \/ UseUninitialisedKey(w)

ContinueRead(w) ==
    \/ NotifyReceived(w)
    \/ PostReadAccepted(w) \/ PostReadFailed(w) \/ PostReadInvalid(w)
    \/ AbandonAccept(w)

ContinueWrite(w) ==
    \/ AdvancePosition(w) \/ MeasurePosition(w) \/ SwapReader(w)
    \/ CheckReader(w) \/ PostWriteAccepted(w) \/ PostWriteFailed(w)
    \/ DereferenceNull(w)

ContinueCall(t) ==
    \/ SendToClosed(t) \/ SendQueues(t) \/ SendPosts(t)
    \/ ExchangeSocket(t) \/ CloseSocket(t)
    \/ ReleaseSocketContext(t) \/ DeleteContext(t) \/ FreeContext(t)

Continue(t) ==
    \/ t \in Workers /\ (ContinueLoop(t) \/ ContinueAccept(t)
                         \/ ContinueRead(t) \/ ContinueWrite(t))
    \/ ContinueCall(t)
    \/ t \in Senders /\ LeaveSend(t)
    \/ t \in Stoppers /\ (BeginCloseAll(t) \/ EndCloseAll(t)
                          \/ \E c \in Contexts : CloseNext(t, c))

\* A completion of c is dequeued by a waiting worker.
Dispatch(w, c) ==
    \/ DispatchRead(w, c) \/ DispatchFailedRead(w, c)
    \/ DispatchWrite(w, c) \/ DispatchFailedWrite(w, c)

\* Nothing is left to do: every thread waits, or tries to, or the process has
\* crashed.
AtRest ==
    /\ crashed \/ \A t \in Threads : pc[t] \in {"idle", "stopped"} \/ WaitFails(t)
    /\ UNCHANGED vars

Next ==
    \/ \E t \in Threads : Continue(t) \/ UseFreedContext(t)
    \/ \E w \in Workers, c \in Contexts : CountAccept(w, c) \/ Dispatch(w, c)
    \/ \E s \in Senders, c \in Contexts : FindToSend(s, c)
    \/ \E k \in Stoppers : RaiseShutdown(k)
    \/ AtRest

Spec == Init /\ [][Next]_vars

(***************************************************************************)
(* Fairness. A thread that can go on for ever does (WF); the calls that    *)
(* take a critical section are finitely many here, so that no waiter has   *)
(* to win against others again and again. The operations posted on a       *)
(* closed socket are cancelled by closesocket and their completions are    *)
(* queued behind finitely many others, so a worker that comes back to      *)
(* their port again and again dequeues them (SF). Nothing makes a peer     *)
(* send, receive or disconnect.                                            *)
(***************************************************************************)
DispatchClosed(c) ==
    ~socketOpen[c] /\ \E w \in Workers : DispatchFailedRead(w, c)
                                          \/ DispatchFailedWrite(w, c)

Fairness ==
    /\ \A t \in Threads : WF_vars(Continue(t))
    /\ \A c \in Contexts : SF_vars(DispatchClosed(c))

FairSpec == Spec /\ Fairness

-----------------------------------------------------------------------------
(* Invariants. *)

\* The state has the declared types; no counter goes below zero but
\* m_NumberOfPendingIO, of which PendingIOIsExact says when.
TypeOK ==
    /\ life \in [Contexts -> {"unborn", "live", "freed"}]
    /\ socketOpen \in [Contexts -> BOOLEAN]
    /\ pendingIO \in [Contexts -> Int]
    /\ mLock \in [Contexts -> Threads \cup {Nobody}]
    /\ hasReader \in [Contexts -> BOOLEAN]
    /\ queued \in [Contexts -> Nat]
    /\ disconnects \in [Contexts -> Nat]
    /\ abandoned \in [Contexts -> BOOLEAN]
    /\ recvPosted \in [Contexts -> BOOLEAN]
    /\ sendsPosted \in [Contexts -> Nat]
    /\ contextLock \in Threads \cup {Nobody}
    /\ table \in SUBSET Contexts /\ announced \in SUBSET Contexts
    /\ connectCount \in Nat
    /\ shutdown \in BOOLEAN /\ crashed \in BOOLEAN
    /\ calls \in 0..MaxSends
    /\ pc \in [Threads -> PCs]
    /\ op \in [Threads -> Ops]
    /\ cur \in [Threads -> Contexts \cup {NoContext}]
    /\ ret \in [Threads -> Returns]
    /\ key \in [Workers -> Contexts \cup {Server, NoContext}]
    /\ ports \in Nat /\ m_hIOCP \in 0..ports
    /\ portOf \in [Contexts -> 0..ports]
    /\ waitsOn \in [Workers -> 0..ports]
    /\ overdrawn \in [Contexts -> Nat]

\* The program points at which a handler still owns the count of the
\* operation whose completion it handles.
HoldingPCs == {"update", "announce", "notify", "post", "advance", "measure", "swap",
               "check", "send", "close", "closing", "release"}

\* Workers that own a count of c: between the dequeue of a completion (or
\* the admission) and the next post or ReleaseSocketContext.
Holders(c) == {t \in Threads : /\ cur[t] = c
                               /\ op[t] \in {"accept", "read", "write"}
                               /\ pc[t] \in HoldingPCs}

\* m_NumberOfPendingIO is exactly the number of operations outstanding in
\* the kernel, plus the handlers that own a completed one, plus the Send
\* whose post failed and has not released yet, plus a receive the accept
\* handler never posted: EnterIOLoop and ExitIOLoop are paired on every path
\* of every handler, double posts of a send included. The one exception is a
\* release by a worker whose wait failed (612-616): it takes a count nobody
\* owns, and happens only to closed contexts, after Shutdown began and made
\* an accept handler store another port than the one of Startup.
PendingIOIsExact ==
    \A c \in Contexts :
        /\ pendingIO[c] + overdrawn[c]
              = Cardinality(Holders(c)) + sendsPosted[c] + One(recvPosted[c])
                + One(mLock[c] # Nobody) + One(abandoned[c])
        /\ overdrawn[c] > 0 => shutdown /\ ~socketOpen[c]

\* A worker acts, or acted, on c because its wait on NULL failed.
Wronged(c) ==
    overdrawn[c] > 0 \/ \E w \in Workers : op[w] = "stale" /\ cur[w] = c

\* No thread runs in a handler, in Send or in CloseClient, and no operation
\* is outstanding in the kernel, on a context that was deleted, until a
\* worker acts on it with a stale key; and no worker does before Shutdown.
NoUseAfterFree ==
    /\ \A t \in Threads :
          cur[t] \in Contexts /\ pc[t] \notin {"over", "admit"}
              => life[cur[t]] = "live" \/ Wronged(cur[t])
    /\ \A c \in Contexts :
          recvPosted[c] \/ sendsPosted[c] > 0 => life[c] = "live" \/ Wronged(c)
    /\ \A c \in Contexts : Wronged(c) => shutdown

\* A thread that owns an m_Lock never asks for m_ContextLock, while Send(guid)
\* and Shutdown take them in the order m_ContextLock, m_Lock: the release
\* inside Send, which holds m_Lock, is never the last one, so the two locks
\* are never taken in both orders, and Send never deletes the context whose
\* lock it holds. A release by a stale key does not change that: the worker
\* has to pass m_Lock, in CloseClient, before it takes a count.
LocksAreOrdered ==
    \A t \in Threads : pc[t] \in {"erase", "free"} => ~InSend(t)

\* The handlers and operations that have to do with receiving on c.
ReceiveHolders(c) == {t \in Holders(c) : op[t] \in {"accept", "read"}}

\* A connection has at most one receive, posted, handled or abandoned: its
\* NotifyReceivedPackage calls never overlap, whatever number of workers, on
\* which the unlocked reassembly buffers of the derived servers rely.
ReceivesAreSerial ==
    \A c \in Contexts :
        /\ recvPosted[c] => ~abandoned[c]
        /\ recvPosted[c] \/ abandoned[c] => ReceiveHolders(c) = {}
        /\ \A t, u \in ReceiveHolders(c) : t = u

\* NotifyDisconnectedClient is called once for a connection, whichever of the
\* workers, senders and Shutdown close it, and never later than its context
\* is deleted, unless that context is wronged.
DisconnectedOnce ==
    \A c \in Contexts : /\ disconnects[c] <= 1
                        /\ life[c] = "freed" => disconnects[c] = 1 \/ Wronged(c)

\* NotifyDisconnectedClient comes after NotifyNewConnection, except for the
\* connections Shutdown closes between AddContext and the notification: the
\* derived servers allocate in the one and release in the other.
DisconnectFollowsConnect ==
    \A c \in Contexts : disconnects[c] > 0 => c \in announced \/ shutdown

OpenContexts == {c \in Contexts : socketOpen[c]}

\* Threads whose increment of the count is not that of an open connection.
Transit == {t \in Threads : pc[t] \in {"over", "admit", "closing"}}

\* m_nCurrentConnectCount counts the open connections and the threads in the
\* middle of an admission, a rejection or a close: nobody counts twice.
ConnectCountIsExact ==
    connectCount = Cardinality(OpenContexts) + Cardinality(Transit)

\* Concurrent accepts never admit more than m_nLimitConnectCount connections.
LimitIsRespected == Cardinality(OpenContexts) <= Limit

\* While an open connection has a buffer to send, a send is outstanding or a
\* thread is on its way to post one: no buffer waits for ever in
\* m_SendBufferList because Send saw a reader that OnClientIoWrite was about
\* to give up.
NoBufferIsForgotten ==
    ~crashed => \A c \in Contexts :
        socketOpen[c] /\ (hasReader[c] \/ queued[c] > 0)
            => \/ sendsPosted[c] > 0
               \/ mLock[c] # Nobody
               \/ \E t \in Threads : /\ cur[t] = c /\ op[t] = "write"
                                     /\ pc[t] \notin {"release", "erase", "free"}

-----------------------------------------------------------------------------
(* Refinement: a connection of ConnectionService, read off its context.    *)

Status == [c \in Contexts |->
              CASE life[c] = "unborn" -> "new"
                [] life[c] = "live" /\ socketOpen[c] -> "connected"
                [] life[c] = "live" /\ ~socketOpen[c] -> "closed"
                [] life[c] = "freed" -> "gone"]

Service == INSTANCE ConnectionService
               WITH Connections <- Contexts, status <- Status

\* The handlers, locks and counts above implement ConnectionService: never
\* more than Limit open connections, and a context is deleted only after its
\* connection was closed.
ImplementsService == Service!Spec

-----------------------------------------------------------------------------
(* Liveness, under FairSpec. *)

\* A thread that entered the library leaves it: no deadlock over m_Lock and
\* m_ContextLock, no thread blocked by another one's Send or close.
CallsReturn ==
    \A t \in Threads :
        pc[t] # "idle" ~> pc[t] \in {"idle", "stopped"} \/ WaitFails(t) \/ crashed

\* A context whose socket was closed is deleted, unless the accept handler
\* abandoned it, or m_hIOCP does not name the port of Startup any more: then
\* the workers do not come back to the port of its completions.
ClosedIsDeleted ==
    \A c \in Contexts :
        life[c] = "live" /\ ~socketOpen[c]
            ~> life[c] = "freed" \/ abandoned[c] \/ crashed \/ m_hIOCP # 1

\* "If the post fails here, close the SOCKET and release the
\* PER_SOCKET_CONTEXT" (OnClientIoAccept): a closed connection is deleted.
FailedAcceptIsReleased ==
    \A c \in Contexts :
        life[c] = "live" /\ ~socketOpen[c] ~> life[c] = "freed" \/ crashed

=============================================================================
