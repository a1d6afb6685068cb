---------------------------- MODULE ServerLifecycle ----------------------------
(***************************************************************************)
(* Startup and Shutdown of CBaseIOCPServer with everything that runs       *)
(* meanwhile: the accept contexts of m_vAcceptIOContext, the completion    *)
(* port, the worker threads and the connections they admit. A server may   *)
(* be started again after Shutdown.                                        *)
(*                                                                         *)
(* SocketContext has the counts, sends and locks of a connection; here a   *)
(* connection is its socket, its context's life and its receive, whose     *)
(* count is the only one. A port is a FIFO queue of completion packets; a  *)
(* packet whose key is NULL (a "pill") makes the worker that dequeues it   *)
(* return.                                                                 *)
(*                                                                         *)
(* m_hIOCP is shared and written without a lock: UpdateCompletionPort      *)
(* stores what CreateIoCompletionPort returns, which for a socket that     *)
(* Shutdown closed in the meantime is NULL. Workers then wait on the port  *)
(* they had, on no port, or on a port made later, and one whose wait fails *)
(* acts on the key of its last completion.                                 *)
(***************************************************************************)
EXTENDS Naturals, Sequences, FiniteSets

CONSTANTS
    Workers,   \* one thread and one accept context for each
    Sockets,   \* sockets CreateSocket can return, each once
    MaxRuns,   \* bound of the model: calls of Startup
    Server,    \* the completion key of the listening socket: this
    NoSocket   \* as a key: a variable nothing was stored in yet

ASSUME LifecycleAssumption ==
    /\ IsFiniteSet(Workers) /\ Workers # {} /\ NoSocket \notin Sockets
    /\ Server \notin Sockets \cup {NoSocket}
    /\ MaxRuns \in Nat

\* The accept contexts, in the order of m_vAcceptIOContext.
Slots == 1..Cardinality(Workers)
NoSlot == 0

VARIABLES
    phase,      \* where the caller of Startup and Shutdown is
    runs,       \* calls of Startup so far
    slot,       \* of an accept context: what its AcceptEx is doing
    slotSocket, \* its SocketAccept
    allocated,  \* the accept contexts that exist
    ports,      \* packets of the ports made, the first one by Startup
    m_hIOCP,    \* number of a port; NULL also stands for INVALID_HANDLE_VALUE
    pills,      \* NULL packets Shutdown has posted
    socket,     \* of a socket: its connection and context
    recv,       \* of a socket: its receive
    home,       \* of a socket: what CreateIoCompletionPort returned for it
    pc, at, on, \* of a worker: place, accept context and socket in hand
    key,        \* of a worker: lpCompletionKey
    inside,     \* of a worker: the port it waits on, when m_hIOCP is another
    lost,       \* m_hIOCP was another than the port of Startup since then
    undefined   \* a worker used an accept context or context that was deleted

slotVars == <<slot, slotSocket, allocated>>
portVars == <<m_hIOCP, home, lost>>
connVars == <<socket, recv>>
workerVars == <<pc, at, on>>
waitVars == <<key, inside>>
vars == <<phase, runs, slotVars, ports, portVars, pills, connVars, workerVars,
          waitVars, undefined>>

NULL == 0

(***************************************************************************)
(* A slot is "posted" in the kernel, "queued" in the port, "held" by a     *)
(* worker, or "idle" (its AcceptEx failed, or its completion was dropped). *)
(* HasOverlappedIoCompleted is slot # "posted".                            *)
(* A socket is "fresh", "prepared" for AcceptEx, "open" or "closed" (a     *)
(* context in the table), "deleted" (its context is) or "dropped" (closed  *)
(* without a context).                                                     *)
(***************************************************************************)
SlotStates == {"posted", "queued", "held", "idle"}
SocketStates == {"fresh", "prepared", "open", "closed", "deleted", "dropped"}
RecvStates == {"none", "posted", "queued", "held"}
Phases == {"down", "up", "flagged", "draining", "closing", "waiting"}

Accepted(a) == [kind |-> "accept", slot |-> a]
Received(s) == [kind |-> "read", socket |-> s]
Pill == [kind |-> "pill"]

Init ==
    /\ phase = "down" /\ runs = 0
    /\ slot = [a \in Slots |-> "idle"]
    /\ slotSocket = [a \in Slots |-> NoSocket]
    /\ allocated = {}
    /\ ports = << <<>> >> /\ m_hIOCP = NULL /\ pills = 0
    /\ socket = [s \in Sockets |-> "fresh"]
    /\ recv = [s \in Sockets |-> "none"]
    /\ home = [s \in Sockets |-> NULL]
    /\ pc = [w \in Workers |-> "exited"]
    /\ at = [w \in Workers |-> NoSlot]
    /\ on = [w \in Workers |-> NoSocket]
    /\ key = [w \in Workers |-> NoSocket]
    /\ inside = [w \in Workers |-> NULL]
    /\ lost = FALSE
    /\ undefined = FALSE

Listening == phase \in {"up", "flagged"}
Fresh == {s \in Sockets : socket[s] = "fresh"}

-----------------------------------------------------------------------------
(* Startup and Shutdown. *)

\* Every slot gets a socket and an AcceptEx, or stays idle where that fails
\* (the result of CreateAcceptSocket is ignored); then the workers start.
Startup ==
    /\ phase = "down" /\ runs < MaxRuns
    /\ \E given \in [Slots -> Fresh \cup {NoSocket}] :
          /\ \A a, b \in Slots : given[a] = given[b] => a = b \/ given[a] = NoSocket
          /\ slotSocket' = given
          /\ slot' = [a \in Slots |-> IF given[a] = NoSocket THEN "idle" ELSE "posted"]
          /\ socket' = [s \in Sockets |-> IF \E a \in Slots : given[a] = s
                                          THEN "prepared" ELSE socket[s]]
    /\ allocated' = Slots
    /\ phase' = "up" /\ runs' = runs + 1
    /\ m_hIOCP' = 1 /\ lost' = FALSE
    /\ pc' = [w \in Workers |-> "idle"]
    /\ UNCHANGED <<ports, pills, recv, home, at, on, waitVars, undefined>>

\* m_bIsShutdown = TRUE.
RaiseShutdown ==
    /\ phase = "up"
    /\ phase' = "flagged"
    /\ UNCHANGED <<runs, slotVars, ports, portVars, pills, connVars, workerVars,
                   waitVars, undefined>>

\* closesocket(m_sdListen).
CloseListen ==
    /\ phase = "flagged"
    /\ phase' = "draining"
    /\ UNCHANGED <<runs, slotVars, ports, portVars, pills, connVars, workerVars,
                   waitVars, undefined>>

\* The next slot is deleted, with its socket, once its AcceptEx is complete.
\* A completion is complete when the kernel is done with it: its packet may
\* wait in the port, and a worker may be working on the slot.
Free(a) ==
    /\ phase = "draining"
    /\ a \in allocated /\ \A b \in allocated : a <= b
    /\ allocated' = allocated \ {a}
    /\ slotSocket' = [slotSocket EXCEPT ![a] = NoSocket]
    /\ socket' = [s \in Sockets |-> IF s = slotSocket[a] /\ socket[s] = "prepared"
                                    THEN "dropped" ELSE socket[s]]
    /\ UNCHANGED <<phase, runs, slot, ports, portVars, pills, recv, workerVars,
                   waitVars, undefined>>

FreeSlot == \E a \in Slots : slot[a] # "posted" /\ Free(a)

\* CloseClient for every context of the table.
CloseAll ==
    /\ phase = "draining" /\ allocated = {}
    /\ socket' = [s \in Sockets |-> IF socket[s] = "open" THEN "closed" ELSE socket[s]]
    /\ phase' = "closing"
    /\ UNCHANGED <<runs, slotVars, ports, portVars, pills, recv, workerVars,
                   waitVars, undefined>>

\* One NULL packet for each worker, to whatever m_hIOCP is by then: posting to
\* NULL fails, and nobody looks at the result.
PostPill_OneShort ==
    /\ phase = "closing"
    /\ ports' = IF m_hIOCP = NULL THEN ports
                ELSE [ports EXCEPT ![m_hIOCP] = Append(@, Pill)]
    /\ pills' = pills + 1
    /\ phase' = IF pills + 2 >= Cardinality(Workers) THEN "waiting" ELSE "closing"
    /\ UNCHANGED <<runs, slotVars, portVars, connVars, workerVars, waitVars,
                   undefined>>

PostPill ==
    /\ phase = "closing"
    /\ ports' = IF m_hIOCP = NULL THEN ports
                ELSE [ports EXCEPT ![m_hIOCP] = Append(@, Pill)]
    /\ pills' = pills + 1
    /\ phase' = IF pills + 1 = Cardinality(Workers) THEN "waiting" ELSE "closing"
    /\ UNCHANGED <<runs, slotVars, portVars, connVars, workerVars, waitVars,
                   undefined>>

AllExited == \A w \in Workers : pc[w] = "exited"

EndShutdown_NoWait ==
    /\ phase = "waiting"
    /\ ports' = << <<>> >> /\ m_hIOCP' = NULL /\ pills' = 0
    /\ recv' = [s \in Sockets |-> "none"]
    /\ home' = [s \in Sockets |-> NULL]
    /\ phase' = "down"
    /\ UNCHANGED <<runs, slotVars, socket, lost, workerVars, waitVars, undefined>>

\* All threads have returned; m_hIOCP is closed. Nobody dequeues from the ports
\* any more: their packets and the receives associated with them are reported
\* to nobody.
EndShutdown ==
    /\ phase = "waiting" /\ AllExited
    /\ ports' = << <<>> >> /\ m_hIOCP' = NULL /\ pills' = 0
    /\ recv' = [s \in Sockets |-> "none"]
    /\ home' = [s \in Sockets |-> NULL]
    /\ phase' = "down"
    /\ UNCHANGED <<runs, slotVars, socket, lost, workerVars, waitVars, undefined>>

Shutdown ==
    \/ RaiseShutdown \/ CloseListen \/ FreeSlot \/ CloseAll \/ PostPill
    \/ EndShutdown

-----------------------------------------------------------------------------
(* The kernel. *)

\* A peer connects, or the listening socket is closed: the AcceptEx completes
\* into the port Startup associated that socket with.
CompleteAccept(a) ==
    /\ slot[a] = "posted"
    /\ slot' = [slot EXCEPT ![a] = "queued"]
    /\ ports' = [ports EXCEPT ![1] = Append(@, Accepted(a))]
    /\ UNCHANGED <<phase, runs, slotSocket, allocated, portVars, pills, connVars,
                   workerVars, waitVars, undefined>>

\* Data come, the peer goes, or the socket was closed here: the WSARecv
\* completes.
CompleteRead(s) ==
    /\ recv[s] = "posted"
    /\ recv' = [recv EXCEPT ![s] = "queued"]
    /\ ports' = [ports EXCEPT ![home[s]] = Append(@, Received(s))]
    /\ UNCHANGED <<phase, runs, slotVars, portVars, pills, socket, workerVars,
                   waitVars, undefined>>

-----------------------------------------------------------------------------
(* WorkerThread: GetQueuedCompletionStatus and its results.                *)

\* The port a worker waits on: the one it is inside of, or m_hIOCP.
Sees(w) == IF inside[w] # NULL THEN inside[w] ELSE m_hIOCP

Waits(w) ==
    /\ pc[w] = "idle" /\ ~undefined
    /\ Sees(w) # NULL /\ ports[Sees(w)] # <<>>

First(w) == Head(ports[Sees(w)])

\* The first packet is taken, with completion key k.
Dequeue(w, k) ==
    /\ ports' = [ports EXCEPT ![Sees(w)] = Tail(@)]
    /\ key' = [key EXCEPT ![w] = k]
    /\ inside' = [inside EXCEPT ![w] = NULL]

\* The worker goes on at p with accept context a and socket s in hand.
Handle(w, p, a, s) ==
    /\ pc' = [pc EXCEPT ![w] = p]
    /\ at' = [at EXCEPT ![w] = a]
    /\ on' = [on EXCEPT ![w] = s]

\* The NULL packet: the thread returns.
TakePill(w) ==
    /\ Waits(w) /\ First(w).kind = "pill"
    /\ Dequeue(w, NoSocket)
    /\ Handle(w, "exited", NoSlot, NoSocket)
    /\ UNCHANGED <<phase, runs, slotVars, portVars, pills, connVars, undefined>>

\* An accept completion after m_bIsShutdown: dropped.
DropAccept(w) ==
    /\ Waits(w) /\ First(w).kind = "accept" /\ phase # "up"
    /\ slot' = [slot EXCEPT ![First(w).slot] = "idle"]
    /\ Dequeue(w, Server)
    /\ UNCHANGED <<phase, runs, slotSocket, allocated, portVars, pills, connVars,
                   workerVars, undefined>>

\* An accept completion, successful or not: OnClientIoAccept.
TakeAccept(w) ==
    /\ Waits(w) /\ First(w).kind = "accept" /\ phase = "up"
    /\ LET a == First(w).slot IN
       /\ slot' = [slot EXCEPT ![a] = "held"]
       /\ Handle(w, "accept", a, NoSocket)
    /\ Dequeue(w, Server)
    /\ UNCHANGED <<phase, runs, slotSocket, allocated, portVars, pills, connVars,
                   undefined>>

\* A receive completed with data.
TakeRead(w) ==
    /\ Waits(w) /\ First(w).kind = "read"
    /\ LET s == First(w).socket IN
       /\ socket[s] # "deleted"
       /\ recv' = [recv EXCEPT ![s] = "held"]
       /\ Dequeue(w, s)
       /\ Handle(w, "read", NoSlot, s)
    /\ UNCHANGED <<phase, runs, slotVars, portVars, pills, socket, undefined>>

\* A receive failed: CloseClient, ReleaseSocketContext.
TakeFailedRead(w) ==
    /\ Waits(w) /\ First(w).kind = "read"
    /\ LET s == First(w).socket IN
       /\ socket[s] # "deleted"
       /\ recv' = [recv EXCEPT ![s] = "none"]
       /\ socket' = [socket EXCEPT ![s] = "deleted"]
       /\ Dequeue(w, s)
    /\ UNCHANGED <<phase, runs, slotVars, portVars, pills, workerVars, undefined>>

\* The wait on NULL fails at once and stores no key: the one of the last
\* completion is used again. m_bIsShutdown is set by then, so an accept's key
\* makes the worker try again, for ever.
WaitFails(w) == pc[w] = "idle" /\ ~undefined /\ Sees(w) = NULL

TryAgain(w) ==
    /\ WaitFails(w) /\ key[w] \in {Server, NoSocket}
    /\ UNCHANGED vars

\* CloseClient and ReleaseSocketContext, once more, on the context of the last
\* receive: the count of its receive, or of nobody, is taken.
ReleaseAgain(w) ==
    /\ WaitFails(w) /\ key[w] \in Sockets /\ socket[key[w]] # "deleted"
    /\ socket' = [socket EXCEPT ![key[w]] = "deleted"]
    /\ UNCHANGED <<phase, runs, slotVars, ports, portVars, pills, recv, workerVars,
                   waitVars, undefined>>

\* No completion yet: lpCompletionKey is not initialised and may be NULL.
ExitUninitialised(w) ==
    /\ WaitFails(w) /\ key[w] = NoSocket
    /\ Handle(w, "exited", NoSlot, NoSocket)
    /\ UNCHANGED <<phase, runs, slotVars, ports, portVars, pills, connVars, waitVars,
                   undefined>>

\* A context in use was deleted, or the uninitialised key is taken for one.
UseFreedContext(w) ==
    /\ \/ WaitFails(w) /\ key[w] = NoSocket
       \/ WaitFails(w) /\ key[w] \in Sockets /\ socket[key[w]] = "deleted"
       \/ Waits(w) /\ First(w).kind = "read" /\ socket[First(w).socket] = "deleted"
       \/ /\ pc[w] \in {"update", "store", "post", "read"} /\ ~undefined
          /\ socket[on[w]] = "deleted"
    /\ undefined' = TRUE
    /\ UNCHANGED <<phase, runs, slotVars, ports, portVars, pills, connVars,
                   workerVars, waitVars>>

-----------------------------------------------------------------------------
(* The handlers of WorkerThread. *)

\* CreateAcceptSocket of slot a: a new socket and AcceptEx, or neither. olds
\* is the socket map without the socket the slot had.
CreateAcceptSocket(a, olds) ==
    \/ \E s \in Fresh :
          /\ Listening
          /\ slot' = [slot EXCEPT ![a] = "posted"]
          /\ slotSocket' = [slotSocket EXCEPT ![a] = s]
          /\ socket' = [olds EXCEPT ![s] = "prepared"]
    \/ /\ slot' = [slot EXCEPT ![a] = "idle"]
       /\ slotSocket' = [slotSocket EXCEPT ![a] = NoSocket]
       /\ socket' = olds

\* Over the limit: the socket is closed, the accept posted again.
RejectAccept(w) ==
    LET a == at[w] IN
    /\ pc[w] = "accept" /\ ~undefined /\ a \in allocated
    /\ CreateAcceptSocket(a, [socket EXCEPT ![slotSocket[a]] = "dropped"])
    /\ Handle(w, "idle", NoSlot, NoSocket)
    /\ UNCHANGED <<phase, runs, allocated, ports, portVars, pills, recv, waitVars,
                   undefined>>

\* The socket is saved, and the accept posted again at once.
RepostAccept_SavesAfter(w) ==
    LET a == at[w] IN
    /\ pc[w] = "accept" /\ ~undefined /\ a \in allocated
    /\ CreateAcceptSocket(a, socket)
    /\ pc' = [pc EXCEPT ![w] = "admit"]
    /\ at' = [at EXCEPT ![w] = NoSlot]
    /\ on' = [on EXCEPT ![w] = slotSocket'[a]]
    /\ UNCHANGED <<phase, runs, allocated, ports, portVars, pills, recv, waitVars,
                   undefined>>

RepostAccept(w) ==
    LET a == at[w] IN
    /\ pc[w] = "accept" /\ ~undefined /\ a \in allocated
    /\ CreateAcceptSocket(a, socket)
    /\ Handle(w, "admit", NoSlot, slotSocket[a])
    /\ UNCHANGED <<phase, runs, allocated, ports, portVars, pills, recv, waitVars,
                   undefined>>

\* The slot in hand was deleted by Shutdown.
UseFreedSlot(w) ==
    /\ pc[w] = "accept" /\ at[w] \notin allocated
    /\ undefined' = TRUE /\ ~undefined
    /\ UNCHANGED <<phase, runs, slotVars, ports, portVars, pills, connVars,
                   workerVars, waitVars>>

\* AllocateSocketContext and AddContext: Shutdown can find the context now.
AdmitAccept(w) ==
    /\ pc[w] = "admit" /\ ~undefined
    /\ socket' = [socket EXCEPT ![on[w]] = "open"]
    /\ Handle(w, "update", NoSlot, on[w])
    /\ UNCHANGED <<phase, runs, slotVars, ports, portVars, pills, recv, waitVars,
                   undefined>>

\* CreateIoCompletionPort of UpdateCompletionPort. An open socket is associated
\* with m_hIOCP, or with a new port if that is NULL. A closed one gives NULL; as
\* INVALID_HANDLE_VALUE it gives a new port where there is none.
UpdateCompletionPort(w) ==
    LET s == on[w] IN
    /\ pc[w] = "update" /\ ~undefined /\ socket[s] # "deleted"
    /\ \/ /\ m_hIOCP # NULL
          /\ home' = [home EXCEPT ![s] = IF socket[s] = "open" THEN m_hIOCP ELSE NULL]
          /\ UNCHANGED ports
       \/ /\ m_hIOCP = NULL
          /\ home' = [home EXCEPT ![s] = Len(ports) + 1]
          /\ ports' = Append(ports, <<>>)
       \/ /\ m_hIOCP = NULL /\ socket[s] = "closed"
          /\ home' = [home EXCEPT ![s] = NULL]
          /\ UNCHANGED ports
    /\ Handle(w, "store", NoSlot, s)
    /\ UNCHANGED <<phase, runs, slotVars, m_hIOCP, lost, pills, connVars, waitVars,
                   undefined>>

\* Its result is stored in m_hIOCP, and NotifyNewConnection is called. Of the
\* workers that wait, some are inside the old port already.
StorePort(w) ==
    LET s == on[w] IN
    /\ pc[w] = "store" /\ ~undefined /\ socket[s] # "deleted"
    /\ m_hIOCP' = home[s]
    /\ lost' = (lost \/ home[s] # 1)
    /\ \E W \in SUBSET {v \in Workers : pc[v] = "idle" /\ inside[v] = NULL} :
          /\ home[s] = m_hIOCP => W = {}
          /\ inside' = [v \in Workers |-> IF v \in W THEN m_hIOCP ELSE inside[v]]
    /\ Handle(w, "post", NoSlot, s)
    /\ UNCHANGED <<phase, runs, slotVars, ports, home, pills, connVars, key,
                   undefined>>

\* PostClientIoRead by either handler, on an open socket.
PostRead(w) ==
    LET s == on[w] IN
    /\ pc[w] \in {"post", "read"} /\ ~undefined /\ socket[s] = "open"
    /\ \/ recv' = [recv EXCEPT ![s] = "posted"] /\ UNCHANGED socket
       \/ /\ recv' = [recv EXCEPT ![s] = "none"]
          /\ socket' = [socket EXCEPT ![s] = "deleted"]
    /\ Handle(w, "idle", NoSlot, NoSocket)
    /\ UNCHANGED <<phase, runs, slotVars, ports, portVars, pills, waitVars,
                   undefined>>

\* The socket was closed meanwhile: OnClientIoRead deletes the context,
\* OnClientIoAccept forgets it.
PostReadInvalid(w) ==
    LET s == on[w] IN
    /\ pc[w] \in {"post", "read"} /\ ~undefined /\ socket[s] = "closed"
    /\ recv' = [recv EXCEPT ![s] = "none"]
    /\ socket' = [socket EXCEPT ![s] = IF pc[w] = "read" THEN "deleted" ELSE @]
    /\ Handle(w, "idle", NoSlot, NoSocket)
    /\ UNCHANGED <<phase, runs, slotVars, ports, portVars, pills, waitVars,
                   undefined>>

WorkerThread(w) ==
    \/ TakePill(w) \/ DropAccept(w) \/ TakeAccept(w) \/ TakeRead(w)
    \/ TakeFailedRead(w) \/ RejectAccept(w) \/ RepostAccept(w)
    \/ UseFreedSlot(w) \/ AdmitAccept(w) \/ UpdateCompletionPort(w)
    \/ StorePort(w) \/ PostRead(w) \/ PostReadInvalid(w)
    \/ TryAgain(w) \/ ReleaseAgain(w) \/ ExitUninitialised(w)
    \/ UseFreedContext(w)

-----------------------------------------------------------------------------
\* Nothing more need happen, or Shutdown waits for ever.
AtRest ==
    /\ undefined \/ lost \/ phase \in {"down", "up"}
    /\ UNCHANGED vars

Next ==
    \/ Startup \/ Shutdown
    \/ \E a \in Slots : CompleteAccept(a)
    \/ \E s \in Sockets : CompleteRead(s)
    \/ \E w \in Workers : WorkerThread(w)
    \/ AtRest

Spec == Init /\ [][Next]_vars

(***************************************************************************)
(* Fairness. A Shutdown that began goes on, workers are scheduled, and the *)
(* kernel completes every accept once the listening socket is closed.      *)
(* Nobody has to start the server, to stop it, to connect or to send.      *)
(***************************************************************************)
CancelAccept(a) == ~Listening /\ CompleteAccept(a)

Fairness ==
    /\ WF_vars(phase # "up" /\ Shutdown)
    /\ \A w \in Workers : WF_vars(WorkerThread(w))
    /\ \A a \in Slots : WF_vars(CancelAccept(a))

FairSpec == Spec /\ Fairness

-----------------------------------------------------------------------------
(* Properties. *)

\* The state has the declared types; a worker has a slot in hand exactly in
\* OnClientIoAccept, before it posts it again.
TypeOK ==
    /\ phase \in Phases /\ runs \in 0..MaxRuns
    /\ slot \in [Slots -> SlotStates]
    /\ slotSocket \in [Slots -> Sockets \cup {NoSocket}]
    /\ allocated \in SUBSET Slots
    /\ ports \in Seq(Seq({Pill} \cup {Accepted(a) : a \in Slots}
                                \cup {Received(s) : s \in Sockets}))
    /\ m_hIOCP \in 0..Len(ports)
    /\ pills \in 0..Cardinality(Workers)
    /\ socket \in [Sockets -> SocketStates]
    /\ recv \in [Sockets -> RecvStates]
    /\ home \in [Sockets -> 0..Len(ports)]
    /\ pc \in [Workers -> {"idle", "accept", "admit", "update", "store", "post",
                           "read", "exited"}]
    /\ at \in [Workers -> Slots \cup {NoSlot}]
    /\ on \in [Workers -> Sockets \cup {NoSocket}]
    /\ \A w \in Workers : at[w] # NoSlot <=> pc[w] = "accept"
    /\ key \in [Workers -> Sockets \cup {Server, NoSocket}]
    /\ inside \in [Workers -> 0..Len(ports)]
    /\ lost \in BOOLEAN /\ undefined \in BOOLEAN

\* Nothing but a Shutdown that has closed all connections takes the port away:
\* until it is that far, m_hIOCP is the port of Startup, whatever workers admit.
PortLostInShutdown ==
    /\ lost => phase \in {"closing", "waiting", "down"}
    /\ ~lost => m_hIOCP = IF phase = "down" THEN NULL ELSE 1

\* The sockets the accept contexts own, and the sockets workers admit.
InSlots == {slotSocket[a] : a \in Slots} \ {NoSocket}
Admitting == {on[w] : w \in {v \in Workers : pc[v] = "admit"}}

\* A worker admits the socket a peer connected to and never the one its
\* accept context has been given for the next peer, and no two accept
\* contexts, workers or contexts share a socket: the socket is read before
\* the context is posted again.
SocketsAreNotShared ==
    /\ Admitting \cap InSlots = {} /\ NoSocket \notin Admitting
    /\ \A v, w \in Workers :
          pc[v] = "admit" /\ pc[w] = "admit" /\ on[v] = on[w] => v = w
    /\ \A a, b \in Slots : slotSocket[a] = slotSocket[b]
                               => a = b \/ slotSocket[a] = NoSocket
    /\ \A s \in InSlots \cup Admitting : socket[s] = "prepared"

\* The port of Startup, and the packets of a kind in it.
port == ports[1]
PacketsOf(p) == {i \in DOMAIN port : port[i] = p}

\* An accept context is in one place: its AcceptEx in the kernel, one packet
\* in the port, or one worker's hands; and it is not deleted while the kernel
\* can still complete into it.
SlotsAreExclusive ==
    \A a \in Slots :
        LET holders == {w \in Workers : at[w] = a}
            places == Cardinality(holders) + Cardinality(PacketsOf(Accepted(a)))
        IN /\ places = IF slot[a] \in {"queued", "held"} THEN 1 ELSE 0
           /\ slot[a] = "posted" => a \in allocated

\* Once Shutdown has posted its NULL packets, there is one for every thread
\* still running, and none is taken before it posts them: no thread keeps
\* waiting, and no packet is left for the threads of the next Startup.
PillsMatchThreads ==
    Cardinality(PacketsOf(Pill)) =
        IF phase \in {"closing", "waiting"}
        THEN pills - Cardinality({w \in Workers : pc[w] = "exited"})
        ELSE 0

\* When Shutdown has returned, no thread of the server is left, no accept
\* context, and no AcceptEx that could complete into freed memory.
NothingRunsAfterShutdown ==
    phase = "down" => /\ AllExited /\ port = <<>>
                      /\ allocated = {} /\ \A a \in Slots : slot[a] = "idle"

\* While the server is up an accept context is out of use only because its
\* last CreateAcceptSocket failed, whose result nobody looks at: rejections,
\* failed accepts and admissions each post it again, and with a socket.
LostOnlyByFailure ==
    phase = "up" => \A a \in Slots : slot[a] = "idle" <=> slotSocket[a] = NoSocket

\* A worker that passed the test of m_bIsShutdown admits its connection behind
\* the back of Shutdown, which has closed all those it found: one such
\* connection for each worker may be left open, and no more.
LateAdmissionsAreBounded ==
    phase \in {"closing", "waiting", "down"} =>
        Cardinality({s \in Sockets : socket[s] = "open"}) + Cardinality(Admitting)
            <= Cardinality(Workers)

\* Shutdown returns, whatever completions, rejections and failures it meets.
\* Two things keep it from returning: a worker still in OnClientIoAccept with
\* an accept context that Shutdown has deleted, and a connection closed by
\* Shutdown between AddContext and UpdateCompletionPort, which loses the port.
SlotInUse == undefined /\ \E w \in Workers : pc[w] = "accept" /\ at[w] \notin allocated

ShutdownReturns == phase = "flagged" ~> phase = "down" \/ SlotInUse \/ lost

\* Accept contexts, sockets and NULL packets through starts and stops, as long
\* as no Shutdown lost the port.
ServerIsSound ==
    /\ TypeOK /\ PortLostInShutdown
    /\ ~lost => /\ SocketsAreNotShared /\ SlotsAreExclusive /\ PillsMatchThreads
               /\ NothingRunsAfterShutdown /\ LostOnlyByFailure
               /\ LateAdmissionsAreBounded

=============================================================================
