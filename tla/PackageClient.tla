---------------------------- MODULE PackageClient ----------------------------
(***************************************************************************)
(* PackageIOCPClient: the loop of TextClient with the framing of           *)
(* PackageServer, the notifications of the state of the connection, and    *)
(* the destructor. A hold of m_Mutex has one step for the send and one for *)
(* the receive; that Connect may come in the middle of CloseConnect is in  *)
(* TextClient.                                                             *)
(*                                                                         *)
(* A byte of the client is <<connection, package, offset>>; a byte of the  *)
(* server is its position in the stream of its connection.                 *)
(***************************************************************************)
EXTENDS Integers, SequencesExt

CONSTANTS
    MaxConnects,  \* calls of Connect that get a socket (bound)
    MaxSends,     \* packages Send queues on all connections (bound)
    Payload,      \* bytes the client puts in a package
    ServerStream, \* what the server sends on a connection: [payload, title]
    HeaderSize    \* sizeof(NETPackage)

Conns == 1..MaxConnects
NoSocket == 0
NoReader == [of |-> 0, package |-> 0, position |-> 0]
PackageBytes == Payload + HeaderSize

\* Where the server's k-th package ends, as PackageIOCP::SendEx frames it.
EndOf(k) ==
    LET end[j \in 0..Len(ServerStream)] ==
            IF j = 0 THEN 0 ELSE end[j - 1] + ServerStream[j].payload + HeaderSize
    IN  end[k]

VARIABLES
    socket,        \* sdSocketCopy
    isConnected,   \* m_bIsConnected
    queue,         \* m_SendBufferList
    sending,       \* m_SendingBytes
    received,      \* m_ReceivedBytes
    pc, fds,       \* the thread, and what select reported
    owner,         \* the destructor: "none", "waits", "waited" or "gone"
    used,          \* sockets created so far
    net,           \* state of each connection
    accepted,      \* packages Send queued, per connection
    wire,          \* bytes given to the network, per connection
    served, taken, \* packages the server sent, bytes recv returned
    delivered,     \* payloads given to NotifyReceivedFormatPackage
    overrun,       \* history: a package was notified before it was received
    status         \* NotifyConnectionStatus: the calls so far

link == <<socket, isConnected, status>>
buffers == <<queue, sending, received>>
traffic == <<accepted, wire, served, taken, delivered, overrun>>
vars == <<link, buffers, pc, fds, owner, used, net, traffic>>

Init ==
    /\ socket = NoSocket /\ isConnected = FALSE /\ status = <<>>
    /\ queue = <<>> /\ sending = NoReader /\ received = <<>>
    /\ pc = "select" /\ fds = {} /\ owner = "none" /\ used = 0
    /\ net = [n \in Conns |-> "none"]
    /\ accepted = [n \in Conns |-> 0] /\ served = accepted /\ taken = accepted
    /\ wire = [n \in Conns |-> <<>>] /\ delivered = wire
    /\ overrun = [n \in Conns |-> FALSE]

-----------------------------------------------------------------------------
(* Connect, Send and CloseConnect. *)

\* A new socket, which does not block.
GetSockets == used < MaxConnects /\ used' = used + 1 /\ socket' = used + 1

\* connect, whose result is ignored.
AsyncConnect == net' = [net EXCEPT ![socket'] = "connecting"]

\* Connect refuses while there is a socket.
Connect ==
    /\ owner = "none" /\ socket = NoSocket
    /\ GetSockets /\ AsyncConnect
    /\ UNCHANGED <<isConnected, status, buffers, pc, fds, owner, traffic>>

\* The header and the payload are one buffer of the queue.
Send ==
    /\ owner = "none" /\ pc \in {"select", "exited"}
    /\ socket # NoSocket /\ FoldFunction(+, 0, accepted) < MaxSends
    /\ accepted' = [accepted EXCEPT ![socket] = @ + 1]
    /\ queue' = Append(queue, <<socket, accepted[socket] + 1>>)
    /\ UNCHANGED <<link, sending, received, pc, fds, owner, used, net, wire,
                   served, taken, delivered, overrun>>

BytesOf(n, k) == [i \in 1..PackageBytes |-> <<n, k, i>>]

CloseConnect ==
    /\ net' = IF socket = NoSocket THEN net ELSE [net EXCEPT ![socket] = "gone"]
    /\ socket' = NoSocket
    /\ queue' = <<>> /\ received' = <<>> /\ sending' = NoReader

AsyncProcessDisconnected_KeepsFlag ==
    /\ status' = Append(status, IF isConnected THEN "Disconnected" ELSE "ConnectFailed")
    /\ UNCHANGED isConnected
    /\ CloseConnect

AsyncProcessDisconnected ==
    /\ status' = Append(status, IF isConnected THEN "Disconnected" ELSE "ConnectFailed")
    /\ isConnected' = FALSE
    /\ CloseConnect

-----------------------------------------------------------------------------
(* AsyncProcessThread. *)

Goto(from, to) == pc = from /\ pc' = to

\* Bytes recv can return.
Unread(n) == EndOf(served[n]) - taken[n]

\* What select may report: a refused connect, writable, readable.
Ready(n) ==
    CASE net[n] = "connecting" -> {}
      [] net[n] = "refused" -> {{"except"}}
      [] net[n] = "up" /\ Unread(n) = 0 -> {{"write"}}
      [] OTHER -> {{"read"}, {"read", "write"}}

Select ==
    /\ owner # "gone" /\ Goto("select", "locked") /\ socket # NoSocket
    /\ fds' \in Ready(socket)
    /\ UNCHANGED <<link, buffers, owner, used, net, traffic>>

\* m_bShutdown, which the destructor raised.
SeeShutdown ==
    /\ owner # "none" /\ Goto("select", "exited")
    /\ UNCHANGED <<link, buffers, fds, owner, used, net, traffic>>

ProcessException ==
    /\ "except" \in fds /\ Goto("locked", "select")
    /\ AsyncProcessDisconnected
    /\ UNCHANGED <<fds, owner, used, traffic>>

AsyncProcessConnected ==
    /\ isConnected' = TRUE
    /\ status' = IF isConnected THEN status ELSE Append(status, "Connected")
    /\ UNCHANGED <<socket, net>>

\* The package to be sent: the one being sent, or the next of the queue.
Current ==
    IF sending # NoReader THEN sending
    ELSE [of |-> Head(queue)[1], package |-> Head(queue)[2], position |-> 0]
HasCurrent == sending # NoReader \/ queue # <<>>
QueueLeft == IF sending # NoReader THEN queue ELSE Tail(queue)

\* AsyncProcessSending with nothing to send, or WSAEWOULDBLOCK.
SendNothing ==
    /\ "write" \in fds /\ Goto("locked", "read")
    /\ AsyncProcessConnected
    /\ IF HasCurrent THEN sending' = Current /\ queue' = QueueLeft
       ELSE UNCHANGED <<sending, queue>>
    /\ UNCHANGED <<received, fds, owner, used, traffic>>

\* The reader when m_nPosition is p: deleted at the end.
ReaderAt(p) == IF p = PackageBytes THEN NoReader ELSE [Current EXCEPT !.position = p]

\* send takes the bytes up to p.
AsyncProcessSending(p) ==
    /\ "write" \in fds /\ Goto("locked", "read")
    /\ net[socket] # "reset"
    /\ HasCurrent /\ p > Current.position
    /\ AsyncProcessConnected
    /\ wire' = [wire EXCEPT ![socket] = @ \o
           SubSeq(BytesOf(Current.of, Current.package), Current.position + 1, p)]
    /\ sending' = ReaderAt(p) /\ queue' = QueueLeft
    /\ UNCHANGED <<received, fds, owner, used, accepted, served, taken, delivered,
                   overrun>>

\* The peer is gone. Whether the connection was new to this round decides only
\* that Connected is notified before Disconnected.
SendFails ==
    /\ "write" \in fds /\ Goto("locked", "read") /\ HasCurrent
    /\ net[socket] \in {"closed", "reset"}
    /\ status' = status \o (IF isConnected THEN <<>> ELSE <<"Connected">>)
                        \o <<"Disconnected">>
    /\ isConnected' = FALSE
    /\ CloseConnect
    /\ UNCHANGED <<fds, owner, used, traffic>>

NotWritable ==
    /\ fds = {"read"} /\ Goto("locked", "read")
    /\ UNCHANGED <<link, buffers, fds, owner, used, net, traffic>>

Readable == socket # NoSocket /\ "read" \in fds

\* Nothing to read, or recv returned 0 with an old WSAEWOULDBLOCK.
ReceiveNothing ==
    /\ Goto("read", "select")
    /\ Readable => /\ net[socket] \in {"up", "closed"}
                   /\ Unread(socket) = 0
    /\ UNCHANGED <<link, buffers, fds, owner, used, net, traffic>>

\* recv fails or returns 0: m_bIsConnected stays, and nothing is notified.
ReceiveFails ==
    /\ Goto("read", "select") /\ Readable
    /\ \/ net[socket] = "closed" /\ Unread(socket) = 0
       \/ net[socket] \in {"connecting", "refused", "reset"}
    /\ CloseConnect
    /\ UNCHANGED <<isConnected, status, fds, owner, used, traffic>>

Positions(from, to) == [i \in 1..(to - from) |-> from + i]

\* The package a header at position p belongs to.
PackageFrom(p) == CHOOSE k \in DOMAIN ServerStream : EndOf(k - 1) + 1 = p
FirstSize(bytes) == ServerStream[PackageFrom(Head(bytes))].payload + HeaderSize

\* Package->length is tested against the length of the buffer the wrong way.
TakesFirst(bytes) == Len(bytes) >= HeaderSize /\ FirstSize(bytes) >= Len(bytes)

\* The loop of AsyncProcessReceive waits, closes, or notifies one package: what
\* it notifies is as long as the buffer, or longer.
AsyncProcessReceive(k) ==
    /\ Goto("read", "select") /\ Readable
    /\ net[socket] \in {"up", "closed"} /\ ~overrun[socket]
    /\ k <= Unread(socket)
    /\ taken' = [taken EXCEPT ![socket] = @ + k]
    /\ LET bytes == received \o Positions(taken[socket], taken[socket] + k) IN
       \/ /\ ~TakesFirst(bytes) /\ received' = bytes
          /\ UNCHANGED <<socket, net, queue, sending, delivered, overrun>>
       \/ /\ TakesFirst(bytes) /\ ~ServerStream[PackageFrom(Head(bytes))].title
          /\ CloseConnect /\ UNCHANGED <<delivered, overrun>>
       \/ /\ TakesFirst(bytes) /\ ServerStream[PackageFrom(Head(bytes))].title
          /\ delivered' = [delivered EXCEPT ![socket] =
                 Append(@, SubSeq(bytes, HeaderSize + 1, Len(bytes)))]
          /\ overrun' = [overrun EXCEPT ![socket] = FirstSize(bytes) > Len(bytes)]
          /\ received' = <<>> /\ UNCHANGED <<socket, net, queue, sending>>
    /\ UNCHANGED <<isConnected, status, fds, owner, used, accepted, wire, served>>

-----------------------------------------------------------------------------
(* The destructor. *)

RaiseShutdown ==
    /\ owner = "none" /\ owner' = "waits"
    /\ UNCHANGED <<link, buffers, pc, fds, used, net, traffic>>

\* The thread ended, or it is terminated after ten seconds wherever it is.
EndThread ==
    /\ owner = "waits" /\ owner' = "waited" /\ pc' = "exited"
    /\ UNCHANGED <<link, buffers, fds, used, net, traffic>>

\* CloseConnect, when m_bIsConnected.
CloseAtEnd ==
    /\ owner = "waited" /\ owner' = "gone"
    /\ IF isConnected THEN CloseConnect ELSE UNCHANGED <<socket, net, buffers>>
    /\ UNCHANGED <<isConnected, status, pc, fds, used, traffic>>

-----------------------------------------------------------------------------
(* The network and the server. *)

Network(n) ==
    /\ \E move \in {<<"connecting", "up">>, <<"connecting", "refused">>,
                    <<"up", "closed">>, <<"up", "reset">>} :
          net[n] = move[1] /\ net' = [net EXCEPT ![n] = move[2]]
    /\ UNCHANGED <<link, buffers, pc, fds, owner, used, traffic>>

ServerSends(n) ==
    /\ net[n] = "up" /\ served[n] < Len(ServerStream)
    /\ served' = [served EXCEPT ![n] = @ + 1]
    /\ UNCHANGED <<link, buffers, pc, fds, owner, used, net, accepted, wire, taken,
                   delivered, overrun>>

Thread ==
    \/ Select \/ SeeShutdown \/ ProcessException \/ NotWritable \/ SendNothing
    \/ \E p \in 1..PackageBytes : AsyncProcessSending(p)
    \/ SendFails \/ ReceiveNothing \/ ReceiveFails
    \/ \E k \in 1..EndOf(Len(ServerStream)) : AsyncProcessReceive(k)

\* Nothing is open or queued: the thread sleeps, or the client is gone.
AtRest == pc \in {"select", "exited"} /\ UNCHANGED vars

Next ==
    \/ Connect \/ Send \/ Thread \/ AtRest
    \/ RaiseShutdown \/ EndThread \/ CloseAtEnd
    \/ \E n \in Conns : Network(n) \/ ServerSends(n)

Spec == Init /\ [][Next]_vars

-----------------------------------------------------------------------------
(* Properties. *)

\* The state has the declared types, and the thread works on a socket.
TypeOK ==
    /\ socket \in 0..MaxConnects /\ isConnected \in BOOLEAN
    /\ queue \in Seq(Conns \X Nat) /\ sending.position < PackageBytes
    /\ pc \in {"select", "locked", "read", "exited"}
    /\ pc = "locked" => socket # NoSocket
    /\ fds \subseteq {"except", "read", "write"}
    /\ owner \in {"none", "waits", "waited", "gone"}
    /\ status \in Seq({"Connected", "ConnectFailed", "Disconnected"})

\* However many connections are lost without a word, the application never gets
\* Connected twice in a row, nor Disconnected or ConnectFailed in the wrong
\* place: the last notification always agrees with m_bIsConnected.
StatusAlternates ==
    /\ isConnected <=> status # <<>> /\ Last(status) = "Connected"
    /\ \A i \in DOMAIN status : status[i] = "Disconnected"
           <=> (i > 1 /\ status[i - 1] = "Connected")

\* What goes out on a connection is what was queued on it, every package with
\* its header, whole but for the last one, and in order.
WireInOrder ==
    \A n \in Conns :
        IsPrefix(wire[n], FlattenSeq([k \in 1..accepted[n] |-> BytesOf(n, k)]))

\* Until a package overruns the buffer, the application gets the server's
\* packages from the first one on, each once.
PackagesInOrder ==
    \A n \in Conns : ~overrun[n] => \A k \in DOMAIN delivered[n] :
        delivered[n][k] = Positions(EndOf(k - 1) + HeaderSize, EndOf(k))

\* A connection that the application was told of is not left open by the
\* destructor, wherever the thread was ended.
DestructorCloses ==
    owner = "gone" /\ socket # NoSocket
        => status = <<>> \/ Last(status) # "Connected"

\* The package client: notifications, wire and packages over lost connections.
PackageClientIsSound ==
    /\ TypeOK
    /\ StatusAlternates /\ WireInOrder /\ PackagesInOrder /\ DestructorCloses

=============================================================================
