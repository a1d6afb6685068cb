------------------------------ MODULE TextClient ------------------------------
(***************************************************************************)
(* CTextIOCPClient: one thread that selects on the socket, notifies,       *)
(* sends, receives and closes under m_Mutex; application threads that call *)
(* Send under m_Mutex and Connect without it; the destructor; the network. *)
(*                                                                         *)
(* A byte is <<connection, text, offset>>. The application's k-th text on  *)
(* connection n has the bytes <<n, k, 1>> .. <<n, k, TextLength>>, and so  *)
(* has the peer's; the last one is the terminating zero.                   *)
(***************************************************************************)
EXTENDS Naturals, SequencesExt

CONSTANTS
    MaxConnects,  \* calls of Connect that get a socket (bound)
    MaxSends,     \* texts Send queues on all connections (bound)
    MaxTexts,     \* texts the peers send on all connections (bound)
    TextLength    \* bytes of a text, its terminating zero included

ASSUME BoundsAssumption ==
    /\ {MaxConnects, MaxTexts, TextLength} \subseteq Nat \ {0}
    /\ MaxSends \in Nat

Conns == 1..MaxConnects
NoSocket == 0
NoReader == [of |-> 0, text |-> 0, position |-> 0]

VARIABLES
    socket,       \* sdSocketCopy: a connection, or INVALID_SOCKET
    isConnected,  \* m_bIsConnected
    queue,        \* m_SendBufferList
    reader,       \* m_SendingBytes: a text, its connection and m_nPosition
    received,     \* m_ReceivedBytes
    pc,           \* the client's thread
    fds,          \* what select reported and is still to be tested
    wouldBlock,   \* the thread's last error is WSAEWOULDBLOCK
    connecting,   \* a thread is in Connect, between GetSockets and connect
    used,         \* sockets created so far
    owner,        \* the destructor: none, waits, waited or gone
    accepted,     \* texts Send queued, per connection
    net,          \* state of each connection
    wire,         \* bytes handed to the network, per connection
    inbox,        \* bytes the peer sent and recv did not return
    peerSent,     \* texts the peer sent, per connection
    delivered     \* texts given to NotifyReceivedFormatPackage

link == <<socket, isConnected>>
buffers == <<queue, reader, received>>
application == <<connecting, used, owner, accepted>>
peer == <<inbox, peerSent, delivered>>
vars == <<link, buffers, pc, fds, wouldBlock, application, net, wire, peer>>

Init ==
    /\ socket = NoSocket /\ isConnected = FALSE
    /\ queue = <<>> /\ reader = NoReader /\ received = <<>>
    /\ pc = "select" /\ fds = {} /\ wouldBlock = FALSE
    /\ connecting = FALSE /\ used = 0 /\ owner = "none"
    /\ net = [n \in Conns |-> "none"]
    /\ accepted = [n \in Conns |-> 0] /\ peerSent = accepted
    /\ wire = [n \in Conns |-> <<>>] /\ inbox = wire /\ delivered = wire

BytesOf(n, k) == [i \in 1..TextLength |-> <<n, k, i>>]

-----------------------------------------------------------------------------
(* The application: Connect in one thread, Send in any.                    *)

\* A new socket, which does not block.
GetSockets ==
    /\ used < MaxConnects /\ used' = used + 1
    /\ socket' = used + 1
    /\ net' = [net EXCEPT ![used + 1] = "fresh"]

\* connect on whatever sdSocketCopy is by now; its result is ignored, and a
\* connect that fails at once leaves the socket as it was.
AsyncConnect ==
    \/ UNCHANGED net
    \/ socket # NoSocket /\ net' = [net EXCEPT ![socket] = "connecting"]

\* Connect refuses while there is a socket.
BeginConnect ==
    /\ owner = "none" /\ ~connecting /\ socket = NoSocket
    /\ connecting' = TRUE
    /\ GetSockets
    /\ UNCHANGED <<isConnected, buffers, pc, fds, wouldBlock, owner, accepted, wire,
                   peer>>

EndConnect ==
    /\ connecting /\ connecting' = FALSE
    /\ AsyncConnect
    /\ UNCHANGED <<link, buffers, pc, fds, wouldBlock, used, owner, accepted, wire,
                   peer>>

\* The client's thread owns m_Mutex.
MutexTaken == pc \in {"send", "read", "close", "clear"}

\* The body of Send: it queues while there is a socket, connected or not, and
\* does nothing otherwise.
Queue ==
    /\ owner = "none" /\ socket # NoSocket
    /\ FoldFunction(+, 0, accepted) < MaxSends
    /\ queue' = Append(queue, <<socket, accepted[socket] + 1>>)
    /\ accepted' = [accepted EXCEPT ![socket] = @ + 1]
    /\ UNCHANGED <<link, reader, received, pc, fds, wouldBlock, connecting, used,
                   owner, net, wire, peer>>

\* A Send inside a callback has the effect of one just before or just after
\* that hold of m_Mutex.
Send == ~MutexTaken /\ Queue

-----------------------------------------------------------------------------
(* AsyncProcessThread. *)

At(p) == pc = p

\* What select may report of connection n: a connected socket is writable
\* unless the kernel's buffer is full.
Ready(n) ==
    CASE net[n] \in {"fresh", "connecting"} -> {}
      [] net[n] = "refused" -> {{"except"}}
      [] net[n] = "up" /\ inbox[n] = <<>> -> {{"write"}}
      [] OTHER -> {{"read"}, {"read", "write"}}

Select(r) ==
    /\ At("select") /\ socket # NoSocket /\ r \in Ready(socket)
    /\ fds' = r
    /\ pc' = "lock"
    /\ UNCHANGED <<link, buffers, wouldBlock, application, net, wire, peer>>

\* AsyncProcessDisconnected because the connect failed. Nothing else of this
\* round is tested.
ProcessException ==
    /\ At("lock") /\ "except" \in fds
    /\ isConnected' = FALSE
    /\ fds' = {}
    /\ pc' = "close"
    /\ UNCHANGED <<socket, buffers, wouldBlock, application, net, wire, peer>>

\* Sends only in the round that finds the connection established.
ProcessWritable_SendsOnce ==
    /\ At("lock") /\ "except" \notin fds
    /\ isConnected' = (isConnected \/ "write" \in fds)
    /\ pc' = IF "write" \in fds /\ ~isConnected THEN "send" ELSE "read"
    /\ UNCHANGED <<socket, buffers, fds, wouldBlock, application, net, wire, peer>>

\* Writable for the first time: AsyncProcessConnected. Writable: send.
ProcessWritable ==
    /\ At("lock") /\ "except" \notin fds
    /\ isConnected' = (isConnected \/ "write" \in fds)
    /\ pc' = IF "write" \in fds THEN "send" ELSE "read"
    /\ UNCHANGED <<socket, buffers, fds, wouldBlock, application, net, wire, peer>>

\* AsyncProcessSending with nothing to send, or with send returning
\* WSAEWOULDBLOCK.
SendNothing ==
    /\ At("send")
    /\ \/ reader = NoReader /\ queue = <<>> /\ UNCHANGED wouldBlock
       \/ /\ reader # NoReader /\ net[socket] \in {"up", "closed"}
          /\ wouldBlock' = TRUE
    /\ pc' = "read"
    /\ UNCHANGED <<link, buffers, fds, application, net, wire, peer>>

TakeNext ==
    /\ At("send") /\ reader = NoReader /\ queue # <<>>
    /\ reader' = [of |-> Head(queue)[1], text |-> Head(queue)[2], position |-> 0]
    /\ queue' = Tail(queue)
    /\ UNCHANGED <<link, received, pc, fds, wouldBlock, application, net, wire, peer>>

\* The reader when m_nPosition is p: deleted at the end.
ReaderAt(p) == IF p = TextLength THEN NoReader ELSE [reader EXCEPT !.position = p]

\* send takes the bytes up to p.
SendBytes(p) ==
    /\ At("send") /\ reader # NoReader /\ net[socket] \in {"up", "closed"}
    /\ p > reader.position
    /\ wire' = [wire EXCEPT ![socket] =
           @ \o SubSeq(BytesOf(reader.of, reader.text), reader.position + 1, p)]
    /\ reader' = ReaderAt(p)
    /\ pc' = "read"
    /\ UNCHANGED <<link, queue, received, fds, wouldBlock, application, net, peer>>

\* The peer is gone: AsyncProcessDisconnected. The test of readfds is still to
\* come, and the handle in it may be that of the next socket.
SendFails ==
    /\ At("send") /\ reader # NoReader /\ net[socket] \in {"closed", "reset"}
    /\ isConnected' = FALSE /\ wouldBlock' = FALSE
    /\ fds' \in {fds, {}}
    /\ pc' = "close"
    /\ UNCHANGED <<socket, buffers, application, net, wire, peer>>

\* FD_ISSET of the present socket, which is not always the one select saw.
Readable == socket # NoSocket /\ "read" \in fds

ReadSkipped ==
    /\ At("read") /\ ~Readable
    /\ pc' = "select"
    /\ UNCHANGED <<link, buffers, fds, wouldBlock, application, net, wire, peer>>

-----------------------------------------------------------------------------
(* AsyncProcessReceive and CloseConnect. *)

\* GetStringLen from one zero to the next: the texts, and where the last one ends.
GetStringLen(bytes) ==
    LET cut[i \in 0..Len(bytes)] ==
            IF i = 0 THEN [texts |-> <<>>, end |-> 0]
            ELSE IF bytes[i][3] # TextLength THEN cut[i - 1]
            ELSE [texts |-> Append(cut[i - 1].texts,
                                   SubSeq(bytes, cut[i - 1].end + 1, i)),
                  end   |-> i]
    IN  cut[Len(bytes)]

\* recv returns k bytes: each complete text is given to
\* NotifyReceivedFormatPackage, and memcpy moves the rest to the front.
ReceiveBytes(k) ==
    /\ At("read") /\ Readable /\ net[socket] \in {"up", "closed"}
    /\ k <= Len(inbox[socket])
    /\ LET bytes == received \o SubSeq(inbox[socket], 1, k)
           cut == GetStringLen(bytes)
       IN  /\ delivered' = [delivered EXCEPT ![socket] = @ \o cut.texts]
           /\ received' = SubSeq(bytes, cut.end + 1, Len(bytes))
    /\ inbox' = [inbox EXCEPT ![socket] = SubSeq(@, k + 1, Len(@))]
    /\ pc' = "select"
    /\ UNCHANGED <<link, queue, reader, fds, wouldBlock, application, net, wire,
                   peerSent>>

\* recv has nothing, or returns 0 while the last error is still that of an
\* earlier send: the code returns.
ReceiveIgnored ==
    /\ At("read") /\ Readable /\ inbox[socket] = <<>>
    /\ \/ net[socket] = "up" /\ wouldBlock' = TRUE
       \/ net[socket] = "closed" /\ wouldBlock /\ UNCHANGED wouldBlock
    /\ pc' = "select"
    /\ UNCHANGED <<link, buffers, fds, application, net, wire, peer>>

\* The peer closed or reset the connection, or the socket is a new one that is
\* not connected yet.
ReceiveError ==
    \/ net[socket] = "closed" /\ inbox[socket] = <<>> /\ ~wouldBlock
    \/ net[socket] \in {"fresh", "connecting", "refused", "reset"}

\* CloseConnect, with m_bIsConnected as it was.
ReceiveFails ==
    /\ At("read") /\ Readable /\ ReceiveError
    /\ wouldBlock' = FALSE /\ fds' = {}
    /\ pc' = "close"
    /\ UNCHANGED <<link, buffers, application, net, wire, peer>>

\* closesocket; from here on Connect may install the next socket.
CloseSocket ==
    /\ At("close")
    /\ net' = [net EXCEPT ![socket] = "gone"]
    /\ socket' = NoSocket
    /\ pc' = "clear"
    /\ UNCHANGED <<isConnected, buffers, fds, wouldBlock, application, wire, peer>>

ClearBuffers_KeepsReceived ==
    /\ At("clear")
    /\ queue' = <<>> /\ reader' = NoReader
    /\ pc' = "read"
    /\ UNCHANGED <<link, received, fds, wouldBlock, application, net, wire, peer>>

ClearBuffers ==
    /\ At("clear")
    /\ queue' = <<>> /\ reader' = NoReader /\ received' = <<>>
    /\ pc' = "read"
    /\ UNCHANGED <<link, fds, wouldBlock, application, net, wire, peer>>

-----------------------------------------------------------------------------
(* The destructor. *)

RaiseShutdown ==
    /\ owner = "none" /\ ~connecting /\ owner' = "waits"
    /\ UNCHANGED <<link, buffers, pc, fds, wouldBlock, connecting, used, accepted,
                   net, wire, peer>>

\* The thread has returned, or is terminated after ten seconds, wherever it is.
EndThread ==
    /\ owner = "waits" /\ owner' = "waited" /\ pc' = "exited"
    /\ UNCHANGED <<link, buffers, fds, wouldBlock, connecting, used, accepted, net,
                   wire, peer>>

\* CloseConnect, when m_bIsConnected.
CloseAtEnd ==
    /\ owner = "waited" /\ owner' = "gone"
    /\ IF isConnected
       THEN /\ socket' = NoSocket
            /\ net' = IF socket = NoSocket THEN net ELSE [net EXCEPT ![socket] = "gone"]
            /\ queue' = <<>> /\ reader' = NoReader /\ received' = <<>>
       ELSE UNCHANGED <<socket, net, buffers>>
    /\ UNCHANGED <<isConnected, pc, fds, wouldBlock, connecting, used, accepted,
                   wire, peer>>

-----------------------------------------------------------------------------
(* The network and the peer. *)

Move(n, from, to) ==
    /\ net[n] \in from
    /\ net' = [net EXCEPT ![n] = to]
    /\ UNCHANGED <<link, buffers, pc, fds, wouldBlock, application, wire, peer>>

Network(n) ==
    \/ Move(n, {"connecting"}, "up") \/ Move(n, {"connecting"}, "refused")
    \/ Move(n, {"up"}, "closed") \/ Move(n, {"up", "closed"}, "reset")

PeerSends(n) ==
    /\ net[n] = "up" /\ FoldFunction(+, 0, peerSent) < MaxTexts
    /\ inbox' = [inbox EXCEPT ![n] = @ \o BytesOf(n, peerSent[n] + 1)]
    /\ peerSent' = [peerSent EXCEPT ![n] = @ + 1]
    /\ UNCHANGED <<link, buffers, pc, fds, wouldBlock, application, net, wire,
                   delivered>>

-----------------------------------------------------------------------------
SelectWrite == \E r \in {{"write"}, {"read", "write"}} : Select(r)
SendSome == \E p \in 1..TextLength : SendBytes(p)

Thread ==
    \/ SelectWrite \/ Select({"read"}) \/ Select({"except"})
    \/ ProcessException \/ ProcessWritable
    \/ SendNothing \/ TakeNext \/ SendSome \/ SendFails
    \/ ReadSkipped \/ \E k \in 1..(MaxTexts * TextLength) : ReceiveBytes(k)
    \/ ReceiveIgnored \/ ReceiveFails \/ CloseSocket \/ ClearBuffers

\* select reports nothing, and the thread sleeps, or the client is gone.
Sleep == (At("select") \/ At("exited")) /\ UNCHANGED vars

World == Send \/ EndConnect \/ \E n \in Conns : Network(n) \/ PeerSends(n)

Next ==
    \/ Thread \/ Sleep \/ World \/ BeginConnect
    \/ RaiseShutdown \/ EndThread \/ CloseAtEnd

\* The thread's loop goes on; select reports a connection writable, and send
\* takes bytes, again and again while the peer is there.
Fairness == WF_vars(Thread) /\ SF_vars(SelectWrite) /\ SF_vars(SendSome)

Spec == Init /\ [][Next]_vars /\ Fairness

\* The sample client's worker_thread_test: it connects when m_bIsConnected is
\* FALSE, and looks again every ten seconds.
SampleConnect == ~isConnected /\ BeginConnect

SampleSpec ==
    /\ Init /\ [][Thread \/ Sleep \/ World \/ SampleConnect]_vars
    /\ Fairness /\ WF_vars(SampleConnect) /\ WF_vars(EndConnect)

-----------------------------------------------------------------------------
(* Properties. *)

Bytes == Conns \X Nat \X (1..TextLength)

\* The state has the declared types; m_nPosition is inside its text, and the
\* thread sends and closes only on a socket.
TypeOK ==
    /\ socket \in Conns \cup {NoSocket}
    /\ {isConnected, wouldBlock, connecting} \subseteq BOOLEAN
    /\ queue \in Seq(Conns \X Nat) /\ received \in Seq(Bytes)
    /\ reader.position < TextLength
    /\ pc \in {"select", "lock", "send", "read", "close", "clear", "exited"}
    /\ owner \in {"none", "waits", "waited", "gone"}
    /\ pc \in {"lock", "send", "close"} => socket # NoSocket
    /\ fds \subseteq {"except", "read", "write"}
    /\ used \in 0..MaxConnects
    /\ net \in [Conns -> {"none", "fresh", "connecting", "refused", "up",
                          "closed", "reset", "gone"}]
    /\ inbox \in [Conns -> Seq(Bytes)] /\ wire \in [Conns -> Seq(Bytes)]
    /\ accepted \in [Conns -> Nat] /\ peerSent \in [Conns -> Nat]
    /\ delivered \in [Conns -> Seq(Seq(Bytes))]

\* What goes out on a connection is what Send queued while that connection was
\* the socket, every byte once and in order: neither m_SendBufferList nor
\* m_SendingBytes carries anything over to the next connection, although
\* Connect may install its socket in the middle of CloseConnect.
WireInOrder ==
    \A n \in Conns :
        IsPrefix(wire[n], FlattenSeq([k \in 1..accepted[n] |-> BytesOf(n, k)]))

\* However the peer's texts are divided into receives, and whatever the
\* previous connection left behind, NotifyReceivedFormatPackage gets exactly
\* the texts of the connection, whole and in order.
TextsAreWhole ==
    \A n \in Conns :
        /\ Len(delivered[n]) <= peerSent[n]
        /\ delivered[n] = [k \in DOMAIN delivered[n] |-> BytesOf(n, k)]

Broken == socket # NoSocket /\ net[socket] \in {"refused", "reset"}

\* A connection that was refused or reset is given up, so that Connect can be
\* called again, as long as nobody destroys the client.
BrokenIsDropped == Broken ~> ~Broken \/ owner # "none"

Unsent ==
    /\ socket # NoSocket /\ net[socket] = "up"
    /\ Len(wire[socket]) < accepted[socket] * TextLength

\* What Send queued on a connection is sent to its end, unless the connection
\* or the client ends: no text waits on a live connection.
QueuedIsSent == Unsent ~> ~Unsent \/ owner # "none"

\* "if(instance->m_bIsConnected == FALSE)" before Connect in the loop of the
\* sample client (SampleTextClient.cpp:17): a lost connection is opened again.
Reconnects ==
    \A u \in 0..(MaxConnects - 1) : used = u /\ socket = NoSocket ~> used > u

\* The text client: what goes out and what comes in over successive connections.
ClientIsSound == TypeOK /\ WireInOrder /\ TextsAreWhole

\* The text client: a broken connection and a queued text are both dealt with.
ClientMovesOn == BrokenIsDropped /\ QueuedIsSent

=============================================================================
