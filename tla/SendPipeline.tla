----------------------------- MODULE SendPipeline -----------------------------
(***************************************************************************)
(* The bytes of one connection on their way out: Send, the BufferReader    *)
(* and its m_nPosition, m_SendBufferList, PostClientIoWrite and            *)
(* OnClientIoWrite. SocketContext has the counts, locks and deletion of    *)
(* the same code; here the connection stays admitted and a failed post     *)
(* just closes it.                                                         *)
(*                                                                         *)
(* A buffer is a number and its length; a byte is <<buffer, offset>>. The  *)
(* kernel sends the posted ranges in the order they were posted and may    *)
(* report fewer bytes than were asked for; the completion packets wait in  *)
(* the completion port. Send and the swap of the reader are critical       *)
(* sections of m_Lock that cannot block inside: one step each.             *)
(***************************************************************************)
EXTENDS Naturals, FiniteSets, Sequences, SequencesExt

CONSTANTS
    Workers,   \* WorkerThread instances
    Senders,   \* application threads that call Send
    Lengths,   \* Lengths[b]: the bytes of the b-th buffer of the application
    Nobody     \* no worker is in NotifyReceivedPackage

Threads == Workers \cup Senders
Buffers == 1..Len(Lengths)
NoReader == [buffer |-> 0, position |-> 0]

ASSUME PipelineAssumption ==
    /\ Lengths \in Seq(Nat \ {0}) /\ IsFiniteSet(Workers)
    /\ Workers \cap Senders = {} /\ Nobody \notin Threads

VARIABLES
    reader,      \* BufferReader: a buffer and m_nPosition, or NoReader (NULL)
    queue,       \* m_SendBufferList
    socketOpen,  \* m_Socket # INVALID_SOCKET
    posted,      \* WSASend operations of the kernel: ranges from..Lengths[b]
    port,        \* dwIoSize of the completion packets nobody dequeued
    wire,        \* bytes the peer got
    used,        \* number of buffers given to Send so far
    accepted,    \* buffers for which Send returned TRUE
    completed,   \* NotifyWriteCompleted calls
    undefined,   \* a NULL reader was used, or a range beyond the buffer posted
    receiver,    \* worker in NotifyReceivedPackage (one at most)
    pc, size     \* of the workers: place in OnClientIoWrite, and dwIoSize

lists == <<posted, port, wire>>
history == <<used, accepted, completed>>
control == <<receiver, pc, size>>
vars == <<reader, queue, socketOpen, lists, history, undefined, control>>

Init ==
    /\ reader = NoReader /\ queue = <<>> /\ socketOpen = TRUE
    /\ posted = <<>> /\ port = <<>> /\ wire = <<>>
    /\ used = 0 /\ accepted = <<>> /\ completed = <<>>
    /\ undefined = FALSE
    /\ receiver = Nobody
    /\ pc = [w \in Workers |-> "idle"]
    /\ size = [w \in Workers |-> 0]

At(w, p) == pc[w] = p /\ ~undefined
Goto(w, p) == pc' = [pc EXCEPT ![w] = p] /\ UNCHANGED <<receiver, size>>

BytesOf(b) == [i \in 1..Lengths[b] |-> <<b, i>>]

\* IOCPQueue. Pop of an empty queue returns NULL and leaves it.
Empty(q) == q = <<>>
Push(q, object) == Append(q, object)
Pop(q) == IF Empty(q) THEN q ELSE Tail(q)

-----------------------------------------------------------------------------
(* Send. *)

\* A closed socket: FALSE, and the buffer is the caller's again.
SendRefused(b) ==
    /\ ~socketOpen
    /\ UNCHANGED <<reader, queue, socketOpen, lists, accepted>>

\* The buffer waits behind the one being sent.
SendQueued(b) ==
    /\ socketOpen /\ reader # NoReader
    /\ queue' = Push(queue, b)
    /\ accepted' = Append(accepted, b)
    /\ UNCHANGED <<reader, socketOpen, lists>>

\* The buffer becomes the reader and is posted; a failed post closes the
\* connection.
SendPosted(b) ==
    /\ socketOpen /\ reader = NoReader
    /\ reader' = [buffer |-> b, position |-> 0]
    /\ \/ /\ posted' = Append(posted, [buffer |-> b, from |-> 0])
          /\ accepted' = Append(accepted, b)
          /\ UNCHANGED socketOpen
       \/ /\ socketOpen' = FALSE
          /\ posted' = <<>>
          /\ UNCHANGED accepted
    /\ UNCHANGED <<queue, port, wire>>

\* The application's next buffer is given to Send.
Send ==
    /\ used < Len(Lengths) /\ ~undefined
    /\ used' = used + 1
    /\ \/ SendRefused(used + 1)
       \/ SendQueued(used + 1)
       \/ SendPosted(used + 1)
    /\ UNCHANGED <<completed, undefined>>

\* Send by an application thread; by the worker in NotifyReceivedPackage; by
\* a worker from NotifyWriteCompleted.
SendFromThread == Senders # {} /\ Send /\ UNCHANGED control

BeginReceive(w) ==
    /\ At(w, "idle") /\ receiver = Nobody
    /\ receiver' = w
    /\ pc' = [pc EXCEPT ![w] = "receive"]
    /\ UNCHANGED <<reader, queue, socketOpen, lists, history, undefined, size>>

SendFromCallback(w) ==
    /\ pc[w] \in {"receive", "swap"}
    /\ Send
    /\ UNCHANGED control

EndReceive(w) ==
    /\ At(w, "receive")
    /\ receiver' = Nobody
    /\ pc' = [pc EXCEPT ![w] = "idle"]
    /\ UNCHANGED <<reader, queue, socketOpen, lists, history, undefined, size>>

-----------------------------------------------------------------------------
(* The kernel. *)

\* The first posted range is sent, in whole or in part.
Transmit(n) ==
    /\ posted # <<>> /\ socketOpen
    /\ LET p == Head(posted) IN
       /\ p.from + n <= Lengths[p.buffer]
       /\ wire' = wire \o SubSeq(BytesOf(p.buffer), p.from + 1, p.from + n)
    /\ posted' = Tail(posted)
    /\ port' = Append(port, n)
    /\ UNCHANGED <<reader, queue, socketOpen, history, undefined, control>>

\* The connection is closed, by the peer or by a handler (a completion of no
\* bytes counts as a disconnect too): what is posted is cancelled. The failed
\* completions change nothing here (SocketContext).
Disconnect ==
    /\ socketOpen' = FALSE /\ socketOpen
    /\ posted' = <<>>
    /\ UNCHANGED <<reader, queue, port, wire, history, undefined, control>>

-----------------------------------------------------------------------------
(* OnClientIoWrite. *)

Dequeue(w) ==
    /\ At(w, "idle") /\ port # <<>>
    /\ port' = Tail(port)
    /\ size' = [size EXCEPT ![w] = Head(port)]
    /\ pc' = [pc EXCEPT ![w] = "advance"]
    /\ UNCHANGED <<reader, queue, socketOpen, posted, wire, history, undefined,
                   receiver>>

\* m_nPosition += dwIoSize.
AdvancePosition(w) ==
    /\ At(w, "advance") /\ reader # NoReader
    /\ reader' = [reader EXCEPT !.position = @ + size[w]]
    /\ Goto(w, "measure")
    /\ UNCHANGED <<queue, socketOpen, lists, history, undefined>>

\* All sent: NotifyWriteCompleted. Otherwise the rest is to be posted.
MeasurePosition(w) ==
    /\ At(w, "measure") /\ reader # NoReader
    /\ IF reader.position >= Lengths[reader.buffer]
       THEN /\ completed' = Append(completed, reader.buffer)
            /\ Goto(w, "swap")
       ELSE /\ UNCHANGED completed
            /\ Goto(w, "check")
    /\ UNCHANGED <<reader, queue, socketOpen, lists, used, accepted, undefined>>

\* The next buffer of m_SendBufferList becomes the reader.
SwapReader_TakesLast(w) ==
    /\ At(w, "swap")
    /\ reader' = IF queue = <<>> THEN NoReader
                 ELSE [buffer |-> Last(queue), position |-> 0]
    /\ queue' = IF queue = <<>> THEN queue ELSE Front(queue)
    /\ Goto(w, "check")
    /\ UNCHANGED <<socketOpen, lists, history, undefined>>

SwapReader(w) ==
    /\ At(w, "swap")
    /\ reader' = IF Empty(queue) THEN NoReader
                 ELSE [buffer |-> Head(queue), position |-> 0]
    /\ queue' = Pop(queue)
    /\ Goto(w, "check")
    /\ UNCHANGED <<socketOpen, lists, history, undefined>>

CheckReader_ForgetsNext(w) ==
    /\ At(w, "check")
    /\ Goto(w, "idle")
    /\ UNCHANGED <<reader, queue, socketOpen, lists, history, undefined>>

CheckReader(w) ==
    /\ At(w, "check")
    /\ Goto(w, IF reader = NoReader THEN "idle" ELSE "post")
    /\ UNCHANGED <<reader, queue, socketOpen, lists, history, undefined>>

\* PostClientIoWrite: from m_nPosition to the end.
PostRest_FromStart(w) ==
    /\ At(w, "post") /\ socketOpen
    /\ reader # NoReader /\ reader.position <= Lengths[reader.buffer]
    /\ posted' = Append(posted, [buffer |-> reader.buffer, from |-> 0])
    /\ Goto(w, "idle")
    /\ UNCHANGED <<reader, queue, socketOpen, port, wire, history, undefined>>

PostRest(w) ==
    /\ At(w, "post") /\ socketOpen
    /\ reader # NoReader /\ reader.position <= Lengths[reader.buffer]
    /\ posted' = Append(posted, [buffer |-> reader.buffer,
                                 from |-> reader.position])
    /\ Goto(w, "idle")
    /\ UNCHANGED <<reader, queue, socketOpen, port, wire, history, undefined>>

\* The post fails, or finds the socket closed: CloseClient.
PostRestFailed(w) ==
    /\ At(w, "post") /\ (socketOpen => reader # NoReader)
    /\ socketOpen' = FALSE
    /\ posted' = <<>>
    /\ Goto(w, "idle")
    /\ UNCHANGED <<reader, queue, port, wire, history, undefined>>

\* The reader another worker deleted or replaced is NULL or too short.
UseLostReader(w) ==
    /\ \/ pc[w] \in {"advance", "measure"} /\ reader = NoReader
       \/ /\ pc[w] = "post" /\ socketOpen
          /\ reader # NoReader => reader.position > Lengths[reader.buffer]
    /\ undefined' = TRUE /\ ~undefined
    /\ UNCHANGED <<reader, queue, socketOpen, lists, history, control>>

-----------------------------------------------------------------------------
Write(w) ==
    \/ Dequeue(w) \/ AdvancePosition(w) \/ MeasurePosition(w) \/ SwapReader(w)
    \/ CheckReader(w) \/ PostRest(w) \/ PostRestFailed(w)

Kernel == \E b \in Buffers : \E n \in 1..Lengths[b] : Transmit(n)

\* The process may end, or have nothing left to do.
AtRest ==
    /\ undefined \/ ~socketOpen \/ (used = Len(Lengths) /\ posted = <<>> /\ port = <<>>)
    /\ UNCHANGED vars

Next ==
    \/ \E w \in Workers : Write(w) \/ BeginReceive(w) \/ SendFromCallback(w)
                          \/ EndReceive(w) \/ UseLostReader(w)
    \/ SendFromThread \/ Kernel \/ Disconnect \/ AtRest

Spec == Init /\ [][Next]_vars

\* The kernel goes on sending on an open connection, and a thread goes on.
\* The completion port is a queue, so a worker gets to the completed send
\* however many receives it handles (SF). Nothing makes the application call
\* Send, or the connection break.
Fairness ==
    /\ WF_vars(Kernel)
    /\ \A w \in Workers : SF_vars(Write(w)) /\ WF_vars(EndReceive(w))

FairSpec == Spec /\ Fairness

-----------------------------------------------------------------------------
(* Properties. With one worker and no other thread that sends they hold;   *)
(* otherwise the test of BufferReader after m_Lock was released lets two   *)
(* threads post the same buffer, and InOrder fails.                        *)

PostedRanges == [buffer : Buffers, from : Nat]

\* The state has the declared types, and m_nPosition is inside the buffer.
TypeOK ==
    /\ \/ reader = NoReader
       \/ reader.buffer \in Buffers /\ reader.position \in 0..Lengths[reader.buffer]
    /\ queue \in Seq(Buffers) /\ accepted \in Seq(Buffers)
    /\ completed \in Seq(Buffers)
    /\ posted \in Seq(PostedRanges) /\ port \in Seq(Nat)
    /\ wire \in Seq(Buffers \X Nat)
    /\ used \in 0..Len(Lengths)
    /\ socketOpen \in BOOLEAN /\ undefined \in BOOLEAN
    /\ receiver \in Workers \cup {Nobody}
    /\ size \in [Workers -> Nat]
    /\ pc \in [Workers -> {"idle", "receive", "advance", "measure", "swap",
                           "check", "post"}]

Writers == {w \in Workers : pc[w] \notin {"idle", "receive"}}

InFlight == Len(posted) + Len(port) + Cardinality(Writers)

\* There is a reader exactly while its buffer is posted, completed and not
\* dequeued, or in the hands of one OnClientIoWrite: a buffer is never posted
\* twice at a time, and no reader is left behind on an open connection.
OneSendInFlight ==
    /\ ~undefined /\ InFlight <= 1
    /\ socketOpen /\ reader # NoReader => InFlight = 1
    /\ reader = NoReader => posted = <<>> /\ port = <<>>

\* However many threads send and complete, an open connection with bytes to
\* send has a send posted, a completion to handle, or a worker on its way to
\* post: the race of the test of BufferReader sends too much, never nothing.
NothingForgotten ==
    socketOpen /\ ~undefined /\ (reader # NoReader \/ queue # <<>>)
        => InFlight >= 1

Bytes(buffers) == FlattenSeq([i \in DOMAIN buffers |-> BytesOf(buffers[i])])

\* "Buffer sent completely: notify the user, and go on sending with the next
\* one" (OnClientIoWrite): what the peer gets is what Send accepted, every
\* byte once and in order.
InOrder == IsPrefix(wire, Bytes(accepted))

\* NotifyWriteCompleted is called for the accepted buffers in their order,
\* each when its last byte was sent and not before.
CompletedInOrder ==
    /\ IsPrefix(completed, accepted)
    /\ IsPrefix(Bytes(completed), wire)

Pipe == INSTANCE BytePipe WITH
            Packets <- {BytesOf(b) : b \in Buffers},
            input <- Bytes(accepted),
            output <- wire

\* The reader, the queue and the handlers implement BytePipe.
ImplementsPipe == Pipe!Spec

\* A buffer that Send accepted is sent to its end, or the connection closes:
\* none is left in m_SendBufferList or in a reader nobody posts.
AllSent ==
    \A b \in Buffers :
        Contains(accepted, b) ~> Contains(completed, b) \/ ~socketOpen

\* The send path: one send at a time, completed in the order of the calls.
SendsAreOrderly == TypeOK /\ OneSendInFlight /\ CompletedInOrder

=============================================================================
