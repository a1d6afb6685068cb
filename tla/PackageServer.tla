---------------------------- MODULE PackageServer ----------------------------
(***************************************************************************)
(* PackageIOCP: a PackageUserContext per connection, found by GUID, and    *)
(* the cutting of the byte stream into packages with a length and a title. *)
(* DelContext deletes the context under m_critical, but NotifyReceived-    *)
(* Package uses what GetContext returned without any lock or count.        *)
(*                                                                         *)
(* A byte is its position in the peer's stream. The peer is a              *)
(* PackageIOCPClient, or something that sends another title.               *)
(***************************************************************************)
EXTENDS Integers, SequencesExt

CONSTANTS
    Conns,       \* connections, each with its GUID
    Streams,     \* what a peer may send: sequences of [payload, title]
    HeaderSize,  \* sizeof(NETPackage)
    MaxChunk,    \* bytes of one receive
    MaxLength    \* IOCP_MAX_PACKETS_SIZE

VARIABLES
    stream,      \* packages the peer of a connection sends
    arrived,     \* bytes of the stream received so far
    context,     \* the PackageUserContext: "none", "live" or "deleted"
    entry,       \* m_ContextMap[guid]: "absent", "context" or "null"
    buffer,      \* m_lpBufferWriter
    closer,      \* the thread in CloseClient
    receiver,    \* the worker in NotifyReceivedPackage
    delivered,   \* payloads given to NotifyReceivedFormatPackage
    whole,       \* history: every receive brought exactly one package
    overrun,     \* history: a package was notified before it was received
    deletedInUse,\* history: DelContext found a receive being handled
    misused      \* history: a deleted context was used

peer == <<stream, arrived, whole>>
lifetime == <<context, entry>>
history == <<overrun, deletedInUse, misused>>
vars == <<peer, lifetime, buffer, closer, receiver, delivered, history>>

All(x) == [c \in Conns |-> x]

Init ==
    /\ stream \in [Conns -> Streams] /\ arrived = All(0) /\ whole = All(TRUE)
    /\ context = All("none") /\ entry = All("absent")
    /\ buffer = All(<<>>) /\ delivered = All(<<>>)
    /\ closer = All("no") /\ receiver = All("accept")
    /\ overrun = All(FALSE) /\ deletedInUse = All(FALSE) /\ misused = All(FALSE)

\* PackageIOCPClient::Send: the length counts the header.
PackageSize(package) == package.payload + HeaderSize

\* Where the k-th package of the peer ends.
EndOf(c, k) ==
    LET end[j \in 0..Len(stream[c])] ==
            IF j = 0 THEN 0 ELSE end[j - 1] + PackageSize(stream[c][j])
    IN  end[k]
StreamEnd(c) == EndOf(c, Len(stream[c]))
Ends(c) == {EndOf(c, k) : k \in DOMAIN stream[c]}
Positions(from, to) == [i \in 1..(to - from) |-> from + i]
PayloadAt(c, k) == Positions(EndOf(c, k - 1) + HeaderSize, EndOf(c, k))

\* Memory that was freed or read beyond its end: nothing is known any more.
Sound(c) == ~misused[c] /\ ~overrun[c]

Goto(c, from, to) == receiver[c] = from /\ receiver' = [receiver EXCEPT ![c] = to]
AfterReceive(c) == IF closer[c] = "no" THEN "idle" ELSE "over"

-----------------------------------------------------------------------------
(* PackageIOCPManager. *)

\* AddContext in NotifyNewConnection, then the first receive is posted, which
\* fails if Shutdown closed the connection before: DelContext may have come and
\* gone, and nobody deletes this context.
AddContext(c) ==
    /\ Goto(c, "accept", AfterReceive(c))
    /\ context' = [context EXCEPT ![c] = "live"]
    /\ entry' = [entry EXCEPT ![c] = "context"]
    /\ UNCHANGED <<peer, buffer, closer, delivered, history>>

\* operator[] leaves an entry with a NULL pointer where there was none.
GetContext(c) ==
    /\ Sound(c) /\ arrived[c] < StreamEnd(c)
    /\ IF entry[c] = "context"
       THEN Goto(c, "idle", "write") /\ UNCHANGED entry
       ELSE Goto(c, "idle", "over") /\ entry' = [entry EXCEPT ![c] = "null"]
    /\ UNCHANGED <<peer, context, buffer, closer, delivered, history>>

Handling(c) == receiver[c] \in {"write", "scan", "notified"}

DelContext(c) ==
    /\ closer[c] = "delete" /\ closer' = [closer EXCEPT ![c] = "done"]
    /\ context' = [context EXCEPT ![c] = IF entry[c] = "context" THEN "deleted" ELSE @]
    /\ entry' = [entry EXCEPT ![c] = "absent"]
    /\ deletedInUse' = [deletedInUse EXCEPT ![c] = Handling(c)]
    /\ UNCHANGED <<peer, buffer, receiver, delivered, overrun, misused>>

\* CloseClient by another thread, or by NotifyReceivedFormatPackage. While the
\* worker is in the accept's handler, only Shutdown closes (720-721).
Disconnect(c) ==
    /\ closer[c] = "no" /\ closer' = [closer EXCEPT ![c] = "delete"]
    /\ UNCHANGED <<peer, lifetime, buffer, receiver, delivered, history>>

-----------------------------------------------------------------------------
(* NotifyReceivedPackage. *)

UseDeleted(c) ==
    /\ Handling(c) /\ Sound(c) /\ context[c] = "deleted"
    /\ receiver' = [receiver EXCEPT ![c] = "gone"]
    /\ misused' = [misused EXCEPT ![c] = TRUE]
    /\ UNCHANGED <<peer, lifetime, buffer, closer, delivered, overrun, deletedInUse>>

Usable(c) == Sound(c) /\ context[c] = "live"

\* The bytes received are appended first and measured then.
Write(c, n) ==
    /\ Usable(c) /\ n <= StreamEnd(c) - arrived[c]
    /\ arrived' = [arrived EXCEPT ![c] = @ + n]
    /\ buffer' = [buffer EXCEPT ![c] = @ \o Positions(arrived[c], arrived[c] + n)]
    /\ whole' = [whole EXCEPT ![c] = @ /\ \E k \in DOMAIN stream[c] :
           arrived[c] = EndOf(c, k - 1) /\ arrived[c] + n = EndOf(c, k)]
    /\ Goto(c, "write", IF Len(buffer[c]) + n > MaxLength THEN "kick" ELSE "scan")
    /\ UNCHANGED <<stream, lifetime, closer, delivered, history>>

\* The package whose header is at the front of the buffer; anything else there
\* is not a title.
FirstPackage(c) ==
    LET starts == {k \in DOMAIN stream[c] : EndOf(c, k - 1) + 1 = Head(buffer[c])}
    IN  IF starts = {} THEN [payload |-> 0, title |-> FALSE]
        ELSE stream[c][CHOOSE k \in starts : TRUE]
FirstSize(c) == PackageSize(FirstPackage(c))

\* The header is there, and Package->length is not below the length of the
\* buffer; otherwise the code waits for the next receive.
TakesFirst(c) ==
    Len(buffer[c]) >= HeaderSize /\ FirstSize(c) >= Len(buffer[c])

WaitForMore_Clears(c) ==
    /\ Usable(c) /\ ~TakesFirst(c)
    /\ Goto(c, "scan", AfterReceive(c))
    /\ buffer' = [buffer EXCEPT ![c] = <<>>]
    /\ UNCHANGED <<peer, lifetime, closer, delivered, history>>

WaitForMore(c) ==
    /\ Usable(c) /\ ~TakesFirst(c)
    /\ Goto(c, "scan", AfterReceive(c))
    /\ UNCHANGED <<peer, lifetime, buffer, closer, delivered, history>>

IllegalTitle(c) ==
    /\ Usable(c) /\ TakesFirst(c) /\ ~FirstPackage(c).title
    /\ Goto(c, "scan", "kick")
    /\ UNCHANGED <<peer, lifetime, buffer, closer, delivered, history>>

\* The payload is copied out of the buffer, or from beyond its end.
NotifyPackage(c) ==
    /\ Usable(c) /\ TakesFirst(c) /\ FirstPackage(c).title
    /\ Goto(c, "scan", "notified")
    /\ delivered' = [delivered EXCEPT ![c] =
           Append(@, SubSeq(buffer[c], HeaderSize + 1, Len(buffer[c])))]
    /\ overrun' = [overrun EXCEPT ![c] = FirstSize(c) > Len(buffer[c])]
    /\ UNCHANGED <<peer, lifetime, buffer, closer, deletedInUse, misused>>

\* What follows the package moves to the front, and the loop goes on.
DropPackage(c) ==
    /\ Usable(c) /\ Goto(c, "notified", "scan")
    /\ buffer' = [buffer EXCEPT ![c] = SubSeq(@, FirstSize(c) + 1, Len(@))]
    /\ UNCHANGED <<peer, lifetime, closer, delivered, history>>

Kick_GoesOn(c) ==
    /\ receiver[c] = "kick"
    /\ IF closer[c] = "no"
       THEN closer' = [closer EXCEPT ![c] = "delete"] /\ UNCHANGED receiver
       ELSE Goto(c, "kick", "scan") /\ UNCHANGED closer
    /\ UNCHANGED <<peer, lifetime, buffer, delivered, history>>

\* CloseClient of the handler itself, which returns at once after it.
Kick(c) ==
    /\ receiver[c] = "kick"
    /\ IF closer[c] = "no"
       THEN closer' = [closer EXCEPT ![c] = "delete"] /\ UNCHANGED receiver
       ELSE closer[c] = "done" /\ Goto(c, "kick", "over") /\ UNCHANGED closer
    /\ UNCHANGED <<peer, lifetime, buffer, delivered, history>>

NotifyReceivedPackage(c) ==
    \/ GetContext(c) \/ UseDeleted(c) \/ \E n \in 1..MaxChunk : Write(c, n)
    \/ WaitForMore(c) \/ IllegalTitle(c) \/ NotifyPackage(c) \/ DropPackage(c)
    \/ Kick(c)

AtRest ==
    /\ \A c \in Conns :
        ~Sound(c) \/ receiver[c] \in {"accept", "idle", "over", "gone"}
    /\ UNCHANGED vars

Next ==
    \/ \E c \in Conns :
        AddContext(c) \/ Disconnect(c) \/ DelContext(c) \/ NotifyReceivedPackage(c)
    \/ AtRest

Spec == Init /\ [][Next]_vars

-----------------------------------------------------------------------------
(* Properties. *)

\* The state has the declared types, and the map never points to a deleted
\* context.
TypeOK ==
    /\ stream \in [Conns -> Streams] /\ arrived \in [Conns -> Nat]
    /\ context \in [Conns -> {"none", "live", "deleted"}]
    /\ entry \in [Conns -> {"absent", "context", "null"}]
    /\ \A c \in Conns : entry[c] = "context" => context[c] = "live"
    /\ \A c \in Conns : buffer[c] \in Seq(1..StreamEnd(c))
    /\ closer \in [Conns -> {"no", "delete", "done"}]
    /\ receiver \in [Conns -> {"accept", "idle", "write", "scan", "notified",
                               "kick", "over", "gone"}]

\* A deleted context is used only when somebody else, or the callback, closed
\* the connection while a receive of it was handled: not after the handler's own
\* CloseClient, and not by a receive that comes after the disconnect.
MisusedOnlyIfDeletedInUse == \A c \in Conns : misused[c] => deletedInUse[c]

\* A context made when its connection had already ended stays for ever, and no
\* receive finds it.
LeaksAreUnused ==
    \A c \in Conns : context[c] = "live" /\ closer[c] = "done"
        => receiver[c] = "over" /\ arrived[c] = 0

\* Whatever the receives are, what is notified before a package overran the
\* buffer are the peer's packages, whole and in order, and none with an illegal
\* title.
PackagesInOrder ==
    \A c \in Conns : ~overrun[c] => \A k \in DOMAIN delivered[c] :
        delivered[c][k] = PayloadAt(c, k) /\ stream[c][k].title

\* A peer that waits for each package to arrive before it sends the next one is
\* served: each is notified in the receive that brings it, or the connection is
\* closed for its title or for its length.
OneAtATimeWorks ==
    \A c \in Conns : whole[c] /\ receiver[c] \in {"idle", "over"} /\ closer[c] = "no"
        => EndOf(c, Len(delivered[c])) = arrived[c] /\ buffer[c] = <<>>

\* Two packages in one buffer are never notified any more, and the connection
\* goes on receiving until the limit closes it.
JamIsBounded ==
    \A c \in Conns :
        receiver[c] \in {"idle", "scan", "notified"} => Len(buffer[c]) <= MaxLength
JamIsPermanent ==
    [][\A c \in Conns : buffer[c] # <<>> /\ FirstSize(c) < Len(buffer[c])
           => delivered'[c] = delivered[c] /\ Len(buffer'[c]) >= Len(buffer[c])]_vars

\* "wait for the next receive" (PackageIOCP.cpp:77) of a package: it is notified
\* only when all its bytes are there.
IncompletePackagesWait == \A c \in Conns : ~overrun[c]

\* The package server: contexts shared by two threads, and the framing as it is.
PackageServerIsSound ==
    /\ TypeOK
    /\ MisusedOnlyIfDeletedInUse /\ LeaksAreUnused
    /\ PackagesInOrder /\ OneAtATimeWorks /\ JamIsBounded

=============================================================================
