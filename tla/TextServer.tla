------------------------------ MODULE TextServer ------------------------------
(***************************************************************************)
(* CTextIOCPServer: one reassembly buffer (UserBufferObject) per           *)
(* connection, counted by m_nRefs and found through m_vBufferMap, and the  *)
(* cutting of the byte stream into texts. The accept handler allocates the *)
(* object, the receives of a connection use it one at a time, and          *)
(* whichever thread closes the connection releases it.                     *)
(*                                                                         *)
(* A byte is its position in the peer's stream; Ends(c) are the positions  *)
(* of the terminating zeros. A critical section of m_stBufferLock is one   *)
(* step; m_nRefs is decremented outside of it.                             *)
(***************************************************************************)
EXTENDS Integers, SequencesExt

CONSTANTS
    Conns,      \* connections, each with its GUID
    Streams,    \* what a peer may send: sequences of text lengths
    MaxChunk,   \* bytes of one receive: IOCP_SWAP_BUFFER_SIZE
    MaxLength   \* longest buffer that is accepted: 0x20000

VARIABLES
    stream,     \* text lengths the peer of a connection sends
    arrived,    \* bytes of the stream received so far
    announced,  \* NotifyNewConnection was called
    object,     \* the UserBufferObject: "none", "live" or "deleted"
    refs,       \* m_nRefs
    entry,      \* m_vBufferMap[guid]: "absent", "object" or "null"
    buffer,     \* m_stBufferWriter
    closer,     \* the thread in CloseClient: where it is in the release
    receiver,   \* the worker in NotifyReceivedPackage
    delivered,  \* texts given to NotifyReceivedFormatPackage
    kicked,     \* CloseClient was called for a buffer that is too long
    overtaken,  \* history: the object was handed out between the last
                \* decrement and the removal from the map
    misused     \* history: a deleted object was used or deleted again

peer == <<stream, arrived>>
lifetime == <<object, refs, entry>>
data == <<buffer, delivered, kicked>>
history == <<overtaken, misused>>
vars == <<peer, announced, lifetime, data, closer, receiver, history>>

All(x) == [c \in Conns |-> x]

Init ==
    /\ stream \in [Conns -> Streams] /\ arrived = All(0)
    /\ announced = All(FALSE)
    /\ object = All("none") /\ refs = All(0) /\ entry = All("absent")
    /\ buffer = All(<<>>) /\ delivered = All(<<>>) /\ kicked = All(FALSE)
    /\ closer = All("no") /\ receiver = All("accept")
    /\ overtaken = All(FALSE) /\ misused = All(FALSE)

\* Where the k-th text of the peer ends.
EndOf(c, k) ==
    LET end[j \in 0..Len(stream[c])] ==
            IF j = 0 THEN 0 ELSE end[j - 1] + stream[c][j]
    IN  end[k]
Ends(c) == {EndOf(c, k) : k \in DOMAIN stream[c]}
TextAt(c, k) == [i \in 1..stream[c][k] |-> EndOf(c, k - 1) + i]

\* After a use of freed memory nothing is known of the connection any more.
Sound(c) == ~misused[c]

-----------------------------------------------------------------------------
(* UserBufferList. *)

\* AllocateBufferObject in NotifyNewConnection. Shutdown may have closed the
\* connection before.
NotifyNewConnection(c) ==
    /\ ~announced[c]
    /\ announced' = [announced EXCEPT ![c] = TRUE]
    /\ object' = [object EXCEPT ![c] = "live"]
    /\ refs' = [refs EXCEPT ![c] = 1]
    /\ entry' = [entry EXCEPT ![c] = "object"]
    /\ UNCHANGED <<peer, data, closer, receiver, history>>

\* ReleaseBufferObject(guid) in NotifyDisconnectedClient: the object is looked
\* up under the lock and released after it.
FindToRelease(c) ==
    /\ closer[c] = "find"
    /\ closer' = [closer EXCEPT ![c] =
           IF entry[c] = "object" THEN "drop" ELSE "missed"]
    /\ UNCHANGED <<peer, announced, lifetime, data, receiver, history>>

\* The two threads that release: what follows the release of each.
Release(thread, c, from, to) == thread[c] = from /\ thread' = [thread EXCEPT ![c] = to]

LastReference(c) == refs[c] <= 1

\* InterlockedDecrement, on an object that may be gone.
DropReference(thread, c, end) ==
    /\ Sound(c)
    /\ \/ /\ object[c] = "live"
          /\ refs' = [refs EXCEPT ![c] = @ - 1]
          /\ Release(thread, c, "drop", IF LastReference(c) THEN "erase" ELSE end)
          /\ UNCHANGED misused
       \/ /\ object[c] = "deleted"
          /\ Release(thread, c, "drop", "gone")
          /\ misused' = [misused EXCEPT ![c] = TRUE]
          /\ UNCHANGED refs
    /\ UNCHANGED <<peer, announced, object, entry, data, overtaken>>

\* Whatever the map holds under the GUID is removed.
EraseEntry(thread, c) ==
    /\ Release(thread, c, "erase", "delete")
    /\ entry' = [entry EXCEPT ![c] = "absent"]
    /\ UNCHANGED <<peer, announced, object, refs, data, history>>

DeleteObject(thread, c, end) ==
    /\ Release(thread, c, "delete", end)
    /\ misused' = [misused EXCEPT ![c] = @ \/ object[c] = "deleted"]
    /\ object' = [object EXCEPT ![c] = "deleted"]
    /\ UNCHANGED <<peer, announced, refs, entry, data, overtaken>>

ReleaseByCloser(c) ==
    /\ \/ DropReference(closer, c, "done") \/ EraseEntry(closer, c)
       \/ DeleteObject(closer, c, "done")
    /\ UNCHANGED receiver

\* The next receive is posted only on an open socket.
AfterReceive(c) == IF closer[c] = "no" THEN "idle" ELSE "over"

ReleaseByReceiver(c) ==
    /\ \/ DropReference(receiver, c, AfterReceive(c)) \/ EraseEntry(receiver, c)
       \/ DeleteObject(receiver, c, AfterReceive(c))
    /\ UNCHANGED closer

GetBufferObject_Uncounted(c) ==
    IF entry[c] = "object"
    THEN /\ Release(receiver, c, "idle", "use")
         /\ overtaken' = [overtaken EXCEPT ![c] = @ \/ closer[c] = "erase"]
         /\ UNCHANGED <<refs, entry>>
    ELSE /\ Release(receiver, c, "idle", "over")
         /\ entry' = [entry EXCEPT ![c] = "null"]
         /\ UNCHANGED <<refs, overtaken>>

\* operator[] leaves an entry with a NULL pointer where there was none.
GetBufferObject(c) ==
    IF entry[c] = "object"
    THEN /\ Release(receiver, c, "idle", "use")
         /\ refs' = [refs EXCEPT ![c] = @ + 1]
         /\ overtaken' = [overtaken EXCEPT ![c] = @ \/ closer[c] = "erase"]
         /\ UNCHANGED entry
    ELSE /\ Release(receiver, c, "idle", "over")
         /\ entry' = [entry EXCEPT ![c] = "null"]
         /\ UNCHANGED <<refs, overtaken>>

-----------------------------------------------------------------------------
(* NotifyReceivedPackage. *)

\* The accept handler's PostClientIoRead, after NotifyNewConnection.
PostFirst(c) ==
    /\ announced[c] /\ closer[c] = "no" /\ Release(receiver, c, "accept", "idle")
    /\ UNCHANGED <<peer, announced, lifetime, data, closer, history>>

\* A receive that completed, also when the socket was closed meanwhile.
BeginReceive(c) ==
    /\ Sound(c) /\ arrived[c] < EndOf(c, Len(stream[c]))
    /\ GetBufferObject(c)
    /\ UNCHANGED <<peer, announced, object, data, closer, misused>>

\* The receive handler with a deleted object in its hands.
UseDeleted(c) ==
    /\ Sound(c) /\ object[c] = "deleted"
    /\ Release(receiver, c, "use", "gone")
    /\ misused' = [misused EXCEPT ![c] = TRUE]
    /\ UNCHANGED <<peer, announced, lifetime, data, closer, overtaken>>

Received(c, n) == [i \in 1..n |-> arrived[c] + i]
Arrive(c, n) ==
    /\ n <= EndOf(c, Len(stream[c])) - arrived[c]
    /\ arrived' = [arrived EXCEPT ![c] = @ + n]
    /\ UNCHANGED stream

TooLong(c, n) == Len(buffer[c]) + n > MaxLength

\* A text of more than 128 KB: the connection is closed, the bytes dropped.
KickUser(c, n) ==
    /\ Sound(c) /\ object[c] = "live" /\ TooLong(c, n) /\ Arrive(c, n)
    /\ Release(receiver, c, "use", "kick")
    /\ kicked' = [kicked EXCEPT ![c] = TRUE]
    /\ UNCHANGED <<announced, lifetime, buffer, delivered, closer, history>>

\* GetStringLen from one zero to the next: the texts, and where the last one ends.
GetStringLen(c, bytes) ==
    LET cut[i \in 0..Len(bytes)] ==
            IF i = 0 THEN [texts |-> <<>>, end |-> 0]
            ELSE IF bytes[i] \notin Ends(c) THEN cut[i - 1]
            ELSE [texts |-> Append(cut[i - 1].texts,
                                   SubSeq(bytes, cut[i - 1].end + 1, i)),
                  end   |-> i]
    IN  cut[Len(bytes)]

\* Write appends, every complete text is notified, the rest moves to the front.
CutTexts(c, n) ==
    /\ Sound(c) /\ object[c] = "live" /\ ~TooLong(c, n) /\ Arrive(c, n)
    /\ LET bytes == buffer[c] \o Received(c, n)
           cut == GetStringLen(c, bytes)
       IN  /\ delivered' = [delivered EXCEPT ![c] = @ \o cut.texts]
           /\ buffer' = [buffer EXCEPT ![c] = SubSeq(bytes, cut.end + 1, Len(bytes))]
    /\ Release(receiver, c, "use", "drop")
    /\ UNCHANGED <<announced, lifetime, kicked, closer, history>>

\* CloseClient in the receive handler: it runs the disconnect itself, or
\* another thread exchanged the socket before.
KickCloses(c) ==
    /\ closer[c] = "no" /\ closer' = [closer EXCEPT ![c] = "find"]
    /\ Release(receiver, c, "kick", "closing")
    /\ UNCHANGED <<peer, announced, lifetime, data, history>>

KickClosed(c) ==
    /\ \/ receiver[c] = "kick" /\ closer[c] # "no"
       \/ receiver[c] = "closing" /\ closer[c] = "done"
    /\ receiver' = [receiver EXCEPT ![c] = "drop"]
    /\ UNCHANGED <<peer, announced, lifetime, data, closer, history>>

\* CloseClient by any other thread: a failed operation, Shutdown, Send.
Disconnect(c) ==
    /\ closer[c] = "no" /\ closer' = [closer EXCEPT ![c] = "find"]
    /\ UNCHANGED <<peer, announced, lifetime, data, receiver, history>>

NotifyReceivedPackage(c) ==
    \/ PostFirst(c) \/ BeginReceive(c) \/ UseDeleted(c) \/ KickCloses(c) \/ KickClosed(c)
    \/ \E n \in 1..MaxChunk : KickUser(c, n) \/ CutTexts(c, n)

\* Everything is received, or closed, or undefined.
AtRest ==
    /\ \A c \in Conns : receiver[c] \in {"accept", "idle", "over", "gone"}
    /\ UNCHANGED vars

Next ==
    \/ \E c \in Conns :
        \/ NotifyNewConnection(c) \/ Disconnect(c) \/ FindToRelease(c)
        \/ ReleaseByCloser(c) \/ ReleaseByReceiver(c)
        \/ NotifyReceivedPackage(c)
    \/ AtRest

Spec == Init /\ [][Next]_vars

-----------------------------------------------------------------------------
(* Properties. *)

Releasing == {"drop", "erase", "delete", "gone"}

\* The state has the declared types; a buffer in the map is alive until the
\* thread that dropped the last reference removed it.
TypeOK ==
    /\ stream \in [Conns -> Streams] /\ arrived \in [Conns -> Nat]
    /\ announced \in [Conns -> BOOLEAN] /\ kicked \in [Conns -> BOOLEAN]
    /\ object \in [Conns -> {"none", "live", "deleted"}]
    /\ refs \in [Conns -> Nat]
    /\ entry \in [Conns -> {"absent", "object", "null"}]
    /\ closer \in [Conns -> Releasing \cup {"no", "find", "missed", "done"}]
    /\ receiver \in [Conns -> Releasing \cup {"accept", "idle", "use", "kick",
                                           "closing", "over"}]
    /\ \A c \in Conns : entry[c] = "object" => object[c] = "live"

\* Closing a connection while a receive of it runs is safe but for one window:
\* a deleted buffer is used, or deleted twice, only when GetBufferObject
\* handed it out between the decrement to zero, which is not under
\* m_stBufferLock, and the removal from the map.
MisusedOnlyInWindow == \A c \in Conns : misused[c] => overtaken[c]

\* When the disconnect found the buffer and no receive is running any more,
\* the buffer is deleted and the map holds at most a NULL pointer, whichever of
\* the two threads was the last; a disconnect misses the buffer only if
\* Shutdown closes the connection before the accept handler announced it.
NothingLeftBehind ==
    \A c \in Conns :
        /\ closer[c] = "done" /\ receiver[c] \in {"accept", "idle", "over"}
               => object[c] = "deleted" /\ entry[c] # "object"
        /\ closer[c] = "missed" => receiver[c] = "accept"

\* While the connection is not closed, every receive finds its buffer: no byte
\* of an open connection is dropped.
OpenFindsBuffer ==
    \A c \in Conns : announced[c] /\ closer[c] = "no" =>
        /\ entry[c] = "object"
        /\ ~kicked[c] => FlattenSeq(delivered[c]) \o buffer[c]
                             = [i \in 1..arrived[c] |-> i]

\* However the stream is divided into receives, the texts notified are the
\* peer's texts, whole, once and in order.
TextsAreWhole ==
    \A c \in Conns :
        /\ Len(delivered[c]) <= Len(stream[c])
        /\ delivered[c] = [k \in DOMAIN delivered[c] |-> TextAt(c, k)]

\* A peer whose texts fit the limit together with one receive is never closed
\* for their length, and the buffer never exceeds the limit.
LimitIsFair ==
    \A c \in Conns :
        /\ Len(buffer[c]) <= MaxLength
        /\ kicked[c] => \E k \in DOMAIN stream[c] :
                            stream[c][k] > MaxLength - MaxChunk + 1

\* The text server: reassembly buffers shared by two threads, and the framing.
TextServerIsSound ==
    /\ TypeOK
    /\ MisusedOnlyInWindow /\ NothingLeftBehind /\ OpenFindsBuffer
    /\ TextsAreWhole /\ LimitIsFair

=============================================================================
