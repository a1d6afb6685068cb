----------------------------- MODULE MCProtocols ------------------------------
(*****************************************************************************)
(* The text and package protocols for TLC: the two clients, the reassembly   *)
(* buffers of the two servers, and the frames of the websocket helper. A     *)
(* behaviour takes the steps of one of them, chosen in the first state: they *)
(* share no state, and the wire between client and server is a byte sequence *)
(* that both sides cut in any way.                                           *)
(*****************************************************************************)
EXTENDS TextClient, Naturals, Sequences, TLC

CONSTANTS
    Subjects,       \* the modules whose steps are explored
    TextStreams, PackageStreams,  \* Streams of the two servers
    ServerPackages,               \* ServerStream of the package client
    Connections,    \* the connections of a server
    PackageConnects, PackageSends, Payload, HeaderSize,
    TextChunk, TextLimit,       \* MaxChunk and MaxLength of TextServer
    PackageChunk, PackageLimit  \* and of PackageServer

\* A text has its terminating zero at least, a package its header.
ASSUME ProtocolsAssumption ==
    /\ {PackageConnects, PackageSends, Payload, TextChunk, TextLimit,
        PackageChunk, PackageLimit} \subseteq Nat
    /\ HeaderSize \in Nat \ {0}
    /\ \A s \in TextStreams : s \in Seq(Nat \ {0})
    /\ \A s \in PackageStreams : s \in Seq([payload : Nat, title : BOOLEAN])
    /\ ServerPackages \in Seq([payload : Nat, title : BOOLEAN])

\* Texts that fit in one receive, span several, or exceed the limit.
SampleTexts == {<<1, 2, 1>>, <<4, 1>>, <<3, 1>>}

\* Packages with and without payload, the last of one stream with a bad title.
Package(n, t) == [payload |-> n, title |-> t]
SamplePackages == {<<Package(1, TRUE), Package(0, TRUE), Package(2, TRUE)>>,
                   <<Package(1, TRUE), Package(0, FALSE)>>}
SampleServerPackages == <<Package(1, TRUE), Package(0, FALSE)>>

\* "258EAFA5-E914-47DA-95CA-C5AB0DC85B11", a key and its answer, in the code of
\* GetAcceptKey: the bytes of the key, the six-bit groups of the answer.
ProtocolGUID == <<50, 53, 56, 69, 65, 70, 65, 53, 45, 69, 57, 49, 52, 45, 52, 55, 68,
    65, 45, 57, 53, 67, 65, 45, 67, 53, 65, 66, 48, 68, 67, 56, 53, 66, 49, 49>>
SampleKey == <<100, 71, 104, 108, 73, 72, 78, 104, 98, 88, 66, 115, 90, 83, 66, 117,
    98, 50, 53, 106, 90, 81, 61, 61>>
SampleAnswer == <<44, 55, 41, 15, 11, 12, 1, 34, 19, 49, 26, 16, 61, 36, 24, 6, 51,
    51, 33, 25, 17, 27, 10, 62, 49, 14, 40, 64>>
Answers == SampleKey :> SampleAnswer

\* Lengths at the block of SHA-1, the length fields of a frame and PACKDATALEN.
SampleMessages == {[i \in 1..n |-> (i * 37) % 256] :
    n \in 0..5 \cup {20, 54, 55, 56, 57, 63, 64, 65, 125, 126, 127, 130, 300}}
SampleMasks == {<<0, 0, 0, 0>>, <<1, 254, 170, 85>>}
SampleLengths == {0, 1, 125, 126, 127, 255, 256, 1019, 1020, 1021, 1023, 1024, 1025}
\* The last message that fills m_UnpackData with its header of eight, and the next.
SampleLongMessages == {[i \in 1..n |-> ((i * 37) % 255) + 1] : n \in {1016, 1017}}

VARIABLES
    subject,  \* the module whose steps this behaviour takes
    textStream, textArrived, announced, object, refs, textEntry, textBuffer,
    textCloser, textReceiver, textDelivered, kicked, overtaken, textMisused,
    pkgStream, pkgArrived, context, pkgEntry, pkgBuffer, pkgCloser,
    pkgReceiver, pkgDelivered, whole, pkgOverrun, deletedInUse, pkgMisused,
    packerSocket, packerIsConnected, packerQueue, sending, packerReceived,
    packerPc, packerFds, packerOwner, packerUsed, packerNet, packerAccepted,
    packerWire, served, taken, packerDelivered, packerOverrun, status, last,
    sha

Server == INSTANCE TextServer WITH
    Conns <- Connections, Streams <- TextStreams, MaxChunk <- TextChunk,
    MaxLength <- TextLimit, stream <- textStream, arrived <- textArrived,
    entry <- textEntry, buffer <- textBuffer, closer <- textCloser,
    receiver <- textReceiver, delivered <- textDelivered,
    misused <- textMisused
Packages == INSTANCE PackageServer WITH
    Conns <- Connections, Streams <- PackageStreams,
    MaxChunk <- PackageChunk, MaxLength <- PackageLimit, stream <- pkgStream,
    arrived <- pkgArrived, entry <- pkgEntry, buffer <- pkgBuffer,
    closer <- pkgCloser, receiver <- pkgReceiver, delivered <- pkgDelivered,
    overrun <- pkgOverrun, misused <- pkgMisused
Packer == INSTANCE PackageClient WITH
    MaxConnects <- PackageConnects, MaxSends <- PackageSends,
    ServerStream <- ServerPackages, socket <- packerSocket,
    isConnected <- packerIsConnected, queue <- packerQueue,
    received <- packerReceived, pc <- packerPc, fds <- packerFds,
    owner <- packerOwner, used <- packerUsed, net <- packerNet,
    accepted <- packerAccepted, wire <- packerWire,
    delivered <- packerDelivered, overrun <- packerOverrun
Socket == INSTANCE WebSocket WITH
    KnownAnswers <- Answers, GUID <- ProtocolGUID,
    Messages <- SampleMessages, Masks <- SampleMasks,
    Lengths <- SampleLengths, LongMessages <- SampleLongMessages

serverVars ==
    <<textStream, textArrived, announced, object, refs, textEntry,
      textBuffer, textCloser, textReceiver, textDelivered, kicked, overtaken,
      textMisused>>
packagesVars ==
    <<pkgStream, pkgArrived, context, pkgEntry, pkgBuffer, pkgCloser,
      pkgReceiver, pkgDelivered, whole, pkgOverrun, deletedInUse, pkgMisused>>
packerVars ==
    <<packerSocket, packerIsConnected, packerQueue, sending, packerReceived,
      packerPc, packerFds, packerOwner, packerUsed, packerNet,
      packerAccepted, packerWire, served, taken, packerDelivered,
      packerOverrun, status>>
socketVars ==
    <<last, sha>>

MCInit ==
    /\ subject \in Subjects
    /\ Init /\ Server!Init /\ Packages!Init /\ Packer!Init /\ Socket!Init
    /\ subject # "text server" => \A c \in Connections : textStream[c] = <<4, 1>>
    /\ subject # "package server" => \A c \in Connections : Len(pkgStream[c]) = 2

MCNext ==
    /\ UNCHANGED subject
    /\ \/ /\ subject = "text client" /\ Next
          /\ UNCHANGED <<serverVars, packagesVars, packerVars, socketVars>>
       \/ /\ subject = "text server" /\ Server!Next
          /\ UNCHANGED <<vars, packagesVars, packerVars, socketVars>>
       \/ /\ subject = "package server" /\ Packages!Next
          /\ UNCHANGED <<vars, serverVars, packerVars, socketVars>>
       \/ /\ subject = "package client" /\ Packer!Next
          /\ UNCHANGED <<vars, serverVars, packagesVars, socketVars>>
       \/ /\ subject = "websocket" /\ Socket!Next
          /\ UNCHANGED <<vars, serverVars, packagesVars, packerVars>>

Client(A) ==
    /\ subject = "text client" /\ A
    /\ UNCHANGED <<subject, serverVars, packagesVars, packerVars, socketVars>>
MCVars == <<subject, vars, serverVars, packagesVars, packerVars, socketVars>>

\* Fairness of TextClient, for the behaviours whose subject it is.
MCSpec ==
    /\ MCInit /\ [][MCNext]_MCVars
    /\ WF_MCVars(Client(Thread)) /\ SF_MCVars(Client(SelectWrite))
    /\ SF_MCVars(Client(SendSome))

-----------------------------------------------------------------------------

\* TextServer: reassembly buffers and framing.
TextServerIsSound == Server!TextServerIsSound

\* PackageServer: contexts and framing.
PackageServerIsSound == Packages!PackageServerIsSound

\* PackageServer: two packages in one buffer are never notified any more.
JamIsPermanent == Packages!JamIsPermanent

\* PackageServer: "wait for the next receive" (PackageIOCP.cpp:77).
IncompletePackagesWait == Packages!IncompletePackagesWait

\* PackageClient: notifications, wire and packages.
PackageClientIsSound == Packer!PackageClientIsSound

\* WebSocket: frames in both directions, SHA-1, base64 and the accept key.
WebSocketIsSound == Socket!WebSocketIsSound

===============================================================================
