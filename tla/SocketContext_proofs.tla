------------------------- MODULE SocketContext_proofs -------------------------
(***************************************************************************)
(* Proofs about SocketContext, for every set of connections and threads,   *)
(* every limit and every number of Send calls.                             *)
(***************************************************************************)
EXTENDS SocketContext, FiniteSetTheorems, TLAPS

-----------------------------------------------------------------------------
(* The inductive invariant. *)

\* Which program points belong to which handler.
ShapeOf(t) ==
    /\ op[t] = "none" => pc[t] \in {"loop", "idle", "begin", "enum", "stopped"}
    /\ op[t] = "accept" => pc[t] \in {"over", "admit", "update", "announce",
                                      "post", "close", "closing", "release",
                                      "erase", "free"}
    /\ op[t] = "stale" => pc[t] \in {"close", "closing", "release", "erase",
                                     "free"}
    /\ op[t] = "read" => pc[t] \in {"notify", "post", "send", "close",
                                    "closing", "release", "erase", "free"}
    /\ op[t] = "write" => pc[t] \in {"advance", "measure", "swap", "check",
                                     "post", "close", "closing", "release",
                                     "erase", "free"}
    /\ op[t] = "guid" => pc[t] \in {"send", "close", "closing", "release",
                                    "erase", "free", "unlist"}
    /\ op[t] = "enum" => pc[t] \in {"enum", "close", "closing"}
    /\ op[t] = "none" <=> cur[t] = NoContext
    /\ op[t] \in {"accept", "read", "write", "stale"} \/ pc[t] = "loop"
           => t \in Workers
    /\ op[t] = "guid" => t \in Senders
    /\ op[t] = "enum" \/ pc[t] = "enum" => t \in Stoppers

Shape == \A t \in Threads : ShapeOf(t)

\* What a close in progress returns to.
ReturnOf(t) ==
    pc[t] \in {"close", "closing"} =>
        /\ op[t] = "enum" <=> ret[t] = "enum"
        /\ ret[t] = "post" => op[t] = "read" /\ ~InSend(t)
        /\ op[t] = "guid" => ret[t] = "release"

ReturnsOK == \A t \in Threads : ReturnOf(t)

\* m_Lock is kept only by a Send whose post failed.
MLockOK ==
    /\ \A c \in Contexts : mLock[c] # Nobody =>
          /\ cur[mLock[c]] = c
          /\ op[mLock[c]] \in {"read", "guid"}
          /\ pc[mLock[c]] \in {"close", "closing", "release"}
    /\ \A t \in Threads :
          op[t] = "guid" /\ pc[t] \in {"close", "closing", "release"}
              => mLock[cur[t]] = t

\* Send(guid) and the enumeration own m_ContextLock all along, and so their
\* context stays in the table.
ContextLockOK ==
    \A t \in Threads :
        /\ op[t] \in {"guid", "enum"} => contextLock = t /\ cur[t] \in table
        /\ pc[t] = "enum" => contextLock = t

TableOK == \A c \in table : life[c] = "live"

\* Connections that are not admitted yet.
UnbornOK ==
    /\ \A c \in Contexts : life[c] # "live" => ~socketOpen[c]
    /\ \A c \in Contexts : life[c] = "unborn" => ~hasReader[c] /\ ~abandoned[c]
    /\ \A t \in Threads : pc[t] \in {"over", "admit"} =>
          /\ op[t] = "accept"
          /\ life[cur[t]] = "unborn"
          /\ \A u \in Threads : u # t => cur[u] # cur[t]

\* A context about to be deleted is closed, and its lock is free; without a
\* release by a stale key it has one deleter and nobody's count.
DeleteOK ==
    \A t \in Threads : pc[t] \in {"erase", "free"} =>
        /\ ~socketOpen[cur[t]]
        /\ mLock[cur[t]] = Nobody
        /\ pc[t] = "free" => cur[t] \notin table
        /\ op[t] # "guid"
        /\ overdrawn[cur[t]] = 0 =>
              /\ pendingIO[cur[t]] = 0
              /\ \A u \in Threads : u # t /\ pc[u] \in {"erase", "free"}
                     => cur[u] # cur[t]

\* Thread t has the count of c's receive and has not begun to give it up.
EarlyReceive(t, c) ==
    /\ cur[t] = c
    /\ op[t] \in {"accept", "read"}
    /\ \/ pc[t] \in {"update", "announce", "notify", "send", "post", "close"}
       \/ mLock[c] = t

\* While the socket is open, or a Send is failing, the receive's count is
\* there: only CloseClient, which needs m_Lock, comes before its release.
ReceiveAlive ==
    \A c \in Contexts :
        socketOpen[c] \/ mLock[c] # Nobody
            => recvPosted[c] \/ \E t \in Threads : EarlyReceive(t, c)

\* Where the one disconnect of a connection is: still to come while the socket
\* is open, on its way in the thread that exchanged the socket, or done.
DisconnectOK ==
    \A c \in Contexts :
        /\ disconnects[c] <= 1
        /\ life[c] = "unborn" \/ socketOpen[c] => disconnects[c] = 0
        /\ life[c] # "unborn" /\ ~socketOpen[c] =>
              \/ disconnects[c] = 1
              \/ \E t \in Threads : cur[t] = c /\ pc[t] = "closing"
        /\ \A t \in Threads : cur[t] = c /\ pc[t] = "closing" =>
              /\ ~socketOpen[c] /\ disconnects[c] = 0
              /\ \A u \in Threads : u # t /\ cur[u] = c => pc[u] # "closing"

\* A queue without a reader is empty; a failing Send that is past the
\* exchange of its CloseClient has a closed socket.
ReaderOK ==
    \A c \in Contexts :
        /\ queued[c] > 0 => hasReader[c]
        /\ mLock[c] # Nobody /\ pc[mLock[c]] # "close" => ~socketOpen[c]

Control ==
    /\ Shape /\ ReturnsOK /\ MLockOK /\ ContextLockOK /\ TableOK /\ UnbornOK
    /\ DeleteOK /\ ReceiveAlive /\ DisconnectOK /\ ReaderOK
    /\ NoBufferIsForgotten /\ ReceivesAreSerial

\* The threads in transit that are sure to open a connection.
Admitting == {t \in Threads : pc[t] = "admit"}

Counts ==
    /\ ConnectCountIsExact
    /\ Cardinality(OpenContexts) + Cardinality(Admitting) <= Limit

\* Whoever works on a connection knows that the application was told of it,
\* except for the accept handler that is still to tell, and for Shutdown.
Untold(t) ==
    op[t] = "accept" /\ pc[t] \in {"over", "admit", "update", "announce"}

Notified ==
    /\ \A t \in Threads :
          op[t] \in {"accept", "read", "write", "guid"} /\ ~Untold(t)
              => cur[t] \in announced
    /\ \A c \in Contexts :
          recvPosted[c] \/ sendsPosted[c] > 0 => c \in announced
    /\ \A t \in Threads :
          op[t] = "enum" \/ pc[t] \in {"begin", "enum", "stopped"} => shutdown
    /\ DisconnectFollowsConnect

\* Contexts that threads, the kernel or a key refer to were admitted.
Admitted ==
    /\ \A t \in Threads : op[t] # "none" /\ pc[t] \notin {"over", "admit"}
           => life[cur[t]] # "unborn"
    /\ \A c \in Contexts :
           recvPosted[c] \/ sendsPosted[c] > 0 => life[c] # "unborn"
    /\ \A w \in Workers : key[w] \in Contexts => life[key[w]] # "unborn"
    /\ \A c \in announced : life[c] # "unborn"

\* A worker with a stale key passes m_Lock in CloseClient before it releases:
\* by then the socket is closed and no Send holds the lock.
StaleOK ==
    /\ \A c \in Contexts : overdrawn[c] > 0 =>
           ~socketOpen[c] /\ mLock[c] = Nobody /\ life[c] # "unborn"
    /\ \A t \in Threads : op[t] = "stale" /\ pc[t] # "close" =>
           ~socketOpen[cur[t]] /\ mLock[cur[t]] = Nobody
    /\ \A t \in Threads : op[t] = "stale" /\ pc[t] \in {"erase", "free"} =>
           overdrawn[cur[t]] > 0

\* NULL is on its way to m_hIOCP only once Shutdown closes connections the
\* application was not told of.
PortOK ==
    /\ m_hIOCP = NULL => shutdown
    /\ \A t \in Threads : pc[t] \in {"update", "announce"} => cur[t] \notin announced
    /\ \A t \in Threads : pc[t] = "announce" /\ portOf[cur[t]] = NULL => shutdown
    /\ \A t \in Threads : op[t] = "stale" => shutdown
    /\ \A c \in Contexts : overdrawn[c] > 0 => shutdown

Key == Admitted /\ StaleOK /\ PortOK

IInv ==
    /\ TypeOK /\ PendingIOIsExact /\ Counts /\ Control /\ Notified /\ Key
    /\ NoUseAfterFree

-----------------------------------------------------------------------------
(* Counting. *)

\* Sets that agree everywhere but on x have sizes that differ by x alone.
LEMMA SizeStep ==
    ASSUME NEW S, IsFiniteSet(S), NEW A \in SUBSET S, NEW B \in SUBSET S,
           NEW x \in S, \A y \in S : y # x => (y \in A <=> y \in B)
    PROVE  /\ Cardinality(A) \in Nat /\ Cardinality(B) \in Nat
           /\ Cardinality(B) = Cardinality(A) - One(x \in A) + One(x \in B)
           /\ x \in A => Cardinality(A) >= 1
  <1>1. IsFiniteSet(A) /\ IsFiniteSet(B)
    BY FS_Subset
  <1>2. Cardinality(A) \in Nat /\ Cardinality(B) \in Nat
    BY <1>1, FS_CardinalityType
  <1>3. CASE x \in A /\ x \in B
    <2>1. A = B
      BY <1>3
    <2>2. Cardinality(A) # 0
      BY <1>1, <1>3, FS_EmptySet
    <2>. QED
      BY <1>2, <1>3, <2>1, <2>2 DEF One
  <1>4. CASE x \in A /\ x \notin B
    <2>1. B = A \ {x}
      BY <1>4
    <2>. QED
      BY <1>1, <1>2, <1>4, <2>1, FS_RemoveElement DEF One
  <1>5. CASE x \notin A /\ x \in B
    <2>1. B = A \cup {x}
      BY <1>5
    <2>. QED
      BY <1>1, <1>2, <1>5, <2>1, FS_AddElement DEF One
  <1>6. CASE x \notin A /\ x \notin B
    <2>1. A = B
      BY <1>6
    <2>. QED
      BY <1>2, <1>6, <2>1 DEF One
  <1>. QED
    BY <1>3, <1>4, <1>5, <1>6

\* Only thread t moves.
OnlyMoves(t) == \A u \in Threads : u # t =>
                    pc'[u] = pc[u] /\ op'[u] = op[u] /\ cur'[u] = cur[u]

\* A step of thread t changes the set of holders of c by t at most.
LEMMA HoldersStep ==
    ASSUME NEW t \in Threads, NEW c \in Contexts, OnlyMoves(t)
    PROVE  /\ Cardinality(Holders(c)) \in Nat
           /\ Cardinality(Holders(c)') = Cardinality(Holders(c))
                  - One(t \in Holders(c)) + One(t \in Holders(c)')
  <1>1. /\ IsFiniteSet(Threads)
        /\ Holders(c) \in SUBSET Threads /\ Holders(c)' \in SUBSET Threads
    BY ThreadsAssumption DEF Holders
  <1>2. \A u \in Threads : u # t => (u \in Holders(c) <=> u \in Holders(c)')
    BY DEF Holders, OnlyMoves
  <1>. QED
    BY <1>1, <1>2, SizeStep

\* A step of thread t changes the sets behind the connect count by t.
LEMMA TransitStep ==
    ASSUME NEW t \in Threads, OnlyMoves(t)
    PROVE  /\ Cardinality(Transit) \in Nat /\ Cardinality(Admitting) \in Nat
           /\ Cardinality(Transit') = Cardinality(Transit)
                  - One(t \in Transit) + One(t \in Transit')
           /\ Cardinality(Admitting') = Cardinality(Admitting)
                  - One(t \in Admitting) + One(t \in Admitting')
           /\ t \in Transit => Cardinality(Transit) >= 1
           /\ Cardinality(Admitting) <= Cardinality(Transit)
  <1>1. /\ IsFiniteSet(Threads)
        /\ Transit \in SUBSET Threads /\ Transit' \in SUBSET Threads
        /\ Admitting \in SUBSET Threads /\ Admitting' \in SUBSET Threads
        /\ Admitting \in SUBSET Transit
    BY ThreadsAssumption DEF Transit, Admitting
  <1>2. \A u \in Threads : u # t => /\ u \in Transit <=> u \in Transit'
                                    /\ u \in Admitting <=> u \in Admitting'
    BY DEF Transit, Admitting, OnlyMoves
  <1>3. Cardinality(Admitting) <= Cardinality(Transit)
    BY <1>1, FS_Subset
  <1>4. /\ Cardinality(Transit) \in Nat
        /\ Cardinality(Transit') = Cardinality(Transit)
               - One(t \in Transit) + One(t \in Transit')
        /\ t \in Transit => Cardinality(Transit) >= 1
    BY <1>1, <1>2, SizeStep
  <1>5. /\ Cardinality(Admitting) \in Nat
        /\ Cardinality(Admitting') = Cardinality(Admitting)
               - One(t \in Admitting) + One(t \in Admitting')
    BY <1>1, <1>2, SizeStep
  <1>. QED
    BY <1>3, <1>4, <1>5

\* A step that opens or closes c alone changes the open connections by c.
LEMMA OpenStep ==
    ASSUME NEW c \in Contexts,
           \A d \in Contexts : d # c => socketOpen'[d] = socketOpen[d]
    PROVE  /\ Cardinality(OpenContexts) \in Nat
           /\ Cardinality(OpenContexts') = Cardinality(OpenContexts)
                  - One(socketOpen[c]) + One(socketOpen'[c])
  <1>1. /\ IsFiniteSet(Contexts)
        /\ OpenContexts \in SUBSET Contexts /\ OpenContexts' \in SUBSET Contexts
    BY ThreadsAssumption DEF OpenContexts
  <1>2. /\ \A d \in Contexts : d # c => (d \in OpenContexts <=> d \in OpenContexts')
        /\ c \in OpenContexts <=> socketOpen[c]
        /\ c \in OpenContexts' <=> socketOpen'[c]
    BY DEF OpenContexts
  <1>. QED
    BY <1>1, <1>2, SizeStep DEF One

\* The reference count of c covers a handler that owns a count of c and
\* everything else that is outstanding.
LEMMA HolderIsCounted ==
    ASSUME NEW c \in Contexts, NEW t \in Holders(c), TypeOK, PendingIOIsExact
    PROVE  pendingIO[c] + overdrawn[c]
               >= 1 + sendsPosted[c] + One(recvPosted[c]) + One(mLock[c] # Nobody)
  <1>1. /\ IsFiniteSet(Threads) /\ t \in Threads /\ Holders(c) \in SUBSET Threads
    BY ThreadsAssumption DEF Holders
  <1>2. Cardinality(Holders(c)) >= 1 /\ Cardinality(Holders(c)) \in Nat
    BY <1>1, SizeStep
  <1>. QED
    BY <1>2 DEF PendingIOIsExact, TypeOK, One

\* ... and with no handler, what is outstanding.
LEMMA OutstandingIsCounted ==
    ASSUME NEW c \in Contexts, TypeOK, PendingIOIsExact
    PROVE  pendingIO[c] + overdrawn[c]
               >= sendsPosted[c] + One(recvPosted[c]) + One(mLock[c] # Nobody)
  <1>1. IsFiniteSet(Holders(c))
    BY ThreadsAssumption, FS_Subset DEF Holders
  <1>2. Cardinality(Holders(c)) \in Nat
    BY <1>1, FS_CardinalityType
  <1>. QED
    BY <1>2 DEF PendingIOIsExact, TypeOK, One

-----------------------------------------------------------------------------
USE ThreadsAssumption, BoundsAssumption
    DEF Threads, At, Goto, Enter, CallClose, EnterClose, Finish, CanLock,
        InSend, AfterSend, AfterRelease, contextVars, serverVars, portVars,
        threadVars, WaitFails, NULL


\* The threads in transit are counted in the connect count.
LEMMA TransitIsCounted ==
    ASSUME NEW t \in Transit, ConnectCountIsExact
    PROVE  connectCount >= 1
  <1>1. IsFiniteSet(Transit) /\ IsFiniteSet(OpenContexts)
    BY ThreadsAssumption, FS_Subset DEF Transit, OpenContexts
  <1>2. Cardinality(Transit) # 0 /\ Cardinality(Transit) \in Nat
    BY <1>1, FS_EmptySet, FS_CardinalityType
  <1>3. Cardinality(OpenContexts) \in Nat
    BY <1>1, FS_CardinalityType
  <1>. QED
    BY <1>2, <1>3 DEF ConnectCountIsExact, Transit

\* A thread about to release owns a count, unless its key is stale; inside Send
\* it owns the count of the send, and the receive's count is there too.
LEMMA ReleaserIsCounted ==
    ASSUME IInv, NEW t \in Threads, pc[t] = "release"
    PROVE  /\ cur[t] \in Contexts
           /\ op[t] # "stale" => pendingIO[cur[t]] + overdrawn[cur[t]] >= 1
           /\ InSend(t) => /\ overdrawn[cur[t]] = 0 /\ op[t] # "stale"
                           /\ pendingIO[cur[t]] >= 2
  <1>1. cur[t] \in Contexts /\ pendingIO[cur[t]] \in Int
        /\ overdrawn[cur[t]] \in Nat /\ sendsPosted[cur[t]] \in Nat
    BY DEF IInv, TypeOK, Control, Shape, ShapeOf
  <1>2. CASE InSend(t)
    <2>0. mLock[cur[t]] = t /\ t # Nobody
      BY <1>1, <1>2
    <2>a. overdrawn[cur[t]] = 0
      BY <1>1, <2>0 DEF IInv, Key, StaleOK
    <2>b. op[t] # "stale"
      BY <1>1, <2>0 DEF IInv, Control, MLockOK
    <2>1. recvPosted[cur[t]] \/ \E u \in Threads : EarlyReceive(u, cur[t])
      BY <1>1, <1>2 DEF IInv, Control, ReceiveAlive
    <2>2. CASE recvPosted[cur[t]]
      BY <1>1, <2>0, <2>a, <2>b, <2>2, OutstandingIsCounted DEF IInv, One
    <2>3. CASE \E u \in Threads : EarlyReceive(u, cur[t])
      <3>1. PICK u \in Threads : EarlyReceive(u, cur[t])
        BY <2>3
      <3>2. u \in Holders(cur[t])
        BY <1>1, <1>2, <3>1
        DEF EarlyReceive, Holders, HoldingPCs, IInv, Control, MLockOK
      <3>. QED
        BY <1>1, <2>0, <2>a, <2>b, <3>2, HolderIsCounted DEF IInv, One
    <2>. QED
      BY <2>1, <2>2, <2>3
  <1>3. CASE ~InSend(t) /\ op[t] # "stale"
    <2>1. t \in Holders(cur[t])
      BY <1>1, <1>3
      DEF Holders, HoldingPCs, IInv, TypeOK, Ops, Control, Shape, ShapeOf, MLockOK
    <2>. QED
      BY <1>1, <1>3, <2>1, HolderIsCounted DEF IInv, One
  <1>4. CASE ~InSend(t) /\ op[t] = "stale"
    BY <1>1, <1>4
  <1>. QED
    BY <1>1, <1>2, <1>3, <1>4


\* Two handlers that own a count of c are counted twice.
LEMMA HoldersAreCounted ==
    ASSUME IInv, NEW c \in Contexts,
           NEW t \in Holders(c), NEW u \in Holders(c), t # u
    PROVE  pendingIO[c] + overdrawn[c] >= 2
  <1>1. IsFiniteSet(Holders(c)) /\ IsFiniteSet(Holders(c) \ {t})
    BY ThreadsAssumption, FS_Subset DEF Holders
  <1>2. Cardinality(Holders(c) \ {t}) = Cardinality(Holders(c)) - 1
    BY <1>1, FS_RemoveElement
  <1>3. Cardinality(Holders(c) \ {t}) # 0
    BY <1>1, FS_EmptySet
  <1>4. Cardinality(Holders(c)) \in Nat /\ Cardinality(Holders(c) \ {t}) \in Nat
    BY <1>1, FS_CardinalityType
  <1>. QED
    BY <1>2, <1>3, <1>4 DEF IInv, PendingIOIsExact, TypeOK, One

\* The handler that makes the last release of a context finds its socket
\* closed and its lock free: the receive's count would be there otherwise. So
\* does a worker with a stale key, and whoever releases after it.
LEMMA LastReleaseIsAlone ==
    ASSUME IInv, NEW t \in Threads, pc[t] = "release",
           pendingIO[cur[t]] = 1
    PROVE  mLock[cur[t]] = Nobody /\ ~socketOpen[cur[t]]
  <1>1. cur[t] \in Contexts /\ ~InSend(t) /\ overdrawn[cur[t]] \in Nat
        /\ sendsPosted[cur[t]] \in Nat
    BY ReleaserIsCounted DEF IInv, TypeOK
  <1>2. CASE overdrawn[cur[t]] > 0 \/ op[t] = "stale"
    BY <1>1, <1>2 DEF IInv, Key, StaleOK
  <1>3. CASE overdrawn[cur[t]] = 0 /\ op[t] # "stale"
    <2>2. t \in Holders(cur[t])
      BY <1>1, <1>3
      DEF Holders, HoldingPCs, IInv, TypeOK, Ops, Control, Shape, ShapeOf, MLockOK
    <2>3. mLock[cur[t]] = Nobody /\ ~recvPosted[cur[t]]
      BY <1>1, <1>3, <2>2, HolderIsCounted DEF IInv, One
    <2>4. ASSUME socketOpen[cur[t]] PROVE FALSE
      <3>1. PICK u \in Threads : EarlyReceive(u, cur[t])
        BY <1>1, <2>3, <2>4 DEF IInv, Control, ReceiveAlive
      <3>2. u # t /\ u \in Holders(cur[t])
        BY <2>3, <3>1 DEF EarlyReceive, Holders, HoldingPCs
      <3>. QED
        BY <1>1, <1>3, <2>2, <3>2, HoldersAreCounted
    <2>. QED
      BY <2>3, <2>4
  <1>. QED
    BY <1>1, <1>2, <1>3


\* A context without counts has no handler and nothing outstanding.
LEMMA ZeroIsIdle ==
    ASSUME IInv, NEW c \in Contexts, pendingIO[c] = 0, overdrawn[c] = 0
    PROVE  Holders(c) = {} /\ ~recvPosted[c] /\ sendsPosted[c] = 0
  <1>1. sendsPosted[c] + One(recvPosted[c]) + One(mLock[c] # Nobody) <= 0
    BY OutstandingIsCounted DEF IInv, TypeOK, One
  <1>2. ~recvPosted[c] /\ sendsPosted[c] = 0
    BY <1>1 DEF IInv, TypeOK, One
  <1>3. \A t \in Holders(c) : FALSE
    BY HolderIsCounted DEF IInv, TypeOK, One
  <1>. QED
    BY <1>2, <1>3

\* Every step keeps the types; what is subtracted from a counter is in it.
LEMMA TypesKept ==
    ASSUME IInv, Next
    PROVE  TypeOK'
  <1>. USE DEF IInv, TypeOK, PCs, Ops, Returns
  <1>1. ASSUME NEW w \in Workers, NEW c \in Contexts, CountAccept(w, c)
         PROVE  TypeOK'
    BY <1>1 DEF CountAccept, Control, Shape, ShapeOf
  <1>2. ASSUME NEW w \in Workers, RejectAccept(w)
         PROVE  TypeOK'
    <2>1. w \in Transit
      BY <1>2 DEF RejectAccept, Transit
    <2>2. connectCount >= 1
      BY <2>1, TransitIsCounted DEF Counts
    <2>. QED
      BY <1>2, <2>2 DEF RejectAccept
  <1>3. ASSUME NEW w \in Workers, AdmitAccept(w)
         PROVE  TypeOK'
    BY <1>3 DEF AdmitAccept, Control, Shape, ShapeOf
  <1>3a. ASSUME NEW w \in Workers, AnnounceAccept(w)
         PROVE  TypeOK'
    BY <1>3a DEF AnnounceAccept, Control, Shape, ShapeOf
  <1>3b. ASSUME NEW w \in Workers, UpdateCompletionPort(w)
         PROVE  TypeOK'
    BY <1>3b DEF UpdateCompletionPort, Control, Shape, ShapeOf
  <1>4. ASSUME NEW w \in Workers, NEW c \in Contexts, DispatchRead(w, c)
         PROVE  TypeOK'
    BY <1>4 DEF DispatchRead, Control, Shape, ShapeOf
  <1>5. ASSUME NEW w \in Workers, NEW c \in Contexts, DispatchFailedRead(w, c)
         PROVE  TypeOK'
    BY <1>5 DEF DispatchFailedRead, Control, Shape, ShapeOf
  <1>6. ASSUME NEW w \in Workers, NotifyReceived(w)
         PROVE  TypeOK'
    BY <1>6 DEF NotifyReceived, Control, Shape, ShapeOf
  <1>7. ASSUME NEW w \in Workers, PostReadAccepted(w)
         PROVE  TypeOK'
    BY <1>7 DEF PostReadAccepted, Control, Shape, ShapeOf
  <1>8. ASSUME NEW w \in Workers, PostReadFailed(w)
         PROVE  TypeOK'
    BY <1>8 DEF PostReadFailed, Control, Shape, ShapeOf
  <1>9. ASSUME NEW w \in Workers, PostReadInvalid(w)
         PROVE  TypeOK'
    BY <1>9 DEF PostReadInvalid, Control, Shape, ShapeOf
  <1>10. ASSUME NEW w \in Workers, AbandonAccept(w)
         PROVE  TypeOK'
    BY <1>10 DEF AbandonAccept, Control, Shape, ShapeOf
  <1>11. ASSUME NEW w \in Workers, NEW c \in Contexts, DispatchWrite(w, c)
         PROVE  TypeOK'
    BY <1>11 DEF DispatchWrite, Control, Shape, ShapeOf
  <1>12. ASSUME NEW w \in Workers, NEW c \in Contexts, DispatchFailedWrite(w, c)
         PROVE  TypeOK'
    BY <1>12 DEF DispatchFailedWrite, Control, Shape, ShapeOf
  <1>13. ASSUME NEW w \in Workers, AdvancePosition(w)
         PROVE  TypeOK'
    BY <1>13 DEF AdvancePosition, Control, Shape, ShapeOf
  <1>14. ASSUME NEW w \in Workers, MeasurePosition(w)
         PROVE  TypeOK'
    BY <1>14 DEF MeasurePosition, Control, Shape, ShapeOf
  <1>15. ASSUME NEW w \in Workers, SwapReader(w)
         PROVE  TypeOK'
    BY <1>15 DEF SwapReader, Control, Shape, ShapeOf
  <1>16. ASSUME NEW w \in Workers, CheckReader(w)
         PROVE  TypeOK'
    BY <1>16 DEF CheckReader, Control, Shape, ShapeOf
  <1>17. ASSUME NEW w \in Workers, PostWriteAccepted(w)
         PROVE  TypeOK'
    BY <1>17 DEF PostWriteAccepted, Control, Shape, ShapeOf
  <1>18. ASSUME NEW w \in Workers, PostWriteFailed(w)
         PROVE  TypeOK'
    BY <1>18 DEF PostWriteFailed, Control, Shape, ShapeOf
  <1>19. ASSUME NEW w \in Workers, DereferenceNull(w)
         PROVE  TypeOK'
    BY <1>19 DEF DereferenceNull, Control, Shape, ShapeOf
  <1>20. ASSUME NEW t \in Threads, SendToClosed(t)
         PROVE  TypeOK'
    BY <1>20 DEF SendToClosed, Control, Shape, ShapeOf
  <1>21. ASSUME NEW t \in Threads, SendQueues(t)
         PROVE  TypeOK'
    BY <1>21 DEF SendQueues, Control, Shape, ShapeOf
  <1>22. ASSUME NEW t \in Threads, SendPosts(t)
         PROVE  TypeOK'
    BY <1>22 DEF SendPosts, Control, Shape, ShapeOf
  <1>23. ASSUME NEW t \in Threads, ExchangeSocket(t)
         PROVE  TypeOK'
    BY <1>23 DEF ExchangeSocket, Control, Shape, ShapeOf
  <1>24. ASSUME NEW t \in Threads, CloseSocket(t)
         PROVE  TypeOK'
    <2>1. t \in Transit
      BY <1>24 DEF CloseSocket, Transit
    <2>2. connectCount >= 1
      BY <2>1, TransitIsCounted DEF Counts
    <2>. QED
      BY <1>24, <2>2 DEF CloseSocket, Control, Shape, ShapeOf
  <1>25. ASSUME NEW t \in Threads, ReleaseSocketContext(t)
         PROVE  TypeOK'
    BY <1>25 DEF ReleaseSocketContext, Control, Shape, ShapeOf, One
  <1>26. ASSUME NEW t \in Threads, DeleteContext(t)
         PROVE  TypeOK'
    BY <1>26 DEF DeleteContext, Control, Shape, ShapeOf
  <1>27. ASSUME NEW t \in Threads, FreeContext(t)
         PROVE  TypeOK'
    BY <1>27 DEF FreeContext, Control, Shape, ShapeOf
  <1>28. ASSUME NEW s \in Senders, NEW c \in Contexts, FindToSend(s, c)
         PROVE  TypeOK'
    BY <1>28 DEF FindToSend, Control, Shape, ShapeOf
  <1>29. ASSUME NEW s \in Senders, LeaveSend(s)
         PROVE  TypeOK'
    BY <1>29 DEF LeaveSend, Control, Shape, ShapeOf
  <1>30. ASSUME NEW k \in Stoppers, RaiseShutdown(k)
         PROVE  TypeOK'
    BY <1>30 DEF RaiseShutdown, Control, Shape, ShapeOf
  <1>31. ASSUME NEW k \in Stoppers, BeginCloseAll(k)
         PROVE  TypeOK'
    BY <1>31 DEF BeginCloseAll, Control, Shape, ShapeOf
  <1>32. ASSUME NEW k \in Stoppers, NEW c \in Contexts, CloseNext(k, c)
         PROVE  TypeOK'
    BY <1>32 DEF CloseNext, Control, Shape, ShapeOf
  <1>33. ASSUME NEW k \in Stoppers, EndCloseAll(k)
         PROVE  TypeOK'
    BY <1>33 DEF EndCloseAll, Control, Shape, ShapeOf
  <1>35. ASSUME NEW w \in Workers, WaitForPacket(w)
         PROVE  TypeOK'
    BY <1>35 DEF WaitForPacket, Control, Shape, ShapeOf
  <1>36. ASSUME NEW w \in Workers, CloseAgain(w)
         PROVE  TypeOK'
    BY <1>36 DEF CloseAgain, Control, Shape, ShapeOf
  <1>37. ASSUME NEW w \in Workers, UseUninitialisedKey(w)
         PROVE  TypeOK'
    BY <1>37 DEF UseUninitialisedKey, Control, Shape, ShapeOf
  <1>38. ASSUME NEW t \in Threads, UseFreedContext(t)
         PROVE  TypeOK'
    BY <1>38 DEF UseFreedContext, Control, Shape, ShapeOf
  <1>34. CASE UNCHANGED vars
    BY <1>34
    DEF vars, Holders, Transit, Admitting, OpenContexts, ConnectCountIsExact, Counts, PendingIOIsExact
  <1>. HIDE DEF IInv, TypeOK, PCs, Ops, Returns
  <1>. QED
    BY <1>1, <1>2, <1>3, <1>3a, <1>3b, <1>4, <1>5, <1>6, <1>7, <1>8, <1>9, <1>10, <1>11,
       <1>12, <1>13, <1>14, <1>15, <1>16, <1>17, <1>18, <1>19, <1>20, <1>21,
       <1>22, <1>23, <1>24, <1>25, <1>26, <1>27, <1>28, <1>29, <1>30, <1>31,
       <1>32, <1>33, <1>34, <1>35, <1>36, <1>37, <1>38
    DEF Next, Continue, ContinueLoop, ContinueAccept, ContinueRead,
        ContinueWrite, ContinueCall,
        Dispatch, AtRest, vars

\* Every step keeps the control part of the invariant.
LEMMA ControlKept ==
    ASSUME IInv, Next
    PROVE  Control'
  <1>. USE DEF IInv, TypeOK, Control, Shape, ShapeOf, ReturnsOK, ReturnOf, MLockOK, ContextLockOK,
    TableOK, UnbornOK, DeleteOK, ReceiveAlive, EarlyReceive, Key, Admitted,
    DisconnectOK, ReaderOK, NoBufferIsForgotten, PCs, Ops, Returns,
    ReceivesAreSerial, ReceiveHolders, Holders, HoldingPCs
  <1>1. ASSUME NEW w \in Workers, NEW c \in Contexts, CountAccept(w, c)
         PROVE  Control'
    <2>. HIDE DEF Shape, ShapeOf, ReturnsOK, ReturnOf, MLockOK, ContextLockOK,
        TableOK, UnbornOK, DeleteOK, ReceiveAlive, EarlyReceive, Key, Admitted,
        DisconnectOK, ReaderOK, NoBufferIsForgotten, ReceivesAreSerial,
        ReceiveHolders, Holders, HoldingPCs
    <2>1. Shape'
      BY <1>1
      DEF CountAccept, Shape, ShapeOf, ReturnsOK, ReturnOf, MLockOK
    <2>2. ReturnsOK'
      BY <1>1
      DEF CountAccept, ReturnsOK, ReturnOf, Shape, ShapeOf, MLockOK
    <2>3. MLockOK'
      BY <1>1
      DEF CountAccept, MLockOK, Shape, ShapeOf, ReturnsOK, ReturnOf
    <2>4. ContextLockOK'
      BY <1>1
      DEF CountAccept, ContextLockOK, Shape, ShapeOf, ReturnsOK, ReturnOf,
          DeleteOK
    <2>5. TableOK'
      BY <1>1
      DEF CountAccept, TableOK, Shape, ShapeOf, DeleteOK
    <2>6. UnbornOK'
      BY <1>1
      DEF CountAccept, UnbornOK, Shape, ShapeOf, Key, Admitted, ReturnsOK,
          ReturnOf
    <2>7. DeleteOK'
      BY <1>1
      DEF CountAccept, DeleteOK, Shape, ShapeOf, ReturnsOK, ReturnOf, UnbornOK,
          MLockOK
    <2>8. ReceiveAlive'
      BY <1>1
      DEF CountAccept, ReceiveAlive, EarlyReceive, Shape, ShapeOf, MLockOK,
          ReturnsOK, ReturnOf
    <2>10. DisconnectOK'
      BY <1>1
      DEF CountAccept, DisconnectOK, Shape, ShapeOf, UnbornOK, ReturnsOK,
          ReturnOf
    <2>11. ReaderOK'
      BY <1>1
      DEF CountAccept, ReaderOK, Shape, ShapeOf, MLockOK
    <2>12. NoBufferIsForgotten'
      BY <1>1
      DEF CountAccept, NoBufferIsForgotten, Shape, ShapeOf, MLockOK, ReaderOK
    <2>13. ReceivesAreSerial'
      BY <1>1
      DEF CountAccept, ReceivesAreSerial, ReceiveHolders, Holders, HoldingPCs,
          Shape, ShapeOf, MLockOK, ReturnsOK, ReturnOf
    <2>. QED
      BY <2>1, <2>2, <2>3, <2>4, <2>5, <2>6, <2>7, <2>8, <2>10, <2>11, <2>12, <2>13
      DEF Control
  <1>2. ASSUME NEW w \in Workers, RejectAccept(w)
         PROVE  Control'
    BY <1>2 DEF RejectAccept
  <1>3. ASSUME NEW w \in Workers, AdmitAccept(w)
         PROVE  Control'
    <2>1. Shape'
      BY <1>3 DEF AdmitAccept
    <2>2. ReturnsOK'
      BY <1>3 DEF AdmitAccept
    <2>3. MLockOK'
      BY <1>3 DEF AdmitAccept
    <2>4. ContextLockOK'
      BY <1>3 DEF AdmitAccept
    <2>5. TableOK'
      BY <1>3 DEF AdmitAccept
    <2>6. UnbornOK'
      BY <1>3 DEF AdmitAccept
    <2>7. DeleteOK'
      BY <1>3 DEF AdmitAccept
    <2>8. ReceiveAlive'
      BY <1>3 DEF AdmitAccept
    <2>10. DisconnectOK'
      BY <1>3 DEF AdmitAccept
    <2>11. ReaderOK'
      BY <1>3 DEF AdmitAccept
    <2>12. NoBufferIsForgotten'
      BY <1>3 DEF AdmitAccept
    <2>13. ReceivesAreSerial'
      BY <1>3 DEF AdmitAccept
    <2>. QED
      BY <2>1, <2>2, <2>3, <2>4, <2>5, <2>6, <2>7, <2>8, <2>10, <2>11, <2>12, <2>13
      DEF Control
  <1>3a. ASSUME NEW w \in Workers, AnnounceAccept(w)
         PROVE  Control'
    <2>1. Shape'
      BY <1>3a DEF AnnounceAccept
    <2>2. ReturnsOK'
      BY <1>3a DEF AnnounceAccept
    <2>3. MLockOK'
      BY <1>3a DEF AnnounceAccept
    <2>4. ContextLockOK'
      BY <1>3a DEF AnnounceAccept
    <2>5. TableOK'
      BY <1>3a DEF AnnounceAccept
    <2>6. UnbornOK'
      BY <1>3a DEF AnnounceAccept
    <2>7. DeleteOK'
      BY <1>3a DEF AnnounceAccept
    <2>8. ReceiveAlive'
      BY <1>3a DEF AnnounceAccept
    <2>10. DisconnectOK'
      BY <1>3a DEF AnnounceAccept
    <2>11. ReaderOK'
      BY <1>3a DEF AnnounceAccept
    <2>12. NoBufferIsForgotten'
      BY <1>3a DEF AnnounceAccept
    <2>13. ReceivesAreSerial'
      BY <1>3a DEF AnnounceAccept
    <2>. QED
      BY <2>1, <2>2, <2>3, <2>4, <2>5, <2>6, <2>7, <2>8, <2>10, <2>11, <2>12, <2>13
      DEF Control
  <1>3b. ASSUME NEW w \in Workers, UpdateCompletionPort(w)
         PROVE  Control'
    <2>. HIDE DEF Shape, ShapeOf, ReturnsOK, ReturnOf, MLockOK, ContextLockOK,
        TableOK, UnbornOK, DeleteOK, ReceiveAlive, EarlyReceive, Key, Admitted,
        DisconnectOK, ReaderOK, NoBufferIsForgotten, ReceivesAreSerial,
        ReceiveHolders, Holders, HoldingPCs
    <2>1. Shape'
      BY <1>3b
      DEF UpdateCompletionPort, Shape, ShapeOf, ReturnsOK, ReturnOf, MLockOK
    <2>2. ReturnsOK'
      BY <1>3b
      DEF UpdateCompletionPort, ReturnsOK, ReturnOf, Shape, ShapeOf, MLockOK
    <2>3. MLockOK'
      BY <1>3b
      DEF UpdateCompletionPort, MLockOK, Shape, ShapeOf, ReturnsOK, ReturnOf
    <2>4. ContextLockOK'
      BY <1>3b
      DEF UpdateCompletionPort, ContextLockOK, Shape, ShapeOf, ReturnsOK,
          ReturnOf, DeleteOK
    <2>5. TableOK'
      BY <1>3b
      DEF UpdateCompletionPort, TableOK, Shape, ShapeOf, DeleteOK
    <2>6. UnbornOK'
      BY <1>3b
      DEF UpdateCompletionPort, UnbornOK, Shape, ShapeOf, Key, Admitted,
          ReturnsOK, ReturnOf
    <2>7. DeleteOK'
      BY <1>3b
      DEF UpdateCompletionPort, DeleteOK, Shape, ShapeOf, ReturnsOK, ReturnOf,
          UnbornOK, MLockOK
    <2>8. ReceiveAlive'
      BY <1>3b
      DEF UpdateCompletionPort, ReceiveAlive, EarlyReceive, Shape, ShapeOf,
          MLockOK, ReturnsOK, ReturnOf
    <2>10. DisconnectOK'
      BY <1>3b
      DEF UpdateCompletionPort, DisconnectOK, Shape, ShapeOf, UnbornOK,
          ReturnsOK, ReturnOf
    <2>11. ReaderOK'
      BY <1>3b
      DEF UpdateCompletionPort, ReaderOK, Shape, ShapeOf, MLockOK
    <2>12. NoBufferIsForgotten'
      BY <1>3b
      DEF UpdateCompletionPort, NoBufferIsForgotten, Shape, ShapeOf, MLockOK,
          ReaderOK
    <2>13. ReceivesAreSerial'
      BY <1>3b
      DEF UpdateCompletionPort, ReceivesAreSerial, ReceiveHolders, Holders,
          HoldingPCs, Shape, ShapeOf, MLockOK, ReturnsOK, ReturnOf
    <2>. QED
      BY <2>1, <2>2, <2>3, <2>4, <2>5, <2>6, <2>7, <2>8, <2>10, <2>11, <2>12, <2>13
      DEF Control
  <1>4. ASSUME NEW w \in Workers, NEW c \in Contexts, DispatchRead(w, c)
         PROVE  Control'
    <2>. HIDE DEF Shape, ShapeOf, ReturnsOK, ReturnOf, MLockOK, ContextLockOK,
        TableOK, UnbornOK, DeleteOK, ReceiveAlive, EarlyReceive, Key, Admitted,
        DisconnectOK, ReaderOK, NoBufferIsForgotten, ReceivesAreSerial,
        ReceiveHolders, Holders, HoldingPCs
    <2>1. Shape'
      BY <1>4
      DEF DispatchRead, Shape, ShapeOf, ReturnsOK, ReturnOf, MLockOK
    <2>2. ReturnsOK'
      BY <1>4
      DEF DispatchRead, ReturnsOK, ReturnOf, Shape, ShapeOf, MLockOK
    <2>3. MLockOK'
      BY <1>4
      DEF DispatchRead, MLockOK, Shape, ShapeOf, ReturnsOK, ReturnOf
    <2>4. ContextLockOK'
      BY <1>4
      DEF DispatchRead, ContextLockOK, Shape, ShapeOf, ReturnsOK, ReturnOf,
          DeleteOK
    <2>5. TableOK'
      BY <1>4
      DEF DispatchRead, TableOK, Shape, ShapeOf, DeleteOK
    <2>6. UnbornOK'
      BY <1>4
      DEF DispatchRead, UnbornOK, Shape, ShapeOf, Key, Admitted, ReturnsOK,
          ReturnOf
    <2>7. DeleteOK'
      BY <1>4
      DEF DispatchRead, DeleteOK, Shape, ShapeOf, ReturnsOK, ReturnOf,
          UnbornOK, MLockOK
    <2>8. ReceiveAlive'
      BY <1>4
      DEF DispatchRead, ReceiveAlive, EarlyReceive, Shape, ShapeOf, MLockOK,
          ReturnsOK, ReturnOf
    <2>10. DisconnectOK'
      BY <1>4
      DEF DispatchRead, DisconnectOK, Shape, ShapeOf, UnbornOK, ReturnsOK,
          ReturnOf
    <2>11. ReaderOK'
      BY <1>4
      DEF DispatchRead, ReaderOK, Shape, ShapeOf, MLockOK
    <2>12. NoBufferIsForgotten'
      BY <1>4
      DEF DispatchRead, NoBufferIsForgotten, Shape, ShapeOf, MLockOK, ReaderOK
    <2>13. ReceivesAreSerial'
      BY <1>4
      DEF DispatchRead, ReceivesAreSerial, ReceiveHolders, Holders, HoldingPCs,
          Shape, ShapeOf, MLockOK, ReturnsOK, ReturnOf
    <2>. QED
      BY <2>1, <2>2, <2>3, <2>4, <2>5, <2>6, <2>7, <2>8, <2>10, <2>11, <2>12, <2>13
      DEF Control
  <1>5. ASSUME NEW w \in Workers, NEW c \in Contexts, DispatchFailedRead(w, c)
         PROVE  Control'
    <2>. HIDE DEF Shape, ShapeOf, ReturnsOK, ReturnOf, MLockOK, ContextLockOK,
        TableOK, UnbornOK, DeleteOK, ReceiveAlive, EarlyReceive, Key, Admitted,
        DisconnectOK, ReaderOK, NoBufferIsForgotten, ReceivesAreSerial,
        ReceiveHolders, Holders, HoldingPCs
    <2>1. Shape'
      BY <1>5
      DEF DispatchFailedRead, Shape, ShapeOf, ReturnsOK, ReturnOf, MLockOK
    <2>2. ReturnsOK'
      BY <1>5
      DEF DispatchFailedRead, ReturnsOK, ReturnOf, Shape, ShapeOf, MLockOK
    <2>3. MLockOK'
      BY <1>5
      DEF DispatchFailedRead, MLockOK, Shape, ShapeOf, ReturnsOK, ReturnOf
    <2>4. ContextLockOK'
      BY <1>5
      DEF DispatchFailedRead, ContextLockOK, Shape, ShapeOf, ReturnsOK,
          ReturnOf, DeleteOK
    <2>5. TableOK'
      BY <1>5
      DEF DispatchFailedRead, TableOK, Shape, ShapeOf, DeleteOK
    <2>6. UnbornOK'
      BY <1>5
      DEF DispatchFailedRead, UnbornOK, Shape, ShapeOf, Key, Admitted,
          ReturnsOK, ReturnOf
    <2>7. DeleteOK'
      BY <1>5
      DEF DispatchFailedRead, DeleteOK, Shape, ShapeOf, ReturnsOK, ReturnOf,
          UnbornOK, MLockOK
    <2>8. ReceiveAlive'
      BY <1>5
      DEF DispatchFailedRead, ReceiveAlive, EarlyReceive, Shape, ShapeOf,
          MLockOK, ReturnsOK, ReturnOf
    <2>10. DisconnectOK'
      BY <1>5
      DEF DispatchFailedRead, DisconnectOK, Shape, ShapeOf, UnbornOK,
          ReturnsOK, ReturnOf
    <2>11. ReaderOK'
      BY <1>5
      DEF DispatchFailedRead, ReaderOK, Shape, ShapeOf, MLockOK
    <2>12. NoBufferIsForgotten'
      BY <1>5
      DEF DispatchFailedRead, NoBufferIsForgotten, Shape, ShapeOf, MLockOK,
          ReaderOK
    <2>13. ReceivesAreSerial'
      BY <1>5
      DEF DispatchFailedRead, ReceivesAreSerial, ReceiveHolders, Holders,
          HoldingPCs, Shape, ShapeOf, MLockOK, ReturnsOK, ReturnOf
    <2>. QED
      BY <2>1, <2>2, <2>3, <2>4, <2>5, <2>6, <2>7, <2>8, <2>10, <2>11, <2>12, <2>13
      DEF Control
  <1>6. ASSUME NEW w \in Workers, NotifyReceived(w)
         PROVE  Control'
    <2>. HIDE DEF Shape, ShapeOf, ReturnsOK, ReturnOf, MLockOK, ContextLockOK,
        TableOK, UnbornOK, DeleteOK, ReceiveAlive, EarlyReceive, Key, Admitted,
        DisconnectOK, ReaderOK, NoBufferIsForgotten, ReceivesAreSerial,
        ReceiveHolders, Holders, HoldingPCs
    <2>1. Shape'
      BY <1>6
      DEF NotifyReceived, Shape, ShapeOf, ReturnsOK, ReturnOf, MLockOK
    <2>2. ReturnsOK'
      BY <1>6
      DEF NotifyReceived, ReturnsOK, ReturnOf, Shape, ShapeOf, MLockOK
    <2>3. MLockOK'
      BY <1>6
      DEF NotifyReceived, MLockOK, Shape, ShapeOf, ReturnsOK, ReturnOf
    <2>4. ContextLockOK'
      BY <1>6
      DEF NotifyReceived, ContextLockOK, Shape, ShapeOf, ReturnsOK, ReturnOf,
          DeleteOK
    <2>5. TableOK'
      BY <1>6
      DEF NotifyReceived, TableOK, Shape, ShapeOf, DeleteOK
    <2>6. UnbornOK'
      BY <1>6
      DEF NotifyReceived, UnbornOK, Shape, ShapeOf, Key, Admitted, ReturnsOK,
          ReturnOf
    <2>7. DeleteOK'
      BY <1>6
      DEF NotifyReceived, DeleteOK, Shape, ShapeOf, ReturnsOK, ReturnOf,
          UnbornOK, MLockOK
    <2>8. ReceiveAlive'
      BY <1>6
      DEF NotifyReceived, ReceiveAlive, EarlyReceive, Shape, ShapeOf, MLockOK,
          ReturnsOK, ReturnOf
    <2>10. DisconnectOK'
      <3>1. /\ disconnects' = disconnects /\ socketOpen' = socketOpen
            /\ \A d \in Contexts : life'[d] = "unborn" <=> life[d] = "unborn"
            /\ \A u \in Threads : pc'[u] = "closing" <=> pc[u] = "closing"
            /\ \A u \in Threads : pc[u] = "closing" => cur'[u] = cur[u]
        BY <1>6 DEF NotifyReceived, Shape, ShapeOf, Key, Admitted
      <3>. QED
        BY <3>1 DEF DisconnectOK
    <2>11. ReaderOK'
      BY <1>6
      DEF NotifyReceived, ReaderOK, Shape, ShapeOf, MLockOK
    <2>12. NoBufferIsForgotten'
      BY <1>6
      DEF NotifyReceived, NoBufferIsForgotten, Shape, ShapeOf, MLockOK,
          ReaderOK
    <2>13. ReceivesAreSerial'
      BY <1>6
      DEF NotifyReceived, ReceivesAreSerial, ReceiveHolders, Holders,
          HoldingPCs, Shape, ShapeOf, MLockOK, ReturnsOK, ReturnOf
    <2>. QED
      BY <2>1, <2>2, <2>3, <2>4, <2>5, <2>6, <2>7, <2>8, <2>10, <2>11, <2>12, <2>13
      DEF Control
  <1>7. ASSUME NEW w \in Workers, PostReadAccepted(w)
         PROVE  Control'
    <2>. HIDE DEF Shape, ShapeOf, ReturnsOK, ReturnOf, MLockOK, ContextLockOK,
        TableOK, UnbornOK, DeleteOK, ReceiveAlive, EarlyReceive, Key, Admitted,
        DisconnectOK, ReaderOK, NoBufferIsForgotten, ReceivesAreSerial,
        ReceiveHolders, Holders, HoldingPCs
    <2>1. Shape'
      BY <1>7
      DEF PostReadAccepted, Shape, ShapeOf, ReturnsOK, ReturnOf, MLockOK
    <2>2. ReturnsOK'
      BY <1>7
      DEF PostReadAccepted, ReturnsOK, ReturnOf, Shape, ShapeOf, MLockOK
    <2>3. MLockOK'
      BY <1>7
      DEF PostReadAccepted, MLockOK, Shape, ShapeOf, ReturnsOK, ReturnOf
    <2>4. ContextLockOK'
      BY <1>7
      DEF PostReadAccepted, ContextLockOK, Shape, ShapeOf, ReturnsOK, ReturnOf,
          DeleteOK
    <2>5. TableOK'
      BY <1>7
      DEF PostReadAccepted, TableOK, Shape, ShapeOf, DeleteOK
    <2>6. UnbornOK'
      BY <1>7
      DEF PostReadAccepted, UnbornOK, Shape, ShapeOf, Key, Admitted, ReturnsOK,
          ReturnOf
    <2>7. DeleteOK'
      BY <1>7
      DEF PostReadAccepted, DeleteOK, Shape, ShapeOf, ReturnsOK, ReturnOf,
          UnbornOK, MLockOK
    <2>8. ReceiveAlive'
      BY <1>7
      DEF PostReadAccepted, ReceiveAlive, EarlyReceive, Shape, ShapeOf,
          MLockOK, ReturnsOK, ReturnOf
    <2>10. DisconnectOK'
      BY <1>7
      DEF PostReadAccepted, DisconnectOK, Shape, ShapeOf, UnbornOK, ReturnsOK,
          ReturnOf
    <2>11. ReaderOK'
      BY <1>7
      DEF PostReadAccepted, ReaderOK, Shape, ShapeOf, MLockOK
    <2>12. NoBufferIsForgotten'
      BY <1>7
      DEF PostReadAccepted, NoBufferIsForgotten, Shape, ShapeOf, MLockOK,
          ReaderOK
    <2>13. ReceivesAreSerial'
      BY <1>7
      DEF PostReadAccepted, ReceivesAreSerial, ReceiveHolders, Holders,
          HoldingPCs, Shape, ShapeOf, MLockOK, ReturnsOK, ReturnOf
    <2>. QED
      BY <2>1, <2>2, <2>3, <2>4, <2>5, <2>6, <2>7, <2>8, <2>10, <2>11, <2>12, <2>13
      DEF Control
  <1>8. ASSUME NEW w \in Workers, PostReadFailed(w)
         PROVE  Control'
    BY <1>8 DEF PostReadFailed
  <1>9. ASSUME NEW w \in Workers, PostReadInvalid(w)
         PROVE  Control'
    BY <1>9 DEF PostReadInvalid
  <1>10. ASSUME NEW w \in Workers, AbandonAccept(w)
         PROVE  Control'
    <2>. HIDE DEF Shape, ShapeOf, ReturnsOK, ReturnOf, MLockOK, ContextLockOK,
        TableOK, UnbornOK, DeleteOK, ReceiveAlive, EarlyReceive, Key, Admitted,
        DisconnectOK, ReaderOK, NoBufferIsForgotten, ReceivesAreSerial,
        ReceiveHolders, Holders, HoldingPCs
    <2>1. Shape'
      BY <1>10
      DEF AbandonAccept, Shape, ShapeOf, ReturnsOK, ReturnOf, MLockOK
    <2>2. ReturnsOK'
      BY <1>10
      DEF AbandonAccept, ReturnsOK, ReturnOf, Shape, ShapeOf, MLockOK
    <2>3. MLockOK'
      BY <1>10
      DEF AbandonAccept, MLockOK, Shape, ShapeOf, ReturnsOK, ReturnOf
    <2>4. ContextLockOK'
      BY <1>10
      DEF AbandonAccept, ContextLockOK, Shape, ShapeOf, ReturnsOK, ReturnOf,
          DeleteOK
    <2>5. TableOK'
      BY <1>10
      DEF AbandonAccept, TableOK, Shape, ShapeOf, DeleteOK
    <2>6. UnbornOK'
      BY <1>10
      DEF AbandonAccept, UnbornOK, Shape, ShapeOf, Key, Admitted, ReturnsOK,
          ReturnOf
    <2>7. DeleteOK'
      BY <1>10
      DEF AbandonAccept, DeleteOK, Shape, ShapeOf, ReturnsOK, ReturnOf,
          UnbornOK, MLockOK
    <2>8. ReceiveAlive'
      BY <1>10
      DEF AbandonAccept, ReceiveAlive, EarlyReceive, Shape, ShapeOf, MLockOK,
          ReturnsOK, ReturnOf
    <2>10. DisconnectOK'
      BY <1>10
      DEF AbandonAccept, DisconnectOK, Shape, ShapeOf, UnbornOK, ReturnsOK,
          ReturnOf
    <2>11. ReaderOK'
      BY <1>10
      DEF AbandonAccept, ReaderOK, Shape, ShapeOf, MLockOK
    <2>12. NoBufferIsForgotten'
      BY <1>10
      DEF AbandonAccept, NoBufferIsForgotten, Shape, ShapeOf, MLockOK, ReaderOK
    <2>13. ReceivesAreSerial'
      BY <1>10
      DEF AbandonAccept, ReceivesAreSerial, ReceiveHolders, Holders,
          HoldingPCs, Shape, ShapeOf, MLockOK, ReturnsOK, ReturnOf
    <2>. QED
      BY <2>1, <2>2, <2>3, <2>4, <2>5, <2>6, <2>7, <2>8, <2>10, <2>11, <2>12, <2>13
      DEF Control
  <1>11. ASSUME NEW w \in Workers, NEW c \in Contexts, DispatchWrite(w, c)
         PROVE  Control'
    BY SMTT(90), <1>11 DEF DispatchWrite
  <1>12. ASSUME NEW w \in Workers, NEW c \in Contexts, DispatchFailedWrite(w, c)
         PROVE  Control'
    <2>. HIDE DEF Shape, ShapeOf, ReturnsOK, ReturnOf, MLockOK, ContextLockOK,
        TableOK, UnbornOK, DeleteOK, ReceiveAlive, EarlyReceive, Key, Admitted,
        DisconnectOK, ReaderOK, NoBufferIsForgotten, ReceivesAreSerial,
        ReceiveHolders, Holders, HoldingPCs
    <2>1. Shape'
      BY <1>12
      DEF DispatchFailedWrite, Shape, ShapeOf, ReturnsOK, ReturnOf, MLockOK
    <2>2. ReturnsOK'
      BY <1>12
      DEF DispatchFailedWrite, ReturnsOK, ReturnOf, Shape, ShapeOf, MLockOK
    <2>3. MLockOK'
      BY <1>12
      DEF DispatchFailedWrite, MLockOK, Shape, ShapeOf, ReturnsOK, ReturnOf
    <2>4. ContextLockOK'
      BY <1>12
      DEF DispatchFailedWrite, ContextLockOK, Shape, ShapeOf, ReturnsOK,
          ReturnOf, DeleteOK
    <2>5. TableOK'
      BY <1>12
      DEF DispatchFailedWrite, TableOK, Shape, ShapeOf, DeleteOK
    <2>6. UnbornOK'
      BY <1>12
      DEF DispatchFailedWrite, UnbornOK, Shape, ShapeOf, Key, Admitted,
          ReturnsOK, ReturnOf
    <2>7. DeleteOK'
      BY <1>12
      DEF DispatchFailedWrite, DeleteOK, Shape, ShapeOf, ReturnsOK, ReturnOf,
          UnbornOK, MLockOK
    <2>8. ReceiveAlive'
      BY <1>12
      DEF DispatchFailedWrite, ReceiveAlive, EarlyReceive, Shape, ShapeOf,
          MLockOK, ReturnsOK, ReturnOf
    <2>10. DisconnectOK'
      BY <1>12
      DEF DispatchFailedWrite, DisconnectOK, Shape, ShapeOf, UnbornOK,
          ReturnsOK, ReturnOf
    <2>11. ReaderOK'
      BY <1>12
      DEF DispatchFailedWrite, ReaderOK, Shape, ShapeOf, MLockOK
    <2>12. NoBufferIsForgotten'
      BY <1>12
      DEF DispatchFailedWrite, NoBufferIsForgotten, Shape, ShapeOf, MLockOK,
          ReaderOK
    <2>13. ReceivesAreSerial'
      BY <1>12
      DEF DispatchFailedWrite, ReceivesAreSerial, ReceiveHolders, Holders,
          HoldingPCs, Shape, ShapeOf, MLockOK, ReturnsOK, ReturnOf
    <2>. QED
      BY <2>1, <2>2, <2>3, <2>4, <2>5, <2>6, <2>7, <2>8, <2>10, <2>11, <2>12, <2>13
      DEF Control
  <1>13. ASSUME NEW w \in Workers, AdvancePosition(w)
         PROVE  Control'
    <2>. HIDE DEF Shape, ShapeOf, ReturnsOK, ReturnOf, MLockOK, ContextLockOK,
        TableOK, UnbornOK, DeleteOK, ReceiveAlive, EarlyReceive, Key, Admitted,
        DisconnectOK, ReaderOK, NoBufferIsForgotten, ReceivesAreSerial,
        ReceiveHolders, Holders, HoldingPCs
    <2>1. Shape'
      BY <1>13
      DEF AdvancePosition, Shape, ShapeOf, ReturnsOK, ReturnOf, MLockOK
    <2>2. ReturnsOK'
      BY <1>13
      DEF AdvancePosition, ReturnsOK, ReturnOf, Shape, ShapeOf, MLockOK
    <2>3. MLockOK'
      BY <1>13
      DEF AdvancePosition, MLockOK, Shape, ShapeOf, ReturnsOK, ReturnOf
    <2>4. ContextLockOK'
      BY <1>13
      DEF AdvancePosition, ContextLockOK, Shape, ShapeOf, ReturnsOK, ReturnOf,
          DeleteOK
    <2>5. TableOK'
      BY <1>13
      DEF AdvancePosition, TableOK, Shape, ShapeOf, DeleteOK
    <2>6. UnbornOK'
      BY <1>13
      DEF AdvancePosition, UnbornOK, Shape, ShapeOf, Key, Admitted, ReturnsOK,
          ReturnOf
    <2>7. DeleteOK'
      BY <1>13
      DEF AdvancePosition, DeleteOK, Shape, ShapeOf, ReturnsOK, ReturnOf,
          UnbornOK, MLockOK
    <2>8. ReceiveAlive'
      BY <1>13
      DEF AdvancePosition, ReceiveAlive, EarlyReceive, Shape, ShapeOf, MLockOK,
          ReturnsOK, ReturnOf
    <2>10. DisconnectOK'
      BY <1>13
      DEF AdvancePosition, DisconnectOK, Shape, ShapeOf, UnbornOK, ReturnsOK,
          ReturnOf
    <2>11. ReaderOK'
      BY <1>13
      DEF AdvancePosition, ReaderOK, Shape, ShapeOf, MLockOK
    <2>12. NoBufferIsForgotten'
      BY <1>13
      DEF AdvancePosition, NoBufferIsForgotten, Shape, ShapeOf, MLockOK,
          ReaderOK
    <2>13. ReceivesAreSerial'
      BY <1>13
      DEF AdvancePosition, ReceivesAreSerial, ReceiveHolders, Holders,
          HoldingPCs, Shape, ShapeOf, MLockOK, ReturnsOK, ReturnOf
    <2>. QED
      BY <2>1, <2>2, <2>3, <2>4, <2>5, <2>6, <2>7, <2>8, <2>10, <2>11, <2>12, <2>13
      DEF Control
  <1>14. ASSUME NEW w \in Workers, MeasurePosition(w)
         PROVE  Control'
    BY <1>14 DEF MeasurePosition
  <1>15. ASSUME NEW w \in Workers, SwapReader(w)
         PROVE  Control'
    <2>. HIDE DEF Shape, ShapeOf, ReturnsOK, ReturnOf, MLockOK, ContextLockOK,
        TableOK, UnbornOK, DeleteOK, ReceiveAlive, EarlyReceive, Key, Admitted,
        DisconnectOK, ReaderOK, NoBufferIsForgotten, ReceivesAreSerial,
        ReceiveHolders, Holders, HoldingPCs
    <2>1. Shape'
      BY <1>15
      DEF SwapReader, Shape, ShapeOf, ReturnsOK, ReturnOf, MLockOK
    <2>2. ReturnsOK'
      BY <1>15
      DEF SwapReader, ReturnsOK, ReturnOf, Shape, ShapeOf, MLockOK
    <2>3. MLockOK'
      BY <1>15
      DEF SwapReader, MLockOK, Shape, ShapeOf, ReturnsOK, ReturnOf
    <2>4. ContextLockOK'
      BY <1>15
      DEF SwapReader, ContextLockOK, Shape, ShapeOf, ReturnsOK, ReturnOf,
          DeleteOK
    <2>5. TableOK'
      BY <1>15
      DEF SwapReader, TableOK, Shape, ShapeOf, DeleteOK
    <2>6. UnbornOK'
      BY <1>15
      DEF SwapReader, UnbornOK, Shape, ShapeOf, Key, Admitted, ReturnsOK,
          ReturnOf
    <2>7. DeleteOK'
      BY <1>15
      DEF SwapReader, DeleteOK, Shape, ShapeOf, ReturnsOK, ReturnOf, UnbornOK,
          MLockOK
    <2>8. ReceiveAlive'
      BY <1>15
      DEF SwapReader, ReceiveAlive, EarlyReceive, Shape, ShapeOf, MLockOK,
          ReturnsOK, ReturnOf
    <2>10. DisconnectOK'
      BY <1>15
      DEF SwapReader, DisconnectOK, Shape, ShapeOf, UnbornOK, ReturnsOK,
          ReturnOf
    <2>11. ReaderOK'
      BY <1>15
      DEF SwapReader, ReaderOK, Shape, ShapeOf, MLockOK
    <2>12. NoBufferIsForgotten'
      BY <1>15
      DEF SwapReader, NoBufferIsForgotten, Shape, ShapeOf, MLockOK, ReaderOK
    <2>13. ReceivesAreSerial'
      BY <1>15
      DEF SwapReader, ReceivesAreSerial, ReceiveHolders, Holders, HoldingPCs,
          Shape, ShapeOf, MLockOK, ReturnsOK, ReturnOf
    <2>. QED
      BY <2>1, <2>2, <2>3, <2>4, <2>5, <2>6, <2>7, <2>8, <2>10, <2>11, <2>12, <2>13
      DEF Control
  <1>16. ASSUME NEW w \in Workers, CheckReader(w)
         PROVE  Control'
    <2>. HIDE DEF Shape, ShapeOf, ReturnsOK, ReturnOf, MLockOK, ContextLockOK,
        TableOK, UnbornOK, DeleteOK, ReceiveAlive, EarlyReceive, Key, Admitted,
        DisconnectOK, ReaderOK, NoBufferIsForgotten, ReceivesAreSerial,
        ReceiveHolders, Holders, HoldingPCs
    <2>1. Shape'
      BY <1>16
      DEF CheckReader, Shape, ShapeOf, ReturnsOK, ReturnOf, MLockOK
    <2>2. ReturnsOK'
      BY <1>16
      DEF CheckReader, ReturnsOK, ReturnOf, Shape, ShapeOf, MLockOK
    <2>3. MLockOK'
      BY <1>16
      DEF CheckReader, MLockOK, Shape, ShapeOf, ReturnsOK, ReturnOf
    <2>4. ContextLockOK'
      BY <1>16
      DEF CheckReader, ContextLockOK, Shape, ShapeOf, ReturnsOK, ReturnOf,
          DeleteOK
    <2>5. TableOK'
      BY <1>16
      DEF CheckReader, TableOK, Shape, ShapeOf, DeleteOK
    <2>6. UnbornOK'
      BY <1>16
      DEF CheckReader, UnbornOK, Shape, ShapeOf, Key, Admitted, ReturnsOK,
          ReturnOf
    <2>7. DeleteOK'
      BY <1>16
      DEF CheckReader, DeleteOK, Shape, ShapeOf, ReturnsOK, ReturnOf, UnbornOK,
          MLockOK
    <2>8. ReceiveAlive'
      BY <1>16
      DEF CheckReader, ReceiveAlive, EarlyReceive, Shape, ShapeOf, MLockOK,
          ReturnsOK, ReturnOf
    <2>10. DisconnectOK'
      BY <1>16
      DEF CheckReader, DisconnectOK, Shape, ShapeOf, UnbornOK, ReturnsOK,
          ReturnOf
    <2>11. ReaderOK'
      BY <1>16
      DEF CheckReader, ReaderOK, Shape, ShapeOf, MLockOK
    <2>12. NoBufferIsForgotten'
      BY <1>16
      DEF CheckReader, NoBufferIsForgotten, Shape, ShapeOf, MLockOK, ReaderOK
    <2>13. ReceivesAreSerial'
      BY <1>16
      DEF CheckReader, ReceivesAreSerial, ReceiveHolders, Holders, HoldingPCs,
          Shape, ShapeOf, MLockOK, ReturnsOK, ReturnOf
    <2>. QED
      BY <2>1, <2>2, <2>3, <2>4, <2>5, <2>6, <2>7, <2>8, <2>10, <2>11, <2>12, <2>13
      DEF Control
  <1>17. ASSUME NEW w \in Workers, PostWriteAccepted(w)
         PROVE  Control'
    <2>. HIDE DEF Shape, ShapeOf, ReturnsOK, ReturnOf, MLockOK, ContextLockOK,
        TableOK, UnbornOK, DeleteOK, ReceiveAlive, EarlyReceive, Key, Admitted,
        DisconnectOK, ReaderOK, NoBufferIsForgotten, ReceivesAreSerial,
        ReceiveHolders, Holders, HoldingPCs
    <2>1. Shape'
      BY <1>17
      DEF PostWriteAccepted, Shape, ShapeOf, ReturnsOK, ReturnOf, MLockOK
    <2>2. ReturnsOK'
      BY <1>17
      DEF PostWriteAccepted, ReturnsOK, ReturnOf, Shape, ShapeOf, MLockOK
    <2>3. MLockOK'
      BY <1>17
      DEF PostWriteAccepted, MLockOK, Shape, ShapeOf, ReturnsOK, ReturnOf
    <2>4. ContextLockOK'
      BY <1>17
      DEF PostWriteAccepted, ContextLockOK, Shape, ShapeOf, ReturnsOK,
          ReturnOf, DeleteOK
    <2>5. TableOK'
      BY <1>17
      DEF PostWriteAccepted, TableOK, Shape, ShapeOf, DeleteOK
    <2>6. UnbornOK'
      BY <1>17
      DEF PostWriteAccepted, UnbornOK, Shape, ShapeOf, Key, Admitted,
          ReturnsOK, ReturnOf
    <2>7. DeleteOK'
      BY <1>17
      DEF PostWriteAccepted, DeleteOK, Shape, ShapeOf, ReturnsOK, ReturnOf,
          UnbornOK, MLockOK
    <2>8. ReceiveAlive'
      BY <1>17
      DEF PostWriteAccepted, ReceiveAlive, EarlyReceive, Shape, ShapeOf,
          MLockOK, ReturnsOK, ReturnOf
    <2>10. DisconnectOK'
      BY <1>17
      DEF PostWriteAccepted, DisconnectOK, Shape, ShapeOf, UnbornOK, ReturnsOK,
          ReturnOf
    <2>11. ReaderOK'
      BY <1>17
      DEF PostWriteAccepted, ReaderOK, Shape, ShapeOf, MLockOK
    <2>12. NoBufferIsForgotten'
      BY <1>17
      DEF PostWriteAccepted, NoBufferIsForgotten, Shape, ShapeOf, MLockOK,
          ReaderOK
    <2>13. ReceivesAreSerial'
      BY <1>17
      DEF PostWriteAccepted, ReceivesAreSerial, ReceiveHolders, Holders,
          HoldingPCs, Shape, ShapeOf, MLockOK, ReturnsOK, ReturnOf
    <2>. QED
      BY <2>1, <2>2, <2>3, <2>4, <2>5, <2>6, <2>7, <2>8, <2>10, <2>11, <2>12, <2>13
      DEF Control
  <1>18. ASSUME NEW w \in Workers, PostWriteFailed(w)
         PROVE  Control'
    <2>1. Shape'
      BY <1>18 DEF PostWriteFailed
    <2>2. ReturnsOK'
      BY <1>18 DEF PostWriteFailed
    <2>3. MLockOK'
      BY <1>18 DEF PostWriteFailed
    <2>4. ContextLockOK'
      BY <1>18 DEF PostWriteFailed
    <2>5. TableOK'
      BY <1>18 DEF PostWriteFailed
    <2>6. UnbornOK'
      BY <1>18 DEF PostWriteFailed
    <2>7. DeleteOK'
      BY <1>18 DEF PostWriteFailed
    <2>8. ReceiveAlive'
      BY <1>18 DEF PostWriteFailed
    <2>10. DisconnectOK'
      BY <1>18 DEF PostWriteFailed
    <2>11. ReaderOK'
      BY <1>18 DEF PostWriteFailed
    <2>12. NoBufferIsForgotten'
      BY <1>18 DEF PostWriteFailed
    <2>13. ReceivesAreSerial'
      BY <1>18 DEF PostWriteFailed
    <2>. QED
      BY <2>1, <2>2, <2>3, <2>4, <2>5, <2>6, <2>7, <2>8, <2>10, <2>11, <2>12, <2>13
      DEF Control
  <1>19. ASSUME NEW w \in Workers, DereferenceNull(w)
         PROVE  Control'
    BY <1>19 DEF DereferenceNull
  <1>20. ASSUME NEW t \in Threads, SendToClosed(t)
         PROVE  Control'
    BY <1>20 DEF SendToClosed
  <1>21. ASSUME NEW t \in Threads, SendQueues(t)
         PROVE  Control'
    BY <1>21 DEF SendQueues
  <1>22. ASSUME NEW t \in Threads, SendPosts(t)
         PROVE  Control'
    <2>. HIDE DEF Shape, ShapeOf, ReturnsOK, ReturnOf, MLockOK, ContextLockOK,
        TableOK, UnbornOK, DeleteOK, ReceiveAlive, EarlyReceive, Key, Admitted,
        DisconnectOK, ReaderOK, NoBufferIsForgotten, ReceivesAreSerial,
        ReceiveHolders, Holders, HoldingPCs
    <2>1. Shape'
      BY <1>22
      DEF SendPosts, Shape, ShapeOf, ReturnsOK, ReturnOf, MLockOK
    <2>2. ReturnsOK'
      BY <1>22
      DEF SendPosts, ReturnsOK, ReturnOf, Shape, ShapeOf, MLockOK
    <2>3. MLockOK'
      BY <1>22
      DEF SendPosts, MLockOK, Shape, ShapeOf, ReturnsOK, ReturnOf
    <2>4. ContextLockOK'
      BY <1>22
      DEF SendPosts, ContextLockOK, Shape, ShapeOf, ReturnsOK, ReturnOf,
          DeleteOK
    <2>5. TableOK'
      BY <1>22
      DEF SendPosts, TableOK, Shape, ShapeOf, DeleteOK
    <2>6. UnbornOK'
      BY <1>22
      DEF SendPosts, UnbornOK, Shape, ShapeOf, Key, Admitted, ReturnsOK,
          ReturnOf
    <2>7. DeleteOK'
      BY <1>22
      DEF SendPosts, DeleteOK, Shape, ShapeOf, ReturnsOK, ReturnOf, UnbornOK,
          MLockOK
    <2>8. ReceiveAlive'
      BY <1>22
      DEF SendPosts, ReceiveAlive, EarlyReceive, Shape, ShapeOf, MLockOK,
          ReturnsOK, ReturnOf
    <2>10. DisconnectOK'
      BY <1>22
      DEF SendPosts, DisconnectOK, Shape, ShapeOf, UnbornOK, ReturnsOK,
          ReturnOf
    <2>11. ReaderOK'
      BY <1>22
      DEF SendPosts, ReaderOK, Shape, ShapeOf, MLockOK
    <2>12. NoBufferIsForgotten'
      BY <1>22
      DEF SendPosts, NoBufferIsForgotten, Shape, ShapeOf, MLockOK, ReaderOK
    <2>13. ReceivesAreSerial'
      <3>1. /\ recvPosted' = recvPosted /\ abandoned' = abandoned
            /\ cur' = cur /\ op' = op
            /\ \A u \in Threads : u # t => pc'[u] = pc[u]
            /\ pc[t] = "send" /\ pc'[t] \in {"post", "close", "unlist"}
            /\ op[t] # "guid" => pc'[t] # "unlist"
        BY <1>22 DEF SendPosts, Shape, ShapeOf
      <3>2. \A c \in Contexts : ReceiveHolders(c)' = ReceiveHolders(c)
        BY <3>1 DEF ReceiveHolders, Holders, HoldingPCs
      <3>. QED
        BY <3>1, <3>2 DEF ReceivesAreSerial
    <2>. QED
      BY <2>1, <2>2, <2>3, <2>4, <2>5, <2>6, <2>7, <2>8, <2>10, <2>11, <2>12, <2>13
      DEF Control
  <1>23. ASSUME NEW t \in Threads, ExchangeSocket(t)
         PROVE  Control'
    BY <1>23 DEF ExchangeSocket
  <1>24. ASSUME NEW t \in Threads, CloseSocket(t)
         PROVE  Control'
    <2>. HIDE DEF Shape, ShapeOf, ReturnsOK, ReturnOf, MLockOK, ContextLockOK,
        TableOK, UnbornOK, DeleteOK, ReceiveAlive, EarlyReceive, Key, Admitted,
        DisconnectOK, ReaderOK, NoBufferIsForgotten, ReceivesAreSerial,
        ReceiveHolders, Holders, HoldingPCs
    <2>1. Shape'
      BY <1>24
      DEF CloseSocket, Shape, ShapeOf, ReturnsOK, ReturnOf, MLockOK
    <2>2. ReturnsOK'
      BY <1>24
      DEF CloseSocket, ReturnsOK, ReturnOf, Shape, ShapeOf, MLockOK
    <2>3. MLockOK'
      BY <1>24
      DEF CloseSocket, MLockOK, Shape, ShapeOf, ReturnsOK, ReturnOf
    <2>4. ContextLockOK'
      BY <1>24
      DEF CloseSocket, ContextLockOK, Shape, ShapeOf, ReturnsOK, ReturnOf,
          DeleteOK
    <2>5. TableOK'
      BY <1>24
      DEF CloseSocket, TableOK, Shape, ShapeOf, DeleteOK
    <2>6. UnbornOK'
      BY <1>24
      DEF CloseSocket, UnbornOK, Shape, ShapeOf, Key, Admitted, ReturnsOK,
          ReturnOf
    <2>7. DeleteOK'
      BY <1>24
      DEF CloseSocket, DeleteOK, Shape, ShapeOf, ReturnsOK, ReturnOf, UnbornOK,
          MLockOK
    <2>8. ReceiveAlive'
      BY <1>24
      DEF CloseSocket, ReceiveAlive, EarlyReceive, Shape, ShapeOf, MLockOK,
          ReturnsOK, ReturnOf
    <2>10. DisconnectOK'
      BY <1>24
      DEF CloseSocket, DisconnectOK, Shape, ShapeOf, UnbornOK, ReturnsOK,
          ReturnOf, Key, Admitted
    <2>11. ReaderOK'
      BY <1>24
      DEF CloseSocket, ReaderOK, Shape, ShapeOf, MLockOK
    <2>12. NoBufferIsForgotten'
      BY <1>24
      DEF CloseSocket, NoBufferIsForgotten, Shape, ShapeOf, MLockOK, ReaderOK,
          DisconnectOK, ReturnsOK, ReturnOf
    <2>13. ReceivesAreSerial'
      BY <1>24
      DEF CloseSocket, ReceivesAreSerial, ReceiveHolders, Holders, HoldingPCs,
          Shape, ShapeOf, MLockOK, ReturnsOK, ReturnOf
    <2>. QED
      BY <2>1, <2>2, <2>3, <2>4, <2>5, <2>6, <2>7, <2>8, <2>10, <2>11, <2>12, <2>13
      DEF Control
  <1>25. ASSUME NEW t \in Threads, ReleaseSocketContext(t)
         PROVE  Control'
    <2>. HIDE DEF Shape, ShapeOf, ReturnsOK, ReturnOf, MLockOK, ContextLockOK,
        TableOK, UnbornOK, DeleteOK, ReceiveAlive, EarlyReceive, Key, Admitted,
        DisconnectOK, ReaderOK, NoBufferIsForgotten, ReceivesAreSerial,
        ReceiveHolders, Holders, HoldingPCs
    <2>a. /\ cur[t] \in Contexts
          /\ op[t] # "stale" => pendingIO[cur[t]] + overdrawn[cur[t]] >= 1
          /\ InSend(t) => pendingIO[cur[t]] >= 2
      BY <1>25, ReleaserIsCounted DEF ReleaseSocketContext
    <2>b. /\ \A u \in Threads : u # t =>
                 pc'[u] = pc[u] /\ op'[u] = op[u] /\ cur'[u] = cur[u]
          /\ pc[t] = "release"
          /\ \/ /\ pc'[t] = "erase" /\ op'[t] = op[t] /\ cur'[t] = cur[t]
                /\ pendingIO[cur[t]] = 1 /\ mLock' = mLock
             \/ /\ InSend(t) /\ op'[t] = op[t] /\ cur'[t] = cur[t]
                /\ pc'[t] = AfterSend(t)
                /\ mLock' = [mLock EXCEPT ![cur[t]] = Nobody]
             \/ /\ ~InSend(t) /\ op'[t] = "none" /\ cur'[t] = NoContext
                /\ pc'[t] = (IF t \in Workers THEN "loop" ELSE "idle")
                /\ mLock' = mLock
      BY <1>25 DEF ReleaseSocketContext
    <2>1. Shape'
      BY <2>a, <2>b DEF Shape, ShapeOf, MLockOK
    <2>2. ReturnsOK'
      BY <1>25
      DEF ReleaseSocketContext, ReturnsOK, ReturnOf, Shape, ShapeOf, MLockOK
    <2>3. MLockOK'
      BY <2>a, <2>b DEF MLockOK, Shape, ShapeOf
    <2>4. ContextLockOK'
      BY <1>25
      DEF ReleaseSocketContext, ContextLockOK, Shape, ShapeOf, ReturnsOK,
          ReturnOf, DeleteOK
    <2>5. TableOK'
      BY <1>25
      DEF ReleaseSocketContext, TableOK, Shape, ShapeOf, DeleteOK
    <2>6. UnbornOK'
      BY <1>25
      DEF ReleaseSocketContext, UnbornOK, Shape, ShapeOf, Key, Admitted,
          ReturnsOK, ReturnOf
    <2>7. DeleteOK'
      <3>1. /\ cur' = [cur EXCEPT ![t] = cur'[t]] /\ op' = [op EXCEPT ![t] = op'[t]]
            /\ pc' = [pc EXCEPT ![t] = pc'[t]]
            /\ socketOpen' = socketOpen /\ table' = table
            /\ \A c \in Contexts : mLock'[c] = mLock[c] \/ mLock'[c] = Nobody
            /\ \A c \in Contexts : c # cur[t] =>
                   pendingIO'[c] = pendingIO[c] /\ overdrawn'[c] = overdrawn[c]
            /\ pc'[t] \in {"erase", "free"} =>
                   /\ pc'[t] = "erase" /\ cur' = cur /\ op' = op
                   /\ pendingIO[cur[t]] = 1 /\ pendingIO'[cur[t]] = 0
                   /\ ~InSend(t)
            /\ overdrawn'[cur[t]] = overdrawn[cur[t]] + One(op[t] = "stale")
        BY <1>25, <2>a DEF ReleaseSocketContext
      <3>2. \A u \in Threads : pc[u] \in {"erase", "free"} /\ cur[u] = cur[t]
                => overdrawn'[cur[t]] > 0
        BY <2>a, <3>1 DEF One, DeleteOK
      <3>3. pc'[t] = "erase" =>
                /\ mLock[cur[t]] = Nobody /\ ~socketOpen[cur[t]]
                /\ op[t] # "guid"
        BY <1>25, <3>1, LastReleaseIsAlone DEF ReleaseSocketContext, MLockOK
      <3>4. ASSUME NEW u \in Threads, pc'[u] \in {"erase", "free"}
            PROVE  /\ cur'[u] = cur[u] /\ op'[u] = op[u]
                   /\ ~socketOpen[cur[u]] /\ mLock[cur[u]] = Nobody
                   /\ pc'[u] = "free" => cur[u] \notin table
                   /\ op[u] # "guid" /\ cur[u] \in Contexts
        BY <2>a, <3>1, <3>3, <3>4 DEF DeleteOK, Shape, ShapeOf
      <3>5. ASSUME NEW u \in Threads, pc'[u] \in {"erase", "free"},
                   overdrawn'[cur[u]] = 0
            PROVE  /\ pendingIO'[cur[u]] = 0
                   /\ \A v \in Threads : v # u /\ pc'[v] \in {"erase", "free"}
                          => cur[v] # cur[u]
        <4>1. CASE u = t
          BY <2>b, <3>1, <3>2, <3>5, <4>1
        <4>2. CASE u # t
          <5>1. pc[u] \in {"erase", "free"} /\ cur[u] # cur[t]
            BY <2>b, <3>2, <3>5, <4>2
          <5>2. overdrawn[cur[u]] = 0 /\ pendingIO'[cur[u]] = pendingIO[cur[u]]
            BY <3>1, <3>4, <3>5, <5>1
          <5>. QED
            BY <2>b, <3>5, <4>2, <5>1, <5>2 DEF DeleteOK
        <4>. QED
          BY <4>1, <4>2
      <3>6. \A u \in Threads : pc'[u] \in {"erase", "free"} => mLock'[cur[u]] = Nobody
        BY <3>1, <3>4
      <3>7. socketOpen' = socketOpen /\ table' = table
        BY <3>1
      <3>. QED
        BY <3>4, <3>5, <3>6, <3>7 DEF DeleteOK
    <2>8. ReceiveAlive'
      <3>1. CASE InSend(t)
        BY SMTT(90), <1>25, <2>a, <3>1
        DEF ReleaseSocketContext, ReceiveAlive, EarlyReceive, MLockOK, ReaderOK,
            Shape, ShapeOf
      <3>2. CASE ~InSend(t)
        <4>1. /\ mLock' = mLock /\ socketOpen' = socketOpen
              /\ recvPosted' = recvPosted
              /\ \A u \in Threads : u # t =>
                     pc'[u] = pc[u] /\ op'[u] = op[u] /\ cur'[u] = cur[u]
          BY <1>25, <3>2 DEF ReleaseSocketContext
        <4>2. \A c \in Contexts : ~EarlyReceive(t, c)
          BY <1>25, <3>2 DEF ReleaseSocketContext, EarlyReceive
        <4>3. \A c \in Contexts, u \in Threads :
                  EarlyReceive(u, c) => EarlyReceive(u, c)'
          BY <4>1, <4>2 DEF EarlyReceive
        <4>. QED
          BY <4>1, <4>3 DEF ReceiveAlive
      <3>. QED
        BY <3>1, <3>2
    <2>10. DisconnectOK'
      <3>1. /\ disconnects' = disconnects /\ socketOpen' = socketOpen
            /\ \A d \in Contexts : life'[d] = "unborn" <=> life[d] = "unborn"
            /\ \A u \in Threads : pc'[u] = "closing" <=> pc[u] = "closing"
            /\ \A u \in Threads : pc[u] = "closing" => cur'[u] = cur[u]
        BY <1>25 DEF ReleaseSocketContext, Shape, ShapeOf, Key, Admitted
      <3>. QED
        BY <3>1 DEF DisconnectOK
    <2>11. ReaderOK'
      BY <1>25
      DEF ReleaseSocketContext, ReaderOK, Shape, ShapeOf, MLockOK
    <2>12. NoBufferIsForgotten'
      BY <1>25
      DEF ReleaseSocketContext, NoBufferIsForgotten, Shape, ShapeOf, MLockOK,
          ReaderOK
    <2>13. ReceivesAreSerial'
      <3>1. recvPosted' = recvPosted /\ abandoned' = abandoned
        BY <1>25 DEF ReleaseSocketContext
      <3>2. \A c \in Contexts : ReceiveHolders(c)' \in SUBSET ReceiveHolders(c)
        <4>1. \A u \in Threads : u # t =>
                  pc'[u] = pc[u] /\ op'[u] = op[u] /\ cur'[u] = cur[u]
          BY <2>b
        <4>2. /\ pc[t] = "release"
              /\ t \in Threads
              /\ \A c \in Contexts : cur'[t] = c => cur[t] = c /\ op'[t] = op[t]
          BY <2>b
        <4>. QED
          BY <4>1, <4>2 DEF ReceiveHolders, Holders, HoldingPCs
      <3>. QED
        BY <3>1, <3>2 DEF ReceivesAreSerial
    <2>. QED
      BY <2>1, <2>2, <2>3, <2>4, <2>5, <2>6, <2>7, <2>8, <2>10, <2>11, <2>12, <2>13
      DEF Control
  <1>26. ASSUME NEW t \in Threads, DeleteContext(t)
         PROVE  Control'
    BY <1>26 DEF DeleteContext
  <1>27. ASSUME NEW t \in Threads, FreeContext(t)
         PROVE  Control'
    <2>. HIDE DEF Shape, ShapeOf, ReturnsOK, ReturnOf, MLockOK, ContextLockOK,
        TableOK, UnbornOK, DeleteOK, ReceiveAlive, EarlyReceive, Key, Admitted,
        DisconnectOK, ReaderOK, NoBufferIsForgotten, ReceivesAreSerial,
        ReceiveHolders, Holders, HoldingPCs
    <2>1. Shape'
      BY <1>27
      DEF FreeContext, Shape, ShapeOf, ReturnsOK, ReturnOf, MLockOK
    <2>2. ReturnsOK'
      BY <1>27
      DEF FreeContext, ReturnsOK, ReturnOf, Shape, ShapeOf, MLockOK
    <2>3. MLockOK'
      BY <1>27
      DEF FreeContext, MLockOK, Shape, ShapeOf, ReturnsOK, ReturnOf
    <2>4. ContextLockOK'
      BY <1>27
      DEF FreeContext, ContextLockOK, Shape, ShapeOf, ReturnsOK, ReturnOf,
          DeleteOK
    <2>5. TableOK'
      BY <1>27
      DEF FreeContext, TableOK, Shape, ShapeOf, DeleteOK
    <2>6. UnbornOK'
      BY <1>27
      DEF FreeContext, UnbornOK, Shape, ShapeOf, Key, Admitted, ReturnsOK,
          ReturnOf, DeleteOK
    <2>7. DeleteOK'
      BY <1>27
      DEF FreeContext, DeleteOK, Shape, ShapeOf, ReturnsOK, ReturnOf, UnbornOK,
          MLockOK
    <2>8. ReceiveAlive'
      BY <1>27
      DEF FreeContext, ReceiveAlive, EarlyReceive, Shape, ShapeOf, MLockOK,
          ReturnsOK, ReturnOf
    <2>10. DisconnectOK'
      <3>1. /\ disconnects' = disconnects /\ socketOpen' = socketOpen
            /\ \A d \in Contexts : life'[d] = "unborn" <=> life[d] = "unborn"
            /\ \A u \in Threads : pc'[u] = "closing" <=> pc[u] = "closing"
            /\ \A u \in Threads : pc[u] = "closing" => cur'[u] = cur[u]
        BY <1>27 DEF FreeContext, Shape, ShapeOf, Key, Admitted
      <3>. QED
        BY <3>1 DEF DisconnectOK
    <2>11. ReaderOK'
      BY <1>27
      DEF FreeContext, ReaderOK, Shape, ShapeOf, MLockOK
    <2>12. NoBufferIsForgotten'
      <3>1. ~InSend(t)
        BY <1>27 DEF FreeContext, DeleteOK, Shape, ShapeOf
      <3>2. /\ crashed' = crashed /\ socketOpen' = socketOpen
            /\ hasReader' = hasReader /\ queued' = queued
            /\ sendsPosted' = sendsPosted /\ mLock' = mLock /\ pc[t] = "free"
            /\ \A u \in Threads : u # t =>
                   pc'[u] = pc[u] /\ op'[u] = op[u] /\ cur'[u] = cur[u]
        BY <1>27, <3>1 DEF FreeContext
      <3>. QED
        BY <3>2 DEF NoBufferIsForgotten
    <2>13. ReceivesAreSerial'
      BY <1>27
      DEF FreeContext, ReceivesAreSerial, ReceiveHolders, Holders, HoldingPCs,
          Shape, ShapeOf, MLockOK, ReturnsOK, ReturnOf
    <2>. QED
      BY <2>1, <2>2, <2>3, <2>4, <2>5, <2>6, <2>7, <2>8, <2>10, <2>11, <2>12, <2>13
      DEF Control
  <1>28. ASSUME NEW s \in Senders, NEW c \in Contexts, FindToSend(s, c)
         PROVE  Control'
    <2>. HIDE DEF Shape, ShapeOf, ReturnsOK, ReturnOf, MLockOK, ContextLockOK,
        TableOK, UnbornOK, DeleteOK, ReceiveAlive, EarlyReceive, Key, Admitted,
        DisconnectOK, ReaderOK, NoBufferIsForgotten, ReceivesAreSerial,
        ReceiveHolders, Holders, HoldingPCs
    <2>1. Shape'
      BY <1>28
      DEF FindToSend, Shape, ShapeOf, ReturnsOK, ReturnOf, MLockOK
    <2>2. ReturnsOK'
      BY <1>28
      DEF FindToSend, ReturnsOK, ReturnOf, Shape, ShapeOf, MLockOK
    <2>3. MLockOK'
      BY <1>28
      DEF FindToSend, MLockOK, Shape, ShapeOf, ReturnsOK, ReturnOf
    <2>4. ContextLockOK'
      BY <1>28
      DEF FindToSend, ContextLockOK, Shape, ShapeOf, ReturnsOK, ReturnOf,
          DeleteOK
    <2>5. TableOK'
      BY <1>28
      DEF FindToSend, TableOK, Shape, ShapeOf, DeleteOK
    <2>6. UnbornOK'
      BY <1>28
      DEF FindToSend, UnbornOK, Shape, ShapeOf, Key, Admitted, ReturnsOK,
          ReturnOf
    <2>7. DeleteOK'
      BY <1>28
      DEF FindToSend, DeleteOK, Shape, ShapeOf, ReturnsOK, ReturnOf, UnbornOK,
          MLockOK
    <2>8. ReceiveAlive'
      BY <1>28
      DEF FindToSend, ReceiveAlive, EarlyReceive, Shape, ShapeOf, MLockOK,
          ReturnsOK, ReturnOf
    <2>10. DisconnectOK'
      <3>1. /\ disconnects' = disconnects /\ socketOpen' = socketOpen
            /\ \A d \in Contexts : life'[d] = "unborn" <=> life[d] = "unborn"
            /\ \A u \in Threads : pc'[u] = "closing" <=> pc[u] = "closing"
            /\ \A u \in Threads : pc[u] = "closing" => cur'[u] = cur[u]
        BY <1>28 DEF FindToSend, Shape, ShapeOf, Key, Admitted
      <3>. QED
        BY <3>1 DEF DisconnectOK
    <2>11. ReaderOK'
      BY <1>28
      DEF FindToSend, ReaderOK, Shape, ShapeOf, MLockOK
    <2>12. NoBufferIsForgotten'
      BY <1>28
      DEF FindToSend, NoBufferIsForgotten, Shape, ShapeOf, MLockOK, ReaderOK
    <2>13. ReceivesAreSerial'
      BY <1>28
      DEF FindToSend, ReceivesAreSerial, ReceiveHolders, Holders, HoldingPCs,
          Shape, ShapeOf, MLockOK, ReturnsOK, ReturnOf
    <2>. QED
      BY <2>1, <2>2, <2>3, <2>4, <2>5, <2>6, <2>7, <2>8, <2>10, <2>11, <2>12, <2>13
      DEF Control
  <1>29. ASSUME NEW s \in Senders, LeaveSend(s)
         PROVE  Control'
    <2>. HIDE DEF Shape, ShapeOf, ReturnsOK, ReturnOf, MLockOK, ContextLockOK,
        TableOK, UnbornOK, DeleteOK, ReceiveAlive, EarlyReceive, Key, Admitted,
        DisconnectOK, ReaderOK, NoBufferIsForgotten, ReceivesAreSerial,
        ReceiveHolders, Holders, HoldingPCs
    <2>1. Shape'
      BY <1>29
      DEF LeaveSend, Shape, ShapeOf, ReturnsOK, ReturnOf, MLockOK
    <2>2. ReturnsOK'
      BY <1>29
      DEF LeaveSend, ReturnsOK, ReturnOf, Shape, ShapeOf, MLockOK
    <2>3. MLockOK'
      BY <1>29
      DEF LeaveSend, MLockOK, Shape, ShapeOf, ReturnsOK, ReturnOf
    <2>4. ContextLockOK'
      BY <1>29
      DEF LeaveSend, ContextLockOK, Shape, ShapeOf, ReturnsOK, ReturnOf,
          DeleteOK
    <2>5. TableOK'
      BY <1>29
      DEF LeaveSend, TableOK, Shape, ShapeOf, DeleteOK
    <2>6. UnbornOK'
      BY <1>29
      DEF LeaveSend, UnbornOK, Shape, ShapeOf, Key, Admitted, ReturnsOK,
          ReturnOf
    <2>7. DeleteOK'
      BY <1>29
      DEF LeaveSend, DeleteOK, Shape, ShapeOf, ReturnsOK, ReturnOf, UnbornOK,
          MLockOK
    <2>8. ReceiveAlive'
      BY <1>29
      DEF LeaveSend, ReceiveAlive, EarlyReceive, Shape, ShapeOf, MLockOK,
          ReturnsOK, ReturnOf
    <2>10. DisconnectOK'
      BY <1>29
      DEF LeaveSend, DisconnectOK, Shape, ShapeOf, UnbornOK, ReturnsOK,
          ReturnOf
    <2>11. ReaderOK'
      BY <1>29
      DEF LeaveSend, ReaderOK, Shape, ShapeOf, MLockOK
    <2>12. NoBufferIsForgotten'
      BY <1>29
      DEF LeaveSend, NoBufferIsForgotten, Shape, ShapeOf, MLockOK, ReaderOK
    <2>13. ReceivesAreSerial'
      BY <1>29
      DEF LeaveSend, ReceivesAreSerial, ReceiveHolders, Holders, HoldingPCs,
          Shape, ShapeOf, MLockOK, ReturnsOK, ReturnOf
    <2>. QED
      BY <2>1, <2>2, <2>3, <2>4, <2>5, <2>6, <2>7, <2>8, <2>10, <2>11, <2>12, <2>13
      DEF Control
  <1>30. ASSUME NEW k \in Stoppers, RaiseShutdown(k)
         PROVE  Control'
    BY <1>30 DEF RaiseShutdown
  <1>31. ASSUME NEW k \in Stoppers, BeginCloseAll(k)
         PROVE  Control'
    BY <1>31 DEF BeginCloseAll
  <1>32. ASSUME NEW k \in Stoppers, NEW c \in Contexts, CloseNext(k, c)
         PROVE  Control'
    <2>1. Shape'
      BY <1>32 DEF CloseNext
    <2>2. ReturnsOK'
      BY <1>32 DEF CloseNext
    <2>3. MLockOK'
      BY <1>32 DEF CloseNext
    <2>4. ContextLockOK'
      BY <1>32 DEF CloseNext
    <2>5. TableOK'
      BY <1>32 DEF CloseNext
    <2>6. UnbornOK'
      BY <1>32 DEF CloseNext
    <2>7. DeleteOK'
      BY <1>32 DEF CloseNext
    <2>8. ReceiveAlive'
      BY <1>32 DEF CloseNext
    <2>10. DisconnectOK'
      BY <1>32 DEF CloseNext
    <2>11. ReaderOK'
      BY <1>32 DEF CloseNext
    <2>12. NoBufferIsForgotten'
      BY <1>32 DEF CloseNext
    <2>13. ReceivesAreSerial'
      BY <1>32 DEF CloseNext
    <2>. QED
      BY <2>1, <2>2, <2>3, <2>4, <2>5, <2>6, <2>7, <2>8, <2>10, <2>11, <2>12, <2>13
      DEF Control
  <1>33. ASSUME NEW k \in Stoppers, EndCloseAll(k)
         PROVE  Control'
    <2>. HIDE DEF Shape, ShapeOf, ReturnsOK, ReturnOf, MLockOK, ContextLockOK,
        TableOK, UnbornOK, DeleteOK, ReceiveAlive, EarlyReceive, Key, Admitted,
        DisconnectOK, ReaderOK, NoBufferIsForgotten, ReceivesAreSerial,
        ReceiveHolders, Holders, HoldingPCs
    <2>1. Shape'
      BY <1>33
      DEF EndCloseAll, Shape, ShapeOf, ReturnsOK, ReturnOf, MLockOK
    <2>2. ReturnsOK'
      BY <1>33
      DEF EndCloseAll, ReturnsOK, ReturnOf, Shape, ShapeOf, MLockOK
    <2>3. MLockOK'
      BY <1>33
      DEF EndCloseAll, MLockOK, Shape, ShapeOf, ReturnsOK, ReturnOf
    <2>4. ContextLockOK'
      BY <1>33
      DEF EndCloseAll, ContextLockOK, Shape, ShapeOf, ReturnsOK, ReturnOf,
          DeleteOK
    <2>5. TableOK'
      BY <1>33
      DEF EndCloseAll, TableOK, Shape, ShapeOf, DeleteOK
    <2>6. UnbornOK'
      BY <1>33
      DEF EndCloseAll, UnbornOK, Shape, ShapeOf, Key, Admitted, ReturnsOK,
          ReturnOf
    <2>7. DeleteOK'
      BY <1>33
      DEF EndCloseAll, DeleteOK, Shape, ShapeOf, ReturnsOK, ReturnOf, UnbornOK,
          MLockOK
    <2>8. ReceiveAlive'
      BY <1>33
      DEF EndCloseAll, ReceiveAlive, EarlyReceive, Shape, ShapeOf, MLockOK,
          ReturnsOK, ReturnOf
    <2>10. DisconnectOK'
      BY <1>33
      DEF EndCloseAll, DisconnectOK, Shape, ShapeOf, UnbornOK, ReturnsOK,
          ReturnOf
    <2>11. ReaderOK'
      BY <1>33
      DEF EndCloseAll, ReaderOK, Shape, ShapeOf, MLockOK
    <2>12. NoBufferIsForgotten'
      BY <1>33
      DEF EndCloseAll, NoBufferIsForgotten, Shape, ShapeOf, MLockOK, ReaderOK
    <2>13. ReceivesAreSerial'
      BY <1>33
      DEF EndCloseAll, ReceivesAreSerial, ReceiveHolders, Holders, HoldingPCs,
          Shape, ShapeOf, MLockOK, ReturnsOK, ReturnOf
    <2>. QED
      BY <2>1, <2>2, <2>3, <2>4, <2>5, <2>6, <2>7, <2>8, <2>10, <2>11, <2>12, <2>13
      DEF Control
  <1>35. ASSUME NEW w \in Workers, WaitForPacket(w)
         PROVE  Control'
    <2>. HIDE DEF Shape, ShapeOf, ReturnsOK, ReturnOf, MLockOK, ContextLockOK,
        TableOK, UnbornOK, DeleteOK, ReceiveAlive, EarlyReceive, Key, Admitted,
        DisconnectOK, ReaderOK, NoBufferIsForgotten, ReceivesAreSerial,
        ReceiveHolders, Holders, HoldingPCs
    <2>1. Shape'
      BY <1>35
      DEF WaitForPacket, Shape, ShapeOf, ReturnsOK, ReturnOf, MLockOK
    <2>2. ReturnsOK'
      BY <1>35
      DEF WaitForPacket, ReturnsOK, ReturnOf, Shape, ShapeOf, MLockOK
    <2>3. MLockOK'
      BY <1>35
      DEF WaitForPacket, MLockOK, Shape, ShapeOf, ReturnsOK, ReturnOf
    <2>4. ContextLockOK'
      BY <1>35
      DEF WaitForPacket, ContextLockOK, Shape, ShapeOf, ReturnsOK, ReturnOf,
          DeleteOK
    <2>5. TableOK'
      BY <1>35
      DEF WaitForPacket, TableOK, Shape, ShapeOf, DeleteOK
    <2>6. UnbornOK'
      BY <1>35
      DEF WaitForPacket, UnbornOK, Shape, ShapeOf, Key, Admitted, ReturnsOK,
          ReturnOf
    <2>7. DeleteOK'
      BY <1>35
      DEF WaitForPacket, DeleteOK, Shape, ShapeOf, ReturnsOK, ReturnOf,
          UnbornOK, MLockOK
    <2>8. ReceiveAlive'
      BY <1>35
      DEF WaitForPacket, ReceiveAlive, EarlyReceive, Shape, ShapeOf, MLockOK,
          ReturnsOK, ReturnOf
    <2>10. DisconnectOK'
      BY <1>35
      DEF WaitForPacket, DisconnectOK, Shape, ShapeOf, UnbornOK, ReturnsOK,
          ReturnOf
    <2>11. ReaderOK'
      BY <1>35
      DEF WaitForPacket, ReaderOK, Shape, ShapeOf, MLockOK
    <2>12. NoBufferIsForgotten'
      BY <1>35
      DEF WaitForPacket, NoBufferIsForgotten, Shape, ShapeOf, MLockOK, ReaderOK
    <2>13. ReceivesAreSerial'
      BY <1>35
      DEF WaitForPacket, ReceivesAreSerial, ReceiveHolders, Holders,
          HoldingPCs, Shape, ShapeOf, MLockOK, ReturnsOK, ReturnOf
    <2>. QED
      BY <2>1, <2>2, <2>3, <2>4, <2>5, <2>6, <2>7, <2>8, <2>10, <2>11, <2>12, <2>13
      DEF Control
  <1>36. ASSUME NEW w \in Workers, CloseAgain(w)
         PROVE  Control'
    <2>. HIDE DEF Shape, ShapeOf, ReturnsOK, ReturnOf, MLockOK, ContextLockOK,
        TableOK, UnbornOK, DeleteOK, ReceiveAlive, EarlyReceive, Key, Admitted,
        DisconnectOK, ReaderOK, NoBufferIsForgotten, ReceivesAreSerial,
        ReceiveHolders, Holders, HoldingPCs
    <2>1. Shape'
      BY <1>36
      DEF CloseAgain, Shape, ShapeOf, ReturnsOK, ReturnOf, MLockOK
    <2>2. ReturnsOK'
      BY <1>36
      DEF CloseAgain, ReturnsOK, ReturnOf, Shape, ShapeOf, MLockOK
    <2>3. MLockOK'
      BY <1>36
      DEF CloseAgain, MLockOK, Shape, ShapeOf, ReturnsOK, ReturnOf
    <2>4. ContextLockOK'
      BY <1>36
      DEF CloseAgain, ContextLockOK, Shape, ShapeOf, ReturnsOK, ReturnOf,
          DeleteOK
    <2>5. TableOK'
      BY <1>36
      DEF CloseAgain, TableOK, Shape, ShapeOf, DeleteOK
    <2>6. UnbornOK'
      BY <1>36
      DEF CloseAgain, UnbornOK, Shape, ShapeOf, Key, Admitted, ReturnsOK,
          ReturnOf
    <2>7. DeleteOK'
      BY <1>36
      DEF CloseAgain, DeleteOK, Shape, ShapeOf, ReturnsOK, ReturnOf, UnbornOK,
          MLockOK
    <2>8. ReceiveAlive'
      BY <1>36
      DEF CloseAgain, ReceiveAlive, EarlyReceive, Shape, ShapeOf, MLockOK,
          ReturnsOK, ReturnOf
    <2>10. DisconnectOK'
      BY <1>36
      DEF CloseAgain, DisconnectOK, Shape, ShapeOf, UnbornOK, ReturnsOK,
          ReturnOf
    <2>11. ReaderOK'
      BY <1>36
      DEF CloseAgain, ReaderOK, Shape, ShapeOf, MLockOK
    <2>12. NoBufferIsForgotten'
      BY <1>36
      DEF CloseAgain, NoBufferIsForgotten, Shape, ShapeOf, MLockOK, ReaderOK
    <2>13. ReceivesAreSerial'
      BY <1>36
      DEF CloseAgain, ReceivesAreSerial, ReceiveHolders, Holders, HoldingPCs,
          Shape, ShapeOf, MLockOK, ReturnsOK, ReturnOf
    <2>. QED
      BY <2>1, <2>2, <2>3, <2>4, <2>5, <2>6, <2>7, <2>8, <2>10, <2>11, <2>12, <2>13
      DEF Control
  <1>37. ASSUME NEW w \in Workers, UseUninitialisedKey(w)
         PROVE  Control'
    <2>. HIDE DEF Shape, ShapeOf, ReturnsOK, ReturnOf, MLockOK, ContextLockOK,
        TableOK, UnbornOK, DeleteOK, ReceiveAlive, EarlyReceive, Key, Admitted,
        DisconnectOK, ReaderOK, NoBufferIsForgotten, ReceivesAreSerial,
        ReceiveHolders, Holders, HoldingPCs
    <2>1. Shape'
      BY <1>37
      DEF UseUninitialisedKey, Shape, ShapeOf, ReturnsOK, ReturnOf, MLockOK
    <2>2. ReturnsOK'
      BY <1>37
      DEF UseUninitialisedKey, ReturnsOK, ReturnOf, Shape, ShapeOf, MLockOK
    <2>3. MLockOK'
      BY <1>37
      DEF UseUninitialisedKey, MLockOK, Shape, ShapeOf, ReturnsOK, ReturnOf
    <2>4. ContextLockOK'
      BY <1>37
      DEF UseUninitialisedKey, ContextLockOK, Shape, ShapeOf, ReturnsOK,
          ReturnOf, DeleteOK
    <2>5. TableOK'
      BY <1>37
      DEF UseUninitialisedKey, TableOK, Shape, ShapeOf, DeleteOK
    <2>6. UnbornOK'
      BY <1>37
      DEF UseUninitialisedKey, UnbornOK, Shape, ShapeOf, Key, Admitted,
          ReturnsOK, ReturnOf
    <2>7. DeleteOK'
      BY <1>37
      DEF UseUninitialisedKey, DeleteOK, Shape, ShapeOf, ReturnsOK, ReturnOf,
          UnbornOK, MLockOK
    <2>8. ReceiveAlive'
      BY <1>37
      DEF UseUninitialisedKey, ReceiveAlive, EarlyReceive, Shape, ShapeOf,
          MLockOK, ReturnsOK, ReturnOf
    <2>10. DisconnectOK'
      BY <1>37
      DEF UseUninitialisedKey, DisconnectOK, Shape, ShapeOf, UnbornOK,
          ReturnsOK, ReturnOf
    <2>11. ReaderOK'
      BY <1>37
      DEF UseUninitialisedKey, ReaderOK, Shape, ShapeOf, MLockOK
    <2>12. NoBufferIsForgotten'
      BY <1>37
      DEF UseUninitialisedKey, NoBufferIsForgotten, Shape, ShapeOf, MLockOK,
          ReaderOK
    <2>13. ReceivesAreSerial'
      BY <1>37
      DEF UseUninitialisedKey, ReceivesAreSerial, ReceiveHolders, Holders,
          HoldingPCs, Shape, ShapeOf, MLockOK, ReturnsOK, ReturnOf
    <2>. QED
      BY <2>1, <2>2, <2>3, <2>4, <2>5, <2>6, <2>7, <2>8, <2>10, <2>11, <2>12, <2>13
      DEF Control
  <1>38. ASSUME NEW t \in Threads, UseFreedContext(t)
         PROVE  Control'
    BY <1>38 DEF UseFreedContext
  <1>34. CASE UNCHANGED vars
    BY <1>34
    DEF vars, Holders, Transit, Admitting, OpenContexts, ConnectCountIsExact, Counts, PendingIOIsExact
  <1>. HIDE DEF IInv, TypeOK, Control, Shape, ShapeOf, ReturnsOK, ReturnOf, MLockOK, ContextLockOK,
    TableOK, UnbornOK, DeleteOK, ReceiveAlive, EarlyReceive, Key, Admitted,
    DisconnectOK, ReaderOK, NoBufferIsForgotten, PCs, Ops, Returns,
    ReceivesAreSerial, ReceiveHolders, Holders, HoldingPCs
  <1>. QED
    BY <1>1, <1>2, <1>3, <1>3a, <1>3b, <1>4, <1>5, <1>6, <1>7, <1>8, <1>9, <1>10, <1>11,
       <1>12, <1>13, <1>14, <1>15, <1>16, <1>17, <1>18, <1>19, <1>20, <1>21,
       <1>22, <1>23, <1>24, <1>25, <1>26, <1>27, <1>28, <1>29, <1>30, <1>31,
       <1>32, <1>33, <1>34, <1>35, <1>36, <1>37, <1>38
    DEF Next, Continue, ContinueLoop, ContinueAccept, ContinueRead,
        ContinueWrite, ContinueCall,
        Dispatch, AtRest, vars

\* Every step keeps the relation of notifications and work.
LEMMA NotifiedKept ==
    ASSUME IInv, Next
    PROVE  Notified'
  <1>. USE DEF IInv, TypeOK, Notified, Untold, DisconnectFollowsConnect, Control,
    Shape, ShapeOf, PCs, Ops, Returns
  <1>1. ASSUME NEW w \in Workers, NEW c \in Contexts, CountAccept(w, c)
         PROVE  Notified'
    BY <1>1 DEF CountAccept
  <1>2. ASSUME NEW w \in Workers, RejectAccept(w)
         PROVE  Notified'
    BY <1>2 DEF RejectAccept
  <1>3. ASSUME NEW w \in Workers, AdmitAccept(w)
         PROVE  Notified'
    BY <1>3 DEF AdmitAccept
  <1>3a. ASSUME NEW w \in Workers, AnnounceAccept(w)
         PROVE  Notified'
    BY <1>3a DEF AnnounceAccept
  <1>3b. ASSUME NEW w \in Workers, UpdateCompletionPort(w)
         PROVE  Notified'
    BY <1>3b DEF UpdateCompletionPort
  <1>4. ASSUME NEW w \in Workers, NEW c \in Contexts, DispatchRead(w, c)
         PROVE  Notified'
    BY <1>4 DEF DispatchRead
  <1>5. ASSUME NEW w \in Workers, NEW c \in Contexts, DispatchFailedRead(w, c)
         PROVE  Notified'
    BY <1>5 DEF DispatchFailedRead
  <1>6. ASSUME NEW w \in Workers, NotifyReceived(w)
         PROVE  Notified'
    BY <1>6 DEF NotifyReceived
  <1>7. ASSUME NEW w \in Workers, PostReadAccepted(w)
         PROVE  Notified'
    BY <1>7 DEF PostReadAccepted
  <1>8. ASSUME NEW w \in Workers, PostReadFailed(w)
         PROVE  Notified'
    BY <1>8 DEF PostReadFailed
  <1>9. ASSUME NEW w \in Workers, PostReadInvalid(w)
         PROVE  Notified'
    BY <1>9 DEF PostReadInvalid
  <1>10. ASSUME NEW w \in Workers, AbandonAccept(w)
         PROVE  Notified'
    BY <1>10 DEF AbandonAccept
  <1>11. ASSUME NEW w \in Workers, NEW c \in Contexts, DispatchWrite(w, c)
         PROVE  Notified'
    BY <1>11 DEF DispatchWrite
  <1>12. ASSUME NEW w \in Workers, NEW c \in Contexts, DispatchFailedWrite(w, c)
         PROVE  Notified'
    BY <1>12 DEF DispatchFailedWrite
  <1>13. ASSUME NEW w \in Workers, AdvancePosition(w)
         PROVE  Notified'
    BY <1>13 DEF AdvancePosition
  <1>14. ASSUME NEW w \in Workers, MeasurePosition(w)
         PROVE  Notified'
    BY <1>14 DEF MeasurePosition
  <1>15. ASSUME NEW w \in Workers, SwapReader(w)
         PROVE  Notified'
    BY <1>15 DEF SwapReader
  <1>16. ASSUME NEW w \in Workers, CheckReader(w)
         PROVE  Notified'
    BY <1>16 DEF CheckReader
  <1>17. ASSUME NEW w \in Workers, PostWriteAccepted(w)
         PROVE  Notified'
    BY <1>17 DEF PostWriteAccepted
  <1>18. ASSUME NEW w \in Workers, PostWriteFailed(w)
         PROVE  Notified'
    BY <1>18 DEF PostWriteFailed
  <1>19. ASSUME NEW w \in Workers, DereferenceNull(w)
         PROVE  Notified'
    BY <1>19 DEF DereferenceNull
  <1>20. ASSUME NEW t \in Threads, SendToClosed(t)
         PROVE  Notified'
    BY <1>20 DEF SendToClosed
  <1>21. ASSUME NEW t \in Threads, SendQueues(t)
         PROVE  Notified'
    BY <1>21 DEF SendQueues
  <1>22. ASSUME NEW t \in Threads, SendPosts(t)
         PROVE  Notified'
    BY <1>22 DEF SendPosts, MLockOK
  <1>23. ASSUME NEW t \in Threads, ExchangeSocket(t)
         PROVE  Notified'
    BY <1>23 DEF ExchangeSocket, ReturnsOK, ReturnOf
  <1>24. ASSUME NEW t \in Threads, CloseSocket(t)
         PROVE  Notified'
    BY <1>24 DEF CloseSocket, ReturnsOK, ReturnOf, Key, PortOK
  <1>25. ASSUME NEW t \in Threads, ReleaseSocketContext(t)
         PROVE  Notified'
    BY <1>25 DEF ReleaseSocketContext, MLockOK
  <1>26. ASSUME NEW t \in Threads, DeleteContext(t)
         PROVE  Notified'
    BY <1>26 DEF DeleteContext
  <1>27. ASSUME NEW t \in Threads, FreeContext(t)
         PROVE  Notified'
    BY <1>27 DEF FreeContext, MLockOK
  <1>28. ASSUME NEW s \in Senders, NEW c \in Contexts, FindToSend(s, c)
         PROVE  Notified'
    BY <1>28 DEF FindToSend
  <1>29. ASSUME NEW s \in Senders, LeaveSend(s)
         PROVE  Notified'
    BY <1>29 DEF LeaveSend
  <1>30. ASSUME NEW k \in Stoppers, RaiseShutdown(k)
         PROVE  Notified'
    BY <1>30 DEF RaiseShutdown
  <1>31. ASSUME NEW k \in Stoppers, BeginCloseAll(k)
         PROVE  Notified'
    BY <1>31 DEF BeginCloseAll
  <1>32. ASSUME NEW k \in Stoppers, NEW c \in Contexts, CloseNext(k, c)
         PROVE  Notified'
    BY <1>32 DEF CloseNext
  <1>33. ASSUME NEW k \in Stoppers, EndCloseAll(k)
         PROVE  Notified'
    BY <1>33 DEF EndCloseAll
  <1>35. ASSUME NEW w \in Workers, WaitForPacket(w)
         PROVE  Notified'
    BY <1>35 DEF WaitForPacket
  <1>36. ASSUME NEW w \in Workers, CloseAgain(w)
         PROVE  Notified'
    BY <1>36 DEF CloseAgain
  <1>37. ASSUME NEW w \in Workers, UseUninitialisedKey(w)
         PROVE  Notified'
    BY <1>37 DEF UseUninitialisedKey, Key, PortOK
  <1>38. ASSUME NEW t \in Threads, UseFreedContext(t)
         PROVE  Notified'
    BY <1>38 DEF UseFreedContext
  <1>34. CASE UNCHANGED vars
    BY <1>34 DEF vars
  <1>. HIDE DEF IInv, TypeOK, Notified, Untold, DisconnectFollowsConnect, Control,
    Shape, ShapeOf, PCs, Ops, Returns
  <1>. QED
    BY <1>1, <1>2, <1>3, <1>3a, <1>3b, <1>4, <1>5, <1>6, <1>7, <1>8, <1>9, <1>10, <1>11,
       <1>12, <1>13, <1>14, <1>15, <1>16, <1>17, <1>18, <1>19, <1>20, <1>21,
       <1>22, <1>23, <1>24, <1>25, <1>26, <1>27, <1>28, <1>29, <1>30, <1>31,
       <1>32, <1>33, <1>34, <1>35, <1>36, <1>37, <1>38
    DEF Next, Continue, ContinueLoop, ContinueAccept, ContinueRead,
        ContinueWrite, ContinueCall,
        Dispatch, AtRest, vars

\* Every step keeps what is known of admitted contexts, stale keys and ports.
LEMMA KeyKept ==
    ASSUME IInv, Next
    PROVE  Key'
  <1>. USE DEF IInv, TypeOK, Control, PCs, Ops, Returns
  <1>1. ASSUME NEW w \in Workers, NEW c \in Contexts, CountAccept(w, c)
         PROVE  Key'
    <2>1. Admitted'
      BY <1>1 DEF CountAccept, Key, Admitted, Shape, ShapeOf
    <2>2. StaleOK'
      BY <1>1 DEF CountAccept, Key, StaleOK, Shape, ShapeOf
    <2>3. PortOK'
      BY <1>1 DEF CountAccept, Key, PortOK, Shape, ShapeOf
    <2>. QED
      BY <2>1, <2>2, <2>3 DEF Key
  <1>2. ASSUME NEW w \in Workers, RejectAccept(w)
         PROVE  Key'
    <2>1. Admitted'
      BY <1>2 DEF RejectAccept, Key, Admitted, Shape, ShapeOf
    <2>2. StaleOK'
      BY <1>2 DEF RejectAccept, Key, StaleOK, Shape, ShapeOf
    <2>3. PortOK'
      BY <1>2 DEF RejectAccept, Key, PortOK, Shape, ShapeOf
    <2>. QED
      BY <2>1, <2>2, <2>3 DEF Key
  <1>3. ASSUME NEW w \in Workers, AdmitAccept(w)
         PROVE  Key'
    <2>1. Admitted'
      BY <1>3 DEF AdmitAccept, Key, Admitted, Shape, ShapeOf, UnbornOK
    <2>2. StaleOK'
      BY <1>3 DEF AdmitAccept, Key, StaleOK, Shape, ShapeOf, Admitted, UnbornOK
    <2>3. PortOK'
      BY <1>3 DEF AdmitAccept, Key, PortOK, Shape, ShapeOf, Admitted, UnbornOK
    <2>. QED
      BY <2>1, <2>2, <2>3 DEF Key
  <1>3a. ASSUME NEW w \in Workers, AnnounceAccept(w)
         PROVE  Key'
    <2>1. Admitted'
      BY <1>3a DEF AnnounceAccept, Key, Admitted, Shape, ShapeOf
    <2>2. StaleOK'
      BY <1>3a DEF AnnounceAccept, Key, StaleOK, Shape, ShapeOf
    <2>3. PortOK'
      <3>1. /\ pc[w] = "announce" /\ cur[w] \in Contexts /\ op[w] = "accept"
            /\ \A u \in Threads : u # w =>
                   pc'[u] = pc[u] /\ op'[u] = op[u] /\ cur'[u] = cur[u]
            /\ pc'[w] = "post" /\ op'[w] = "accept"
            /\ announced' = announced \cup {cur[w]} /\ m_hIOCP' = portOf[cur[w]]
            /\ portOf' = portOf /\ shutdown' = shutdown /\ overdrawn' = overdrawn
        BY <1>3a DEF AnnounceAccept, Shape, ShapeOf
      <3>2. ASSUME NEW u \in Threads, pc[u] \in {"update", "announce"}, u # w,
                   cur[u] = cur[w]
            PROVE  FALSE
        <4>1. op[u] = "accept"
          BY <3>2 DEF Shape, ShapeOf
        <4>2. w \in ReceiveHolders(cur[w]) /\ u \in ReceiveHolders(cur[w])
          BY <3>1, <3>2, <4>1 DEF ReceiveHolders, Holders, HoldingPCs
        <4>. QED
          BY <3>1, <3>2, <4>2 DEF ReceivesAreSerial
      <3>. QED
        BY <3>1, <3>2 DEF Key, PortOK
    <2>. QED
      BY <2>1, <2>2, <2>3 DEF Key
  <1>3b. ASSUME NEW w \in Workers, UpdateCompletionPort(w)
         PROVE  Key'
    <2>1. Admitted'
      BY <1>3b DEF UpdateCompletionPort, Key, Admitted, Shape, ShapeOf
    <2>2. StaleOK'
      BY <1>3b DEF UpdateCompletionPort, Key, StaleOK, Shape, ShapeOf
    <2>3. PortOK'
      <3>1. cur[w] \in Contexts /\ op[w] = "accept" /\ life[cur[w]] # "unborn"
            /\ cur[w] \notin announced
        BY <1>3b DEF UpdateCompletionPort, Shape, ShapeOf, Key, Admitted, PortOK
      <3>2. ASSUME ~socketOpen[cur[w]] PROVE shutdown
        <4>1. CASE disconnects[cur[w]] = 1
          BY <3>1, <4>1 DEF Notified, DisconnectFollowsConnect
        <4>2. CASE \E t \in Threads : cur[t] = cur[w] /\ pc[t] = "closing"
          BY <3>1, <4>2 DEF Notified, Untold, Shape, ShapeOf, Key, PortOK
        <4>. QED
          BY <3>1, <3>2, <4>1, <4>2 DEF DisconnectOK
      <3>3. portOf'[cur[w]] = NULL => shutdown
        BY <1>3b, <3>1, <3>2 DEF UpdateCompletionPort, Key, PortOK
      <3>4. /\ \A c \in Contexts : c # cur[w] => portOf'[c] = portOf[c]
            /\ \A t \in Threads : t # w => pc'[t] = pc[t]
            /\ pc[w] = "update" /\ pc'[w] = "announce" /\ op' = op /\ cur' = cur
            /\ announced' = announced /\ shutdown' = shutdown
            /\ m_hIOCP' = m_hIOCP /\ overdrawn' = overdrawn
        BY <1>3b, <3>1 DEF UpdateCompletionPort
      <3>5. \A t \in Threads : pc[t] = "announce" => cur[t] \in Contexts
        BY DEF Shape, ShapeOf
      <3>. QED
        BY <3>1, <3>3, <3>4, <3>5 DEF Key, PortOK
    <2>. QED
      BY <2>1, <2>2, <2>3 DEF Key
  <1>4. ASSUME NEW w \in Workers, NEW c \in Contexts, DispatchRead(w, c)
         PROVE  Key'
    <2>1. Admitted'
      BY <1>4 DEF DispatchRead, Key, Admitted, Shape, ShapeOf
    <2>2. StaleOK'
      BY <1>4 DEF DispatchRead, Key, StaleOK, Shape, ShapeOf
    <2>3. PortOK'
      BY <1>4 DEF DispatchRead, Key, PortOK, Shape, ShapeOf
    <2>. QED
      BY <2>1, <2>2, <2>3 DEF Key
  <1>5. ASSUME NEW w \in Workers, NEW c \in Contexts, DispatchFailedRead(w, c)
         PROVE  Key'
    <2>1. Admitted'
      BY <1>5 DEF DispatchFailedRead, Key, Admitted, Shape, ShapeOf
    <2>2. StaleOK'
      BY <1>5 DEF DispatchFailedRead, Key, StaleOK, Shape, ShapeOf
    <2>3. PortOK'
      BY <1>5 DEF DispatchFailedRead, Key, PortOK, Shape, ShapeOf
    <2>. QED
      BY <2>1, <2>2, <2>3 DEF Key
  <1>6. ASSUME NEW w \in Workers, NotifyReceived(w)
         PROVE  Key'
    <2>1. Admitted'
      BY <1>6 DEF NotifyReceived, Key, Admitted, Shape, ShapeOf
    <2>2. StaleOK'
      BY <1>6 DEF NotifyReceived, Key, StaleOK, Shape, ShapeOf
    <2>3. PortOK'
      BY <1>6 DEF NotifyReceived, Key, PortOK, Shape, ShapeOf
    <2>. QED
      BY <2>1, <2>2, <2>3 DEF Key
  <1>7. ASSUME NEW w \in Workers, PostReadAccepted(w)
         PROVE  Key'
    <2>1. Admitted'
      BY <1>7 DEF PostReadAccepted, Key, Admitted, Shape, ShapeOf
    <2>2. StaleOK'
      BY <1>7 DEF PostReadAccepted, Key, StaleOK, Shape, ShapeOf
    <2>3. PortOK'
      BY <1>7 DEF PostReadAccepted, Key, PortOK, Shape, ShapeOf
    <2>. QED
      BY <2>1, <2>2, <2>3 DEF Key
  <1>8. ASSUME NEW w \in Workers, PostReadFailed(w)
         PROVE  Key'
    <2>1. Admitted'
      BY <1>8 DEF PostReadFailed, Key, Admitted, Shape, ShapeOf
    <2>2. StaleOK'
      BY <1>8 DEF PostReadFailed, Key, StaleOK, Shape, ShapeOf
    <2>3. PortOK'
      BY <1>8 DEF PostReadFailed, Key, PortOK, Shape, ShapeOf
    <2>. QED
      BY <2>1, <2>2, <2>3 DEF Key
  <1>9. ASSUME NEW w \in Workers, PostReadInvalid(w)
         PROVE  Key'
    <2>1. Admitted'
      BY <1>9 DEF PostReadInvalid, Key, Admitted, Shape, ShapeOf
    <2>2. StaleOK'
      BY <1>9 DEF PostReadInvalid, Key, StaleOK, Shape, ShapeOf
    <2>3. PortOK'
      BY <1>9 DEF PostReadInvalid, Key, PortOK, Shape, ShapeOf
    <2>. QED
      BY <2>1, <2>2, <2>3 DEF Key
  <1>10. ASSUME NEW w \in Workers, AbandonAccept(w)
         PROVE  Key'
    <2>1. Admitted'
      BY <1>10 DEF AbandonAccept, Key, Admitted, Shape, ShapeOf
    <2>2. StaleOK'
      BY <1>10 DEF AbandonAccept, Key, StaleOK, Shape, ShapeOf
    <2>3. PortOK'
      BY <1>10 DEF AbandonAccept, Key, PortOK, Shape, ShapeOf
    <2>. QED
      BY <2>1, <2>2, <2>3 DEF Key
  <1>11. ASSUME NEW w \in Workers, NEW c \in Contexts, DispatchWrite(w, c)
         PROVE  Key'
    <2>1. Admitted'
      BY <1>11 DEF DispatchWrite, Key, Admitted, Shape, ShapeOf
    <2>2. StaleOK'
      BY <1>11 DEF DispatchWrite, Key, StaleOK, Shape, ShapeOf
    <2>3. PortOK'
      BY <1>11 DEF DispatchWrite, Key, PortOK, Shape, ShapeOf
    <2>. QED
      BY <2>1, <2>2, <2>3 DEF Key
  <1>12. ASSUME NEW w \in Workers, NEW c \in Contexts, DispatchFailedWrite(w, c)
         PROVE  Key'
    <2>1. Admitted'
      BY <1>12 DEF DispatchFailedWrite, Key, Admitted, Shape, ShapeOf
    <2>2. StaleOK'
      BY <1>12 DEF DispatchFailedWrite, Key, StaleOK, Shape, ShapeOf
    <2>3. PortOK'
      BY <1>12 DEF DispatchFailedWrite, Key, PortOK, Shape, ShapeOf
    <2>. QED
      BY <2>1, <2>2, <2>3 DEF Key
  <1>13. ASSUME NEW w \in Workers, AdvancePosition(w)
         PROVE  Key'
    <2>1. Admitted'
      BY <1>13 DEF AdvancePosition, Key, Admitted, Shape, ShapeOf
    <2>2. StaleOK'
      BY <1>13 DEF AdvancePosition, Key, StaleOK, Shape, ShapeOf
    <2>3. PortOK'
      BY <1>13 DEF AdvancePosition, Key, PortOK, Shape, ShapeOf
    <2>. QED
      BY <2>1, <2>2, <2>3 DEF Key
  <1>14. ASSUME NEW w \in Workers, MeasurePosition(w)
         PROVE  Key'
    <2>1. Admitted'
      BY <1>14 DEF MeasurePosition, Key, Admitted, Shape, ShapeOf
    <2>2. StaleOK'
      BY <1>14 DEF MeasurePosition, Key, StaleOK, Shape, ShapeOf
    <2>3. PortOK'
      BY <1>14 DEF MeasurePosition, Key, PortOK, Shape, ShapeOf
    <2>. QED
      BY <2>1, <2>2, <2>3 DEF Key
  <1>15. ASSUME NEW w \in Workers, SwapReader(w)
         PROVE  Key'
    <2>1. Admitted'
      BY <1>15 DEF SwapReader, Key, Admitted, Shape, ShapeOf
    <2>2. StaleOK'
      BY <1>15 DEF SwapReader, Key, StaleOK, Shape, ShapeOf
    <2>3. PortOK'
      BY <1>15 DEF SwapReader, Key, PortOK, Shape, ShapeOf
    <2>. QED
      BY <2>1, <2>2, <2>3 DEF Key
  <1>16. ASSUME NEW w \in Workers, CheckReader(w)
         PROVE  Key'
    <2>1. Admitted'
      BY <1>16 DEF CheckReader, Key, Admitted, Shape, ShapeOf
    <2>2. StaleOK'
      BY <1>16 DEF CheckReader, Key, StaleOK, Shape, ShapeOf
    <2>3. PortOK'
      BY <1>16 DEF CheckReader, Key, PortOK, Shape, ShapeOf
    <2>. QED
      BY <2>1, <2>2, <2>3 DEF Key
  <1>17. ASSUME NEW w \in Workers, PostWriteAccepted(w)
         PROVE  Key'
    <2>1. Admitted'
      BY <1>17 DEF PostWriteAccepted, Key, Admitted, Shape, ShapeOf
    <2>2. StaleOK'
      BY <1>17 DEF PostWriteAccepted, Key, StaleOK, Shape, ShapeOf
    <2>3. PortOK'
      BY <1>17 DEF PostWriteAccepted, Key, PortOK, Shape, ShapeOf
    <2>. QED
      BY <2>1, <2>2, <2>3 DEF Key
  <1>18. ASSUME NEW w \in Workers, PostWriteFailed(w)
         PROVE  Key'
    <2>1. Admitted'
      BY <1>18 DEF PostWriteFailed, Key, Admitted, Shape, ShapeOf
    <2>2. StaleOK'
      BY <1>18 DEF PostWriteFailed, Key, StaleOK, Shape, ShapeOf
    <2>3. PortOK'
      BY <1>18 DEF PostWriteFailed, Key, PortOK, Shape, ShapeOf
    <2>. QED
      BY <2>1, <2>2, <2>3 DEF Key
  <1>19. ASSUME NEW w \in Workers, DereferenceNull(w)
         PROVE  Key'
    <2>1. Admitted'
      BY <1>19 DEF DereferenceNull, Key, Admitted, Shape, ShapeOf
    <2>2. StaleOK'
      BY <1>19 DEF DereferenceNull, Key, StaleOK, Shape, ShapeOf
    <2>3. PortOK'
      BY <1>19 DEF DereferenceNull, Key, PortOK, Shape, ShapeOf
    <2>. QED
      BY <2>1, <2>2, <2>3 DEF Key
  <1>20. ASSUME NEW t \in Threads, SendToClosed(t)
         PROVE  Key'
    <2>1. Admitted'
      BY <1>20 DEF SendToClosed, Key, Admitted, Shape, ShapeOf
    <2>2. StaleOK'
      BY <1>20 DEF SendToClosed, Key, StaleOK, Shape, ShapeOf
    <2>3. PortOK'
      BY <1>20 DEF SendToClosed, Key, PortOK, Shape, ShapeOf
    <2>. QED
      BY <2>1, <2>2, <2>3 DEF Key
  <1>21. ASSUME NEW t \in Threads, SendQueues(t)
         PROVE  Key'
    <2>1. Admitted'
      BY <1>21 DEF SendQueues, Key, Admitted, Shape, ShapeOf
    <2>2. StaleOK'
      BY <1>21 DEF SendQueues, Key, StaleOK, Shape, ShapeOf
    <2>3. PortOK'
      BY <1>21 DEF SendQueues, Key, PortOK, Shape, ShapeOf
    <2>. QED
      BY <2>1, <2>2, <2>3 DEF Key
  <1>22. ASSUME NEW t \in Threads, SendPosts(t)
         PROVE  Key'
    <2>1. Admitted'
      BY <1>22 DEF SendPosts, Key, Admitted, Shape, ShapeOf
    <2>2. StaleOK'
      BY <1>22 DEF SendPosts, Key, StaleOK, Shape, ShapeOf, MLockOK
    <2>3. PortOK'
      BY <1>22 DEF SendPosts, Key, PortOK, Shape, ShapeOf
    <2>. QED
      BY <2>1, <2>2, <2>3 DEF Key
  <1>23. ASSUME NEW t \in Threads, ExchangeSocket(t)
         PROVE  Key'
    <2>1. Admitted'
      BY <1>23
      DEF ExchangeSocket, Key, Admitted, Shape, ShapeOf, ReturnsOK, ReturnOf
    <2>2. StaleOK'
      BY <1>23
      DEF ExchangeSocket, Key, StaleOK, Shape, ShapeOf, MLockOK, ReturnsOK,
          ReturnOf
    <2>3. PortOK'
      BY <1>23
      DEF ExchangeSocket, Key, PortOK, Shape, ShapeOf, ReturnsOK, ReturnOf
    <2>. QED
      BY <2>1, <2>2, <2>3 DEF Key
  <1>24. ASSUME NEW t \in Threads, CloseSocket(t)
         PROVE  Key'
    <2>1. Admitted'
      BY <1>24
      DEF CloseSocket, Key, Admitted, Shape, ShapeOf, ReturnsOK, ReturnOf
    <2>2. StaleOK'
      BY <1>24
      DEF CloseSocket, Key, StaleOK, Shape, ShapeOf, ReturnsOK, ReturnOf
    <2>3. PortOK'
      BY <1>24
      DEF CloseSocket, Key, PortOK, Shape, ShapeOf, ReturnsOK, ReturnOf
    <2>. QED
      BY <2>1, <2>2, <2>3 DEF Key
  <1>25. ASSUME NEW t \in Threads, ReleaseSocketContext(t)
         PROVE  Key'
    <2>1. Admitted'
      BY <1>25 DEF ReleaseSocketContext, Key, Admitted, Shape, ShapeOf
    <2>2. StaleOK'
      BY <1>25
      DEF ReleaseSocketContext, Key, StaleOK, Shape, ShapeOf, Admitted,
          MLockOK, One
    <2>3. PortOK'
      BY <1>25
      DEF ReleaseSocketContext, Key, PortOK, Shape, ShapeOf, MLockOK, One
    <2>. QED
      BY <2>1, <2>2, <2>3 DEF Key
  <1>26. ASSUME NEW t \in Threads, DeleteContext(t)
         PROVE  Key'
    <2>1. Admitted'
      BY <1>26 DEF DeleteContext, Key, Admitted, Shape, ShapeOf
    <2>2. StaleOK'
      BY <1>26 DEF DeleteContext, Key, StaleOK, Shape, ShapeOf
    <2>3. PortOK'
      BY <1>26 DEF DeleteContext, Key, PortOK, Shape, ShapeOf
    <2>. QED
      BY <2>1, <2>2, <2>3 DEF Key
  <1>27. ASSUME NEW t \in Threads, FreeContext(t)
         PROVE  Key'
    <2>1. Admitted'
      BY <1>27 DEF FreeContext, Key, Admitted, Shape, ShapeOf
    <2>2. StaleOK'
      BY <1>27 DEF FreeContext, Key, StaleOK, Shape, ShapeOf, DeleteOK
    <2>3. PortOK'
      BY <1>27 DEF FreeContext, Key, PortOK, Shape, ShapeOf
    <2>. QED
      BY <2>1, <2>2, <2>3 DEF Key
  <1>28. ASSUME NEW s \in Senders, NEW c \in Contexts, FindToSend(s, c)
         PROVE  Key'
    <2>1. Admitted'
      BY <1>28 DEF FindToSend, Key, Admitted, Shape, ShapeOf
    <2>2. StaleOK'
      BY <1>28 DEF FindToSend, Key, StaleOK, Shape, ShapeOf
    <2>3. PortOK'
      BY <1>28 DEF FindToSend, Key, PortOK, Shape, ShapeOf
    <2>. QED
      BY <2>1, <2>2, <2>3 DEF Key
  <1>29. ASSUME NEW s \in Senders, LeaveSend(s)
         PROVE  Key'
    <2>1. Admitted'
      BY <1>29 DEF LeaveSend, Key, Admitted, Shape, ShapeOf
    <2>2. StaleOK'
      BY <1>29 DEF LeaveSend, Key, StaleOK, Shape, ShapeOf
    <2>3. PortOK'
      BY <1>29 DEF LeaveSend, Key, PortOK, Shape, ShapeOf
    <2>. QED
      BY <2>1, <2>2, <2>3 DEF Key
  <1>30. ASSUME NEW k \in Stoppers, RaiseShutdown(k)
         PROVE  Key'
    <2>1. Admitted'
      BY <1>30 DEF RaiseShutdown, Key, Admitted, Shape, ShapeOf
    <2>2. StaleOK'
      BY <1>30 DEF RaiseShutdown, Key, StaleOK, Shape, ShapeOf
    <2>3. PortOK'
      BY <1>30 DEF RaiseShutdown, Key, PortOK, Shape, ShapeOf
    <2>. QED
      BY <2>1, <2>2, <2>3 DEF Key
  <1>31. ASSUME NEW k \in Stoppers, BeginCloseAll(k)
         PROVE  Key'
    <2>1. Admitted'
      BY <1>31 DEF BeginCloseAll, Key, Admitted, Shape, ShapeOf
    <2>2. StaleOK'
      BY <1>31 DEF BeginCloseAll, Key, StaleOK, Shape, ShapeOf
    <2>3. PortOK'
      BY <1>31 DEF BeginCloseAll, Key, PortOK, Shape, ShapeOf
    <2>. QED
      BY <2>1, <2>2, <2>3 DEF Key
  <1>32. ASSUME NEW k \in Stoppers, NEW c \in Contexts, CloseNext(k, c)
         PROVE  Key'
    <2>1. Admitted'
      BY <1>32
      DEF CloseNext, Key, Admitted, Shape, ShapeOf, TableOK, ContextLockOK
    <2>2. StaleOK'
      BY <1>32 DEF CloseNext, Key, StaleOK, Shape, ShapeOf
    <2>3. PortOK'
      BY <1>32 DEF CloseNext, Key, PortOK, Shape, ShapeOf
    <2>. QED
      BY <2>1, <2>2, <2>3 DEF Key
  <1>33. ASSUME NEW k \in Stoppers, EndCloseAll(k)
         PROVE  Key'
    <2>1. Admitted'
      BY <1>33 DEF EndCloseAll, Key, Admitted, Shape, ShapeOf
    <2>2. StaleOK'
      BY <1>33 DEF EndCloseAll, Key, StaleOK, Shape, ShapeOf
    <2>3. PortOK'
      BY <1>33 DEF EndCloseAll, Key, PortOK, Shape, ShapeOf
    <2>. QED
      BY <2>1, <2>2, <2>3 DEF Key
  <1>35. ASSUME NEW w \in Workers, WaitForPacket(w)
         PROVE  Key'
    <2>1. Admitted'
      BY <1>35 DEF WaitForPacket, Key, Admitted, Shape, ShapeOf
    <2>2. StaleOK'
      BY <1>35 DEF WaitForPacket, Key, StaleOK, Shape, ShapeOf
    <2>3. PortOK'
      BY <1>35 DEF WaitForPacket, Key, PortOK, Shape, ShapeOf
    <2>. QED
      BY <2>1, <2>2, <2>3 DEF Key
  <1>36. ASSUME NEW w \in Workers, CloseAgain(w)
         PROVE  Key'
    <2>1. Admitted'
      BY <1>36 DEF CloseAgain, Key, Admitted, Shape, ShapeOf
    <2>2. StaleOK'
      BY <1>36 DEF CloseAgain, Key, StaleOK, Shape, ShapeOf
    <2>3. PortOK'
      BY <1>36 DEF CloseAgain, Key, PortOK, Shape, ShapeOf
    <2>. QED
      BY <2>1, <2>2, <2>3 DEF Key
  <1>37. ASSUME NEW w \in Workers, UseUninitialisedKey(w)
         PROVE  Key'
    <2>1. Admitted'
      BY <1>37 DEF UseUninitialisedKey, Key, Admitted, Shape, ShapeOf
    <2>2. StaleOK'
      BY <1>37 DEF UseUninitialisedKey, Key, StaleOK, Shape, ShapeOf
    <2>3. PortOK'
      BY <1>37 DEF UseUninitialisedKey, Key, PortOK, Shape, ShapeOf
    <2>. QED
      BY <2>1, <2>2, <2>3 DEF Key
  <1>38. ASSUME NEW t \in Threads, UseFreedContext(t)
         PROVE  Key'
    <2>1. Admitted'
      BY <1>38 DEF UseFreedContext, Key, Admitted, Shape, ShapeOf
    <2>2. StaleOK'
      BY <1>38 DEF UseFreedContext, Key, StaleOK, Shape, ShapeOf
    <2>3. PortOK'
      BY <1>38 DEF UseFreedContext, Key, PortOK, Shape, ShapeOf
    <2>. QED
      BY <2>1, <2>2, <2>3 DEF Key
  <1>34. CASE UNCHANGED vars
    BY <1>34 DEF vars, Key, Admitted, StaleOK, PortOK
  <1>. HIDE DEF IInv, TypeOK, Control, PCs, Ops, Returns
  <1>. QED
    BY <1>1, <1>2, <1>3, <1>3a, <1>3b, <1>4, <1>5, <1>6, <1>7, <1>8, <1>9,
       <1>10, <1>11, <1>12, <1>13, <1>14, <1>15, <1>16, <1>17, <1>18, <1>19,
       <1>20, <1>21, <1>22, <1>23, <1>24, <1>25, <1>26, <1>27, <1>28, <1>29,
       <1>30, <1>31, <1>32, <1>33, <1>35, <1>36, <1>37, <1>38, <1>34
    DEF Next, Continue, ContinueLoop, ContinueAccept, ContinueRead,
        ContinueWrite, ContinueCall, Dispatch, AtRest, vars

\* A context that is wronged stays so: the worker's release is counted.
LEMMA WrongedStays ==
    ASSUME IInv, Next, NEW d \in Contexts, Wronged(d)
    PROVE  Wronged(d)'
  <1>. USE DEF IInv, TypeOK, Control, PCs, Ops, Returns
  <1>1. ASSUME NEW w \in Workers, NEW c \in Contexts, CountAccept(w, c)
         PROVE  Wronged(d)'
    BY <1>1
    DEF CountAccept, Wronged, Shape, ShapeOf
  <1>2. ASSUME NEW w \in Workers, RejectAccept(w)
         PROVE  Wronged(d)'
    BY <1>2
    DEF RejectAccept, Wronged, Shape, ShapeOf
  <1>3. ASSUME NEW w \in Workers, AdmitAccept(w)
         PROVE  Wronged(d)'
    BY <1>3
    DEF AdmitAccept, Wronged, Shape, ShapeOf
  <1>3a. ASSUME NEW w \in Workers, AnnounceAccept(w)
         PROVE  Wronged(d)'
    BY <1>3a
    DEF AnnounceAccept, Wronged, Shape, ShapeOf
  <1>3b. ASSUME NEW w \in Workers, UpdateCompletionPort(w)
         PROVE  Wronged(d)'
    BY <1>3b
    DEF UpdateCompletionPort, Wronged, Shape, ShapeOf
  <1>4. ASSUME NEW w \in Workers, NEW c \in Contexts, DispatchRead(w, c)
         PROVE  Wronged(d)'
    BY <1>4
    DEF DispatchRead, Wronged, Shape, ShapeOf
  <1>5. ASSUME NEW w \in Workers, NEW c \in Contexts, DispatchFailedRead(w, c)
         PROVE  Wronged(d)'
    BY <1>5
    DEF DispatchFailedRead, Wronged, Shape, ShapeOf
  <1>6. ASSUME NEW w \in Workers, NotifyReceived(w)
         PROVE  Wronged(d)'
    BY <1>6
    DEF NotifyReceived, Wronged, Shape, ShapeOf
  <1>7. ASSUME NEW w \in Workers, PostReadAccepted(w)
         PROVE  Wronged(d)'
    BY <1>7
    DEF PostReadAccepted, Wronged, Shape, ShapeOf
  <1>8. ASSUME NEW w \in Workers, PostReadFailed(w)
         PROVE  Wronged(d)'
    BY <1>8
    DEF PostReadFailed, Wronged, Shape, ShapeOf
  <1>9. ASSUME NEW w \in Workers, PostReadInvalid(w)
         PROVE  Wronged(d)'
    BY <1>9
    DEF PostReadInvalid, Wronged, Shape, ShapeOf
  <1>10. ASSUME NEW w \in Workers, AbandonAccept(w)
         PROVE  Wronged(d)'
    BY <1>10
    DEF AbandonAccept, Wronged, Shape, ShapeOf
  <1>11. ASSUME NEW w \in Workers, NEW c \in Contexts, DispatchWrite(w, c)
         PROVE  Wronged(d)'
    BY <1>11
    DEF DispatchWrite, Wronged, Shape, ShapeOf
  <1>12. ASSUME NEW w \in Workers, NEW c \in Contexts, DispatchFailedWrite(w, c)
         PROVE  Wronged(d)'
    BY <1>12
    DEF DispatchFailedWrite, Wronged, Shape, ShapeOf
  <1>13. ASSUME NEW w \in Workers, AdvancePosition(w)
         PROVE  Wronged(d)'
    BY <1>13
    DEF AdvancePosition, Wronged, Shape, ShapeOf
  <1>14. ASSUME NEW w \in Workers, MeasurePosition(w)
         PROVE  Wronged(d)'
    BY <1>14
    DEF MeasurePosition, Wronged, Shape, ShapeOf
  <1>15. ASSUME NEW w \in Workers, SwapReader(w)
         PROVE  Wronged(d)'
    BY <1>15
    DEF SwapReader, Wronged, Shape, ShapeOf
  <1>16. ASSUME NEW w \in Workers, CheckReader(w)
         PROVE  Wronged(d)'
    BY <1>16
    DEF CheckReader, Wronged, Shape, ShapeOf
  <1>17. ASSUME NEW w \in Workers, PostWriteAccepted(w)
         PROVE  Wronged(d)'
    BY <1>17
    DEF PostWriteAccepted, Wronged, Shape, ShapeOf
  <1>18. ASSUME NEW w \in Workers, PostWriteFailed(w)
         PROVE  Wronged(d)'
    BY <1>18
    DEF PostWriteFailed, Wronged, Shape, ShapeOf
  <1>19. ASSUME NEW w \in Workers, DereferenceNull(w)
         PROVE  Wronged(d)'
    BY <1>19
    DEF DereferenceNull, Wronged, Shape, ShapeOf
  <1>20. ASSUME NEW t \in Threads, SendToClosed(t)
         PROVE  Wronged(d)'
    BY <1>20
    DEF SendToClosed, Wronged, Shape, ShapeOf
  <1>21. ASSUME NEW t \in Threads, SendQueues(t)
         PROVE  Wronged(d)'
    BY <1>21
    DEF SendQueues, Wronged, Shape, ShapeOf
  <1>22. ASSUME NEW t \in Threads, SendPosts(t)
         PROVE  Wronged(d)'
    BY <1>22
    DEF SendPosts, Wronged, Shape, ShapeOf
  <1>23. ASSUME NEW t \in Threads, ExchangeSocket(t)
         PROVE  Wronged(d)'
    BY <1>23
    DEF ExchangeSocket, Wronged, Shape, ShapeOf
  <1>24. ASSUME NEW t \in Threads, CloseSocket(t)
         PROVE  Wronged(d)'
    BY <1>24
    DEF CloseSocket, Wronged, Shape, ShapeOf
  <1>25. ASSUME NEW t \in Threads, ReleaseSocketContext(t)
         PROVE  Wronged(d)'
    BY <1>25
    DEF ReleaseSocketContext, Wronged, Shape, ShapeOf, MLockOK, One, Key,
        StaleOK
  <1>26. ASSUME NEW t \in Threads, DeleteContext(t)
         PROVE  Wronged(d)'
    BY <1>26
    DEF DeleteContext, Wronged, Shape, ShapeOf
  <1>27. ASSUME NEW t \in Threads, FreeContext(t)
         PROVE  Wronged(d)'
    BY <1>27
    DEF FreeContext, Wronged, Shape, ShapeOf, MLockOK, DeleteOK, Key, StaleOK
  <1>28. ASSUME NEW s \in Senders, NEW c \in Contexts, FindToSend(s, c)
         PROVE  Wronged(d)'
    BY <1>28
    DEF FindToSend, Wronged, Shape, ShapeOf
  <1>29. ASSUME NEW s \in Senders, LeaveSend(s)
         PROVE  Wronged(d)'
    BY <1>29
    DEF LeaveSend, Wronged, Shape, ShapeOf
  <1>30. ASSUME NEW k \in Stoppers, RaiseShutdown(k)
         PROVE  Wronged(d)'
    BY <1>30
    DEF RaiseShutdown, Wronged, Shape, ShapeOf
  <1>31. ASSUME NEW k \in Stoppers, BeginCloseAll(k)
         PROVE  Wronged(d)'
    BY <1>31
    DEF BeginCloseAll, Wronged, Shape, ShapeOf
  <1>32. ASSUME NEW k \in Stoppers, NEW c \in Contexts, CloseNext(k, c)
         PROVE  Wronged(d)'
    BY <1>32
    DEF CloseNext, Wronged, Shape, ShapeOf
  <1>33. ASSUME NEW k \in Stoppers, EndCloseAll(k)
         PROVE  Wronged(d)'
    BY <1>33
    DEF EndCloseAll, Wronged, Shape, ShapeOf
  <1>35. ASSUME NEW w \in Workers, WaitForPacket(w)
         PROVE  Wronged(d)'
    BY <1>35
    DEF WaitForPacket, Wronged, Shape, ShapeOf
  <1>36. ASSUME NEW w \in Workers, CloseAgain(w)
         PROVE  Wronged(d)'
    BY <1>36
    DEF CloseAgain, Wronged, Shape, ShapeOf
  <1>37. ASSUME NEW w \in Workers, UseUninitialisedKey(w)
         PROVE  Wronged(d)'
    BY <1>37
    DEF UseUninitialisedKey, Wronged, Shape, ShapeOf
  <1>38. ASSUME NEW t \in Threads, UseFreedContext(t)
         PROVE  Wronged(d)'
    BY <1>38
    DEF UseFreedContext, Wronged, Shape, ShapeOf
  <1>34. CASE UNCHANGED vars
    BY <1>34 DEF vars, Wronged
  <1>. HIDE DEF IInv, TypeOK, Control, PCs, Ops, Returns
  <1>. QED
    BY <1>1, <1>2, <1>3, <1>3a, <1>3b, <1>4, <1>5, <1>6, <1>7, <1>8, <1>9,
       <1>10, <1>11, <1>12, <1>13, <1>14, <1>15, <1>16, <1>17, <1>18, <1>19,
       <1>20, <1>21, <1>22, <1>23, <1>24, <1>25, <1>26, <1>27, <1>28, <1>29,
       <1>30, <1>31, <1>32, <1>33, <1>35, <1>36, <1>37, <1>38, <1>34
    DEF Next, Continue, ContinueLoop, ContinueAccept, ContinueRead,
        ContinueWrite, ContinueCall, Dispatch, AtRest, vars

\* What is used of a context that is not wronged is alive.
InUse ==
    /\ \A t \in Threads :
          cur[t] \in Contexts /\ pc[t] \notin {"over", "admit"}
              => life[cur[t]] = "live" \/ Wronged(cur[t])
    /\ \A c \in Contexts :
          recvPosted[c] \/ sendsPosted[c] > 0 => life[c] = "live" \/ Wronged(c)

\* Every step keeps handlers and operations off deleted contexts.
LEMMA UseKept ==
    ASSUME IInv, Next
    PROVE  NoUseAfterFree'
  <1>a. \A c \in Contexts : Wronged(c) => Wronged(c)'
    BY WrongedStays
  <1>b. \A c \in Contexts : Wronged(c)' => shutdown'
    BY KeyKept, TypesKept DEF Key, PortOK, Wronged, TypeOK
  <1>c. InUse
    BY DEF IInv, NoUseAfterFree, InUse
  <1>. SUFFICES InUse'
    BY <1>b DEF NoUseAfterFree, InUse
  <1>. USE DEF IInv, TypeOK, Control, PCs, Ops, Returns
  <1>1. ASSUME NEW w \in Workers, NEW c \in Contexts, CountAccept(w, c)
         PROVE  InUse'
    BY <1>1, <1>a, <1>c
    DEF CountAccept, InUse, Shape, ShapeOf
  <1>2. ASSUME NEW w \in Workers, RejectAccept(w)
         PROVE  InUse'
    BY <1>2, <1>a, <1>c
    DEF RejectAccept, InUse, Shape, ShapeOf
  <1>3. ASSUME NEW w \in Workers, AdmitAccept(w)
         PROVE  InUse'
    BY <1>3, <1>a, <1>c
    DEF AdmitAccept, InUse, Shape, ShapeOf
  <1>3a. ASSUME NEW w \in Workers, AnnounceAccept(w)
         PROVE  InUse'
    BY <1>3a, <1>a, <1>c
    DEF AnnounceAccept, InUse, Shape, ShapeOf
  <1>3b. ASSUME NEW w \in Workers, UpdateCompletionPort(w)
         PROVE  InUse'
    BY <1>3b, <1>a, <1>c
    DEF UpdateCompletionPort, InUse, Shape, ShapeOf
  <1>4. ASSUME NEW w \in Workers, NEW c \in Contexts, DispatchRead(w, c)
         PROVE  InUse'
    BY <1>4, <1>a, <1>c
    DEF DispatchRead, InUse, Shape, ShapeOf
  <1>5. ASSUME NEW w \in Workers, NEW c \in Contexts, DispatchFailedRead(w, c)
         PROVE  InUse'
    BY <1>5, <1>a, <1>c
    DEF DispatchFailedRead, InUse, Shape, ShapeOf
  <1>6. ASSUME NEW w \in Workers, NotifyReceived(w)
         PROVE  InUse'
    BY <1>6, <1>a, <1>c
    DEF NotifyReceived, InUse, Shape, ShapeOf
  <1>7. ASSUME NEW w \in Workers, PostReadAccepted(w)
         PROVE  InUse'
    BY <1>7, <1>a, <1>c
    DEF PostReadAccepted, InUse, Shape, ShapeOf
  <1>8. ASSUME NEW w \in Workers, PostReadFailed(w)
         PROVE  InUse'
    BY <1>8, <1>a, <1>c
    DEF PostReadFailed, InUse, Shape, ShapeOf
  <1>9. ASSUME NEW w \in Workers, PostReadInvalid(w)
         PROVE  InUse'
    BY <1>9, <1>a, <1>c
    DEF PostReadInvalid, InUse, Shape, ShapeOf
  <1>10. ASSUME NEW w \in Workers, AbandonAccept(w)
         PROVE  InUse'
    BY <1>10, <1>a, <1>c
    DEF AbandonAccept, InUse, Shape, ShapeOf
  <1>11. ASSUME NEW w \in Workers, NEW c \in Contexts, DispatchWrite(w, c)
         PROVE  InUse'
    BY <1>11, <1>a, <1>c
    DEF DispatchWrite, InUse, Shape, ShapeOf
  <1>12. ASSUME NEW w \in Workers, NEW c \in Contexts, DispatchFailedWrite(w, c)
         PROVE  InUse'
    BY <1>12, <1>a, <1>c
    DEF DispatchFailedWrite, InUse, Shape, ShapeOf
  <1>13. ASSUME NEW w \in Workers, AdvancePosition(w)
         PROVE  InUse'
    BY <1>13, <1>a, <1>c
    DEF AdvancePosition, InUse, Shape, ShapeOf
  <1>14. ASSUME NEW w \in Workers, MeasurePosition(w)
         PROVE  InUse'
    BY <1>14, <1>a, <1>c
    DEF MeasurePosition, InUse, Shape, ShapeOf
  <1>15. ASSUME NEW w \in Workers, SwapReader(w)
         PROVE  InUse'
    BY <1>15, <1>a, <1>c
    DEF SwapReader, InUse, Shape, ShapeOf
  <1>16. ASSUME NEW w \in Workers, CheckReader(w)
         PROVE  InUse'
    BY <1>16, <1>a, <1>c
    DEF CheckReader, InUse, Shape, ShapeOf
  <1>17. ASSUME NEW w \in Workers, PostWriteAccepted(w)
         PROVE  InUse'
    BY <1>17, <1>a, <1>c
    DEF PostWriteAccepted, InUse, Shape, ShapeOf
  <1>18. ASSUME NEW w \in Workers, PostWriteFailed(w)
         PROVE  InUse'
    BY <1>18, <1>a, <1>c
    DEF PostWriteFailed, InUse, Shape, ShapeOf
  <1>19. ASSUME NEW w \in Workers, DereferenceNull(w)
         PROVE  InUse'
    BY <1>19, <1>a, <1>c
    DEF DereferenceNull, InUse, Shape, ShapeOf
  <1>20. ASSUME NEW t \in Threads, SendToClosed(t)
         PROVE  InUse'
    BY <1>20, <1>a, <1>c
    DEF SendToClosed, InUse, Shape, ShapeOf
  <1>21. ASSUME NEW t \in Threads, SendQueues(t)
         PROVE  InUse'
    BY <1>21, <1>a, <1>c
    DEF SendQueues, InUse, Shape, ShapeOf
  <1>22. ASSUME NEW t \in Threads, SendPosts(t)
         PROVE  InUse'
    <2>1. /\ cur[t] \in Contexts /\ pc[t] = "send" /\ life' = life /\ cur' = cur
          /\ \A u \in Threads : u # t => pc'[u] = pc[u]
          /\ recvPosted' = recvPosted
          /\ \A c \in Contexts : c # cur[t] => sendsPosted'[c] = sendsPosted[c]
      BY <1>22 DEF SendPosts, Shape, ShapeOf
    <2>. QED
      BY <1>a, <1>c, <2>1 DEF InUse
  <1>23. ASSUME NEW t \in Threads, ExchangeSocket(t)
         PROVE  InUse'
    BY <1>23, <1>a, <1>c
    DEF ExchangeSocket, InUse, Shape, ShapeOf
  <1>24. ASSUME NEW t \in Threads, CloseSocket(t)
         PROVE  InUse'
    BY <1>24, <1>a, <1>c
    DEF CloseSocket, InUse, Shape, ShapeOf
  <1>25. ASSUME NEW t \in Threads, ReleaseSocketContext(t)
         PROVE  InUse'
    BY <1>25, <1>a, <1>c
    DEF ReleaseSocketContext, InUse, Shape, ShapeOf, MLockOK
  <1>26. ASSUME NEW t \in Threads, DeleteContext(t)
         PROVE  InUse'
    BY <1>26, <1>a, <1>c
    DEF DeleteContext, InUse, Shape, ShapeOf
  <1>27. ASSUME NEW t \in Threads, FreeContext(t)
         PROVE  InUse'
    <2>1. /\ cur[t] \in Contexts /\ ~socketOpen[cur[t]] /\ mLock[cur[t]] = Nobody
          /\ cur[t] \notin table
      BY <1>27 DEF FreeContext, DeleteOK, Shape, ShapeOf
    <2>2. /\ life' = [life EXCEPT ![cur[t]] = "freed"]
          /\ \A u \in Threads : u # t => pc'[u] = pc[u] /\ cur'[u] = cur[u]
          /\ cur'[t] = NoContext
          /\ recvPosted' = recvPosted /\ sendsPosted' = sendsPosted
      BY <1>27, <2>1 DEF FreeContext
    <2>3. ASSUME ~Wronged(cur[t])
          PROVE  /\ \A u \in Threads : u # t => cur[u] # cur[t]
                                              \/ pc[u] \in {"over", "admit"}
                 /\ ~recvPosted[cur[t]] /\ sendsPosted[cur[t]] = 0
      <3>1. overdrawn[cur[t]] = 0 /\ \A u \in Threads : cur[u] = cur[t] => op[u] # "stale"
        BY <2>1, <2>3 DEF Wronged, Shape, ShapeOf
      <3>2. /\ pendingIO[cur[t]] = 0
            /\ \A u \in Threads : u # t /\ pc[u] \in {"erase", "free"}
                   => cur[u] # cur[t]
        BY <1>27, <3>1 DEF FreeContext, DeleteOK
      <3>3. /\ Holders(cur[t]) = {} /\ ~recvPosted[cur[t]]
            /\ sendsPosted[cur[t]] = 0
        BY <2>1, <3>1, <3>2, ZeroIsIdle
      <3>4. ASSUME NEW u \in Threads, u # t, cur[u] = cur[t],
                   pc[u] \notin {"over", "admit"}
            PROVE  FALSE
        <4>1. op[u] \notin {"guid", "enum", "none", "stale"}
          BY <2>1, <3>1, <3>4 DEF ContextLockOK, Shape, ShapeOf
        <4>2. op[u] \in {"accept", "read", "write"}
          BY <4>1
        <4>3. pc[u] \in HoldingPCs
          BY <3>2, <3>4, <4>2 DEF Shape, ShapeOf, HoldingPCs
        <4>. QED
          BY <3>3, <3>4, <4>2, <4>3 DEF Holders
      <3>. QED
        BY <3>3, <3>4
    <2>. QED
      BY <1>a, <1>c, <2>1, <2>2, <2>3 DEF InUse
  <1>28. ASSUME NEW s \in Senders, NEW c \in Contexts, FindToSend(s, c)
         PROVE  InUse'
    BY <1>28, <1>a, <1>c
    DEF FindToSend, InUse, Shape, ShapeOf, TableOK
  <1>29. ASSUME NEW s \in Senders, LeaveSend(s)
         PROVE  InUse'
    BY <1>29, <1>a, <1>c
    DEF LeaveSend, InUse, Shape, ShapeOf
  <1>30. ASSUME NEW k \in Stoppers, RaiseShutdown(k)
         PROVE  InUse'
    BY <1>30, <1>a, <1>c
    DEF RaiseShutdown, InUse, Shape, ShapeOf
  <1>31. ASSUME NEW k \in Stoppers, BeginCloseAll(k)
         PROVE  InUse'
    BY <1>31, <1>a, <1>c
    DEF BeginCloseAll, InUse, Shape, ShapeOf
  <1>32. ASSUME NEW k \in Stoppers, NEW c \in Contexts, CloseNext(k, c)
         PROVE  InUse'
    BY <1>32, <1>a, <1>c
    DEF CloseNext, InUse, Shape, ShapeOf, TableOK, ContextLockOK
  <1>33. ASSUME NEW k \in Stoppers, EndCloseAll(k)
         PROVE  InUse'
    BY <1>33, <1>a, <1>c
    DEF EndCloseAll, InUse, Shape, ShapeOf
  <1>35. ASSUME NEW w \in Workers, WaitForPacket(w)
         PROVE  InUse'
    BY <1>35, <1>a, <1>c
    DEF WaitForPacket, InUse, Shape, ShapeOf
  <1>36. ASSUME NEW w \in Workers, CloseAgain(w)
         PROVE  InUse'
    BY <1>36, <1>a, <1>c
    DEF CloseAgain, InUse, Shape, ShapeOf, Wronged
  <1>37. ASSUME NEW w \in Workers, UseUninitialisedKey(w)
         PROVE  InUse'
    BY <1>37, <1>a, <1>c
    DEF UseUninitialisedKey, InUse, Shape, ShapeOf
  <1>38. ASSUME NEW t \in Threads, UseFreedContext(t)
         PROVE  InUse'
    BY <1>38, <1>a, <1>c
    DEF UseFreedContext, InUse, Shape, ShapeOf
  <1>34. CASE UNCHANGED vars
    BY <1>34, <1>a, <1>c DEF vars, InUse
  <1>. HIDE DEF IInv, TypeOK, Control, PCs, Ops, Returns
  <1>. QED
    BY <1>1, <1>2, <1>3, <1>3a, <1>3b, <1>4, <1>5, <1>6, <1>7, <1>8, <1>9,
       <1>10, <1>11, <1>12, <1>13, <1>14, <1>15, <1>16, <1>17, <1>18, <1>19,
       <1>20, <1>21, <1>22, <1>23, <1>24, <1>25, <1>26, <1>27, <1>28, <1>29,
       <1>30, <1>31, <1>32, <1>33, <1>35, <1>36, <1>37, <1>38, <1>34
    DEF Next, Continue, ContinueLoop, ContinueAccept, ContinueRead,
        ContinueWrite, ContinueCall, Dispatch, AtRest, vars

-----------------------------------------------------------------------------
\* PendingIOIsExact, for one context.
Counted(c) ==
    pendingIO[c] + overdrawn[c] = Cardinality(Holders(c)) + sendsPosted[c]
                   + One(recvPosted[c]) + One(mLock[c] # Nobody)
                   + One(abandoned[c])

\* What a step of thread t must leave alone for that to hold again.
Balance(t, c) ==
    pendingIO[c] + overdrawn[c] - One(t \in Holders(c)) - sendsPosted[c]
        - One(recvPosted[c]) - One(mLock[c] # Nobody) - One(abandoned[c])

\* If the balance stands, the count stays exact.
LEMMA AccountStep ==
    ASSUME IInv, TypeOK', NEW t \in Threads, NEW c \in Contexts, OnlyMoves(t),
           Balance(t, c)' = Balance(t, c)
    PROVE  Counted(c)'
  <1>1. /\ Cardinality(Holders(c)) \in Nat
        /\ Cardinality(Holders(c)') = Cardinality(Holders(c))
               - One(t \in Holders(c)) + One(t \in Holders(c)')
    BY HoldersStep
  <1>2. Counted(c)
    BY DEF IInv, PendingIOIsExact, Counted
  <1>3. /\ pendingIO[c] \in Int /\ pendingIO'[c] \in Int
        /\ overdrawn[c] \in Nat /\ overdrawn'[c] \in Nat
        /\ sendsPosted[c] \in Nat /\ sendsPosted'[c] \in Nat
    BY DEF IInv, TypeOK
  <1>. QED
    BY <1>1, <1>2, <1>3 DEF Counted, Balance, One

\* Every step keeps the reference counts exact.
LEMMA AccountKept ==
    ASSUME IInv, Next
    PROVE  PendingIOIsExact'
  <1>0. TypeOK'
    BY TypesKept
  <1>a. \A c \in Contexts : overdrawn'[c] > 0 => shutdown' /\ ~socketOpen'[c]
    BY KeyKept DEF Key, StaleOK, PortOK
  <1>. SUFFICES ASSUME NEW d \in Contexts PROVE Counted(d)'
    BY <1>a DEF PendingIOIsExact, Counted
  <1>. USE <1>0 DEF IInv, TypeOK, Control, Shape, ShapeOf, ReturnsOK, ReturnOf, MLockOK,
    UnbornOK, Key, Admitted, PCs, Ops, Returns
  <1>1. ASSUME NEW w \in Workers, NEW c \in Contexts, CountAccept(w, c)
         PROVE  Counted(d)'
    <2>1. OnlyMoves(w)
      BY <1>1 DEF OnlyMoves, CountAccept
    <2>2. Balance(w, d)' = Balance(w, d)
      BY <1>1 DEF CountAccept, Balance, Holders, HoldingPCs, One
    <2>. QED
      BY <2>1, <2>2, AccountStep
  <1>2. ASSUME NEW w \in Workers, RejectAccept(w)
         PROVE  Counted(d)'
    <2>1. OnlyMoves(w)
      BY <1>2 DEF OnlyMoves, RejectAccept
    <2>2. Balance(w, d)' = Balance(w, d)
      BY <1>2 DEF RejectAccept, Balance, Holders, HoldingPCs, One
    <2>. QED
      BY <2>1, <2>2, AccountStep
  <1>3. ASSUME NEW w \in Workers, AdmitAccept(w)
         PROVE  Counted(d)'
    <2>1. OnlyMoves(w)
      BY <1>3 DEF OnlyMoves, AdmitAccept
    <2>2. Balance(w, d)' = Balance(w, d)
      BY <1>3 DEF AdmitAccept, Balance, Holders, HoldingPCs, One
    <2>. QED
      BY <2>1, <2>2, AccountStep
  <1>3a. ASSUME NEW w \in Workers, AnnounceAccept(w)
         PROVE  Counted(d)'
    <2>1. OnlyMoves(w)
      BY <1>3a DEF OnlyMoves, AnnounceAccept
    <2>2. Balance(w, d)' = Balance(w, d)
      BY <1>3a DEF AnnounceAccept, Balance, Holders, HoldingPCs, One
    <2>. QED
      BY <2>1, <2>2, AccountStep
  <1>3b. ASSUME NEW w \in Workers, UpdateCompletionPort(w)
         PROVE  Counted(d)'
    <2>1. OnlyMoves(w)
      BY <1>3b DEF OnlyMoves, UpdateCompletionPort
    <2>2. Balance(w, d)' = Balance(w, d)
      BY <1>3b DEF UpdateCompletionPort, Balance, Holders, HoldingPCs, One
    <2>. QED
      BY <2>1, <2>2, AccountStep
  <1>4. ASSUME NEW w \in Workers, NEW c \in Contexts, DispatchRead(w, c)
         PROVE  Counted(d)'
    <2>1. OnlyMoves(w)
      BY <1>4 DEF OnlyMoves, DispatchRead
    <2>2. Balance(w, d)' = Balance(w, d)
      BY <1>4 DEF DispatchRead, Balance, Holders, HoldingPCs, One
    <2>. QED
      BY <2>1, <2>2, AccountStep
  <1>5. ASSUME NEW w \in Workers, NEW c \in Contexts, DispatchFailedRead(w, c)
         PROVE  Counted(d)'
    <2>1. OnlyMoves(w)
      BY <1>5 DEF OnlyMoves, DispatchFailedRead
    <2>2. Balance(w, d)' = Balance(w, d)
      BY <1>5 DEF DispatchFailedRead, Balance, Holders, HoldingPCs, One
    <2>. QED
      BY <2>1, <2>2, AccountStep
  <1>6. ASSUME NEW w \in Workers, NotifyReceived(w)
         PROVE  Counted(d)'
    <2>1. OnlyMoves(w)
      BY <1>6 DEF OnlyMoves, NotifyReceived
    <2>2. Balance(w, d)' = Balance(w, d)
      BY <1>6 DEF NotifyReceived, Balance, Holders, HoldingPCs, One
    <2>. QED
      BY <2>1, <2>2, AccountStep
  <1>7. ASSUME NEW w \in Workers, PostReadAccepted(w)
         PROVE  Counted(d)'
    <2>1. OnlyMoves(w)
      BY <1>7 DEF OnlyMoves, PostReadAccepted
    <2>2. Balance(w, d)' = Balance(w, d)
      BY <1>7
      DEF PostReadAccepted, Balance, Holders, HoldingPCs, One, ReceivesAreSerial, ReceiveHolders
    <2>. QED
      BY <2>1, <2>2, AccountStep
  <1>8. ASSUME NEW w \in Workers, PostReadFailed(w)
         PROVE  Counted(d)'
    <2>1. OnlyMoves(w)
      BY <1>8 DEF OnlyMoves, PostReadFailed
    <2>2. Balance(w, d)' = Balance(w, d)
      BY <1>8 DEF PostReadFailed, Balance, Holders, HoldingPCs, One
    <2>. QED
      BY <2>1, <2>2, AccountStep
  <1>9. ASSUME NEW w \in Workers, PostReadInvalid(w)
         PROVE  Counted(d)'
    <2>1. OnlyMoves(w)
      BY <1>9 DEF OnlyMoves, PostReadInvalid
    <2>2. Balance(w, d)' = Balance(w, d)
      BY <1>9 DEF PostReadInvalid, Balance, Holders, HoldingPCs, One
    <2>. QED
      BY <2>1, <2>2, AccountStep
  <1>10. ASSUME NEW w \in Workers, AbandonAccept(w)
         PROVE  Counted(d)'
    <2>1. OnlyMoves(w)
      BY <1>10 DEF OnlyMoves, AbandonAccept
    <2>2. Balance(w, d)' = Balance(w, d)
      BY <1>10
      DEF AbandonAccept, Balance, Holders, HoldingPCs, One, ReceivesAreSerial, ReceiveHolders
    <2>. QED
      BY <2>1, <2>2, AccountStep
  <1>11. ASSUME NEW w \in Workers, NEW c \in Contexts, DispatchWrite(w, c)
         PROVE  Counted(d)'
    <2>1. OnlyMoves(w)
      BY <1>11 DEF OnlyMoves, DispatchWrite
    <2>2. /\ sendsPosted' = [sendsPosted EXCEPT ![c] = @ - 1]
          /\ pendingIO' = pendingIO /\ overdrawn' = overdrawn
          /\ mLock' = mLock /\ recvPosted' = recvPosted
          /\ abandoned' = abandoned
      BY <1>11 DEF DispatchWrite
    <2>3. /\ w \notin Holders(d)
          /\ w \in Holders(d)' <=> d = c
      BY <1>11 DEF DispatchWrite, Holders, HoldingPCs
    <2>4. /\ sendsPosted[d] \in Nat /\ pendingIO[d] \in Int
          /\ overdrawn[d] \in Nat
      OBVIOUS
    <2>5. sendsPosted'[d] = sendsPosted[d] - One(d = c)
      BY <2>2, <2>4 DEF One
    <2>6. Balance(w, d)' = Balance(w, d)
      BY <2>2, <2>3, <2>4, <2>5 DEF Balance, One
    <2>. QED
      BY <2>1, <2>6, AccountStep
  <1>12. ASSUME NEW w \in Workers, NEW c \in Contexts, DispatchFailedWrite(w, c)
         PROVE  Counted(d)'
    <2>1. OnlyMoves(w)
      BY <1>12 DEF OnlyMoves, DispatchFailedWrite
    <2>2. Balance(w, d)' = Balance(w, d)
      BY <1>12 DEF DispatchFailedWrite, Balance, Holders, HoldingPCs, One
    <2>. QED
      BY <2>1, <2>2, AccountStep
  <1>13. ASSUME NEW w \in Workers, AdvancePosition(w)
         PROVE  Counted(d)'
    <2>1. OnlyMoves(w)
      BY <1>13 DEF OnlyMoves, AdvancePosition
    <2>2. Balance(w, d)' = Balance(w, d)
      BY <1>13 DEF AdvancePosition, Balance, Holders, HoldingPCs, One
    <2>. QED
      BY <2>1, <2>2, AccountStep
  <1>14. ASSUME NEW w \in Workers, MeasurePosition(w)
         PROVE  Counted(d)'
    <2>1. OnlyMoves(w)
      BY <1>14 DEF OnlyMoves, MeasurePosition
    <2>2. Balance(w, d)' = Balance(w, d)
      BY <1>14 DEF MeasurePosition, Balance, Holders, HoldingPCs, One
    <2>. QED
      BY <2>1, <2>2, AccountStep
  <1>15. ASSUME NEW w \in Workers, SwapReader(w)
         PROVE  Counted(d)'
    <2>1. OnlyMoves(w)
      BY <1>15 DEF OnlyMoves, SwapReader
    <2>2. Balance(w, d)' = Balance(w, d)
      BY <1>15 DEF SwapReader, Balance, Holders, HoldingPCs, One
    <2>. QED
      BY <2>1, <2>2, AccountStep
  <1>16. ASSUME NEW w \in Workers, CheckReader(w)
         PROVE  Counted(d)'
    <2>1. OnlyMoves(w)
      BY <1>16 DEF OnlyMoves, CheckReader
    <2>2. Balance(w, d)' = Balance(w, d)
      BY <1>16 DEF CheckReader, Balance, Holders, HoldingPCs, One
    <2>. QED
      BY <2>1, <2>2, AccountStep
  <1>17. ASSUME NEW w \in Workers, PostWriteAccepted(w)
         PROVE  Counted(d)'
    <2>1. OnlyMoves(w)
      BY <1>17 DEF OnlyMoves, PostWriteAccepted
    <2>2. Balance(w, d)' = Balance(w, d)
      BY <1>17 DEF PostWriteAccepted, Balance, Holders, HoldingPCs, One
    <2>. QED
      BY <2>1, <2>2, AccountStep
  <1>18. ASSUME NEW w \in Workers, PostWriteFailed(w)
         PROVE  Counted(d)'
    <2>1. OnlyMoves(w)
      BY <1>18 DEF OnlyMoves, PostWriteFailed
    <2>2. Balance(w, d)' = Balance(w, d)
      BY <1>18 DEF PostWriteFailed, Balance, Holders, HoldingPCs, One
    <2>. QED
      BY <2>1, <2>2, AccountStep
  <1>19. ASSUME NEW w \in Workers, DereferenceNull(w)
         PROVE  Counted(d)'
    <2>1. OnlyMoves(w)
      BY <1>19 DEF OnlyMoves, DereferenceNull
    <2>2. Balance(w, d)' = Balance(w, d)
      BY <1>19 DEF DereferenceNull, Balance, Holders, HoldingPCs, One
    <2>. QED
      BY <2>1, <2>2, AccountStep
  <1>20. ASSUME NEW t \in Threads, SendToClosed(t)
         PROVE  Counted(d)'
    <2>1. OnlyMoves(t)
      BY <1>20 DEF OnlyMoves, SendToClosed
    <2>2. Balance(t, d)' = Balance(t, d)
      BY <1>20 DEF SendToClosed, Balance, Holders, HoldingPCs, One
    <2>. QED
      BY <2>1, <2>2, AccountStep
  <1>21. ASSUME NEW t \in Threads, SendQueues(t)
         PROVE  Counted(d)'
    <2>1. OnlyMoves(t)
      BY <1>21 DEF OnlyMoves, SendQueues
    <2>2. Balance(t, d)' = Balance(t, d)
      BY <1>21 DEF SendQueues, Balance, Holders, HoldingPCs, One
    <2>. QED
      BY <2>1, <2>2, AccountStep
  <1>22. ASSUME NEW t \in Threads, SendPosts(t)
         PROVE  Counted(d)'
    <2>1. OnlyMoves(t)
      BY <1>22 DEF OnlyMoves, SendPosts
    <2>2. cur[t] \in Contexts /\ (mLock[cur[t]] = t \/ mLock[cur[t]] = Nobody)
      BY <1>22 DEF SendPosts
    <2>3. CASE d = cur[t]
      <3>1. mLock[d] = Nobody
        BY <1>22, <2>2, <2>3 DEF SendPosts
      <3>2. t \in Holders(d) <=> t \in Holders(d)'
        BY <1>22, <2>2, <2>3, <3>1 DEF SendPosts, Holders, HoldingPCs
      <3>3. /\ pendingIO'[d] = pendingIO[d] + 1 /\ overdrawn' = overdrawn
            /\ recvPosted' = recvPosted /\ abandoned' = abandoned
            /\ \/ sendsPosted'[d] = sendsPosted[d] + 1 /\ mLock' = mLock
               \/ sendsPosted' = sendsPosted /\ mLock'[d] = t /\ t # Nobody
        BY <1>22, <2>2, <2>3, ThreadsAssumption DEF SendPosts
      <3>. QED
        <4>1. /\ pendingIO[d] \in Int /\ sendsPosted[d] \in Nat
              /\ overdrawn[d] \in Nat
              /\ One(t \in Holders(d)) = One(t \in Holders(d)')
              /\ One(t \in Holders(d)) \in Nat
              /\ One(recvPosted[d]) \in Nat /\ One(abandoned[d]) \in Nat
              /\ One(mLock[d] # Nobody) = 0
          BY <3>1, <3>2 DEF One
        <4>2. CASE sendsPosted'[d] = sendsPosted[d] + 1 /\ mLock' = mLock
          <5>1. One(mLock'[d] # Nobody) = 0
            BY <4>1, <4>2
          <5>2. One(mLock[d] # Nobody)' = 0
            BY <5>1
          <5>3. pendingIO'[d] - sendsPosted'[d] = pendingIO[d] - sendsPosted[d]
            BY <3>3, <4>1, <4>2
          <5>4. /\ One(recvPosted[d])' = One(recvPosted[d])
                /\ One(abandoned[d])' = One(abandoned[d])
                /\ overdrawn'[d] = overdrawn[d]
                /\ One(t \in Holders(d))' = One(t \in Holders(d))
            BY <3>2, <3>3
          <5>5. Balance(t, d)' = Balance(t, d)
            BY <3>3, <4>1, <4>2, <5>2, <5>4 DEF Balance
          <5>. QED
            BY <1>0, <2>1, <5>5, AccountStep
        <4>3. CASE sendsPosted' = sendsPosted /\ mLock'[d] = t /\ t # Nobody
          <5>1. One(mLock'[d] # Nobody) = 1
            BY <4>3 DEF One
          <5>2. One(mLock[d] # Nobody)' = 1
            BY <5>1
          <5>3. pendingIO'[d] - sendsPosted'[d] - One(mLock[d] # Nobody)'
                  = pendingIO[d] - sendsPosted[d] - One(mLock[d] # Nobody)
            BY <3>3, <4>1, <4>3, <5>2
          <5>4. /\ One(recvPosted[d])' = One(recvPosted[d])
                /\ One(abandoned[d])' = One(abandoned[d])
                /\ overdrawn'[d] = overdrawn[d]
                /\ One(t \in Holders(d))' = One(t \in Holders(d))
                /\ pendingIO'[d] = pendingIO[d] + 1
                /\ sendsPosted'[d] = sendsPosted[d]
            BY <3>2, <3>3, <4>3
          <5>5. Balance(t, d)' = Balance(t, d)
            BY <4>1, <5>2, <5>4 DEF Balance
          <5>. QED
            BY <1>0, <2>1, <5>5, AccountStep
        <4>. QED
          BY <3>3, <4>2, <4>3
    <2>4. CASE d # cur[t]
      <3>1. t \notin Holders(d) /\ t \notin Holders(d)'
        BY <1>22, <2>4 DEF SendPosts, Holders
      <3>. QED
        BY <1>22, <2>1, <2>2, <2>4, <3>1, AccountStep
        DEF SendPosts, Balance, One
    <2>. QED
      BY <2>3, <2>4
  <1>23. ASSUME NEW t \in Threads, ExchangeSocket(t)
         PROVE  Counted(d)'
    <2>1. OnlyMoves(t)
      BY <1>23 DEF OnlyMoves, ExchangeSocket
    <2>2. Balance(t, d)' = Balance(t, d)
      BY <1>23 DEF ExchangeSocket, Balance, Holders, HoldingPCs, One
    <2>. QED
      BY <2>1, <2>2, AccountStep
  <1>24. ASSUME NEW t \in Threads, CloseSocket(t)
         PROVE  Counted(d)'
    <2>1. OnlyMoves(t)
      BY <1>24 DEF OnlyMoves, CloseSocket
    <2>2. Balance(t, d)' = Balance(t, d)
      BY <1>24 DEF CloseSocket, Balance, Holders, HoldingPCs, One
    <2>. QED
      BY <2>1, <2>2, AccountStep
  <1>25. ASSUME NEW t \in Threads, ReleaseSocketContext(t)
         PROVE  Counted(d)'
    <2>1. OnlyMoves(t)
      BY <1>25 DEF OnlyMoves, ReleaseSocketContext
    <2>2. /\ cur[t] \in Contexts
          /\ InSend(t) => op[t] # "stale"
      BY <1>25, ReleaserIsCounted DEF ReleaseSocketContext
    <2>3. /\ pendingIO' = [pendingIO EXCEPT ![cur[t]] = @ - 1]
          /\ overdrawn' = [overdrawn EXCEPT ![cur[t]] = @ + One(op[t] = "stale")]
          /\ sendsPosted' = sendsPosted /\ recvPosted' = recvPosted
          /\ abandoned' = abandoned /\ pc[t] = "release"
          /\ \/ /\ pc'[t] = "erase" /\ op'[t] = op[t] /\ cur'[t] = cur[t]
                /\ ~InSend(t) /\ mLock' = mLock
             \/ /\ InSend(t) /\ op'[t] = op[t] /\ cur'[t] = cur[t]
                /\ pc'[t] = AfterSend(t)
                /\ mLock' = [mLock EXCEPT ![cur[t]] = Nobody]
             \/ /\ ~InSend(t) /\ op'[t] = "none" /\ cur'[t] = NoContext
                /\ mLock' = mLock
      BY <1>25, <2>2, ReleaserIsCounted DEF ReleaseSocketContext
    <2>4. /\ pendingIO[d] \in Int /\ sendsPosted[d] \in Nat
          /\ overdrawn[d] \in Nat
      OBVIOUS
    <2>5. CASE d # cur[t]
      <3>1. t \notin Holders(d) /\ t \notin Holders(d)'
        BY <2>2, <2>3, <2>5 DEF Holders
      <3>2. /\ pendingIO'[d] = pendingIO[d] /\ overdrawn'[d] = overdrawn[d]
            /\ mLock'[d] = mLock[d]
        BY <2>2, <2>3, <2>5
      <3>3. Balance(t, d)' = Balance(t, d)
        BY <2>3, <3>1, <3>2 DEF Balance
      <3>. QED
        BY <2>1, <3>3, AccountStep
    <2>6. CASE d = cur[t] /\ InSend(t)
      <3>1. t \in Holders(d) <=> t \in Holders(d)'
        BY <2>2, <2>3, <2>6 DEF Holders, HoldingPCs
      <3>2. /\ mLock[d] # Nobody /\ mLock'[d] = Nobody
            /\ pendingIO'[d] = pendingIO[d] - 1
            /\ overdrawn'[d] = overdrawn[d]
        BY <2>2, <2>3, <2>4, <2>6 DEF One
      <3>3. /\ One(mLock[d] # Nobody) = 1 /\ One(mLock[d] # Nobody)' = 0
            /\ pendingIO'[d] = pendingIO[d] - 1 /\ overdrawn'[d] = overdrawn[d]
            /\ sendsPosted'[d] = sendsPosted[d]
            /\ One(recvPosted[d])' = One(recvPosted[d])
            /\ One(abandoned[d])' = One(abandoned[d])
            /\ One(t \in Holders(d)) \in Nat
            /\ One(t \in Holders(d))' = One(t \in Holders(d))
            /\ One(recvPosted[d]) \in Nat /\ One(abandoned[d]) \in Nat
        BY <2>3, <3>1, <3>2 DEF One
      <3>. DEFINE h == One(t \in Holders(d))
                  r == One(recvPosted[d])
                  a == One(abandoned[d])
      <3>4. Balance(t, d) = pendingIO[d] + overdrawn[d] - h - sendsPosted[d]
                - r - 1 - a
        BY <3>3 DEF Balance
      <3>5. Balance(t, d)' = (pendingIO[d] - 1) + overdrawn[d] - h
                - sendsPosted[d] - r - 0 - a
        BY <3>3 DEF Balance
      <3>7. h \in Nat /\ r \in Nat /\ a \in Nat
        BY <3>3
      <3>. HIDE <1>0 DEF IInv, TypeOK, Control, h, r, a
      <3>6. Balance(t, d)' = Balance(t, d)
        BY <2>4, <3>4, <3>5, <3>7
      <3>. QED
        BY <1>0, <2>1, <3>6, AccountStep
    <2>7. CASE d = cur[t] /\ ~InSend(t)
      <3>1. t \notin Holders(d)'
        BY <2>3, <2>7 DEF Holders, HoldingPCs
      <3>2. t \in Holders(d) <=> op[t] # "stale"
        BY <2>2, <2>3, <2>7 DEF Holders, HoldingPCs
      <3>3. /\ mLock'[d] = mLock[d] /\ pendingIO'[d] = pendingIO[d] - 1
            /\ overdrawn'[d] = overdrawn[d] + One(op[t] = "stale")
        BY <2>2, <2>3, <2>7
      <3>4. /\ One(t \in Holders(d)) + One(op[t] = "stale") = 1
            /\ One(t \in Holders(d)) \in Nat /\ One(op[t] = "stale") \in Nat
            /\ One(t \in Holders(d)') = 0
            /\ One(recvPosted[d]) \in Nat /\ One(abandoned[d]) \in Nat
            /\ One(mLock[d] # Nobody) \in Nat
        BY <3>1, <3>2 DEF One
      <3>5. Balance(t, d)' = Balance(t, d)
        BY <2>3, <2>4, <3>3, <3>4 DEF Balance
      <3>. QED
        BY <2>1, <3>5, AccountStep
    <2>. QED
      BY <2>5, <2>6, <2>7
  <1>26. ASSUME NEW t \in Threads, DeleteContext(t)
         PROVE  Counted(d)'
    <2>1. OnlyMoves(t)
      BY <1>26 DEF OnlyMoves, DeleteContext
    <2>2. Balance(t, d)' = Balance(t, d)
      BY <1>26 DEF DeleteContext, Balance, Holders, HoldingPCs, One
    <2>. QED
      BY <2>1, <2>2, AccountStep
  <1>27. ASSUME NEW t \in Threads, FreeContext(t)
         PROVE  Counted(d)'
    <2>1. OnlyMoves(t)
      BY <1>27 DEF OnlyMoves, FreeContext
    <2>2. Balance(t, d)' = Balance(t, d)
      BY <1>27 DEF FreeContext, Balance, Holders, HoldingPCs, One
    <2>. QED
      BY <2>1, <2>2, AccountStep
  <1>28. ASSUME NEW s \in Senders, NEW c \in Contexts, FindToSend(s, c)
         PROVE  Counted(d)'
    <2>1. OnlyMoves(s)
      BY <1>28 DEF OnlyMoves, FindToSend
    <2>2. Balance(s, d)' = Balance(s, d)
      BY <1>28 DEF FindToSend, Balance, Holders, HoldingPCs, One
    <2>. QED
      BY <2>1, <2>2, AccountStep
  <1>29. ASSUME NEW s \in Senders, LeaveSend(s)
         PROVE  Counted(d)'
    <2>1. OnlyMoves(s)
      BY <1>29 DEF OnlyMoves, LeaveSend
    <2>2. Balance(s, d)' = Balance(s, d)
      BY <1>29 DEF LeaveSend, Balance, Holders, HoldingPCs, One
    <2>. QED
      BY <2>1, <2>2, AccountStep
  <1>30. ASSUME NEW k \in Stoppers, RaiseShutdown(k)
         PROVE  Counted(d)'
    <2>1. OnlyMoves(k)
      BY <1>30 DEF OnlyMoves, RaiseShutdown
    <2>2. Balance(k, d)' = Balance(k, d)
      BY <1>30 DEF RaiseShutdown, Balance, Holders, HoldingPCs, One
    <2>. QED
      BY <2>1, <2>2, AccountStep
  <1>31. ASSUME NEW k \in Stoppers, BeginCloseAll(k)
         PROVE  Counted(d)'
    <2>1. OnlyMoves(k)
      BY <1>31 DEF OnlyMoves, BeginCloseAll
    <2>2. Balance(k, d)' = Balance(k, d)
      BY <1>31 DEF BeginCloseAll, Balance, Holders, HoldingPCs, One
    <2>. QED
      BY <2>1, <2>2, AccountStep
  <1>32. ASSUME NEW k \in Stoppers, NEW c \in Contexts, CloseNext(k, c)
         PROVE  Counted(d)'
    <2>1. OnlyMoves(k)
      BY <1>32 DEF OnlyMoves, CloseNext
    <2>2. Balance(k, d)' = Balance(k, d)
      BY <1>32 DEF CloseNext, Balance, Holders, HoldingPCs, One
    <2>. QED
      BY <2>1, <2>2, AccountStep
  <1>33. ASSUME NEW k \in Stoppers, EndCloseAll(k)
         PROVE  Counted(d)'
    <2>1. OnlyMoves(k)
      BY <1>33 DEF OnlyMoves, EndCloseAll
    <2>2. Balance(k, d)' = Balance(k, d)
      BY <1>33 DEF EndCloseAll, Balance, Holders, HoldingPCs, One
    <2>. QED
      BY <2>1, <2>2, AccountStep
  <1>35. ASSUME NEW w \in Workers, WaitForPacket(w)
         PROVE  Counted(d)'
    <2>1. OnlyMoves(w)
      BY <1>35 DEF OnlyMoves, WaitForPacket
    <2>2. Balance(w, d)' = Balance(w, d)
      BY <1>35 DEF WaitForPacket, Balance, Holders, HoldingPCs, One
    <2>. QED
      BY <2>1, <2>2, AccountStep
  <1>36. ASSUME NEW w \in Workers, CloseAgain(w)
         PROVE  Counted(d)'
    <2>1. OnlyMoves(w)
      BY <1>36 DEF OnlyMoves, CloseAgain
    <2>2. Balance(w, d)' = Balance(w, d)
      BY <1>36 DEF CloseAgain, Balance, Holders, HoldingPCs, One
    <2>. QED
      BY <2>1, <2>2, AccountStep
  <1>37. ASSUME NEW w \in Workers, UseUninitialisedKey(w)
         PROVE  Counted(d)'
    <2>1. OnlyMoves(w)
      BY <1>37 DEF OnlyMoves, UseUninitialisedKey
    <2>2. Balance(w, d)' = Balance(w, d)
      BY <1>37 DEF UseUninitialisedKey, Balance, Holders, HoldingPCs, One
    <2>. QED
      BY <2>1, <2>2, AccountStep
  <1>38. ASSUME NEW t \in Threads, UseFreedContext(t)
         PROVE  Counted(d)'
    <2>1. OnlyMoves(t)
      BY <1>38 DEF OnlyMoves, UseFreedContext
    <2>2. Balance(t, d)' = Balance(t, d)
      BY <1>38 DEF UseFreedContext, Balance, Holders, HoldingPCs, One
    <2>. QED
      BY <2>1, <2>2, AccountStep
  <1>34. CASE UNCHANGED vars
    BY <1>34 DEF vars, Holders, PendingIOIsExact, Counted
  <1>. HIDE DEF IInv, TypeOK, Control, Shape, ShapeOf, ReturnsOK, ReturnOf, MLockOK,
    UnbornOK, Key, Admitted, PCs, Ops, Returns
  <1>. QED
    BY <1>1, <1>2, <1>3, <1>3a, <1>3b, <1>4, <1>5, <1>6, <1>7, <1>8, <1>9, <1>10, <1>11,
       <1>12, <1>13, <1>14, <1>15, <1>16, <1>17, <1>18, <1>19, <1>20, <1>21,
       <1>22, <1>23, <1>24, <1>25, <1>26, <1>27, <1>28, <1>29, <1>30, <1>31,
       <1>32, <1>33, <1>34, <1>35, <1>36, <1>37, <1>38
    DEF Next, Continue, ContinueLoop, ContinueAccept, ContinueRead,
        ContinueWrite, ContinueCall,
        Dispatch, AtRest, vars

\* Every step keeps the connect count exact and the limit respected.
LEMMA CountsKept ==
    ASSUME IInv, Next
    PROVE  Counts'
  <1>. USE DEF IInv, TypeOK, PCs, Ops, Returns
  <1>1. ASSUME NEW w \in Workers, NEW c \in Contexts, CountAccept(w, c)
         PROVE  Counts'
    <2>1. w \in Threads /\ OnlyMoves(w)
      BY <1>1 DEF OnlyMoves, CountAccept
    <2>2. /\ Cardinality(Transit) \in Nat /\ Cardinality(Admitting) \in Nat
          /\ Cardinality(Transit') = Cardinality(Transit)
                 - One(w \in Transit) + One(w \in Transit')
          /\ Cardinality(Admitting') = Cardinality(Admitting)
                 - One(w \in Admitting) + One(w \in Admitting')
          /\ Cardinality(Admitting) <= Cardinality(Transit)
      BY <2>1, TransitStep
    <2>3. /\ ~(w \in Transit)
          /\ w \in Transit'
          /\ ~(w \in Admitting)
          /\ w \in Admitting' <=> pc'[w] = "admit"
      BY <1>1, <2>1
      DEF CountAccept, Transit, Admitting, Control, Shape, ShapeOf, ReturnsOK, ReturnOf
    <2>4. OpenContexts' = OpenContexts
      BY <1>1 DEF CountAccept, OpenContexts
    <2>5. Cardinality(OpenContexts) \in Nat
      BY ThreadsAssumption, FS_Subset, FS_CardinalityType DEF OpenContexts
    <2>. QED
      BY <1>1, <2>2, <2>3, <2>4, <2>5
      DEF CountAccept, Counts, ConnectCountIsExact, One, OverLimit
  <1>2. ASSUME NEW w \in Workers, RejectAccept(w)
         PROVE  Counts'
    <2>1. w \in Threads /\ OnlyMoves(w)
      BY <1>2 DEF OnlyMoves, RejectAccept
    <2>2. /\ Cardinality(Transit) \in Nat /\ Cardinality(Admitting) \in Nat
          /\ Cardinality(Transit') = Cardinality(Transit)
                 - One(w \in Transit) + One(w \in Transit')
          /\ Cardinality(Admitting') = Cardinality(Admitting)
                 - One(w \in Admitting) + One(w \in Admitting')
          /\ Cardinality(Admitting) <= Cardinality(Transit)
      BY <2>1, TransitStep
    <2>3. /\ w \in Transit
          /\ ~(w \in Transit')
          /\ ~(w \in Admitting)
          /\ ~(w \in Admitting')
      BY <1>2, <2>1
      DEF RejectAccept, Transit, Admitting, Control, Shape, ShapeOf, ReturnsOK, ReturnOf
    <2>4. OpenContexts' = OpenContexts
      BY <1>2 DEF RejectAccept, OpenContexts
    <2>5. Cardinality(OpenContexts) \in Nat
      BY ThreadsAssumption, FS_Subset, FS_CardinalityType DEF OpenContexts
    <2>. QED
      BY <1>2, <2>2, <2>3, <2>4, <2>5
      DEF RejectAccept, Counts, ConnectCountIsExact, One, OverLimit
  <1>3. ASSUME NEW w \in Workers, AdmitAccept(w)
         PROVE  Counts'
    <2>1. w \in Threads /\ OnlyMoves(w)
      BY <1>3 DEF OnlyMoves, AdmitAccept
    <2>2. /\ Cardinality(Transit) \in Nat /\ Cardinality(Admitting) \in Nat
          /\ Cardinality(Transit') = Cardinality(Transit)
                 - One(w \in Transit) + One(w \in Transit')
          /\ Cardinality(Admitting') = Cardinality(Admitting)
                 - One(w \in Admitting) + One(w \in Admitting')
          /\ Cardinality(Admitting) <= Cardinality(Transit)
      BY <2>1, TransitStep
    <2>3. /\ w \in Transit
          /\ ~(w \in Transit')
          /\ w \in Admitting
          /\ ~(w \in Admitting')
      BY <1>3, <2>1
      DEF AdmitAccept, Transit, Admitting, Control, Shape, ShapeOf, ReturnsOK, ReturnOf
    <2>4. /\ Cardinality(OpenContexts) \in Nat
          /\ Cardinality(OpenContexts') = Cardinality(OpenContexts)
                 - One(socketOpen[cur[w]]) + One(socketOpen'[cur[w]])
      <3>1. /\ cur[w] \in Contexts
            /\ \A d \in Contexts : d # cur[w] => socketOpen'[d] = socketOpen[d]
        BY <1>3 DEF AdmitAccept, Control, Shape, ShapeOf
      <3>. QED
        BY <3>1, OpenStep
    <2>5. ~(socketOpen[cur[w]]) /\ socketOpen'[cur[w]]
      BY <1>3 DEF AdmitAccept, Control, Shape, ShapeOf, UnbornOK
    <2>6. connectCount' = connectCount
      BY <1>3 DEF AdmitAccept
    <2>. HIDE DEF TypeOK
    <2>. QED
      BY <2>2, <2>3, <2>4, <2>5, <2>6 DEF Counts, ConnectCountIsExact, One
  <1>3a. ASSUME NEW w \in Workers, AnnounceAccept(w)
         PROVE  Counts'
    <2>1. /\ Transit' = Transit /\ Admitting' = Admitting
          /\ OpenContexts' = OpenContexts /\ connectCount' = connectCount
      BY <1>3a
      DEF AnnounceAccept, Transit, Admitting, OpenContexts, Control, Shape, ShapeOf
    <2>. QED
      BY <2>1 DEF Counts, ConnectCountIsExact
  <1>3b. ASSUME NEW w \in Workers, UpdateCompletionPort(w)
         PROVE  Counts'
    <2>1. /\ Transit' = Transit /\ Admitting' = Admitting
          /\ OpenContexts' = OpenContexts /\ connectCount' = connectCount
      BY <1>3b
      DEF UpdateCompletionPort, Transit, Admitting, OpenContexts, Control, Shape, ShapeOf
    <2>. QED
      BY <2>1 DEF Counts, ConnectCountIsExact
  <1>4. ASSUME NEW w \in Workers, NEW c \in Contexts, DispatchRead(w, c)
         PROVE  Counts'
    <2>1. /\ Transit' = Transit /\ Admitting' = Admitting
          /\ OpenContexts' = OpenContexts /\ connectCount' = connectCount
      BY <1>4
      DEF DispatchRead, Transit, Admitting, OpenContexts, Control, Shape, ShapeOf
    <2>. QED
      BY <2>1 DEF Counts, ConnectCountIsExact
  <1>5. ASSUME NEW w \in Workers, NEW c \in Contexts, DispatchFailedRead(w, c)
         PROVE  Counts'
    <2>1. /\ Transit' = Transit /\ Admitting' = Admitting
          /\ OpenContexts' = OpenContexts /\ connectCount' = connectCount
      BY <1>5
      DEF DispatchFailedRead, Transit, Admitting, OpenContexts, Control, Shape, ShapeOf
    <2>. QED
      BY <2>1 DEF Counts, ConnectCountIsExact
  <1>6. ASSUME NEW w \in Workers, NotifyReceived(w)
         PROVE  Counts'
    <2>1. /\ Transit' = Transit /\ Admitting' = Admitting
          /\ OpenContexts' = OpenContexts /\ connectCount' = connectCount
      BY <1>6
      DEF NotifyReceived, Transit, Admitting, OpenContexts, Control, Shape, ShapeOf
    <2>. QED
      BY <2>1 DEF Counts, ConnectCountIsExact
  <1>7. ASSUME NEW w \in Workers, PostReadAccepted(w)
         PROVE  Counts'
    <2>1. /\ Transit' = Transit /\ Admitting' = Admitting
          /\ OpenContexts' = OpenContexts /\ connectCount' = connectCount
      BY <1>7
      DEF PostReadAccepted, Transit, Admitting, OpenContexts, Control, Shape, ShapeOf
    <2>. QED
      BY <2>1 DEF Counts, ConnectCountIsExact
  <1>8. ASSUME NEW w \in Workers, PostReadFailed(w)
         PROVE  Counts'
    <2>1. /\ Transit' = Transit /\ Admitting' = Admitting
          /\ OpenContexts' = OpenContexts /\ connectCount' = connectCount
      BY <1>8
      DEF PostReadFailed, Transit, Admitting, OpenContexts, Control, Shape, ShapeOf
    <2>. QED
      BY <2>1 DEF Counts, ConnectCountIsExact
  <1>9. ASSUME NEW w \in Workers, PostReadInvalid(w)
         PROVE  Counts'
    <2>1. /\ Transit' = Transit /\ Admitting' = Admitting
          /\ OpenContexts' = OpenContexts /\ connectCount' = connectCount
      BY <1>9
      DEF PostReadInvalid, Transit, Admitting, OpenContexts, Control, Shape, ShapeOf
    <2>. QED
      BY <2>1 DEF Counts, ConnectCountIsExact
  <1>10. ASSUME NEW w \in Workers, AbandonAccept(w)
         PROVE  Counts'
    <2>1. /\ Transit' = Transit /\ Admitting' = Admitting
          /\ OpenContexts' = OpenContexts /\ connectCount' = connectCount
      BY <1>10
      DEF AbandonAccept, Transit, Admitting, OpenContexts, Control, Shape, ShapeOf
    <2>. QED
      BY <2>1 DEF Counts, ConnectCountIsExact
  <1>11. ASSUME NEW w \in Workers, NEW c \in Contexts, DispatchWrite(w, c)
         PROVE  Counts'
    <2>1. /\ Transit' = Transit /\ Admitting' = Admitting
          /\ OpenContexts' = OpenContexts /\ connectCount' = connectCount
      BY <1>11
      DEF DispatchWrite, Transit, Admitting, OpenContexts, Control, Shape, ShapeOf
    <2>. QED
      BY <2>1 DEF Counts, ConnectCountIsExact
  <1>12. ASSUME NEW w \in Workers, NEW c \in Contexts, DispatchFailedWrite(w, c)
         PROVE  Counts'
    <2>1. /\ Transit' = Transit /\ Admitting' = Admitting
          /\ OpenContexts' = OpenContexts /\ connectCount' = connectCount
      BY <1>12
      DEF DispatchFailedWrite, Transit, Admitting, OpenContexts, Control, Shape, ShapeOf
    <2>. QED
      BY <2>1 DEF Counts, ConnectCountIsExact
  <1>13. ASSUME NEW w \in Workers, AdvancePosition(w)
         PROVE  Counts'
    <2>1. /\ Transit' = Transit /\ Admitting' = Admitting
          /\ OpenContexts' = OpenContexts /\ connectCount' = connectCount
      BY <1>13
      DEF AdvancePosition, Transit, Admitting, OpenContexts, Control, Shape, ShapeOf
    <2>. QED
      BY <2>1 DEF Counts, ConnectCountIsExact
  <1>14. ASSUME NEW w \in Workers, MeasurePosition(w)
         PROVE  Counts'
    <2>1. /\ Transit' = Transit /\ Admitting' = Admitting
          /\ OpenContexts' = OpenContexts /\ connectCount' = connectCount
      BY <1>14
      DEF MeasurePosition, Transit, Admitting, OpenContexts, Control, Shape, ShapeOf
    <2>. QED
      BY <2>1 DEF Counts, ConnectCountIsExact
  <1>15. ASSUME NEW w \in Workers, SwapReader(w)
         PROVE  Counts'
    <2>1. /\ Transit' = Transit /\ Admitting' = Admitting
          /\ OpenContexts' = OpenContexts /\ connectCount' = connectCount
      BY <1>15
      DEF SwapReader, Transit, Admitting, OpenContexts, Control, Shape, ShapeOf
    <2>. QED
      BY <2>1 DEF Counts, ConnectCountIsExact
  <1>16. ASSUME NEW w \in Workers, CheckReader(w)
         PROVE  Counts'
    <2>1. /\ Transit' = Transit /\ Admitting' = Admitting
          /\ OpenContexts' = OpenContexts /\ connectCount' = connectCount
      BY <1>16
      DEF CheckReader, Transit, Admitting, OpenContexts, Control, Shape, ShapeOf
    <2>. QED
      BY <2>1 DEF Counts, ConnectCountIsExact
  <1>17. ASSUME NEW w \in Workers, PostWriteAccepted(w)
         PROVE  Counts'
    <2>1. /\ Transit' = Transit /\ Admitting' = Admitting
          /\ OpenContexts' = OpenContexts /\ connectCount' = connectCount
      BY <1>17
      DEF PostWriteAccepted, Transit, Admitting, OpenContexts, Control, Shape, ShapeOf
    <2>. QED
      BY <2>1 DEF Counts, ConnectCountIsExact
  <1>18. ASSUME NEW w \in Workers, PostWriteFailed(w)
         PROVE  Counts'
    <2>1. /\ Transit' = Transit /\ Admitting' = Admitting
          /\ OpenContexts' = OpenContexts /\ connectCount' = connectCount
      BY <1>18
      DEF PostWriteFailed, Transit, Admitting, OpenContexts, Control, Shape, ShapeOf
    <2>. QED
      BY <2>1 DEF Counts, ConnectCountIsExact
  <1>19. ASSUME NEW w \in Workers, DereferenceNull(w)
         PROVE  Counts'
    <2>1. /\ Transit' = Transit /\ Admitting' = Admitting
          /\ OpenContexts' = OpenContexts /\ connectCount' = connectCount
      BY <1>19
      DEF DereferenceNull, Transit, Admitting, OpenContexts, Control, Shape, ShapeOf
    <2>. QED
      BY <2>1 DEF Counts, ConnectCountIsExact
  <1>20. ASSUME NEW t \in Threads, SendToClosed(t)
         PROVE  Counts'
    <2>1. /\ Transit' = Transit /\ Admitting' = Admitting
          /\ OpenContexts' = OpenContexts /\ connectCount' = connectCount
      BY <1>20
      DEF SendToClosed, Transit, Admitting, OpenContexts, Control, Shape, ShapeOf
    <2>. QED
      BY <2>1 DEF Counts, ConnectCountIsExact
  <1>21. ASSUME NEW t \in Threads, SendQueues(t)
         PROVE  Counts'
    <2>1. /\ Transit' = Transit /\ Admitting' = Admitting
          /\ OpenContexts' = OpenContexts /\ connectCount' = connectCount
      BY <1>21
      DEF SendQueues, Transit, Admitting, OpenContexts, Control, Shape, ShapeOf
    <2>. QED
      BY <2>1 DEF Counts, ConnectCountIsExact
  <1>22. ASSUME NEW t \in Threads, SendPosts(t)
         PROVE  Counts'
    <2>1. /\ Transit' = Transit /\ Admitting' = Admitting
          /\ OpenContexts' = OpenContexts /\ connectCount' = connectCount
      BY <1>22
      DEF SendPosts, Transit, Admitting, OpenContexts, Control, Shape, ShapeOf
    <2>. QED
      BY <2>1 DEF Counts, ConnectCountIsExact
  <1>23. ASSUME NEW t \in Threads, ExchangeSocket(t)
         PROVE  Counts'
    <2>1. t \in Threads /\ OnlyMoves(t)
      BY <1>23 DEF OnlyMoves, ExchangeSocket
    <2>2. /\ Cardinality(Transit) \in Nat /\ Cardinality(Admitting) \in Nat
          /\ Cardinality(Transit') = Cardinality(Transit)
                 - One(t \in Transit) + One(t \in Transit')
          /\ Cardinality(Admitting') = Cardinality(Admitting)
                 - One(t \in Admitting) + One(t \in Admitting')
          /\ Cardinality(Admitting) <= Cardinality(Transit)
      BY <2>1, TransitStep
    <2>3. /\ ~(t \in Transit)
          /\ t \in Transit' <=> socketOpen[cur[t]]
          /\ ~(t \in Admitting)
          /\ ~(t \in Admitting')
      BY <1>23, <2>1
      DEF ExchangeSocket, Transit, Admitting, Control, Shape, ShapeOf, ReturnsOK, ReturnOf
    <2>4. /\ Cardinality(OpenContexts) \in Nat
          /\ Cardinality(OpenContexts') = Cardinality(OpenContexts)
                 - One(socketOpen[cur[t]]) + One(socketOpen'[cur[t]])
      <3>1. /\ cur[t] \in Contexts
            /\ \A d \in Contexts : d # cur[t] => socketOpen'[d] = socketOpen[d]
        BY <1>23 DEF ExchangeSocket, Control, Shape, ShapeOf
      <3>. QED
        BY <3>1, OpenStep
    <2>5. socketOpen[cur[t]] \in BOOLEAN /\ ~(socketOpen'[cur[t]])
      BY <1>23 DEF ExchangeSocket, Control, Shape, ShapeOf, UnbornOK
    <2>. QED
      BY <1>23, <2>2, <2>3, <2>4, <2>5
      DEF ExchangeSocket, Counts, ConnectCountIsExact, One
  <1>24. ASSUME NEW t \in Threads, CloseSocket(t)
         PROVE  Counts'
    <2>1. t \in Threads /\ OnlyMoves(t)
      BY <1>24 DEF OnlyMoves, CloseSocket
    <2>2. /\ Cardinality(Transit) \in Nat /\ Cardinality(Admitting) \in Nat
          /\ Cardinality(Transit') = Cardinality(Transit)
                 - One(t \in Transit) + One(t \in Transit')
          /\ Cardinality(Admitting') = Cardinality(Admitting)
                 - One(t \in Admitting) + One(t \in Admitting')
          /\ Cardinality(Admitting) <= Cardinality(Transit)
      BY <2>1, TransitStep
    <2>3. /\ t \in Transit
          /\ ~(t \in Transit')
          /\ ~(t \in Admitting)
          /\ ~(t \in Admitting')
      BY <1>24, <2>1
      DEF CloseSocket, Transit, Admitting, Control, Shape, ShapeOf, ReturnsOK, ReturnOf
    <2>4. OpenContexts' = OpenContexts
      BY <1>24 DEF CloseSocket, OpenContexts
    <2>5. Cardinality(OpenContexts) \in Nat
      BY ThreadsAssumption, FS_Subset, FS_CardinalityType DEF OpenContexts
    <2>. QED
      BY <1>24, <2>2, <2>3, <2>4, <2>5
      DEF CloseSocket, Counts, ConnectCountIsExact, One, OverLimit
  <1>25. ASSUME NEW t \in Threads, ReleaseSocketContext(t)
         PROVE  Counts'
    <2>1. /\ Transit' = Transit /\ Admitting' = Admitting
          /\ OpenContexts' = OpenContexts /\ connectCount' = connectCount
      BY <1>25
      DEF ReleaseSocketContext, Transit, Admitting, OpenContexts, Control, Shape, ShapeOf
    <2>. QED
      BY <2>1 DEF Counts, ConnectCountIsExact
  <1>26. ASSUME NEW t \in Threads, DeleteContext(t)
         PROVE  Counts'
    <2>1. /\ Transit' = Transit /\ Admitting' = Admitting
          /\ OpenContexts' = OpenContexts /\ connectCount' = connectCount
      BY <1>26
      DEF DeleteContext, Transit, Admitting, OpenContexts, Control, Shape, ShapeOf
    <2>. QED
      BY <2>1 DEF Counts, ConnectCountIsExact
  <1>27. ASSUME NEW t \in Threads, FreeContext(t)
         PROVE  Counts'
    <2>1. /\ Transit' = Transit /\ Admitting' = Admitting
          /\ OpenContexts' = OpenContexts /\ connectCount' = connectCount
      BY <1>27
      DEF FreeContext, Transit, Admitting, OpenContexts, Control, Shape, ShapeOf
    <2>. QED
      BY <2>1 DEF Counts, ConnectCountIsExact
  <1>28. ASSUME NEW s \in Senders, NEW c \in Contexts, FindToSend(s, c)
         PROVE  Counts'
    <2>1. /\ Transit' = Transit /\ Admitting' = Admitting
          /\ OpenContexts' = OpenContexts /\ connectCount' = connectCount
      BY <1>28
      DEF FindToSend, Transit, Admitting, OpenContexts, Control, Shape, ShapeOf
    <2>. QED
      BY <2>1 DEF Counts, ConnectCountIsExact
  <1>29. ASSUME NEW s \in Senders, LeaveSend(s)
         PROVE  Counts'
    <2>1. /\ Transit' = Transit /\ Admitting' = Admitting
          /\ OpenContexts' = OpenContexts /\ connectCount' = connectCount
      BY <1>29
      DEF LeaveSend, Transit, Admitting, OpenContexts, Control, Shape, ShapeOf
    <2>. QED
      BY <2>1 DEF Counts, ConnectCountIsExact
  <1>30. ASSUME NEW k \in Stoppers, RaiseShutdown(k)
         PROVE  Counts'
    <2>1. /\ Transit' = Transit /\ Admitting' = Admitting
          /\ OpenContexts' = OpenContexts /\ connectCount' = connectCount
      BY <1>30
      DEF RaiseShutdown, Transit, Admitting, OpenContexts, Control, Shape, ShapeOf
    <2>. QED
      BY <2>1 DEF Counts, ConnectCountIsExact
  <1>31. ASSUME NEW k \in Stoppers, BeginCloseAll(k)
         PROVE  Counts'
    <2>1. /\ Transit' = Transit /\ Admitting' = Admitting
          /\ OpenContexts' = OpenContexts /\ connectCount' = connectCount
      BY <1>31
      DEF BeginCloseAll, Transit, Admitting, OpenContexts, Control, Shape, ShapeOf
    <2>. QED
      BY <2>1 DEF Counts, ConnectCountIsExact
  <1>32. ASSUME NEW k \in Stoppers, NEW c \in Contexts, CloseNext(k, c)
         PROVE  Counts'
    <2>1. /\ Transit' = Transit /\ Admitting' = Admitting
          /\ OpenContexts' = OpenContexts /\ connectCount' = connectCount
      BY <1>32
      DEF CloseNext, Transit, Admitting, OpenContexts, Control, Shape, ShapeOf
    <2>. QED
      BY <2>1 DEF Counts, ConnectCountIsExact
  <1>33. ASSUME NEW k \in Stoppers, EndCloseAll(k)
         PROVE  Counts'
    <2>1. /\ Transit' = Transit /\ Admitting' = Admitting
          /\ OpenContexts' = OpenContexts /\ connectCount' = connectCount
      BY <1>33
      DEF EndCloseAll, Transit, Admitting, OpenContexts, Control, Shape, ShapeOf
    <2>. QED
      BY <2>1 DEF Counts, ConnectCountIsExact
  <1>35. ASSUME NEW w \in Workers, WaitForPacket(w)
         PROVE  Counts'
    <2>1. /\ Transit' = Transit /\ Admitting' = Admitting
          /\ OpenContexts' = OpenContexts /\ connectCount' = connectCount
      BY <1>35
      DEF WaitForPacket, Transit, Admitting, OpenContexts, Control, Shape, ShapeOf
    <2>. QED
      BY <2>1 DEF Counts, ConnectCountIsExact
  <1>36. ASSUME NEW w \in Workers, CloseAgain(w)
         PROVE  Counts'
    <2>1. /\ Transit' = Transit /\ Admitting' = Admitting
          /\ OpenContexts' = OpenContexts /\ connectCount' = connectCount
      BY <1>36
      DEF CloseAgain, Transit, Admitting, OpenContexts, Control, Shape, ShapeOf
    <2>. QED
      BY <2>1 DEF Counts, ConnectCountIsExact
  <1>37. ASSUME NEW w \in Workers, UseUninitialisedKey(w)
         PROVE  Counts'
    <2>1. /\ Transit' = Transit /\ Admitting' = Admitting
          /\ OpenContexts' = OpenContexts /\ connectCount' = connectCount
      BY <1>37
      DEF UseUninitialisedKey, Transit, Admitting, OpenContexts, Control, Shape, ShapeOf
    <2>. QED
      BY <2>1 DEF Counts, ConnectCountIsExact
  <1>38. ASSUME NEW t \in Threads, UseFreedContext(t)
         PROVE  Counts'
    <2>1. /\ Transit' = Transit /\ Admitting' = Admitting
          /\ OpenContexts' = OpenContexts /\ connectCount' = connectCount
      BY <1>38
      DEF UseFreedContext, Transit, Admitting, OpenContexts, Control, Shape, ShapeOf
    <2>. QED
      BY <2>1 DEF Counts, ConnectCountIsExact
  <1>34. CASE UNCHANGED vars
    BY <1>34
    DEF vars, Holders, Transit, Admitting, OpenContexts, ConnectCountIsExact, Counts, PendingIOIsExact
  <1>. HIDE DEF IInv, TypeOK, PCs, Ops, Returns
  <1>. QED
    BY <1>1, <1>2, <1>3, <1>3a, <1>3b, <1>4, <1>5, <1>6, <1>7, <1>8, <1>9, <1>10, <1>11,
       <1>12, <1>13, <1>14, <1>15, <1>16, <1>17, <1>18, <1>19, <1>20, <1>21,
       <1>22, <1>23, <1>24, <1>25, <1>26, <1>27, <1>28, <1>29, <1>30, <1>31,
       <1>32, <1>33, <1>34, <1>35, <1>36, <1>37, <1>38
    DEF Next, Continue, ContinueLoop, ContinueAccept, ContinueRead,
        ContinueWrite, ContinueCall,
        Dispatch, AtRest, vars


-----------------------------------------------------------------------------
(* The theorems. *)

\* A server that has just started satisfies the invariant.
LEMMA InitHolds == Init => IInv
  <1>. SUFFICES ASSUME Init PROVE IInv
    OBVIOUS
  <1>1. TypeOK
    <2>1. calls \in 0..MaxSends
      BY BoundsAssumption DEF Init
    <2>2. /\ ports \in Nat /\ m_hIOCP \in 0..ports
          /\ portOf \in [Contexts -> 0..ports]
          /\ waitsOn \in [Workers -> 0..ports]
          /\ key \in [Workers -> Contexts \cup {Server, NoContext}]
      BY DEF Init
    <2>3. pc \in [Threads -> PCs]
      BY DEF Init, PCs
    <2>4. /\ pendingIO \in [Contexts -> Int] /\ queued \in [Contexts -> Nat]
          /\ disconnects \in [Contexts -> Nat]
          /\ sendsPosted \in [Contexts -> Nat]
          /\ overdrawn \in [Contexts -> Nat] /\ connectCount \in Nat
      BY DEF Init
    <2>5. /\ life \in [Contexts -> {"unborn", "live", "freed"}]
          /\ mLock \in [Contexts -> Threads \cup {Nobody}]
          /\ op \in [Threads -> Ops] /\ ret \in [Threads -> Returns]
          /\ cur \in [Threads -> Contexts \cup {NoContext}]
      BY DEF Init, Ops, Returns
    <2>6. /\ socketOpen \in [Contexts -> BOOLEAN]
          /\ hasReader \in [Contexts -> BOOLEAN]
          /\ abandoned \in [Contexts -> BOOLEAN]
          /\ recvPosted \in [Contexts -> BOOLEAN]
          /\ shutdown \in BOOLEAN /\ crashed \in BOOLEAN
          /\ contextLock \in Threads \cup {Nobody}
          /\ table \in SUBSET Contexts /\ announced \in SUBSET Contexts
      BY DEF Init
    <2>. QED
      BY <2>1, <2>2, <2>3, <2>4, <2>5, <2>6 DEF TypeOK
  <1>2. Control
    BY DEF Init, Control, Shape, ShapeOf, ReturnsOK, ReturnOf, MLockOK,
           ContextLockOK, TableOK, UnbornOK, DeleteOK, ReceiveAlive,
           NoUseAfterFree, DisconnectOK, ReaderOK, NoBufferIsForgotten,
           ReceivesAreSerial, ReceiveHolders, Holders
  <1>3. /\ OpenContexts = {} /\ Transit = {} /\ Admitting = {}
        /\ \A c \in Contexts : Holders(c) = {}
    BY DEF Init, OpenContexts, Transit, Admitting, Holders
  <1>4. PendingIOIsExact
    <2>1. ASSUME NEW c \in Contexts
          PROVE  /\ pendingIO[c] = 0 /\ overdrawn[c] = 0 /\ sendsPosted[c] = 0
                 /\ ~recvPosted[c] /\ mLock[c] = Nobody /\ ~abandoned[c]
      BY DEF Init
    <2>2. \A c \in Contexts : Cardinality(Holders(c)) = 0
      BY <1>3, FS_EmptySet
    <2>. QED
      BY <2>1, <2>2 DEF PendingIOIsExact, One
  <1>5. Counts
    BY <1>3, FS_EmptySet DEF Init, Counts, ConnectCountIsExact
  <1>6. Notified
    BY DEF Init, Notified, Untold, DisconnectFollowsConnect
  <1>7. Key /\ NoUseAfterFree
    BY DEF Init, Key, Admitted, StaleOK, PortOK, NoUseAfterFree, Wronged
  <1>. QED
    BY <1>1, <1>2, <1>4, <1>5, <1>6, <1>7 DEF IInv

\* Every handler, Send and close keeps the invariant.
LEMMA StepKeeps == IInv /\ [Next]_vars => IInv'
  <1>1. ASSUME IInv, Next PROVE IInv'
    BY <1>1, TypesKept, ControlKept, AccountKept, CountsKept, NotifiedKept,
       KeyKept, UseKept
    DEF IInv
  <1>2. ASSUME IInv, UNCHANGED vars PROVE IInv'
    <2>1. TypeOK'
      BY <1>2 DEF IInv, vars, TypeOK
    <2>2. Control'
      BY <1>2 DEF IInv, vars, Control, Shape, ShapeOf, ReturnsOK, ReturnOf,
              MLockOK, ContextLockOK, TableOK, UnbornOK, DeleteOK,
              ReceiveAlive, EarlyReceive, DisconnectOK,
              ReaderOK, NoBufferIsForgotten, ReceivesAreSerial,
              ReceiveHolders, Holders
    <2>3. PendingIOIsExact' /\ Counts'
      BY <1>2 DEF IInv, vars, PendingIOIsExact, Holders, Counts, Transit,
              ConnectCountIsExact, OpenContexts, Admitting
    <2>4. Notified'
      BY <1>2 DEF IInv, vars, Notified, Untold, DisconnectFollowsConnect
    <2>5. Key' /\ NoUseAfterFree'
      BY <1>2 DEF IInv, vars, Key, Admitted, StaleOK, PortOK, NoUseAfterFree,
              Wronged
    <2>. QED
      BY <2>1, <2>2, <2>3, <2>4, <2>5 DEF IInv
  <1>. QED
    BY <1>1, <1>2

\* The invariant holds in every reachable state, whatever the threads do.
THEOREM InvariantHolds == Spec => []IInv
  BY InitHolds, StepKeeps, PTL DEF Spec

\* Every variable keeps its type: no counter but m_NumberOfPendingIO goes
\* below zero.
THEOREM TypesAreCorrect == Spec => []TypeOK
  <1>1. IInv => TypeOK
    BY DEF IInv
  <1>. QED
    BY <1>1, InvariantHolds, PTL

\* m_NumberOfPendingIO is exact: EnterIOLoop and ExitIOLoop are paired on every
\* path of every handler, for any number of threads, but for the releases of
\* workers whose wait failed; those come after Shutdown, on closed sockets.
THEOREM CountIsExact == Spec => []PendingIOIsExact
  <1>1. IInv => PendingIOIsExact
    BY DEF IInv
  <1>. QED
    BY <1>1, InvariantHolds, PTL

\* No handler, Send, close or kernel operation touches a deleted context,
\* unless a worker acted on it through a stale key, which none does before
\* Shutdown.
THEOREM NoAccessAfterDelete == Spec => []NoUseAfterFree
  <1>1. IInv => NoUseAfterFree
    BY DEF IInv
  <1>. QED
    BY <1>1, InvariantHolds, PTL

\* The NotifyReceivedPackage calls of one connection never overlap.
THEOREM ReceivesNeverOverlap == Spec => []ReceivesAreSerial
  <1>1. IInv => ReceivesAreSerial
    BY DEF IInv, Control
  <1>. QED
    BY <1>1, InvariantHolds, PTL

\* m_ContextLock is never asked for by a thread that owns an m_Lock.
THEOREM LockOrderHolds == Spec => []LocksAreOrdered
  <1>1. IInv => LocksAreOrdered
    BY ThreadsAssumption DEF IInv, Control, DeleteOK, LocksAreOrdered, InSend, TypeOK, Shape, ShapeOf
  <1>. QED
    BY <1>1, InvariantHolds, PTL

\* NotifyDisconnectedClient is called at most once, and before the context
\* goes, unless the context is wronged.
THEOREM OneDisconnect == Spec => []DisconnectedOnce
  <1>1. IInv => DisconnectedOnce
    BY DEF IInv, Control, DisconnectOK, DisconnectedOnce, NoUseAfterFree, UnbornOK,
           TypeOK
  <1>. QED
    BY <1>1, InvariantHolds, PTL

\* A disconnect is notified after its connect, but for what Shutdown closes
\* during an accept.
THEOREM NotificationsInOrder == Spec => []DisconnectFollowsConnect
  <1>1. IInv => DisconnectFollowsConnect
    BY DEF IInv, Notified
  <1>. QED
    BY <1>1, InvariantHolds, PTL

\* m_nCurrentConnectCount is exact.
THEOREM ConnectCountHolds == Spec => []ConnectCountIsExact
  <1>1. IInv => ConnectCountIsExact
    BY DEF IInv, Counts
  <1>. QED
    BY <1>1, InvariantHolds, PTL

\* No buffer waits on an open connection with nobody to send it.
THEOREM NoForgottenBuffer == Spec => []NoBufferIsForgotten
  <1>1. IInv => NoBufferIsForgotten
    BY DEF IInv, Control
  <1>. QED
    BY <1>1, InvariantHolds, PTL

\* Never more than m_nLimitConnectCount connections are open.
THEOREM LimitHolds == Spec => []LimitIsRespected
  <1>1. IInv => LimitIsRespected
    <2>1. IsFiniteSet(OpenContexts) /\ IsFiniteSet(Admitting)
      BY ThreadsAssumption, FS_Subset DEF OpenContexts, Admitting
    <2>2. Cardinality(OpenContexts) \in Nat /\ Cardinality(Admitting) \in Nat
      BY <2>1, FS_CardinalityType
    <2>. QED
      BY <2>2, BoundsAssumption DEF IInv, Counts, LimitIsRespected
  <1>. QED
    BY <1>1, InvariantHolds, PTL

-----------------------------------------------------------------------------
(* The refinement. *)

\* The connections ConnectionService sees connected are the open ones.
LEMMA ConnectedIsOpen == IInv => Service!Connected = OpenContexts
  <1>. SUFFICES ASSUME IInv PROVE Service!Connected = OpenContexts
    OBVIOUS
  <1>1. \A c \in Contexts : life[c] \in {"unborn", "live", "freed"}
                            /\ (life[c] # "live" => ~socketOpen[c])
    BY DEF IInv, TypeOK, Control, UnbornOK
  <1>2. \A c \in Contexts : Status[c] = "connected" <=> socketOpen[c]
    BY <1>1 DEF Status
  <1>. QED
    BY <1>2 DEF Service!Connected, OpenContexts

\* A step that neither creates, closes nor deletes a context is a stutter.
LEMMA QuietStep ==
    ASSUME life' = life, socketOpen' = socketOpen
    PROVE  Status' = Status
  BY DEF Status

\* ConnectionService counts with the same operator.
LEMMA SameCardinality == \A S : Service!Cardinality(S) = Cardinality(S)
  BY DEF Service!Cardinality, Cardinality

\* An admission is a Connect, below the limit.
LEMMA AdmitConnects ==
    ASSUME IInv, NEW w \in Workers, AdmitAccept(w)
    PROVE  Service!Connect(cur[w])
  <1>. DEFINE c == cur[w]
  <1>1. /\ c \in Contexts /\ life[c] = "unborn" /\ w \in Admitting
    BY DEF IInv, TypeOK, Control, Shape, ShapeOf, UnbornOK, AdmitAccept, At,
           Admitting, Threads
  <1>2. Cardinality(Service!Connected) < Limit
    <2>1. IsFiniteSet(Admitting) /\ IsFiniteSet(OpenContexts)
      BY ThreadsAssumption, FS_Subset DEF Admitting, OpenContexts
    <2>2. Cardinality(Admitting) \in Nat /\ Cardinality(Admitting) # 0
          /\ Cardinality(OpenContexts) \in Nat
      BY <1>1, <2>1, FS_EmptySet, FS_CardinalityType
    <2>3. Cardinality(OpenContexts) + Cardinality(Admitting) <= Limit
      BY DEF IInv, Counts
    <2>. QED
      BY <2>2, <2>3, ConnectedIsOpen, BoundsAssumption
  <1>3. Status' = [Status EXCEPT ![c] = "connected"] /\ Status[c] = "new"
    BY <1>1 DEF Status, AdmitAccept, IInv, TypeOK
  <1>. QED
    BY <1>1, <1>2, <1>3, SameCardinality DEF Service!Connect

\* The exchange of an open socket is a Close, that of a closed one nothing.
LEMMA ExchangeCloses ==
    ASSUME IInv, NEW t \in Threads, ExchangeSocket(t)
    PROVE  Service!Close(cur[t]) \/ Status' = Status
  <1>. DEFINE c == cur[t]
  <1>1. c \in Contexts
    BY DEF IInv, TypeOK, Control, Shape, ShapeOf, ExchangeSocket, At
  <1>2. life' = life /\ socketOpen' = [socketOpen EXCEPT ![c] = FALSE]
        /\ socketOpen \in [Contexts -> BOOLEAN]
        /\ life \in [Contexts -> {"unborn", "live", "freed"}]
    BY DEF ExchangeSocket, IInv, TypeOK
  <1>3. CASE socketOpen[c]
    <2>1. life[c] = "live"
      BY <1>1, <1>3 DEF IInv, Control, UnbornOK
    <2>. QED
      BY <1>1, <1>2, <1>3, <2>1 DEF Service!Close, Status
  <1>4. CASE ~socketOpen[c]
    BY <1>1, <1>2, <1>4, QuietStep
  <1>. QED
    BY <1>3, <1>4

\* OP_DELETE is a Delete; a second one, after a release by a stale key, is
\* not seen.
LEMMA FreeDeletes ==
    ASSUME IInv, NEW t \in Threads, FreeContext(t)
    PROVE  Service!Delete(cur[t]) \/ Status' = Status
  <1>. DEFINE c == cur[t]
  <1>1. c \in Contexts /\ life[c] # "unborn" /\ ~socketOpen[c]
    BY DEF IInv, TypeOK, Control, Shape, ShapeOf, Key, Admitted, DeleteOK,
           FreeContext, At
  <1>2. life' = [life EXCEPT ![c] = "freed"] /\ socketOpen' = socketOpen
        /\ life \in [Contexts -> {"unborn", "live", "freed"}]
    BY DEF FreeContext, IInv, TypeOK
  <1>3. CASE life[c] = "live"
    BY <1>1, <1>2, <1>3 DEF Service!Delete, Status
  <1>4. CASE life[c] = "freed"
    <2>1. life' = life
      BY <1>1, <1>2, <1>4
    <2>. QED
      BY <1>2, <2>1, QuietStep
  <1>. QED
    BY <1>1, <1>2, <1>3, <1>4

\* Every other step is quiet.
LEMMA OtherSteps ==
    ASSUME IInv, Next,
           \A w \in Workers : ~AdmitAccept(w),
           \A t \in Threads : ~ExchangeSocket(t) /\ ~FreeContext(t)
    PROVE  Status' = Status
  <1>1. life' = life /\ socketOpen' = socketOpen
    <2>1. ASSUME NEW w \in Workers, NEW c \in Contexts, CountAccept(w, c)
           PROVE  life' = life /\ socketOpen' = socketOpen
      BY <2>1 DEF CountAccept, contextVars
    <2>2. ASSUME NEW w \in Workers, RejectAccept(w)
           PROVE  life' = life /\ socketOpen' = socketOpen
      BY <2>2 DEF RejectAccept, contextVars
    <2>2a. ASSUME NEW w \in Workers, AnnounceAccept(w)
           PROVE  life' = life /\ socketOpen' = socketOpen
      BY <2>2a DEF AnnounceAccept, contextVars
    <2>3. ASSUME NEW w \in Workers, NEW c \in Contexts, DispatchRead(w, c)
           PROVE  life' = life /\ socketOpen' = socketOpen
      BY <2>3 DEF DispatchRead, contextVars
    <2>4. ASSUME NEW w \in Workers, NEW c \in Contexts, DispatchFailedRead(w, c)
           PROVE  life' = life /\ socketOpen' = socketOpen
      BY <2>4 DEF DispatchFailedRead, contextVars
    <2>5. ASSUME NEW w \in Workers, NotifyReceived(w)
           PROVE  life' = life /\ socketOpen' = socketOpen
      BY <2>5 DEF NotifyReceived, contextVars
    <2>6. ASSUME NEW w \in Workers, PostReadAccepted(w)
           PROVE  life' = life /\ socketOpen' = socketOpen
      BY <2>6 DEF PostReadAccepted, contextVars
    <2>7. ASSUME NEW w \in Workers, PostReadFailed(w)
           PROVE  life' = life /\ socketOpen' = socketOpen
      BY <2>7 DEF PostReadFailed, contextVars
    <2>8. ASSUME NEW w \in Workers, PostReadInvalid(w)
           PROVE  life' = life /\ socketOpen' = socketOpen
      BY <2>8 DEF PostReadInvalid, contextVars
    <2>9. ASSUME NEW w \in Workers, AbandonAccept(w)
           PROVE  life' = life /\ socketOpen' = socketOpen
      BY <2>9 DEF AbandonAccept, contextVars
    <2>10. ASSUME NEW w \in Workers, NEW c \in Contexts, DispatchWrite(w, c)
           PROVE  life' = life /\ socketOpen' = socketOpen
      BY <2>10 DEF DispatchWrite, contextVars
    <2>11. ASSUME NEW w \in Workers, NEW c \in Contexts, DispatchFailedWrite(w, c)
           PROVE  life' = life /\ socketOpen' = socketOpen
      BY <2>11 DEF DispatchFailedWrite, contextVars
    <2>12. ASSUME NEW w \in Workers, AdvancePosition(w)
           PROVE  life' = life /\ socketOpen' = socketOpen
      BY <2>12 DEF AdvancePosition, contextVars
    <2>13. ASSUME NEW w \in Workers, MeasurePosition(w)
           PROVE  life' = life /\ socketOpen' = socketOpen
      BY <2>13 DEF MeasurePosition, contextVars
    <2>14. ASSUME NEW w \in Workers, SwapReader(w)
           PROVE  life' = life /\ socketOpen' = socketOpen
      BY <2>14 DEF SwapReader, contextVars
    <2>15. ASSUME NEW w \in Workers, CheckReader(w)
           PROVE  life' = life /\ socketOpen' = socketOpen
      BY <2>15 DEF CheckReader, contextVars
    <2>16. ASSUME NEW w \in Workers, PostWriteAccepted(w)
           PROVE  life' = life /\ socketOpen' = socketOpen
      BY <2>16 DEF PostWriteAccepted, contextVars
    <2>17. ASSUME NEW w \in Workers, PostWriteFailed(w)
           PROVE  life' = life /\ socketOpen' = socketOpen
      BY <2>17 DEF PostWriteFailed, contextVars
    <2>18. ASSUME NEW w \in Workers, DereferenceNull(w)
           PROVE  life' = life /\ socketOpen' = socketOpen
      BY <2>18 DEF DereferenceNull, contextVars
    <2>19. ASSUME NEW t \in Threads, SendToClosed(t)
           PROVE  life' = life /\ socketOpen' = socketOpen
      BY <2>19 DEF SendToClosed, contextVars
    <2>20. ASSUME NEW t \in Threads, SendQueues(t)
           PROVE  life' = life /\ socketOpen' = socketOpen
      BY <2>20 DEF SendQueues, contextVars
    <2>21. ASSUME NEW t \in Threads, SendPosts(t)
           PROVE  life' = life /\ socketOpen' = socketOpen
      BY <2>21 DEF SendPosts, contextVars
    <2>22. ASSUME NEW t \in Threads, CloseSocket(t)
           PROVE  life' = life /\ socketOpen' = socketOpen
      BY <2>22 DEF CloseSocket, contextVars
    <2>23. ASSUME NEW t \in Threads, ReleaseSocketContext(t)
           PROVE  life' = life /\ socketOpen' = socketOpen
      BY <2>23 DEF ReleaseSocketContext, contextVars
    <2>24. ASSUME NEW t \in Threads, DeleteContext(t)
           PROVE  life' = life /\ socketOpen' = socketOpen
      BY <2>24 DEF DeleteContext, contextVars
    <2>25. ASSUME NEW s \in Senders, NEW c \in Contexts, FindToSend(s, c)
           PROVE  life' = life /\ socketOpen' = socketOpen
      BY <2>25 DEF FindToSend, contextVars
    <2>26. ASSUME NEW s \in Senders, LeaveSend(s)
           PROVE  life' = life /\ socketOpen' = socketOpen
      BY <2>26 DEF LeaveSend, contextVars
    <2>27. ASSUME NEW k \in Stoppers, RaiseShutdown(k)
           PROVE  life' = life /\ socketOpen' = socketOpen
      BY <2>27 DEF RaiseShutdown, contextVars
    <2>28. ASSUME NEW k \in Stoppers, BeginCloseAll(k)
           PROVE  life' = life /\ socketOpen' = socketOpen
      BY <2>28 DEF BeginCloseAll, contextVars
    <2>29. ASSUME NEW k \in Stoppers, NEW c \in Contexts, CloseNext(k, c)
           PROVE  life' = life /\ socketOpen' = socketOpen
      BY <2>29 DEF CloseNext, contextVars
    <2>30. ASSUME NEW k \in Stoppers, EndCloseAll(k)
           PROVE  life' = life /\ socketOpen' = socketOpen
      BY <2>30 DEF EndCloseAll, contextVars
    <2>32. ASSUME NEW w \in Workers, UpdateCompletionPort(w)
           PROVE  life' = life /\ socketOpen' = socketOpen
      BY <2>32 DEF UpdateCompletionPort, contextVars
    <2>33. ASSUME NEW w \in Workers, WaitForPacket(w)
           PROVE  life' = life /\ socketOpen' = socketOpen
      BY <2>33 DEF WaitForPacket, contextVars
    <2>34. ASSUME NEW w \in Workers, CloseAgain(w)
           PROVE  life' = life /\ socketOpen' = socketOpen
      BY <2>34 DEF CloseAgain, contextVars
    <2>35. ASSUME NEW w \in Workers, UseUninitialisedKey(w)
           PROVE  life' = life /\ socketOpen' = socketOpen
      BY <2>35 DEF UseUninitialisedKey, contextVars
    <2>36. ASSUME NEW t \in Threads, UseFreedContext(t)
           PROVE  life' = life /\ socketOpen' = socketOpen
      BY <2>36 DEF UseFreedContext, contextVars
    <2>31. CASE AtRest
      BY <2>31 DEF AtRest, vars, contextVars
    <2>. QED
      BY <2>1, <2>2, <2>2a, <2>3, <2>4, <2>5, <2>6, <2>7, <2>8, <2>9, <2>10,
         <2>11, <2>12, <2>13, <2>14, <2>15, <2>16, <2>17, <2>18,
         <2>19, <2>20, <2>21, <2>22, <2>23, <2>24, <2>25, <2>26,
         <2>27, <2>28, <2>29, <2>30, <2>31, <2>32, <2>33, <2>34,
         <2>35, <2>36
      DEF Next, Continue, ContinueLoop, ContinueAccept, ContinueRead,
          ContinueWrite, ContinueCall, Dispatch, Threads
  <1>. QED
    BY <1>1, QuietStep

\* The contexts, handlers, locks and counts implement ConnectionService.
THEOREM Refinement == Spec => ImplementsService
  <1>1. Init => Service!Init
    BY DEF Init, Service!Init, Status
  <1>2. IInv /\ [Next]_vars => [Service!Next]_Status
    <2>. SUFFICES ASSUME IInv, [Next]_vars PROVE [Service!Next]_Status
      OBVIOUS
    <2>1. CASE UNCHANGED vars
      BY <2>1, QuietStep DEF vars, contextVars
    <2>2. ASSUME NEW w \in Workers, AdmitAccept(w) PROVE Service!Next
      <3>1. cur[w] \in Contexts
        BY <2>2 DEF IInv, TypeOK, Control, Shape, ShapeOf, AdmitAccept, At, Threads
      <3>. QED
        BY <2>2, <3>1, AdmitConnects DEF Service!Next
    <2>3. ASSUME NEW t \in Threads, ExchangeSocket(t)
          PROVE  Service!Next \/ Status' = Status
      <3>1. cur[t] \in Contexts
        BY <2>3 DEF IInv, TypeOK, Control, Shape, ShapeOf, ExchangeSocket, At
      <3>. QED
        BY <2>3, <3>1, ExchangeCloses DEF Service!Next
    <2>4. ASSUME NEW t \in Threads, FreeContext(t)
          PROVE  Service!Next \/ Status' = Status
      <3>1. cur[t] \in Contexts
        BY <2>4 DEF IInv, TypeOK, Control, Shape, ShapeOf, FreeContext, At
      <3>. QED
        BY <2>4, <3>1, FreeDeletes DEF Service!Next
    <2>5. CASE /\ Next
               /\ \A w \in Workers : ~AdmitAccept(w)
               /\ \A t \in Threads : ~ExchangeSocket(t) /\ ~FreeContext(t)
      BY <2>5, OtherSteps
    <2>. QED
      BY <2>1, <2>2, <2>3, <2>4, <2>5
  <1>. QED
    BY <1>1, <1>2, InvariantHolds, PTL DEF Spec, ImplementsService, Service!Spec

=============================================================================
