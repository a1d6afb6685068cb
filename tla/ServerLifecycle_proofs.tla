------------------------- MODULE ServerLifecycle_proofs -------------------------
(***************************************************************************)
(* Proof of ServerIsSound for the specification of ServerLifecycle, for    *)
(* any number of workers, sockets and starts.                              *)
(*                                                                         *)
(* Until a Shutdown loses the port, every step is one of Step: a step of a *)
(* server with the port of Startup and no other. The invariant of those    *)
(* steps is proved first, then what also holds after the port was lost.    *)
(***************************************************************************)
EXTENDS ServerLifecycle, FiniteSetTheorems, TLAPS

-----------------------------------------------------------------------------
(* The inductive invariant.                                                *)

In(s, p) == {i \in DOMAIN s : s[i] = p}
Number(p) == Cardinality(PacketsOf(p))

\* TypeOK in three parts.
Packet == {Pill} \cup {Accepted(a) : a \in Slots} \cup {Received(s) : s \in Sockets}
PortType == port \in Seq(Packet)
Types ==
    /\ phase \in Phases /\ runs \in 0..MaxRuns
    /\ slot \in [Slots -> SlotStates]
    /\ slotSocket \in [Slots -> Sockets \cup {NoSocket}]
    /\ allocated \in SUBSET Slots
    /\ socket \in [Sockets -> SocketStates]
    /\ recv \in [Sockets -> RecvStates]
    /\ pc \in [Workers -> {"idle", "accept", "admit", "update", "store", "post",
                           "read", "exited"}]
    /\ at \in [Workers -> Slots \cup {NoSlot}]
    /\ on \in [Workers -> Sockets \cup {NoSocket}]
    /\ \A w \in Workers : at[w] # NoSlot <=> pc[w] = "accept"
    /\ undefined \in BOOLEAN
PortsTypes ==
    /\ ports \in Seq(Seq(Packet)) /\ Len(ports) > 0
    /\ m_hIOCP \in 0..Len(ports)
    /\ home \in [Sockets -> 0..Len(ports)]
    /\ key \in [Workers -> Sockets \cup {Server, NoSocket}]
    /\ inside \in [Workers -> 0..Len(ports)]
    /\ lost \in BOOLEAN

\* How many NULL packets were posted.
PillBounds ==
    /\ pills \in 0..Cardinality(Workers)
    /\ phase = "closing" => pills < Cardinality(Workers)
    /\ phase = "waiting" => pills = Cardinality(Workers)
    /\ phase \notin {"closing", "waiting"} => pills = 0

\* What holds after the port was lost, too.
RunsFit ==
    /\ phase = "down" => /\ AllExited /\ ports = << <<>> >> /\ m_hIOCP = NULL
                         /\ \A s \in Sockets : recv[s] = "none"
    /\ phase \in {"closing", "waiting", "down"} => allocated = {}
    /\ \A a \in Slots : slot[a] = "posted" => a \in allocated
    /\ lost => phase \in {"closing", "waiting", "down"}
    /\ \A w \in Workers : pc[w] # "idle" => inside[w] = NULL
    /\ \A w \in Workers : pc[w] \in {"admit", "update", "store", "post", "read"}
                              => on[w] \in Sockets

\* Which accept contexts exist, and who runs, in each phase.
PhasesFit ==
    /\ phase \in {"up", "flagged"} => allocated = Slots
    /\ phase \in {"closing", "waiting", "down"} => allocated = {}
    /\ phase = "down" => AllExited /\ port = <<>> /\ \A s \in Sockets : recv[s] = "none"
    /\ phase \notin {"down", "closing", "waiting"} => \A w \in Workers : pc[w] # "exited"

\* An accept context is in the kernel, in one packet, or in one worker's hands.
SlotsFit ==
    /\ \A a \in Slots : Number(Accepted(a)) = IF slot[a] = "queued" THEN 1 ELSE 0
    /\ \A w \in Workers : at[w] # NoSlot => slot[at[w]] = "held"
    /\ \A a \in Slots : slot[a] = "held" => \E w \in Workers : at[w] = a
    /\ \A v, w \in Workers : at[v] = at[w] => v = w \/ at[v] = NoSlot
    /\ \A a \in Slots : slot[a] = "posted" => a \in allocated

\* Accept contexts and their sockets.
SocketsFit ==
    /\ \A a \in Slots : slotSocket[a] # NoSocket => socket[slotSocket[a]] = "prepared"
    /\ \A a, b \in Slots : slotSocket[a] = slotSocket[b] => a = b \/ slotSocket[a] = NoSocket
    /\ \A a \in Slots : a \notin allocated => slotSocket[a] = NoSocket
    /\ \A a \in allocated : slot[a] # "idle" => slotSocket[a] # NoSocket
    /\ phase = "up" => \A a \in Slots : slot[a] = "idle" => slotSocket[a] = NoSocket
    /\ \A w \in Workers : pc[w] = "admit" =>
          /\ on[w] \in Sockets /\ socket[on[w]] = "prepared"
          /\ \A a \in Slots : slotSocket[a] # on[w]
          /\ \A v \in Workers : pc[v] = "admit" /\ on[v] = on[w] => v = w

\* A receive is in the kernel, in one packet, or in one worker's hands, and so is
\* its context, which exists.
Arriving(w) == pc[w] \in {"update", "store", "post"}
HasContext(s) == socket[s] \in {"open", "closed"}
ReadsFit ==
    /\ \A s \in Sockets : Number(Received(s)) = IF recv[s] = "queued" THEN 1 ELSE 0
    /\ \A s \in Sockets : recv[s] # "none" => HasContext(s)
    /\ \A w \in Workers : pc[w] = "read" => on[w] \in Sockets /\ recv[on[w]] = "held"
    /\ \A w \in Workers : Arriving(w) =>
          on[w] \in Sockets /\ recv[on[w]] = "none" /\ HasContext(on[w])
    /\ \A v, w \in Workers : /\ Arriving(v) \/ pc[v] = "read"
                             /\ Arriving(w) \/ pc[w] = "read"
                             /\ on[v] = on[w]
                             => v = w

\* The NULL packets, behind all accept completions.
Exited == {w \in Workers : pc[w] = "exited"}
PillCount ==
    Number(Pill) = IF phase \in {"closing", "waiting"} THEN pills - Cardinality(Exited)
                                                      ELSE 0
Fifo ==
    phase \in {"closing", "waiting"} /\ pills > 0 =>
        \A a \in Slots, k \in DOMAIN port : port[k] = Accepted(a) =>
            /\ \E i \in DOMAIN port : port[i] = Pill
            /\ \A i \in DOMAIN port : port[i] = Pill => k < i
PillsFit == PillCount /\ Fifo

\* The connections admitted behind the back of Shutdown.
Open == {s \in Sockets : socket[s] = "open"}
LateFit ==
    phase \in {"closing", "waiting", "down"} =>
        /\ IsFiniteSet(Open)
        /\ Cardinality(Open) + Cardinality(Admitting) <= Cardinality(Workers)

\* The port of Startup is the only one: m_hIOCP names it, no worker waits on
\* another, and the sockets that have a receive are associated with it.
Kept ==
    /\ Len(ports) = 1 /\ m_hIOCP = (IF phase = "down" THEN NULL ELSE 1)
    /\ \A w \in Workers : inside[w] = NULL
    /\ \A s \in Sockets : recv[s] # "none" => home[s] = 1
    /\ \A w \in Workers : pc[w] \in {"post", "read"} => home[on[w]] = 1
    /\ phase \in {"up", "flagged", "draining"} =>
          \A w \in Workers : /\ Arriving(w) => socket[on[w]] = "open"
                             /\ pc[w] = "store" => home[on[w]] = 1

Always == Types /\ PortsTypes /\ PillBounds /\ RunsFit
Fits == PortType /\ PhasesFit /\ SlotsFit /\ SocketsFit /\ ReadsFit /\ PillsFit /\ LateFit
Inv == Always /\ (~lost => Kept /\ Fits)

-----------------------------------------------------------------------------
(* Packets and the port.                                                   *)

\* No worker holds slot 0, and there are finitely many workers.
LEMMA SlotsFact == NoSlot \notin Slots /\ Cardinality(Workers) \in Nat /\ Cardinality(Workers) > 0
<1>1. Cardinality(Workers) \in Nat /\ Cardinality(Workers) # 0
  BY LifecycleAssumption, FS_CardinalityType, FS_EmptySet
<1> QED  BY <1>1 DEF NoSlot, Slots

\* Packets differ in kind, and those of one kind in what they are about.
LEMMA PacketFacts ==
    /\ Pill.kind = "pill"
    /\ \A a : Accepted(a).kind = "accept" /\ Accepted(a).slot = a
    /\ \A s : Received(s).kind = "read" /\ Received(s).socket = s
BY DEF Pill, Accepted, Received

\* No two packets are the same.
LEMMA PacketsDiffer ==
    /\ \A a : Accepted(a) # Pill
    /\ \A s : Received(s) # Pill
    /\ \A a, s : Accepted(a) # Received(s)
    /\ \A a, b : Accepted(a) = Accepted(b) => a = b
    /\ \A s, r : Received(s) = Received(r) => s = r
<1>1. /\ \A a : Accepted(a) # Pill
      /\ \A s : Received(s) # Pill
      /\ \A a, s : Accepted(a) # Received(s)
  BY PacketFacts
<1>2. \A a, b : Accepted(a) = Accepted(b) => a = b
  BY PacketFacts
<1>3. \A s, r : Received(s) = Received(r) => s = r
  BY PacketFacts
<1> QED  BY <1>1, <1>2, <1>3

\* What a worker finds at the head of the port.
LEMMA HeadFacts ==
    ASSUME PortType, port # <<>>
    PROVE  /\ Head(port) \in Packet /\ Tail(port) \in Seq(Packet)
           /\ Head(port).kind = "pill" => Head(port) = Pill
           /\ Head(port).kind = "accept" =>
                 Head(port).slot \in Slots /\ Head(port) = Accepted(Head(port).slot)
           /\ Head(port).kind = "read" =>
                 Head(port).socket \in Sockets /\ Head(port) = Received(Head(port).socket)
<1>1. Head(port) \in Packet /\ Tail(port) \in Seq(Packet)
  BY DEF PortType
<1>2. CASE Head(port) = Pill
  BY <1>1, <1>2, PacketFacts
<1>3. CASE \E a \in Slots : Head(port) = Accepted(a)
  BY <1>1, <1>3, PacketFacts
<1>4. CASE \E s \in Sockets : Head(port) = Received(s)
  BY <1>1, <1>4, PacketFacts
<1> QED  BY <1>1, <1>2, <1>3, <1>4 DEF Packet

\* The packets of a kind can be counted.
LEMMA Counted ==
    ASSUME PortType
    PROVE  \A p : /\ IsFiniteSet(PacketsOf(p)) /\ Number(p) \in Nat
                  /\ Number(p) = 0 <=> PacketsOf(p) = {}
<1>1. IsFiniteSet(DOMAIN port)
  BY FS_Interval DEF PortType
<1> SUFFICES ASSUME NEW p
             PROVE  /\ IsFiniteSet(PacketsOf(p)) /\ Number(p) \in Nat
                    /\ Number(p) = 0 <=> PacketsOf(p) = {}
  OBVIOUS
<1>2. PacketsOf(p) \in SUBSET DOMAIN port
  BY DEF PacketsOf
<1>3. IsFiniteSet(PacketsOf(p))
  BY <1>1, <1>2, FS_Subset
<1> QED  BY <1>3, FS_CardinalityType, FS_EmptySet DEF Number

\* A packet is queued behind the others.
LEMMA PacketQueued ==
    ASSUME PortType, NEW e \in Packet, port' = Append(port, e)
    PROVE  /\ PortType'
           /\ \A p : Number(p)' = Number(p) + (IF p = e THEN 1 ELSE 0)
           /\ \A i \in DOMAIN port : i \in DOMAIN port' /\ port'[i] = port[i]
           /\ \A i \in DOMAIN port' : i \in DOMAIN port \/ port'[i] = e
           /\ \E k \in DOMAIN port' : /\ port'[k] = e /\ \A i \in DOMAIN port : i < k
                                     /\ \A i \in DOMAIN port' : i = k \/ i \in DOMAIN port
<1>1. /\ PortType' /\ Len(port) \in Nat /\ DOMAIN port = 1..Len(port)
      /\ DOMAIN port' = 1..(Len(port) + 1) /\ port'[Len(port) + 1] = e
      /\ \A i \in DOMAIN port : port'[i] = port[i]
  BY DEF PortType
<1>2. ASSUME NEW p PROVE Number(p)' = Number(p) + (IF p = e THEN 1 ELSE 0)
  <2>1. IsFiniteSet(PacketsOf(p)) /\ Number(p) \in Nat
    BY Counted
  <2>2. CASE p = e
    <3>1. PacketsOf(p)' = PacketsOf(p) \cup {Len(port) + 1}
      BY <1>1, <2>2 DEF PacketsOf
    <3>2. Len(port) + 1 \notin PacketsOf(p)
      BY <1>1 DEF PacketsOf
    <3> QED  BY <2>1, <2>2, <3>1, <3>2, FS_AddElement DEF Number
  <2>3. CASE p # e
    <3>1. PacketsOf(p)' = PacketsOf(p)
      BY <1>1, <2>3 DEF PacketsOf
    <3> QED  BY <2>1, <2>3, <3>1 DEF Number
  <2> QED  BY <2>2, <2>3
<1>3. \E k \in DOMAIN port' : /\ port'[k] = e /\ \A i \in DOMAIN port : i < k
                             /\ \A i \in DOMAIN port' : i = k \/ i \in DOMAIN port
  <2>1. Len(port) + 1 \in DOMAIN port'
    BY <1>1
  <2>2. \A i \in DOMAIN port : i < Len(port) + 1
    BY <1>1
  <2>3. \A i \in DOMAIN port' : i = Len(port) + 1 \/ i \in DOMAIN port
    BY <1>1
  <2> QED  BY <1>1, <2>1, <2>2, <2>3
<1> QED  BY <1>1, <1>2, <1>3

\* A set of numbers moved by one has as many elements.
LEMMA Moved ==
    ASSUME NEW S \in SUBSET Nat, NEW T, IsFiniteSet(S), T = {i - 1 : i \in S}
    PROVE  IsFiniteSet(T) /\ Cardinality(T) = Cardinality(S)
<1> DEFINE f == [i \in S |-> i - 1]
<1>1. /\ f \in [S -> T]
      /\ (\A i, k \in S : f[i] = f[k] => i = k)
      /\ \A t \in T : \E i \in S : f[i] = t
  OBVIOUS
<1>2. f \in Bijection(S, T)
  BY <1>1 DEF Bijection, Injection, Surjection, IsInjective
<1>3. ExistsBijection(S, T)
  BY <1>2 DEF ExistsBijection
<1> QED  BY <1>3, FS_Bijection

\* The first packet is taken.
LEMMA PacketTaken ==
    ASSUME PortType, port # <<>>, port' = Tail(port)
    PROVE  /\ PortType' /\ Number(Head(port)) > 0
           /\ \A p : Number(p)' = Number(p) - (IF p = Head(port) THEN 1 ELSE 0)
           /\ \A i \in DOMAIN port' : i + 1 \in DOMAIN port /\ port'[i] = port[i + 1]
           /\ 1 \in DOMAIN port /\ port[1] = Head(port)
           /\ \A i \in DOMAIN port : i \in Nat /\ i >= 1
           /\ \A i \in DOMAIN port : i # 1 => i - 1 \in DOMAIN port' /\ port'[i - 1] = port[i]
<1>1. /\ PortType' /\ Len(port) \in Nat /\ Len(port) > 0 /\ DOMAIN port = 1..Len(port)
      /\ DOMAIN port' = 1..(Len(port) - 1) /\ port[1] = Head(port)
      /\ \A i \in DOMAIN port' : port'[i] = port[i + 1]
  BY DEF PortType
<1>2. 1 \in PacketsOf(Head(port))
  BY <1>1 DEF PacketsOf
<1>3. Number(Head(port)) > 0
  BY <1>2, Counted
<1>4. ASSUME NEW p PROVE Number(p)' = Number(p) - (IF p = Head(port) THEN 1 ELSE 0)
  <2> DEFINE S == PacketsOf(p) \ {1}
  <2>1. IsFiniteSet(PacketsOf(p)) /\ Number(p) \in Nat
    BY Counted
  <2>2. /\ IsFiniteSet(S)
        /\ Cardinality(S) = Number(p) - (IF p = Head(port) THEN 1 ELSE 0)
    <3>1. 1 \in PacketsOf(p) <=> p = Head(port)
      BY <1>1 DEF PacketsOf
    <3> QED  BY <2>1, <3>1, FS_RemoveElement DEF Number
  <2>3. S \in SUBSET Nat
    BY <1>1 DEF PacketsOf
  <2>4. PacketsOf(p)' = {i - 1 : i \in S}
    <3>1. ASSUME NEW i \in PacketsOf(p)' PROVE i \in {k - 1 : k \in S}
      <4>1. i + 1 \in S /\ i = (i + 1) - 1
        BY <1>1 DEF PacketsOf
      <4> QED  BY <4>1
    <3>2. ASSUME NEW k \in S PROVE k - 1 \in PacketsOf(p)'
      <4>1. k \in 2..Len(port) /\ port[k] = p
        BY <1>1 DEF PacketsOf
      <4>2. k - 1 \in 1..(Len(port) - 1) /\ (k - 1) + 1 = k
        BY <1>1, <4>1
      <4> QED  BY <1>1, <4>1, <4>2 DEF PacketsOf
    <3> QED  BY <3>1, <3>2
  <2> HIDE DEF S
  <2>5. Cardinality(PacketsOf(p)') = Cardinality(S)
    BY <2>2, <2>3, <2>4, Moved
  <2> QED  BY <2>2, <2>5 DEF Number
<1>5. /\ \A i \in DOMAIN port' : i + 1 \in DOMAIN port
      /\ 1 \in DOMAIN port /\ \A i \in DOMAIN port : i \in Nat /\ i >= 1
  BY <1>1
<1>6. ASSUME NEW i \in DOMAIN port, i # 1 PROVE i - 1 \in DOMAIN port' /\ port'[i - 1] = port[i]
  <2>1. i - 1 \in DOMAIN port' /\ (i - 1) + 1 = i
    BY <1>1, <1>6
  <2> QED  BY <1>1, <2>1
<1> QED  BY <1>1, <1>3, <1>4, <1>5, <1>6

\* A port that does not change.
LEMMA SamePort ==
    ASSUME UNCHANGED port
    PROVE  /\ PortType' <=> PortType
           /\ \A p : Number(p)' = Number(p) /\ PacketsOf(p)' = PacketsOf(p)
BY DEF PortType, Number, PacketsOf, Packet

-----------------------------------------------------------------------------
(* The steps of a server that keeps its port.                              *)

view == <<phase, runs, slotVars, port, pills, connVars, workerVars>>

PostPillOnPort ==
    /\ phase = "closing"
    /\ port' = Append(port, Pill)
    /\ pills' = pills + 1
    /\ phase' \in {"closing", "waiting"}
    /\ UNCHANGED <<runs, slotVars, connVars, workerVars>>

EndOnPort ==
    /\ phase = "waiting" /\ AllExited
    /\ port' = <<>> /\ pills' = 0
    /\ recv' = [s \in Sockets |-> "none"]
    /\ phase' = "down"
    /\ UNCHANGED <<runs, slotVars, socket, workerVars>>

CompleteAcceptOnPort(a) ==
    /\ slot[a] = "posted"
    /\ slot' = [slot EXCEPT ![a] = "queued"]
    /\ port' = Append(port, Accepted(a))
    /\ UNCHANGED <<phase, runs, slotSocket, allocated, pills, connVars, workerVars>>

CompleteReadOnPort(s) ==
    /\ recv[s] = "posted"
    /\ recv' = [recv EXCEPT ![s] = "queued"]
    /\ port' = Append(port, Received(s))
    /\ UNCHANGED <<phase, runs, slotVars, pills, socket, workerVars>>

WaitsOnPort(w) == pc[w] = "idle" /\ port # <<>>

TakePillOnPort(w) ==
    /\ WaitsOnPort(w) /\ Head(port).kind = "pill"
    /\ port' = Tail(port)
    /\ Handle(w, "exited", NoSlot, NoSocket)
    /\ UNCHANGED <<phase, runs, slotVars, pills, connVars>>

DropAcceptOnPort(w) ==
    /\ WaitsOnPort(w) /\ Head(port).kind = "accept" /\ phase # "up"
    /\ slot' = [slot EXCEPT ![Head(port).slot] = "idle"]
    /\ port' = Tail(port)
    /\ UNCHANGED <<phase, runs, slotSocket, allocated, pills, connVars, workerVars>>

TakeAcceptOnPort(w) ==
    /\ WaitsOnPort(w) /\ Head(port).kind = "accept" /\ phase = "up"
    /\ slot' = [slot EXCEPT ![Head(port).slot] = "held"]
    /\ Handle(w, "accept", Head(port).slot, NoSocket)
    /\ port' = Tail(port)
    /\ UNCHANGED <<phase, runs, slotSocket, allocated, pills, connVars>>

TakeReadOnPort(w) ==
    /\ WaitsOnPort(w) /\ Head(port).kind = "read"
    /\ recv' = [recv EXCEPT ![Head(port).socket] = "held"]
    /\ port' = Tail(port)
    /\ Handle(w, "read", NoSlot, Head(port).socket)
    /\ UNCHANGED <<phase, runs, slotVars, pills, socket>>

TakeFailedReadOnPort(w) ==
    /\ WaitsOnPort(w) /\ Head(port).kind = "read"
    /\ recv' = [recv EXCEPT ![Head(port).socket] = "none"]
    /\ socket' = [socket EXCEPT ![Head(port).socket] = "deleted"]
    /\ port' = Tail(port)
    /\ UNCHANGED <<phase, runs, slotVars, pills, workerVars>>

\* UpdateCompletionPort and StorePort, which change neither port nor m_hIOCP.
PassOn(w) ==
    /\ pc[w] \in {"update", "store"}
    /\ \E p \in {"store", "post"} : Handle(w, p, NoSlot, on[w])
    /\ UNCHANGED <<phase, runs, slotVars, port, pills, connVars>>

Step ==
    \/ RaiseShutdown /\ UNCHANGED port
    \/ CloseListen /\ UNCHANGED port
    \/ \E a \in Slots : slot[a] # "posted" /\ Free(a) /\ UNCHANGED port
    \/ CloseAll /\ UNCHANGED port
    \/ PostPillOnPort
    \/ EndOnPort
    \/ \E a \in Slots : CompleteAcceptOnPort(a)
    \/ \E s \in Sockets : CompleteReadOnPort(s)
    \/ \E w \in Workers : TakePillOnPort(w)
    \/ \E w \in Workers : DropAcceptOnPort(w)
    \/ \E w \in Workers : TakeAcceptOnPort(w)
    \/ \E w \in Workers : RejectAccept(w) /\ UNCHANGED port
    \/ \E w \in Workers : RepostAccept(w) /\ UNCHANGED port
    \/ \E w \in Workers : PassOn(w)
    \/ \E w \in Workers : AdmitAccept(w) /\ UNCHANGED port
    \/ \E w \in Workers : PostRead(w) /\ UNCHANGED port
    \/ \E w \in Workers : PostReadInvalid(w) /\ UNCHANGED port
    \/ \E w \in Workers : TakeReadOnPort(w)
    \/ \E w \in Workers : TakeFailedReadOnPort(w)
    \/ UNCHANGED view

-----------------------------------------------------------------------------
(* The steps keep it.                                                     *)

\* A NULL packet is queued.
LEMMA PillQueued ==
    ASSUME PortType, PostPillOnPort
    PROVE  /\ PortType' /\ Number(Pill)' = Number(Pill) + 1
           /\ \A p : p # Pill => Number(p)' = Number(p)
<1>1. Pill \in Packet /\ port' = Append(port, Pill)
  BY DEF Packet, PostPillOnPort
<1> QED  BY <1>1, PacketQueued, Counted

\* The port holds packets.
LEMMA PortStep ==
    PortType /\ Step
        => PortType'
<1> SUFFICES ASSUME PortType,
                    Step
             PROVE  PortType'
  OBVIOUS
<1> USE DEF slotVars, connVars, workerVars
<1>1. CASE RaiseShutdown /\ UNCHANGED port
  BY <1>1, SamePort DEF RaiseShutdown
<1>2. CASE CloseListen /\ UNCHANGED port
  BY <1>2, SamePort DEF CloseListen
<1>3. ASSUME NEW a \in Slots, slot[a] # "posted" /\ Free(a) /\ UNCHANGED port PROVE PortType'
  BY <1>3, SamePort DEF Free
<1>4. CASE CloseAll /\ UNCHANGED port
  BY <1>4, SamePort DEF CloseAll
<1>5. CASE PostPillOnPort
  BY <1>5, PillQueued
<1>6. CASE EndOnPort
  <2>1. port' = <<>>
    BY <1>6 DEF EndOnPort
  <2> QED  BY <2>1 DEF PortType
<1>7. ASSUME NEW a \in Slots, CompleteAcceptOnPort(a) PROVE PortType'
  <2>1. Accepted(a) \in Packet /\ port' = Append(port, Accepted(a))
    BY <1>7 DEF CompleteAcceptOnPort, Packet
  <2> QED  BY <2>1, PacketQueued
<1>8. ASSUME NEW s \in Sockets, CompleteReadOnPort(s) PROVE PortType'
  <2>1. Received(s) \in Packet /\ port' = Append(port, Received(s))
    BY <1>8 DEF CompleteReadOnPort, Packet
  <2> QED  BY <2>1, PacketQueued
<1>9. ASSUME NEW w \in Workers, TakePillOnPort(w) PROVE PortType'
  BY <1>9, PacketTaken DEF TakePillOnPort, WaitsOnPort, Handle
<1>10. ASSUME NEW w \in Workers, DropAcceptOnPort(w) PROVE PortType'
  BY <1>10, PacketTaken DEF DropAcceptOnPort, WaitsOnPort
<1>11. ASSUME NEW w \in Workers, TakeAcceptOnPort(w) PROVE PortType'
  BY <1>11, PacketTaken DEF TakeAcceptOnPort, WaitsOnPort, Handle
<1>12. ASSUME NEW w \in Workers, RejectAccept(w) /\ UNCHANGED port PROVE PortType'
  BY <1>12, SamePort DEF RejectAccept, CreateAcceptSocket, Handle, Fresh
<1>13. ASSUME NEW w \in Workers, RepostAccept(w) /\ UNCHANGED port PROVE PortType'
  BY <1>13, SamePort DEF RepostAccept, CreateAcceptSocket, Handle, Fresh
<1>14. ASSUME NEW w \in Workers, PassOn(w) PROVE PortType'
  BY <1>14, SamePort DEF PassOn, Handle
<1>15. ASSUME NEW w \in Workers, AdmitAccept(w) /\ UNCHANGED port PROVE PortType'
  BY <1>15, SamePort DEF AdmitAccept, Handle
<1>16. ASSUME NEW w \in Workers, PostRead(w) /\ UNCHANGED port PROVE PortType'
  BY <1>16, SamePort DEF PostRead, Handle
<1>17. ASSUME NEW w \in Workers, PostReadInvalid(w) /\ UNCHANGED port PROVE PortType'
  BY <1>17, SamePort DEF PostReadInvalid, Handle
<1>18. ASSUME NEW w \in Workers, TakeReadOnPort(w) PROVE PortType'
  BY <1>18, PacketTaken DEF TakeReadOnPort, WaitsOnPort, Handle
<1>19. ASSUME NEW w \in Workers, TakeFailedReadOnPort(w) PROVE PortType'
  BY <1>19, PacketTaken DEF TakeFailedReadOnPort, WaitsOnPort
<1>20. CASE UNCHANGED view
  BY <1>20, SamePort DEF view, workerVars, connVars, slotVars
<1> QED  BY <1>1, <1>2, <1>3, <1>4, <1>5, <1>6, <1>7, <1>8, <1>9, <1>10,
            <1>11, <1>12, <1>13, <1>14, <1>15, <1>16, <1>17, <1>18, <1>19, <1>20 DEF Step

\* The phases of the server.
LEMMA PhasesStep ==
    Types /\ PhasesFit /\ SlotsFit /\ PillsFit /\ PortType /\ Step
        => PhasesFit'
<1> SUFFICES ASSUME Types /\ PhasesFit /\ SlotsFit /\ PillsFit /\ PortType,
                    Step
             PROVE  PhasesFit'
  OBVIOUS
<1> USE DEF Types, PhasesFit, AllExited, slotVars, connVars, workerVars
<1>1. CASE RaiseShutdown /\ UNCHANGED port
  BY <1>1 DEF RaiseShutdown
<1>2. CASE CloseListen /\ UNCHANGED port
  BY <1>2 DEF CloseListen
<1>3. ASSUME NEW a \in Slots, slot[a] # "posted" /\ Free(a) /\ UNCHANGED port PROVE PhasesFit'
  BY <1>3 DEF Free
<1>4. CASE CloseAll /\ UNCHANGED port
  BY <1>4 DEF CloseAll
<1>5. CASE PostPillOnPort
  BY <1>5 DEF PostPillOnPort
<1>6. CASE EndOnPort
  BY <1>6 DEF EndOnPort, AllExited
<1>7. ASSUME NEW a \in Slots, CompleteAcceptOnPort(a) PROVE PhasesFit'
  <2>1. phase # "down"
    BY <1>7 DEF CompleteAcceptOnPort, SlotsFit
  <2> QED  BY <1>7, <2>1 DEF CompleteAcceptOnPort
<1>8. ASSUME NEW s \in Sockets, CompleteReadOnPort(s) PROVE PhasesFit'
  BY <1>8 DEF CompleteReadOnPort
<1>9. ASSUME NEW w \in Workers, TakePillOnPort(w) PROVE PhasesFit'
  <2>1. /\ phase' = phase /\ allocated' = allocated /\ recv' = recv /\ port # <<>>
        /\ pc' = [pc EXCEPT ![w] = "exited"] /\ port' = Tail(port)
        /\ Head(port).kind = "pill"
    BY <1>9 DEF TakePillOnPort, WaitsOnPort, Handle
  <2>2. Head(port) = Pill
    BY <2>1, HeadFacts
  <2>3. Number(Pill) # 0
    BY <2>1, <2>2, PacketTaken, Counted
  <2>4. phase \in {"closing", "waiting"}
    BY <2>3 DEF PillsFit, PillCount
  <2> QED  BY <2>1, <2>4
<1>10. ASSUME NEW w \in Workers, DropAcceptOnPort(w) PROVE PhasesFit'
  BY <1>10 DEF DropAcceptOnPort, WaitsOnPort
<1>11. ASSUME NEW w \in Workers, TakeAcceptOnPort(w) PROVE PhasesFit'
  BY <1>11 DEF TakeAcceptOnPort, WaitsOnPort, Handle
<1>12. ASSUME NEW w \in Workers, RejectAccept(w) /\ UNCHANGED port PROVE PhasesFit'
  BY <1>12 DEF RejectAccept, CreateAcceptSocket, Handle, Fresh
<1>13. ASSUME NEW w \in Workers, RepostAccept(w) /\ UNCHANGED port PROVE PhasesFit'
  BY <1>13 DEF RepostAccept, CreateAcceptSocket, Handle, Fresh
<1>14. ASSUME NEW w \in Workers, PassOn(w) PROVE PhasesFit'
  BY <1>14 DEF PassOn, Handle
<1>15. ASSUME NEW w \in Workers, AdmitAccept(w) /\ UNCHANGED port PROVE PhasesFit'
  BY <1>15 DEF AdmitAccept, Handle
<1>16. ASSUME NEW w \in Workers, PostRead(w) /\ UNCHANGED port PROVE PhasesFit'
  BY <1>16 DEF PostRead, Handle
<1>17. ASSUME NEW w \in Workers, PostReadInvalid(w) /\ UNCHANGED port PROVE PhasesFit'
  BY <1>17 DEF PostReadInvalid, Handle
<1>18. ASSUME NEW w \in Workers, TakeReadOnPort(w) PROVE PhasesFit'
  BY <1>18 DEF TakeReadOnPort, WaitsOnPort, Handle
<1>19. ASSUME NEW w \in Workers, TakeFailedReadOnPort(w) PROVE PhasesFit'
  BY <1>19 DEF TakeFailedReadOnPort, WaitsOnPort
<1>20. CASE UNCHANGED view
  BY <1>20 DEF view, workerVars, connVars, slotVars
<1> QED  BY <1>1, <1>2, <1>3, <1>4, <1>5, <1>6, <1>7, <1>8, <1>9, <1>10,
            <1>11, <1>12, <1>13, <1>14, <1>15, <1>16, <1>17, <1>18, <1>19, <1>20 DEF Step

\* A worker takes an accept completion.
LEMMA AcceptTaken ==
    ASSUME Types, PortType, SlotsFit, port # <<>>, port' = Tail(port),
           Head(port).kind = "accept"
    PROVE  /\ Head(port).slot \in Slots /\ slot[Head(port).slot] = "queued"
           /\ \A b \in Slots : Number(Accepted(b))' =
                 IF b = Head(port).slot THEN 0 ELSE Number(Accepted(b))
<1> DEFINE a == Head(port).slot
<1>1. a \in Slots /\ Head(port) = Accepted(a)
  BY HeadFacts
<1>2. /\ Number(Accepted(a)) > 0
      /\ \A p : Number(p)' = Number(p) - (IF p = Accepted(a) THEN 1 ELSE 0)
  BY <1>1, PacketTaken
<1>3. slot[a] = "queued" /\ Number(Accepted(a)) = 1
  BY <1>1, <1>2 DEF SlotsFit
<1>4. \A b \in Slots : Number(Accepted(b)) \in Nat
  BY Counted
<1>5. \A b \in Slots : Accepted(b) = Accepted(a) <=> b = a
  BY <1>1, PacketsDiffer
<1> QED  BY <1>1, <1>2, <1>3, <1>4, <1>5

\* A worker takes another packet.
LEMMA OtherTaken ==
    ASSUME PortType, port # <<>>, port' = Tail(port), Head(port).kind # "accept"
    PROVE  \A b \in Slots : Number(Accepted(b))' = Number(Accepted(b))
<1>1. \A b \in Slots : Accepted(b) # Head(port) /\ Number(Accepted(b)) \in Nat
  BY PacketFacts, Counted
<1> QED  BY <1>1, PacketTaken

\* When the last thread has returned, no accept context is in use.
LEMMA IdleAtEnd ==
    ASSUME Types, PillBounds, PortType, PhasesFit, SlotsFit, PillsFit,
           phase = "waiting", AllExited
    PROVE  \A a \in Slots : slot[a] = "idle"
<1> SUFFICES ASSUME NEW a \in Slots PROVE slot[a] = "idle"
  OBVIOUS
<1>1. Exited = Workers /\ pills = Cardinality(Workers)
  BY DEF AllExited, Exited, PillBounds
<1>2. Number(Pill) = 0 /\ pills > 0
  BY <1>1, SlotsFact DEF PillsFit, PillCount
<1>3. PacketsOf(Pill) = {}
  BY <1>2, Counted
<1>4. PacketsOf(Accepted(a)) = {}
  BY <1>2, <1>3 DEF PillsFit, Fifo, PacketsOf
<1>5. slot[a] # "queued"
  BY <1>4, Counted DEF SlotsFit
<1>6. slot[a] # "posted"
  BY DEF SlotsFit, PhasesFit
<1>7. slot[a] # "held"
  <2>1. \A w \in Workers : at[w] = NoSlot
    BY DEF AllExited, Types
  <2> QED  BY <2>1, SlotsFact DEF SlotsFit
<1> QED  BY <1>5, <1>6, <1>7 DEF Types, SlotStates

\* An empty port has no packet.
LEMMA EmptyPort ==
    port = <<>> => \A p : PacketsOf(p) = {} /\ Number(p) = 0
BY FS_EmptySet DEF PacketsOf, Number

\* Accept contexts stay in one place.
LEMMA SlotsStep ==
    Types /\ PillBounds /\ PortType /\ PhasesFit /\ SlotsFit /\ PillsFit /\ Step
        => SlotsFit'
<1> SUFFICES ASSUME Types /\ PillBounds /\ PortType /\ PhasesFit /\ SlotsFit /\ PillsFit,
                    Step
             PROVE  SlotsFit'
  OBVIOUS
<1> USE DEF Types, SlotsFit, slotVars, connVars, workerVars
<1>s. NoSlot \notin Slots
  BY SlotsFact
<1>h. NoSocket \notin Sockets
  BY LifecycleAssumption
<1>1. CASE RaiseShutdown /\ UNCHANGED port
  BY <1>1, <1>s, SamePort DEF RaiseShutdown
<1>2. CASE CloseListen /\ UNCHANGED port
  BY <1>2, <1>s, SamePort DEF CloseListen
<1>3. ASSUME NEW a \in Slots, slot[a] # "posted" /\ Free(a) /\ UNCHANGED port PROVE SlotsFit'
  BY <1>3, <1>s, SamePort DEF Free
<1>4. CASE CloseAll /\ UNCHANGED port
  BY <1>4, <1>s, SamePort DEF CloseAll
<1>5. CASE PostPillOnPort
  <2>2. \A b \in Slots : Number(Accepted(b))' = Number(Accepted(b))
    BY <1>5, PillQueued, PacketsDiffer
  <2> QED  BY <1>5, <2>2, <1>s DEF PostPillOnPort
<1>6. CASE EndOnPort
  <2>1. port' = <<>> /\ phase = "waiting" /\ AllExited
    BY <1>6 DEF EndOnPort
  <2>2. \A b \in Slots : Number(Accepted(b))' = 0
    BY <2>1, FS_EmptySet DEF Number, PacketsOf
  <2>3. \A b \in Slots : slot[b] = "idle"
    BY <2>1, IdleAtEnd
  <2> QED  BY <1>6, <2>2, <2>3, <1>s DEF EndOnPort
<1>7. ASSUME NEW a \in Slots, CompleteAcceptOnPort(a) PROVE SlotsFit'
  <2>1. Accepted(a) \in Packet /\ port' = Append(port, Accepted(a)) /\ slot[a] = "posted"
    BY <1>7 DEF CompleteAcceptOnPort, Packet
  <2>2. \A b \in Slots : Number(Accepted(b))' = Number(Accepted(b)) + IF b = a THEN 1 ELSE 0
    BY <2>1, PacketQueued, PacketsDiffer
  <2>3. Number(Accepted(a)) = 0 /\ \A b \in Slots : Number(Accepted(b)) \in Nat
    BY <2>1, Counted
  <2> QED  BY <1>7, <2>2, <2>3, <1>s DEF CompleteAcceptOnPort
<1>8. ASSUME NEW s \in Sockets, CompleteReadOnPort(s) PROVE SlotsFit'
  <2>1. Received(s) \in Packet /\ port' = Append(port, Received(s))
    BY <1>8 DEF CompleteReadOnPort, Packet
  <2>2. \A b \in Slots : Number(Accepted(b))' = Number(Accepted(b))
    BY <2>1, PacketQueued, PacketsDiffer, Counted
  <2> QED  BY <1>8, <2>2, <1>s DEF CompleteReadOnPort
<1>9. ASSUME NEW w \in Workers, TakePillOnPort(w) PROVE SlotsFit'
  <2>1. /\ port # <<>> /\ port' = Tail(port) /\ Head(port).kind # "accept"
        /\ allocated' = allocated
    BY <1>9 DEF TakePillOnPort, WaitsOnPort, Handle, slotVars, workerVars
  <2>2. \A b \in Slots : Number(Accepted(b))' = Number(Accepted(b))
    BY <2>1, OtherTaken
  <2> QED  BY <1>9, <2>1, <2>2, <1>s DEF TakePillOnPort, WaitsOnPort, Handle, slotVars, workerVars
<1>10. ASSUME NEW w \in Workers, DropAcceptOnPort(w) PROVE SlotsFit'
  <2>1. /\ port # <<>> /\ port' = Tail(port) /\ Head(port).kind = "accept"
        /\ allocated' = allocated
    BY <1>10 DEF DropAcceptOnPort, WaitsOnPort, slotVars, workerVars
  <2>2. /\ Head(port).slot \in Slots /\ slot[Head(port).slot] = "queued"
        /\ \A b \in Slots : Number(Accepted(b))' =
                 IF b = Head(port).slot THEN 0 ELSE Number(Accepted(b))
    BY <2>1, AcceptTaken
  <2> QED  BY <1>10, <2>1, <2>2, <1>s DEF DropAcceptOnPort, WaitsOnPort, slotVars, workerVars
<1>11. ASSUME NEW w \in Workers, TakeAcceptOnPort(w) PROVE SlotsFit'
  <2>1. /\ port # <<>> /\ port' = Tail(port) /\ Head(port).kind = "accept"
        /\ allocated' = allocated
    BY <1>11 DEF TakeAcceptOnPort, WaitsOnPort, Handle, slotVars, workerVars
  <2>2. /\ Head(port).slot \in Slots /\ slot[Head(port).slot] = "queued"
        /\ \A b \in Slots : Number(Accepted(b))' =
                 IF b = Head(port).slot THEN 0 ELSE Number(Accepted(b))
    BY <2>1, AcceptTaken
  <2> QED  BY <1>11, <2>1, <2>2, <1>s DEF TakeAcceptOnPort, WaitsOnPort, Handle, slotVars, workerVars
<1>12. ASSUME NEW w \in Workers, RejectAccept(w) /\ UNCHANGED port PROVE SlotsFit'
  BY <1>12, <1>s, SamePort DEF RejectAccept, CreateAcceptSocket, Handle, Fresh
<1>13. ASSUME NEW w \in Workers, RepostAccept(w) /\ UNCHANGED port PROVE SlotsFit'
  BY <1>13, <1>s, SamePort DEF RepostAccept, CreateAcceptSocket, Handle, Fresh
<1>14. ASSUME NEW w \in Workers, PassOn(w) PROVE SlotsFit'
  BY <1>14, <1>s, SamePort DEF PassOn, Handle
<1>15. ASSUME NEW w \in Workers, AdmitAccept(w) /\ UNCHANGED port PROVE SlotsFit'
  BY <1>15, <1>s, SamePort DEF AdmitAccept, Handle
<1>16. ASSUME NEW w \in Workers, PostRead(w) /\ UNCHANGED port PROVE SlotsFit'
  BY <1>16, <1>s, SamePort DEF PostRead, Handle
<1>17. ASSUME NEW w \in Workers, PostReadInvalid(w) /\ UNCHANGED port PROVE SlotsFit'
  BY <1>17, <1>s, SamePort DEF PostReadInvalid, Handle
<1>18. ASSUME NEW w \in Workers, TakeReadOnPort(w) PROVE SlotsFit'
  <2>1. /\ port # <<>> /\ port' = Tail(port) /\ Head(port).kind # "accept"
        /\ allocated' = allocated
    BY <1>18 DEF TakeReadOnPort, WaitsOnPort, Handle, slotVars, workerVars
  <2>2. \A b \in Slots : Number(Accepted(b))' = Number(Accepted(b))
    BY <2>1, OtherTaken
  <2> QED  BY <1>18, <2>1, <2>2, <1>s DEF TakeReadOnPort, WaitsOnPort, Handle, slotVars, workerVars
<1>19. ASSUME NEW w \in Workers, TakeFailedReadOnPort(w) PROVE SlotsFit'
  <2>1. /\ port # <<>> /\ port' = Tail(port) /\ Head(port).kind # "accept"
        /\ allocated' = allocated
    BY <1>19 DEF TakeFailedReadOnPort, WaitsOnPort, slotVars, workerVars
  <2>2. \A b \in Slots : Number(Accepted(b))' = Number(Accepted(b))
    BY <2>1, OtherTaken
  <2> QED  BY <1>19, <2>1, <2>2, <1>s DEF TakeFailedReadOnPort, WaitsOnPort, slotVars, workerVars
<1>20. CASE UNCHANGED view
  BY <1>20, <1>s, SamePort DEF view, workerVars, connVars, slotVars
<1> QED  BY <1>1, <1>2, <1>3, <1>4, <1>5, <1>6, <1>7, <1>8, <1>9, <1>10,
            <1>11, <1>12, <1>13, <1>14, <1>15, <1>16, <1>17, <1>18, <1>19, <1>20 DEF Step

\* The head of the port is its first packet.
LEMMA HeadFirst ==
    ASSUME PortType, port # <<>>
    PROVE  1 \in DOMAIN port /\ port[1] = Head(port)
BY DEF PortType

\* Sockets have one owner, and receives a context.
LEMMA SocketsStep ==
    Types /\ PortType /\ PhasesFit /\ SlotsFit /\ SocketsFit /\ ReadsFit /\ Step
        => SocketsFit'
<1> SUFFICES ASSUME Types /\ PortType /\ PhasesFit /\ SlotsFit /\ SocketsFit /\ ReadsFit,
                    Step
             PROVE  SocketsFit'
  OBVIOUS
<1> USE DEF Types, SocketsFit, HasContext, slotVars, connVars, workerVars
<1>s. NoSlot \notin Slots
  BY SlotsFact
<1>h. NoSocket \notin Sockets
  BY LifecycleAssumption
<1>1. CASE RaiseShutdown /\ UNCHANGED port
  BY <1>1, <1>s, <1>h DEF RaiseShutdown
<1>2. CASE CloseListen /\ UNCHANGED port
  BY <1>2, <1>s, <1>h DEF CloseListen
<1>3. ASSUME NEW a \in Slots, slot[a] # "posted" /\ Free(a) /\ UNCHANGED port PROVE SocketsFit'
  BY <1>3, <1>s, <1>h DEF Free
<1>4. CASE CloseAll /\ UNCHANGED port
  BY <1>4, <1>s, <1>h DEF CloseAll
<1>5. CASE PostPillOnPort
  BY <1>5, <1>s, <1>h DEF PostPillOnPort
<1>6. CASE EndOnPort
  BY <1>6, <1>s, <1>h DEF EndOnPort, AllExited
<1>7. ASSUME NEW a \in Slots, CompleteAcceptOnPort(a) PROVE SocketsFit'
  BY <1>7, <1>s, <1>h DEF CompleteAcceptOnPort
<1>8. ASSUME NEW s \in Sockets, CompleteReadOnPort(s) PROVE SocketsFit'
  BY <1>8, <1>s, <1>h DEF CompleteReadOnPort
<1>9. ASSUME NEW w \in Workers, TakePillOnPort(w) PROVE SocketsFit'
  BY <1>9, <1>s, <1>h DEF TakePillOnPort, WaitsOnPort, Handle
<1>10. ASSUME NEW w \in Workers, DropAcceptOnPort(w) PROVE SocketsFit'
  <2>1. port # <<>> /\ port' = Tail(port) /\ Head(port).kind = "accept"
    BY <1>10 DEF DropAcceptOnPort, WaitsOnPort
  <2>2. Head(port).slot \in Slots /\ slot[Head(port).slot] = "queued"
    BY <2>1, AcceptTaken
  <2> QED  BY <1>10, <2>2, <1>s, <1>h DEF DropAcceptOnPort, WaitsOnPort, HasContext
<1>11. ASSUME NEW w \in Workers, TakeAcceptOnPort(w) PROVE SocketsFit'
  <2>1. port # <<>> /\ port' = Tail(port) /\ Head(port).kind = "accept"
    BY <1>11 DEF TakeAcceptOnPort, WaitsOnPort, Handle
  <2>2. Head(port).slot \in Slots /\ slot[Head(port).slot] = "queued"
    BY <2>1, AcceptTaken
  <2> QED  BY <1>11, <2>2, <1>s, <1>h DEF TakeAcceptOnPort, WaitsOnPort, Handle, HasContext
<1>12. ASSUME NEW w \in Workers, RejectAccept(w) /\ UNCHANGED port PROVE SocketsFit'
  BY <1>12, <1>s, <1>h DEF RejectAccept, CreateAcceptSocket, Handle, Fresh
<1>13. ASSUME NEW w \in Workers, RepostAccept(w) /\ UNCHANGED port PROVE SocketsFit'
  <2> DEFINE a == at[w]
             t == slotSocket[a]
  <2>1. /\ a \in Slots /\ a \in allocated /\ slot[a] = "held" /\ t # NoSocket
        /\ t \in Sockets /\ socket[t] = "prepared"
        /\ \A v \in Workers : pc[v] = "admit" => on[v] # t
    BY <1>13, <1>s DEF RepostAccept, SlotsFit
  <2>2. /\ pc' = [pc EXCEPT ![w] = "admit"] /\ on' = [on EXCEPT ![w] = t]
        /\ UNCHANGED <<phase, allocated, recv>>
    BY <1>13 DEF RepostAccept, Handle
  <2>3. CASE \E s \in Fresh : /\ slot' = [slot EXCEPT ![a] = "posted"]
                              /\ slotSocket' = [slotSocket EXCEPT ![a] = s]
                              /\ socket' = [socket EXCEPT ![s] = "prepared"]
    <3> PICK s \in Fresh : /\ slot' = [slot EXCEPT ![a] = "posted"]
                          /\ slotSocket' = [slotSocket EXCEPT ![a] = s]
                          /\ socket' = [socket EXCEPT ![s] = "prepared"]
      BY <2>3
    <3>1. s \in Sockets /\ socket[s] = "fresh" /\ s # NoSocket /\ s # t
      BY <2>1, <1>h DEF Fresh
    <3> HIDE DEF a, t
    <3>2. /\ \A b \in Slots : slotSocket'[b] # t
          /\ \A b, c \in Slots : slotSocket'[b] = slotSocket'[c]
                 => b = c \/ slotSocket'[b] = NoSocket
      BY <2>1, <3>1 DEF t
    <3>3. \A v \in Workers : v # w => pc'[v] = pc[v] /\ on'[v] = on[v]
      BY <2>2
    <3>4. \A v \in Workers : v # w /\ pc[v] = "admit" => on[v] # s /\ on[v] # t
      BY <2>1, <3>1
    <3> QED  BY <2>1, <2>2, <3>1, <3>2, <3>3, <3>4, <1>h
  <2>4. CASE /\ slot' = [slot EXCEPT ![a] = "idle"]
             /\ slotSocket' = [slotSocket EXCEPT ![a] = NoSocket] /\ socket' = socket
    <3> HIDE DEF a, t
    <3>2. \A b \in Slots : slotSocket'[b] # t
      BY <2>1, <2>4 DEF t
    <3> QED  BY <2>1, <2>2, <2>4, <3>2, <1>h
  <2> QED  BY <1>13, <2>3, <2>4 DEF RepostAccept, CreateAcceptSocket
<1>14. ASSUME NEW w \in Workers, PassOn(w) PROVE SocketsFit'
  BY <1>14, <1>s, <1>h DEF PassOn, Handle
<1>15. ASSUME NEW w \in Workers, AdmitAccept(w) /\ UNCHANGED port PROVE SocketsFit'
  BY <1>15, <1>s, <1>h DEF AdmitAccept, Handle
<1>16. ASSUME NEW w \in Workers, PostRead(w) /\ UNCHANGED port PROVE SocketsFit'
  BY <1>16, <1>s, <1>h DEF PostRead, Handle
<1>17. ASSUME NEW w \in Workers, PostReadInvalid(w) /\ UNCHANGED port PROVE SocketsFit'
  BY <1>17, <1>s, <1>h DEF PostReadInvalid, Handle
<1>18. ASSUME NEW w \in Workers, TakeReadOnPort(w) PROVE SocketsFit'
  BY <1>18, <1>s, <1>h DEF TakeReadOnPort, WaitsOnPort, Handle
<1>19. ASSUME NEW w \in Workers, TakeFailedReadOnPort(w) PROVE SocketsFit'
  <2>1. port # <<>> /\ Head(port).kind = "read"
    BY <1>19 DEF TakeFailedReadOnPort, WaitsOnPort
  <2>2. Head(port).socket \in Sockets /\ Number(Received(Head(port).socket)) > 0
    <3>1. /\ Head(port).socket \in Sockets /\ 1 \in DOMAIN port
          /\ port[1] = Received(Head(port).socket)
      BY <2>1, HeadFacts, HeadFirst
    <3>2. PacketsOf(Received(Head(port).socket)) # {}
      BY <3>1 DEF PacketsOf
    <3> QED  BY <3>1, <3>2, Counted
  <2>3. HasContext(Head(port).socket)
    BY <2>2 DEF ReadsFit
  <2> QED  BY <1>19, <2>2, <2>3, <1>s, <1>h DEF TakeFailedReadOnPort, WaitsOnPort, HasContext
<1>20. CASE UNCHANGED view
  BY <1>20, <1>s, <1>h DEF view, workerVars, connVars, slotVars
<1> QED  BY <1>1, <1>2, <1>3, <1>4, <1>5, <1>6, <1>7, <1>8, <1>9, <1>10,
            <1>11, <1>12, <1>13, <1>14, <1>15, <1>16, <1>17, <1>18, <1>19, <1>20 DEF Step

\* A worker takes a packet that is not NULL.
LEMMA NoPillTaken ==
    ASSUME PortType, port # <<>>, port' = Tail(port), Head(port).kind # "pill"
    PROVE  Number(Pill)' = Number(Pill)
<1>1. Pill # Head(port) /\ Number(Pill) \in Nat
  BY PacketFacts, Counted
<1> QED  BY <1>1, PacketTaken

\* Of the NULL packets posted, those no thread has taken are in the port.
LEMMA PillCountStep ==
    Types /\ PillBounds /\ PortType /\ PhasesFit /\ SlotsFit /\ PillCount /\ Step
        => PillCount'
<1> SUFFICES ASSUME Types /\ PillBounds /\ PortType /\ PhasesFit /\ SlotsFit /\ PillCount,
                    Step
             PROVE  PillCount'
  OBVIOUS
<1> USE DEF Types, PillCount, slotVars, connVars, workerVars
<1>1. CASE RaiseShutdown /\ UNCHANGED port
  BY <1>1, SamePort DEF RaiseShutdown, Exited
<1>2. CASE CloseListen /\ UNCHANGED port
  BY <1>2, SamePort DEF CloseListen
<1>3. ASSUME NEW a \in Slots, slot[a] # "posted" /\ Free(a) /\ UNCHANGED port PROVE PillCount'
  BY <1>3, SamePort DEF Free
<1>4. CASE CloseAll /\ UNCHANGED port
  <2>1. /\ phase = "draining" /\ phase' = "closing" /\ port' = port
        /\ UNCHANGED <<pills, pc>>
    BY <1>4 DEF CloseAll
  <2>2. Exited' = {} /\ pills = 0 /\ Number(Pill) = 0
    BY <2>1 DEF PhasesFit, Exited, PillBounds
  <2> QED  BY <2>1, <2>2, SamePort, FS_EmptySet
<1>5. CASE PostPillOnPort
  <2>1. /\ phase = "closing" /\ phase' \in {"closing", "waiting"} /\ pc' = pc
        /\ pills' = pills + 1
    BY <1>5 DEF PostPillOnPort
  <2>2. Number(Pill)' = Number(Pill) + 1
    BY <1>5, PillQueued
  <2>3. Exited' = Exited /\ Number(Pill) = pills - Cardinality(Exited)
    BY <2>1 DEF Exited
  <2>4. Cardinality(Exited) \in Nat /\ pills \in Nat
    BY LifecycleAssumption, FS_Subset, FS_CardinalityType, SlotsFact DEF Exited, PillBounds
  <2>5. Number(Pill)' = pills' - Cardinality(Exited)
    BY <2>1, <2>2, <2>3, <2>4
  <2> QED  BY <2>1, <2>3, <2>5
<1>6. CASE EndOnPort
  <2>1. port' = <<>> /\ phase' = "down"
    BY <1>6 DEF EndOnPort
  <2> QED  BY <2>1, FS_EmptySet DEF Number, PacketsOf
<1>7. ASSUME NEW a \in Slots, CompleteAcceptOnPort(a) PROVE PillCount'
  <2>1. Accepted(a) \in Packet /\ port' = Append(port, Accepted(a)) /\ phase' = phase /\ pc' = pc /\ pills' = pills
    BY <1>7 DEF CompleteAcceptOnPort, Packet, workerVars
  <2>2. Number(Pill)' = Number(Pill)
    BY <2>1, PacketQueued, PacketsDiffer, Counted
  <2> QED  BY <2>1, <2>2 DEF Exited
<1>8. ASSUME NEW s \in Sockets, CompleteReadOnPort(s) PROVE PillCount'
  <2>1. Received(s) \in Packet /\ port' = Append(port, Received(s)) /\ phase' = phase /\ pc' = pc /\ pills' = pills
    BY <1>8 DEF CompleteReadOnPort, Packet, workerVars
  <2>2. Number(Pill)' = Number(Pill)
    BY <2>1, PacketQueued, PacketsDiffer, Counted
  <2> QED  BY <2>1, <2>2 DEF Exited
<1>9. ASSUME NEW w \in Workers, TakePillOnPort(w) PROVE PillCount'
  <2>1. /\ port # <<>> /\ port' = Tail(port) /\ phase' = phase /\ Head(port).kind = "pill"
        /\ pc[w] = "idle" /\ pc' = [pc EXCEPT ![w] = "exited"] /\ pills' = pills
    BY <1>9 DEF TakePillOnPort, WaitsOnPort, Handle
  <2>2. Number(Pill)' = Number(Pill) - 1 /\ Number(Pill) > 0
    BY <2>1, HeadFacts, PacketTaken, Counted
  <2>3. phase \in {"closing", "waiting"} /\ Number(Pill) = pills - Cardinality(Exited)
    BY <2>2
  <2>4. Exited' = Exited \cup {w} /\ w \notin Exited
    BY <2>1 DEF Exited
  <2>5. IsFiniteSet(Exited) /\ Cardinality(Exited) \in Nat /\ pills \in Nat
    BY LifecycleAssumption, FS_Subset, FS_CardinalityType, SlotsFact DEF Exited, PillBounds
  <2>6. Cardinality(Exited') = Cardinality(Exited) + 1
    BY <2>4, <2>5, FS_AddElement
  <2>7. Number(Pill)' = pills' - Cardinality(Exited')
    BY <2>1, <2>2, <2>3, <2>5, <2>6
  <2> QED  BY <2>1, <2>3, <2>7
<1>10. ASSUME NEW w \in Workers, DropAcceptOnPort(w) PROVE PillCount'
  <2>1. /\ port # <<>> /\ port' = Tail(port) /\ phase' = phase /\ pills' = pills /\ Head(port).kind # "pill"
        /\ pc[w] = "idle" /\ \A v \in Workers : pc'[v] = "exited" <=> pc[v] = "exited"
    BY <1>10 DEF DropAcceptOnPort, WaitsOnPort, workerVars
  <2>2. Number(Pill)' = Number(Pill)
    BY <2>1, NoPillTaken
  <2>3. Exited' = Exited
    BY <2>1 DEF Exited
  <2> QED  BY <2>1, <2>2, <2>3
<1>11. ASSUME NEW w \in Workers, TakeAcceptOnPort(w) PROVE PillCount'
  <2>1. /\ port # <<>> /\ port' = Tail(port) /\ phase' = phase /\ pills' = pills /\ Head(port).kind # "pill"
        /\ pc[w] = "idle" /\ \A v \in Workers : pc'[v] = "exited" <=> pc[v] = "exited"
    BY <1>11 DEF TakeAcceptOnPort, WaitsOnPort, Handle, workerVars
  <2>2. Number(Pill)' = Number(Pill)
    BY <2>1, NoPillTaken
  <2>3. Exited' = Exited
    BY <2>1 DEF Exited
  <2> QED  BY <2>1, <2>2, <2>3
<1>12. ASSUME NEW w \in Workers, RejectAccept(w) /\ UNCHANGED port PROVE PillCount'
  <2>1. /\ port' = port /\ phase' = phase /\ pills' = pills
        /\ \A v \in Workers : pc'[v] = "exited" <=> pc[v] = "exited"
    BY <1>12 DEF RejectAccept, CreateAcceptSocket, Handle, Fresh, workerVars
  <2>2. Exited' = Exited
    BY <2>1 DEF Exited
  <2> QED  BY <2>1, <2>2, SamePort
<1>13. ASSUME NEW w \in Workers, RepostAccept(w) /\ UNCHANGED port PROVE PillCount'
  <2>1. /\ port' = port /\ phase' = phase /\ pills' = pills
        /\ \A v \in Workers : pc'[v] = "exited" <=> pc[v] = "exited"
    BY <1>13 DEF RepostAccept, CreateAcceptSocket, Handle, Fresh, workerVars
  <2>2. Exited' = Exited
    BY <2>1 DEF Exited
  <2> QED  BY <2>1, <2>2, SamePort
<1>14. ASSUME NEW w \in Workers, PassOn(w) PROVE PillCount'
  <2>1. /\ port' = port /\ phase' = phase /\ pills' = pills
        /\ \A v \in Workers : pc'[v] = "exited" <=> pc[v] = "exited"
    BY <1>14 DEF PassOn, Handle, workerVars
  <2>2. Exited' = Exited
    BY <2>1 DEF Exited
  <2> QED  BY <2>1, <2>2, SamePort
<1>15. ASSUME NEW w \in Workers, AdmitAccept(w) /\ UNCHANGED port PROVE PillCount'
  <2>1. /\ port' = port /\ phase' = phase /\ pills' = pills
        /\ \A v \in Workers : pc'[v] = "exited" <=> pc[v] = "exited"
    BY <1>15 DEF AdmitAccept, Handle, workerVars
  <2>2. Exited' = Exited
    BY <2>1 DEF Exited
  <2> QED  BY <2>1, <2>2, SamePort
<1>16. ASSUME NEW w \in Workers, PostRead(w) /\ UNCHANGED port PROVE PillCount'
  <2>1. /\ port' = port /\ phase' = phase /\ pills' = pills
        /\ \A v \in Workers : pc'[v] = "exited" <=> pc[v] = "exited"
    BY <1>16 DEF PostRead, Handle, workerVars
  <2>2. Exited' = Exited
    BY <2>1 DEF Exited
  <2> QED  BY <2>1, <2>2, SamePort
<1>17. ASSUME NEW w \in Workers, PostReadInvalid(w) /\ UNCHANGED port PROVE PillCount'
  <2>1. /\ port' = port /\ phase' = phase /\ pills' = pills
        /\ \A v \in Workers : pc'[v] = "exited" <=> pc[v] = "exited"
    BY <1>17 DEF PostReadInvalid, Handle, workerVars
  <2>2. Exited' = Exited
    BY <2>1 DEF Exited
  <2> QED  BY <2>1, <2>2, SamePort
<1>18. ASSUME NEW w \in Workers, TakeReadOnPort(w) PROVE PillCount'
  <2>1. /\ port # <<>> /\ port' = Tail(port) /\ phase' = phase /\ pills' = pills /\ Head(port).kind # "pill"
        /\ pc[w] = "idle" /\ \A v \in Workers : pc'[v] = "exited" <=> pc[v] = "exited"
    BY <1>18 DEF TakeReadOnPort, WaitsOnPort, Handle, workerVars
  <2>2. Number(Pill)' = Number(Pill)
    BY <2>1, NoPillTaken
  <2>3. Exited' = Exited
    BY <2>1 DEF Exited
  <2> QED  BY <2>1, <2>2, <2>3
<1>19. ASSUME NEW w \in Workers, TakeFailedReadOnPort(w) PROVE PillCount'
  <2>1. /\ port # <<>> /\ port' = Tail(port) /\ phase' = phase /\ pills' = pills /\ Head(port).kind # "pill"
        /\ pc[w] = "idle" /\ \A v \in Workers : pc'[v] = "exited" <=> pc[v] = "exited"
    BY <1>19 DEF TakeFailedReadOnPort, WaitsOnPort, workerVars
  <2>2. Number(Pill)' = Number(Pill)
    BY <2>1, NoPillTaken
  <2>3. Exited' = Exited
    BY <2>1 DEF Exited
  <2> QED  BY <2>1, <2>2, <2>3
<1>20. CASE UNCHANGED view
  <2>1. /\ port' = port /\ phase' = phase /\ pills' = pills
        /\ \A v \in Workers : pc'[v] = "exited" <=> pc[v] = "exited"
    BY <1>20 DEF view, workerVars, connVars, slotVars
  <2>2. Exited' = Exited
    BY <2>1 DEF Exited
  <2> QED  BY <2>1, <2>2, SamePort
<1> QED  BY <1>1, <1>2, <1>3, <1>4, <1>5, <1>6, <1>7, <1>8, <1>9, <1>10,
            <1>11, <1>12, <1>13, <1>14, <1>15, <1>16, <1>17, <1>18, <1>19, <1>20 DEF Step

\* The order is kept when another packet is taken.
LEMMA FifoTaken ==
    ASSUME PortType, port # <<>>, port' = Tail(port), UNCHANGED <<phase, pills>>, Fifo,
           Head(port).kind # "pill"
    PROVE  Fifo'
<1> SUFFICES ASSUME phase \in {"closing", "waiting"}, pills > 0, NEW a \in Slots, NEW k \in DOMAIN port',
                    port'[k] = Accepted(a)
             PROVE  /\ \E i \in DOMAIN port' : port'[i] = Pill
                    /\ \A i \in DOMAIN port' : port'[i] = Pill => k < i
  BY DEF Fifo
<1>1. k + 1 \in DOMAIN port /\ port[k + 1] = Accepted(a)
  BY PacketTaken
<1>2. PICK i \in DOMAIN port : port[i] = Pill
  BY <1>1 DEF Fifo
<1>3. i # 1
  BY <1>2, HeadFirst, PacketFacts
<1>4. i - 1 \in DOMAIN port' /\ port'[i - 1] = Pill
  BY <1>2, <1>3, PacketTaken
<1>5. ASSUME NEW h \in DOMAIN port', port'[h] = Pill PROVE k < h
  <2>1. h + 1 \in DOMAIN port /\ port[h + 1] = Pill
    BY <1>5, PacketTaken
  <2>2. k + 1 < h + 1
    BY <1>1, <2>1 DEF Fifo
  <2>3. h \in Nat /\ k \in Nat
    <3>1. DOMAIN port' = 1..Len(port') /\ Len(port') \in Nat
      BY PacketTaken DEF PortType
    <3> QED  BY <3>1
  <2> QED  BY <2>2, <2>3
<1> QED  BY <1>4, <1>5

\* The NULL packets stay behind the accept completions.
LEMMA FifoStep ==
    PillBounds /\ PortType /\ PhasesFit /\ SlotsFit /\ PillCount /\ Fifo /\ Step
        => Fifo'
<1> SUFFICES ASSUME PillBounds /\ PortType /\ PhasesFit /\ SlotsFit /\ PillCount /\ Fifo,
                    Step
             PROVE  Fifo'
  OBVIOUS
<1> USE DEF Fifo, slotVars, connVars, workerVars
<1>1. CASE RaiseShutdown /\ UNCHANGED port
  BY <1>1 DEF RaiseShutdown
<1>2. CASE CloseListen /\ UNCHANGED port
  BY <1>2 DEF CloseListen
<1>3. ASSUME NEW a \in Slots, slot[a] # "posted" /\ Free(a) /\ UNCHANGED port PROVE Fifo'
  BY <1>3 DEF Free
<1>4. CASE CloseAll /\ UNCHANGED port
  <2>1. phase = "draining" /\ pills' = pills
    BY <1>4 DEF CloseAll
  <2>2. ~(pills' > 0)
    BY <2>1 DEF PillBounds
  <2> QED  BY <2>2
<1>5. CASE PostPillOnPort
  <2>1. Pill \in Packet /\ port' = Append(port, Pill) /\ phase = "closing"
    BY <1>5 DEF PostPillOnPort, Packet
  <2>2. PICK k \in DOMAIN port' : /\ port'[k] = Pill /\ \A i \in DOMAIN port : i < k
                                 /\ \A i \in DOMAIN port' : i = k \/ i \in DOMAIN port
    BY <2>1, PacketQueued
  <2>3. \A i \in DOMAIN port : i \in DOMAIN port' /\ port'[i] = port[i]
    BY <2>1, PacketQueued
  <2>4. \A a \in Slots, i \in DOMAIN port : port[i] = Accepted(a) =>
           \A h \in DOMAIN port : port[h] = Pill => i < h
    <3>1. CASE pills > 0
      BY <2>1, <3>1
    <3>2. CASE ~(pills > 0)
      <4>1. Cardinality(Exited) \in Nat /\ Number(Pill) \in Nat /\ pills \in Nat
        BY LifecycleAssumption, FS_Subset, FS_CardinalityType, SlotsFact, Counted
           DEF Exited, PillBounds
      <4>2. Number(Pill) = pills - Cardinality(Exited)
        BY <2>1 DEF PillCount
      <4>3. Number(Pill) = 0
        BY <3>2, <4>1, <4>2
      <4> QED  BY <4>3, Counted DEF PacketsOf
    <3> QED  BY <3>1, <3>2
  <2> QED  BY <2>2, <2>3, <2>4, PacketsDiffer
<1>6. CASE EndOnPort
  BY <1>6 DEF EndOnPort
<1>7. ASSUME NEW a \in Slots, CompleteAcceptOnPort(a) PROVE Fifo'
  <2>1. slot[a] = "posted" /\ phase' = phase /\ pills' = pills
    BY <1>7 DEF CompleteAcceptOnPort
  <2>2. phase \notin {"closing", "waiting"}
    BY <2>1 DEF SlotsFit, PhasesFit
  <2> QED  BY <2>1, <2>2
<1>8. ASSUME NEW s \in Sockets, CompleteReadOnPort(s) PROVE Fifo'
  <2>1. Received(s) \in Packet /\ port' = Append(port, Received(s)) /\ phase' = phase /\ pills' = pills
    BY <1>8 DEF CompleteReadOnPort, Packet
  <2> QED  BY <2>1, PacketQueued, PacketsDiffer
<1>9. ASSUME NEW w \in Workers, TakePillOnPort(w) PROVE Fifo'
  <2>1. port # <<>> /\ port' = Tail(port) /\ phase' = phase /\ pills' = pills /\ Head(port).kind = "pill"
    BY <1>9 DEF TakePillOnPort, WaitsOnPort, Handle
  <2>2. 1 \in DOMAIN port /\ port[1] = Pill
    BY <2>1, HeadFacts, HeadFirst
  <2>3. phase \in {"closing", "waiting"} /\ pills > 0 =>
           \A a \in Slots, k \in DOMAIN port : port[k] # Accepted(a)
    BY <2>1, <2>2, PacketTaken
  <2> QED  BY <2>1, <2>3, PacketTaken
<1>10. ASSUME NEW w \in Workers, DropAcceptOnPort(w) PROVE Fifo'
  <2>1. port # <<>> /\ port' = Tail(port) /\ phase' = phase /\ pills' = pills /\ Head(port).kind # "pill"
    BY <1>10 DEF DropAcceptOnPort, WaitsOnPort
  <2> QED  BY <2>1, FifoTaken
<1>11. ASSUME NEW w \in Workers, TakeAcceptOnPort(w) PROVE Fifo'
  <2>1. port # <<>> /\ port' = Tail(port) /\ phase' = phase /\ pills' = pills /\ Head(port).kind # "pill"
    BY <1>11 DEF TakeAcceptOnPort, WaitsOnPort, Handle
  <2> QED  BY <2>1, FifoTaken
<1>12. ASSUME NEW w \in Workers, RejectAccept(w) /\ UNCHANGED port PROVE Fifo'
  BY <1>12 DEF RejectAccept, CreateAcceptSocket, Handle, Fresh
<1>13. ASSUME NEW w \in Workers, RepostAccept(w) /\ UNCHANGED port PROVE Fifo'
  BY <1>13 DEF RepostAccept, CreateAcceptSocket, Handle, Fresh
<1>14. ASSUME NEW w \in Workers, PassOn(w) PROVE Fifo'
  BY <1>14 DEF PassOn, Handle
<1>15. ASSUME NEW w \in Workers, AdmitAccept(w) /\ UNCHANGED port PROVE Fifo'
  BY <1>15 DEF AdmitAccept, Handle
<1>16. ASSUME NEW w \in Workers, PostRead(w) /\ UNCHANGED port PROVE Fifo'
  BY <1>16 DEF PostRead, Handle
<1>17. ASSUME NEW w \in Workers, PostReadInvalid(w) /\ UNCHANGED port PROVE Fifo'
  BY <1>17 DEF PostReadInvalid, Handle
<1>18. ASSUME NEW w \in Workers, TakeReadOnPort(w) PROVE Fifo'
  <2>1. port # <<>> /\ port' = Tail(port) /\ phase' = phase /\ pills' = pills /\ Head(port).kind # "pill"
    BY <1>18 DEF TakeReadOnPort, WaitsOnPort, Handle
  <2> QED  BY <2>1, FifoTaken
<1>19. ASSUME NEW w \in Workers, TakeFailedReadOnPort(w) PROVE Fifo'
  <2>1. port # <<>> /\ port' = Tail(port) /\ phase' = phase /\ pills' = pills /\ Head(port).kind # "pill"
    BY <1>19 DEF TakeFailedReadOnPort, WaitsOnPort
  <2> QED  BY <2>1, FifoTaken
<1>20. CASE UNCHANGED view
  BY <1>20 DEF view, workerVars, connVars, slotVars
<1> QED  BY <1>1, <1>2, <1>3, <1>4, <1>5, <1>6, <1>7, <1>8, <1>9, <1>10,
            <1>11, <1>12, <1>13, <1>14, <1>15, <1>16, <1>17, <1>18, <1>19, <1>20 DEF Step

\* At most one socket is admitted by each worker.
LEMMA AdmittingFew ==
    IsFiniteSet(Admitting) /\ Cardinality(Admitting) \in Nat
        /\ Cardinality(Admitting) <= Cardinality(Workers)
<1> DEFINE D == {v \in Workers : pc[v] = "admit"}
           f == [w \in D |-> on[w]]
<1>1. IsFiniteSet(D) /\ Cardinality(D) <= Cardinality(Workers)
  BY LifecycleAssumption, FS_Subset
<1>2. f \in Surjection(D, Admitting)
  BY DEF Surjection, Admitting
<1>3. IsFiniteSet(Admitting) /\ Cardinality(Admitting) <= Cardinality(D)
  BY <1>1, <1>2, FS_Surjection
<1>4. Cardinality(D) \in Nat /\ Cardinality(Admitting) \in Nat
  BY <1>1, <1>3, FS_CardinalityType
<1> QED  BY <1>1, <1>3, <1>4, SlotsFact

\* No connection is admitted, and none opened.
LEMMA NoneAdmitted ==
    ASSUME LateFit, phase \in {"closing", "waiting", "down"}, Open' \subseteq Open,
           Admitting' \subseteq Admitting
    PROVE  LateFit'
<1>1. IsFiniteSet(Open) /\ Cardinality(Open) \in Nat
  BY FS_CardinalityType DEF LateFit
<1>2. IsFiniteSet(Admitting) /\ Cardinality(Admitting) \in Nat
  BY AdmittingFew
<1>3. /\ IsFiniteSet(Open') /\ Cardinality(Open') <= Cardinality(Open)
      /\ Cardinality(Open') \in Nat
  BY <1>1, FS_Subset, FS_CardinalityType
<1>4. Cardinality(Admitting') <= Cardinality(Admitting) /\ Cardinality(Admitting') \in Nat
  BY <1>2, FS_Subset, FS_CardinalityType
<1>5. Cardinality(Open) + Cardinality(Admitting) <= Cardinality(Workers)
  BY DEF LateFit
<1> QED  BY <1>1, <1>2, <1>3, <1>4, <1>5, SlotsFact DEF LateFit

\* What is admitted behind the back of Shutdown.
LEMMA LateStep ==
    Types /\ PhasesFit /\ SlotsFit /\ SocketsFit /\ LateFit /\ Step
        => LateFit'
<1> SUFFICES ASSUME Types /\ PhasesFit /\ SlotsFit /\ SocketsFit /\ LateFit,
                    Step
             PROVE  LateFit'
  OBVIOUS
<1> USE DEF Types, slotVars, connVars, workerVars
<1>s. NoSlot \notin Slots
  BY SlotsFact
<1>h. NoSocket \notin Sockets
  BY LifecycleAssumption
<1>1. CASE RaiseShutdown /\ UNCHANGED port
  <2>1. phase' \notin {"closing", "waiting", "down"}
    BY <1>1 DEF PhasesFit, RaiseShutdown
  <2> QED  BY <2>1 DEF LateFit
<1>2. CASE CloseListen /\ UNCHANGED port
  <2>1. phase' \notin {"closing", "waiting", "down"}
    BY <1>2 DEF PhasesFit, CloseListen
  <2> QED  BY <2>1 DEF LateFit
<1>3. ASSUME NEW a \in Slots, slot[a] # "posted" /\ Free(a) /\ UNCHANGED port PROVE LateFit'
  <2>1. CASE phase \in {"closing", "waiting", "down"}
    <3>1. /\ \A s \in Sockets : socket'[s] = "open" => socket[s] = "open"
          /\ \A v \in Workers : pc'[v] = "admit" => pc[v] = "admit" /\ on'[v] = on[v]
      BY <1>3 DEF Free, workerVars, connVars
    <3>2. Open' \subseteq Open /\ Admitting' \subseteq Admitting
      BY <3>1 DEF Open, Admitting
    <3> QED  BY <2>1, <3>2, NoneAdmitted
  <2>2. CASE phase \notin {"closing", "waiting", "down"}
    <3>1. phase' \notin {"closing", "waiting", "down"}
      BY <1>3, <2>2 DEF Free, workerVars, connVars
    <3> QED  BY <3>1 DEF LateFit
  <2> QED  BY <2>1, <2>2
<1>4. CASE CloseAll /\ UNCHANGED port
  <2>1. Open' = {} /\ Admitting' = Admitting
    BY <1>4 DEF CloseAll, Open, Admitting, workerVars
  <2>2. IsFiniteSet(Open') /\ Cardinality(Open') = 0
    BY <2>1, FS_EmptySet
  <2> QED  BY <2>1, <2>2, AdmittingFew, SlotsFact DEF LateFit
<1>5. CASE PostPillOnPort
  <2>1. CASE phase \in {"closing", "waiting", "down"}
    <3>1. /\ \A s \in Sockets : socket'[s] = "open" => socket[s] = "open"
          /\ \A v \in Workers : pc'[v] = "admit" => pc[v] = "admit" /\ on'[v] = on[v]
      BY <1>5 DEF PostPillOnPort, workerVars, connVars
    <3>2. Open' \subseteq Open /\ Admitting' \subseteq Admitting
      BY <3>1 DEF Open, Admitting
    <3> QED  BY <2>1, <3>2, NoneAdmitted
  <2>2. CASE phase \notin {"closing", "waiting", "down"}
    <3>1. phase' \notin {"closing", "waiting", "down"}
      BY <1>5, <2>2 DEF PostPillOnPort, workerVars, connVars
    <3> QED  BY <3>1 DEF LateFit
  <2> QED  BY <2>1, <2>2
<1>6. CASE EndOnPort
  <2>1. CASE phase \in {"closing", "waiting", "down"}
    <3>1. /\ \A s \in Sockets : socket'[s] = "open" => socket[s] = "open"
          /\ \A v \in Workers : pc'[v] = "admit" => pc[v] = "admit" /\ on'[v] = on[v]
      BY <1>6 DEF EndOnPort, AllExited, workerVars, connVars
    <3>2. Open' \subseteq Open /\ Admitting' \subseteq Admitting
      BY <3>1 DEF Open, Admitting
    <3> QED  BY <2>1, <3>2, NoneAdmitted
  <2>2. CASE phase \notin {"closing", "waiting", "down"}
    <3>1. phase' \notin {"closing", "waiting", "down"}
      BY <1>6, <2>2 DEF EndOnPort, AllExited, workerVars, connVars
    <3> QED  BY <3>1 DEF LateFit
  <2> QED  BY <2>1, <2>2
<1>7. ASSUME NEW a \in Slots, CompleteAcceptOnPort(a) PROVE LateFit'
  <2>1. CASE phase \in {"closing", "waiting", "down"}
    <3>1. /\ \A s \in Sockets : socket'[s] = "open" => socket[s] = "open"
          /\ \A v \in Workers : pc'[v] = "admit" => pc[v] = "admit" /\ on'[v] = on[v]
      BY <1>7 DEF CompleteAcceptOnPort, workerVars, connVars
    <3>2. Open' \subseteq Open /\ Admitting' \subseteq Admitting
      BY <3>1 DEF Open, Admitting
    <3> QED  BY <2>1, <3>2, NoneAdmitted
  <2>2. CASE phase \notin {"closing", "waiting", "down"}
    <3>1. phase' \notin {"closing", "waiting", "down"}
      BY <1>7, <2>2 DEF CompleteAcceptOnPort, workerVars, connVars
    <3> QED  BY <3>1 DEF LateFit
  <2> QED  BY <2>1, <2>2
<1>8. ASSUME NEW s \in Sockets, CompleteReadOnPort(s) PROVE LateFit'
  <2>1. CASE phase \in {"closing", "waiting", "down"}
    <3>1. /\ \A r \in Sockets : socket'[r] = "open" => socket[r] = "open"
          /\ \A v \in Workers : pc'[v] = "admit" => pc[v] = "admit" /\ on'[v] = on[v]
      BY <1>8 DEF CompleteReadOnPort, workerVars, connVars
    <3>2. Open' \subseteq Open /\ Admitting' \subseteq Admitting
      BY <3>1 DEF Open, Admitting
    <3> QED  BY <2>1, <3>2, NoneAdmitted
  <2>2. CASE phase \notin {"closing", "waiting", "down"}
    <3>1. phase' \notin {"closing", "waiting", "down"}
      BY <1>8, <2>2 DEF CompleteReadOnPort, workerVars, connVars
    <3> QED  BY <3>1 DEF LateFit
  <2> QED  BY <2>1, <2>2
<1>9. ASSUME NEW w \in Workers, TakePillOnPort(w) PROVE LateFit'
  <2>1. CASE phase \in {"closing", "waiting", "down"}
    <3>1. /\ \A s \in Sockets : socket'[s] = "open" => socket[s] = "open"
          /\ \A v \in Workers : pc'[v] = "admit" => pc[v] = "admit" /\ on'[v] = on[v]
      BY <1>9 DEF TakePillOnPort, WaitsOnPort, Handle, workerVars, connVars
    <3>2. Open' \subseteq Open /\ Admitting' \subseteq Admitting
      BY <3>1 DEF Open, Admitting
    <3> QED  BY <2>1, <3>2, NoneAdmitted
  <2>2. CASE phase \notin {"closing", "waiting", "down"}
    <3>1. phase' \notin {"closing", "waiting", "down"}
      BY <1>9, <2>2 DEF TakePillOnPort, WaitsOnPort, Handle, workerVars, connVars
    <3> QED  BY <3>1 DEF LateFit
  <2> QED  BY <2>1, <2>2
<1>10. ASSUME NEW w \in Workers, DropAcceptOnPort(w) PROVE LateFit'
  <2>1. CASE phase \in {"closing", "waiting", "down"}
    <3>1. /\ \A s \in Sockets : socket'[s] = "open" => socket[s] = "open"
          /\ \A v \in Workers : pc'[v] = "admit" => pc[v] = "admit" /\ on'[v] = on[v]
      BY <1>10 DEF DropAcceptOnPort, WaitsOnPort, workerVars, connVars
    <3>2. Open' \subseteq Open /\ Admitting' \subseteq Admitting
      BY <3>1 DEF Open, Admitting
    <3> QED  BY <2>1, <3>2, NoneAdmitted
  <2>2. CASE phase \notin {"closing", "waiting", "down"}
    <3>1. phase' \notin {"closing", "waiting", "down"}
      BY <1>10, <2>2 DEF DropAcceptOnPort, WaitsOnPort, workerVars, connVars
    <3> QED  BY <3>1 DEF LateFit
  <2> QED  BY <2>1, <2>2
<1>11. ASSUME NEW w \in Workers, TakeAcceptOnPort(w) PROVE LateFit'
  <2>1. phase' \notin {"closing", "waiting", "down"}
    BY <1>11 DEF PhasesFit, TakeAcceptOnPort, WaitsOnPort, Handle
  <2> QED  BY <2>1 DEF LateFit
<1>12. ASSUME NEW w \in Workers, RejectAccept(w) /\ UNCHANGED port PROVE LateFit'
  <2>1. phase' \notin {"closing", "waiting", "down"}
    BY <1>12 DEF PhasesFit, RejectAccept, CreateAcceptSocket, Handle, Fresh
  <2> QED  BY <2>1 DEF LateFit
<1>13. ASSUME NEW w \in Workers, RepostAccept(w) /\ UNCHANGED port PROVE LateFit'
  <2>1. phase' \notin {"closing", "waiting", "down"}
    BY <1>13 DEF PhasesFit, RepostAccept, CreateAcceptSocket, Handle, Fresh
  <2> QED  BY <2>1 DEF LateFit
<1>14. ASSUME NEW w \in Workers, PassOn(w) PROVE LateFit'
  <2>1. CASE phase \in {"closing", "waiting", "down"}
    <3>1. /\ \A s \in Sockets : socket'[s] = "open" => socket[s] = "open"
          /\ \A v \in Workers : pc'[v] = "admit" => pc[v] = "admit" /\ on'[v] = on[v]
      BY <1>14 DEF PassOn, Handle, workerVars, connVars
    <3>2. Open' \subseteq Open /\ Admitting' \subseteq Admitting
      BY <3>1 DEF Open, Admitting
    <3> QED  BY <2>1, <3>2, NoneAdmitted
  <2>2. CASE phase \notin {"closing", "waiting", "down"}
    <3>1. phase' \notin {"closing", "waiting", "down"}
      BY <1>14, <2>2 DEF PassOn, Handle, workerVars, connVars
    <3> QED  BY <3>1 DEF LateFit
  <2> QED  BY <2>1, <2>2
<1>15. ASSUME NEW w \in Workers, AdmitAccept(w) /\ UNCHANGED port PROVE LateFit'
  <2>1. CASE phase \notin {"closing", "waiting", "down"}
    <3>1. phase' \notin {"closing", "waiting", "down"}
      BY <1>15, <2>1 DEF AdmitAccept
    <3> QED  BY <3>1 DEF LateFit
  <2>2. CASE phase \in {"closing", "waiting", "down"}
    <3> DEFINE s == on[w]
    <3>1. /\ pc[w] = "admit" /\ pc' = [pc EXCEPT ![w] = "update"] /\ on' = [on EXCEPT ![w] = s]
          /\ socket' = [socket EXCEPT ![s] = "open"] /\ phase' = phase
      BY <1>15 DEF AdmitAccept, Handle
    <3>2. /\ s \in Sockets /\ socket[s] = "prepared"
          /\ \A v \in Workers : pc[v] = "admit" /\ on[v] = s => v = w
      BY <3>1 DEF SocketsFit
    <3> HIDE DEF s
    <3>3. Open' = Open \cup {s} /\ s \notin Open
      BY <3>1, <3>2 DEF Open
    <3>4. Admitting' = Admitting \ {s} /\ s \in Admitting
      <4>1. \A v \in Workers : pc'[v] = "admit" <=> pc[v] = "admit" /\ v # w
        BY <3>1
      <4>2. \A v \in Workers : v # w => on'[v] = on[v]
        BY <3>1
      <4>3. s = on[w]
        BY DEF s
      <4> QED  BY <3>1, <3>2, <4>1, <4>2, <4>3 DEF Admitting
    <3>5. IsFiniteSet(Open) /\ Cardinality(Open) + Cardinality(Admitting) <= Cardinality(Workers)
      BY <2>2 DEF LateFit
    <3>6. /\ IsFiniteSet(Open') /\ Cardinality(Open') = Cardinality(Open) + 1
          /\ Cardinality(Open) \in Nat
      BY <3>3, <3>5, FS_AddElement, FS_CardinalityType
    <3>7. Cardinality(Admitting') = Cardinality(Admitting) - 1 /\ Cardinality(Admitting) \in Nat
      BY <3>4, AdmittingFew, FS_RemoveElement
    <3> QED  BY <3>5, <3>6, <3>7, SlotsFact DEF LateFit
  <2> QED  BY <2>1, <2>2
<1>16. ASSUME NEW w \in Workers, PostRead(w) /\ UNCHANGED port PROVE LateFit'
  <2>1. CASE phase \in {"closing", "waiting", "down"}
    <3>1. /\ \A s \in Sockets : socket'[s] = "open" => socket[s] = "open"
          /\ \A v \in Workers : pc'[v] = "admit" => pc[v] = "admit" /\ on'[v] = on[v]
      BY <1>16 DEF PostRead, Handle, workerVars, connVars
    <3>2. Open' \subseteq Open /\ Admitting' \subseteq Admitting
      BY <3>1 DEF Open, Admitting
    <3> QED  BY <2>1, <3>2, NoneAdmitted
  <2>2. CASE phase \notin {"closing", "waiting", "down"}
    <3>1. phase' \notin {"closing", "waiting", "down"}
      BY <1>16, <2>2 DEF PostRead, Handle, workerVars, connVars
    <3> QED  BY <3>1 DEF LateFit
  <2> QED  BY <2>1, <2>2
<1>17. ASSUME NEW w \in Workers, PostReadInvalid(w) /\ UNCHANGED port PROVE LateFit'
  <2>1. CASE phase \in {"closing", "waiting", "down"}
    <3>1. /\ \A s \in Sockets : socket'[s] = "open" => socket[s] = "open"
          /\ \A v \in Workers : pc'[v] = "admit" => pc[v] = "admit" /\ on'[v] = on[v]
      BY <1>17 DEF PostReadInvalid, Handle, workerVars, connVars
    <3>2. Open' \subseteq Open /\ Admitting' \subseteq Admitting
      BY <3>1 DEF Open, Admitting
    <3> QED  BY <2>1, <3>2, NoneAdmitted
  <2>2. CASE phase \notin {"closing", "waiting", "down"}
    <3>1. phase' \notin {"closing", "waiting", "down"}
      BY <1>17, <2>2 DEF PostReadInvalid, Handle, workerVars, connVars
    <3> QED  BY <3>1 DEF LateFit
  <2> QED  BY <2>1, <2>2
<1>18. ASSUME NEW w \in Workers, TakeReadOnPort(w) PROVE LateFit'
  <2>1. CASE phase \in {"closing", "waiting", "down"}
    <3>1. /\ \A s \in Sockets : socket'[s] = "open" => socket[s] = "open"
          /\ \A v \in Workers : pc'[v] = "admit" => pc[v] = "admit" /\ on'[v] = on[v]
      BY <1>18 DEF TakeReadOnPort, WaitsOnPort, Handle, workerVars, connVars
    <3>2. Open' \subseteq Open /\ Admitting' \subseteq Admitting
      BY <3>1 DEF Open, Admitting
    <3> QED  BY <2>1, <3>2, NoneAdmitted
  <2>2. CASE phase \notin {"closing", "waiting", "down"}
    <3>1. phase' \notin {"closing", "waiting", "down"}
      BY <1>18, <2>2 DEF TakeReadOnPort, WaitsOnPort, Handle, workerVars, connVars
    <3> QED  BY <3>1 DEF LateFit
  <2> QED  BY <2>1, <2>2
<1>19. ASSUME NEW w \in Workers, TakeFailedReadOnPort(w) PROVE LateFit'
  <2>1. CASE phase \in {"closing", "waiting", "down"}
    <3>1. /\ \A s \in Sockets : socket'[s] = "open" => socket[s] = "open"
          /\ \A v \in Workers : pc'[v] = "admit" => pc[v] = "admit" /\ on'[v] = on[v]
      BY <1>19 DEF TakeFailedReadOnPort, WaitsOnPort, workerVars, connVars
    <3>2. Open' \subseteq Open /\ Admitting' \subseteq Admitting
      BY <3>1 DEF Open, Admitting
    <3> QED  BY <2>1, <3>2, NoneAdmitted
  <2>2. CASE phase \notin {"closing", "waiting", "down"}
    <3>1. phase' \notin {"closing", "waiting", "down"}
      BY <1>19, <2>2 DEF TakeFailedReadOnPort, WaitsOnPort, workerVars, connVars
    <3> QED  BY <3>1 DEF LateFit
  <2> QED  BY <2>1, <2>2
<1>20. CASE UNCHANGED view
  <2>1. CASE phase \in {"closing", "waiting", "down"}
    <3>1. /\ \A s \in Sockets : socket'[s] = "open" => socket[s] = "open"
          /\ \A v \in Workers : pc'[v] = "admit" => pc[v] = "admit" /\ on'[v] = on[v]
      BY <1>20 DEF view, workerVars, connVars, slotVars
    <3>2. Open' \subseteq Open /\ Admitting' \subseteq Admitting
      BY <3>1 DEF Open, Admitting
    <3> QED  BY <2>1, <3>2, NoneAdmitted
  <2>2. CASE phase \notin {"closing", "waiting", "down"}
    <3>1. phase' \notin {"closing", "waiting", "down"}
      BY <1>20, <2>2 DEF view, workerVars, connVars, slotVars
    <3> QED  BY <3>1 DEF LateFit
  <2> QED  BY <2>1, <2>2
<1> QED  BY <1>1, <1>2, <1>3, <1>4, <1>5, <1>6, <1>7, <1>8, <1>9, <1>10,
            <1>11, <1>12, <1>13, <1>14, <1>15, <1>16, <1>17, <1>18, <1>19, <1>20 DEF Step

\* A worker takes a completed receive.
LEMMA ReadTaken ==
    ASSUME Types, PortType, ReadsFit, port # <<>>, port' = Tail(port),
           Head(port).kind = "read"
    PROVE  /\ Head(port).socket \in Sockets /\ recv[Head(port).socket] = "queued"
           /\ HasContext(Head(port).socket)
           /\ \A r \in Sockets : Number(Received(r))' =
                 IF r = Head(port).socket THEN 0 ELSE Number(Received(r))
<1> DEFINE s == Head(port).socket
<1>1. s \in Sockets /\ Head(port) = Received(s)
  BY HeadFacts
<1>2. /\ Number(Received(s)) > 0
      /\ \A p : Number(p)' = Number(p) - (IF p = Received(s) THEN 1 ELSE 0)
  BY <1>1, PacketTaken
<1>3. recv[s] = "queued" /\ Number(Received(s)) = 1 /\ HasContext(s)
  BY <1>1, <1>2 DEF ReadsFit
<1>4. \A r \in Sockets : Number(Received(r)) \in Nat
  BY Counted
<1>5. \A r \in Sockets : Received(r) = Received(s) <=> r = s
  BY <1>1, PacketsDiffer
<1> QED  BY <1>1, <1>2, <1>3, <1>4, <1>5

\* A worker takes another packet.
LEMMA NoReadTaken ==
    ASSUME PortType, port # <<>>, port' = Tail(port), Head(port).kind # "read"
    PROVE  \A r \in Sockets : Number(Received(r))' = Number(Received(r))
<1>1. \A r \in Sockets : Received(r) # Head(port) /\ Number(Received(r)) \in Nat
  BY PacketFacts, Counted
<1> QED  BY <1>1, PacketTaken

\* Receives and contexts stay in one place.
LEMMA ReadsStep ==
    Types /\ PortType /\ PhasesFit /\ SlotsFit /\ SocketsFit /\ ReadsFit /\ Step
        => ReadsFit'
<1> SUFFICES ASSUME Types /\ PortType /\ PhasesFit /\ SlotsFit /\ SocketsFit /\ ReadsFit,
                    Step
             PROVE  ReadsFit'
  OBVIOUS
<1> USE DEF Types, ReadsFit, HasContext, Arriving, slotVars, connVars, workerVars
<1>s. NoSlot \notin Slots
  BY SlotsFact
<1>h. NoSocket \notin Sockets
  BY LifecycleAssumption
<1>1. CASE RaiseShutdown /\ UNCHANGED port
  BY <1>1, SamePort DEF RaiseShutdown
<1>2. CASE CloseListen /\ UNCHANGED port
  BY <1>2, SamePort DEF CloseListen
<1>3. ASSUME NEW a \in Slots, slot[a] # "posted" /\ Free(a) /\ UNCHANGED port PROVE ReadsFit'
  BY <1>3, SamePort DEF Free
<1>4. CASE CloseAll /\ UNCHANGED port
  BY <1>4, SamePort DEF CloseAll
<1>5. CASE PostPillOnPort
  <2>1. \A r \in Sockets : Number(Received(r))' = Number(Received(r))
    BY <1>5, PillQueued, PacketsDiffer
  <2> QED  BY <1>5, <2>1 DEF PostPillOnPort
<1>6. CASE EndOnPort
  <2>1. \A r \in Sockets : Number(Received(r))' = 0
    BY <1>6, FS_EmptySet DEF EndOnPort, Number, PacketsOf
  <2> QED  BY <1>6, <2>1 DEF EndOnPort, AllExited
<1>7. ASSUME NEW a \in Slots, CompleteAcceptOnPort(a) PROVE ReadsFit'
  <2>1. Accepted(a) \in Packet /\ port' = Append(port, Accepted(a))
    BY <1>7 DEF CompleteAcceptOnPort, Packet
  <2>2. \A r \in Sockets : Number(Received(r))' = Number(Received(r))
    BY <2>1, PacketQueued, PacketsDiffer, Counted
  <2> QED  BY <1>7, <2>2 DEF CompleteAcceptOnPort
<1>8. ASSUME NEW s \in Sockets, CompleteReadOnPort(s) PROVE ReadsFit'
  <2>1. Received(s) \in Packet /\ port' = Append(port, Received(s)) /\ recv[s] = "posted"
    BY <1>8 DEF CompleteReadOnPort, Packet
  <2>2. \A r \in Sockets : Number(Received(r))' = Number(Received(r)) + IF r = s THEN 1 ELSE 0
    BY <2>1, PacketQueued, PacketsDiffer
  <2>3. Number(Received(s)) = 0 /\ \A r \in Sockets : Number(Received(r)) \in Nat
    BY <2>1, Counted
  <2> QED  BY <1>8, <2>1, <2>2, <2>3 DEF CompleteReadOnPort
<1>9. ASSUME NEW w \in Workers, TakePillOnPort(w) PROVE ReadsFit'
  <2>1. port # <<>> /\ port' = Tail(port) /\ Head(port).kind # "read"
    BY <1>9 DEF TakePillOnPort, WaitsOnPort, Handle
  <2>2. \A r \in Sockets : Number(Received(r))' = Number(Received(r))
    BY <2>1, NoReadTaken
  <2> QED  BY <1>9, <2>2 DEF TakePillOnPort, WaitsOnPort, Handle
<1>10. ASSUME NEW w \in Workers, DropAcceptOnPort(w) PROVE ReadsFit'
  <2>1. port # <<>> /\ port' = Tail(port) /\ Head(port).kind # "read"
    BY <1>10 DEF DropAcceptOnPort, WaitsOnPort
  <2>2. \A r \in Sockets : Number(Received(r))' = Number(Received(r))
    BY <2>1, NoReadTaken
  <2> QED  BY <1>10, <2>2 DEF DropAcceptOnPort, WaitsOnPort
<1>11. ASSUME NEW w \in Workers, TakeAcceptOnPort(w) PROVE ReadsFit'
  <2>1. port # <<>> /\ port' = Tail(port) /\ Head(port).kind # "read"
    BY <1>11 DEF TakeAcceptOnPort, WaitsOnPort, Handle
  <2>2. \A r \in Sockets : Number(Received(r))' = Number(Received(r))
    BY <2>1, NoReadTaken
  <2> QED  BY <1>11, <2>2 DEF TakeAcceptOnPort, WaitsOnPort, Handle
<1>12. ASSUME NEW w \in Workers, RejectAccept(w) /\ UNCHANGED port PROVE ReadsFit'
  BY <1>12, <1>s, <1>h, SamePort DEF RejectAccept, CreateAcceptSocket, Handle, Fresh, SlotsFit,
     SocketsFit
<1>13. ASSUME NEW w \in Workers, RepostAccept(w) /\ UNCHANGED port PROVE ReadsFit'
  BY <1>13, <1>s, <1>h, SamePort DEF RepostAccept, CreateAcceptSocket, Handle, Fresh
<1>14. ASSUME NEW w \in Workers, PassOn(w) PROVE ReadsFit'
  BY <1>14, SamePort DEF PassOn, Handle
<1>15. ASSUME NEW w \in Workers, AdmitAccept(w) /\ UNCHANGED port PROVE ReadsFit'
  <2>1. on[w] \in Sockets /\ socket[on[w]] = "prepared"
    BY <1>15 DEF AdmitAccept, SocketsFit
  <2> QED  BY <1>15, <2>1, SamePort DEF AdmitAccept, Handle
<1>16. ASSUME NEW w \in Workers, PostRead(w) /\ UNCHANGED port PROVE ReadsFit'
  BY <1>16, SamePort DEF PostRead, Handle
<1>17. ASSUME NEW w \in Workers, PostReadInvalid(w) /\ UNCHANGED port PROVE ReadsFit'
  BY <1>17, SamePort DEF PostReadInvalid, Handle
<1>18. ASSUME NEW w \in Workers, TakeReadOnPort(w) PROVE ReadsFit'
  <2> DEFINE s == Head(port).socket
  <2>1. port # <<>> /\ port' = Tail(port) /\ Head(port).kind = "read"
    BY <1>18 DEF TakeReadOnPort, WaitsOnPort
  <2>2. /\ s \in Sockets /\ recv[s] = "queued" /\ HasContext(s)
        /\ \A r \in Sockets : Number(Received(r))' = IF r = s THEN 0 ELSE Number(Received(r))
    BY <2>1, ReadTaken
  <2>3. /\ pc[w] = "idle" /\ recv' = [recv EXCEPT ![s] = "held"]
        /\ pc' = [pc EXCEPT ![w] = "read"] /\ on' = [on EXCEPT ![w] = s] /\ socket' = socket
    BY <1>18 DEF TakeReadOnPort, WaitsOnPort, Handle
  <2> HIDE DEF s
  <2> QED  BY <2>2, <2>3
<1>19. ASSUME NEW w \in Workers, TakeFailedReadOnPort(w) PROVE ReadsFit'
  <2> DEFINE s == Head(port).socket
  <2>1. port # <<>> /\ port' = Tail(port) /\ Head(port).kind = "read"
    BY <1>19 DEF TakeFailedReadOnPort, WaitsOnPort
  <2>2. /\ s \in Sockets /\ recv[s] = "queued" /\ HasContext(s)
        /\ \A r \in Sockets : Number(Received(r))' = IF r = s THEN 0 ELSE Number(Received(r))
    BY <2>1, ReadTaken
  <2>3. /\ recv' = [recv EXCEPT ![s] = "none"] /\ socket' = [socket EXCEPT ![s] = "deleted"]
        /\ pc' = pc /\ on' = on
    BY <1>19 DEF TakeFailedReadOnPort, WaitsOnPort
  <2> HIDE DEF s
  <2> QED  BY <2>2, <2>3
<1>20. CASE UNCHANGED view
  BY <1>20, SamePort DEF view, workerVars, connVars, slotVars
<1> QED  BY <1>1, <1>2, <1>3, <1>4, <1>5, <1>6, <1>7, <1>8, <1>9, <1>10,
            <1>11, <1>12, <1>13, <1>14, <1>15, <1>16, <1>17, <1>18, <1>19, <1>20
         DEF Step

-----------------------------------------------------------------------------
(* What holds whatever m_hIOCP is.                                         *)

\* The steps of the server.
LEMMA NextCases ==
    [Next]_vars =>
        \/ Startup
        \/ RaiseShutdown
        \/ CloseListen
        \/ \E a \in Slots : slot[a] # "posted" /\ Free(a)
        \/ CloseAll
        \/ PostPill
        \/ EndShutdown
        \/ \E a \in Slots : CompleteAccept(a)
        \/ \E s \in Sockets : CompleteRead(s)
        \/ \E w \in Workers : TakePill(w)
        \/ \E w \in Workers : DropAccept(w)
        \/ \E w \in Workers : TakeAccept(w)
        \/ \E w \in Workers : TakeRead(w)
        \/ \E w \in Workers : TakeFailedRead(w)
        \/ \E w \in Workers : RejectAccept(w)
        \/ \E w \in Workers : RepostAccept(w)
        \/ \E w \in Workers : UseFreedSlot(w)
        \/ \E w \in Workers : AdmitAccept(w)
        \/ \E w \in Workers : UpdateCompletionPort(w)
        \/ \E w \in Workers : StorePort(w)
        \/ \E w \in Workers : PostRead(w)
        \/ \E w \in Workers : PostReadInvalid(w)
        \/ \E w \in Workers : ReleaseAgain(w)
        \/ \E w \in Workers : ExitUninitialised(w)
        \/ \E w \in Workers : UseFreedContext(w)
        \/ UNCHANGED vars
BY DEF Next, Shutdown, FreeSlot, WorkerThread, TryAgain, AtRest

\* The packet at the head of the port a worker waits on.
LEMMA FirstFacts ==
    ASSUME PortsTypes, NEW w \in Workers, Waits(w)
    PROVE  /\ Sees(w) \in DOMAIN ports /\ First(w) \in Packet
           /\ ports[Sees(w)] # <<>> /\ ports[Sees(w)] \in Seq(Packet)
           /\ First(w).kind = "accept" => First(w).slot \in Slots
           /\ First(w).kind = "read" => First(w).socket \in Sockets
<1>1. Sees(w) \in 0..Len(ports) /\ Sees(w) # 0
  BY DEF Sees, Waits, PortsTypes, NULL
<1>2. Sees(w) \in DOMAIN ports /\ ports[Sees(w)] \in Seq(Packet) /\ ports[Sees(w)] # <<>>
  BY <1>1 DEF PortsTypes, Waits
<1>3. First(w) \in Packet
  BY <1>2 DEF First
<1>4. CASE First(w) = Pill
  BY <1>2, <1>3, <1>4, PacketFacts
<1>5. CASE \E a \in Slots : First(w) = Accepted(a)
  BY <1>2, <1>3, <1>5, PacketFacts
<1>6. CASE \E s \in Sockets : First(w) = Received(s)
  BY <1>2, <1>3, <1>6, PacketFacts
<1> QED  BY <1>3, <1>4, <1>5, <1>6 DEF Packet

\* A packet is queued in, or taken from, one of the ports.
LEMMA PortChanged ==
    ASSUME NEW S, ports \in Seq(S), NEW i, NEW q,
           i \in DOMAIN ports => q \in S, ports' = [ports EXCEPT ![i] = q]
    PROVE  ports' \in Seq(S) /\ Len(ports') = Len(ports)
<1>1. Len(ports) \in Nat /\ ports \in [1..Len(ports) -> S]
  OBVIOUS
<1>2. ports' \in [1..Len(ports) -> S]
  BY <1>1
<1> QED  BY <1>1, <1>2

\* The ports stay queues of packets when one packet is queued.
LEMMA PortAppended ==
    ASSUME ports \in Seq(Seq(Packet)), NEW i, NEW p \in Packet,
           ports' = [ports EXCEPT ![i] = Append(@, p)]
    PROVE  ports' \in Seq(Seq(Packet)) /\ Len(ports') = Len(ports)
<1>1. i \in DOMAIN ports => Append(ports[i], p) \in Seq(Packet)
  OBVIOUS
<1> QED  BY <1>1, PortChanged

\* The ports stay queues of packets when a worker takes one.
LEMMA PortDequeued ==
    ASSUME PortsTypes, NEW w \in Workers, Waits(w), NEW k, Dequeue(w, k)
    PROVE  ports' \in Seq(Seq(Packet)) /\ Len(ports') = Len(ports)
<1>1. Tail(ports[Sees(w)]) \in Seq(Packet) /\ ports \in Seq(Seq(Packet))
  BY FirstFacts DEF PortsTypes
<1>2. ports' = [ports EXCEPT ![Sees(w)] = Tail(ports[Sees(w)])]
  BY DEF Dequeue
<1> QED  BY <1>1, <1>2, PortChanged

\* The state keeps its types.
LEMMA TypesStep ==
    Types /\ PortsTypes /\ RunsFit /\ [Next]_vars
        => Types'
<1> SUFFICES ASSUME Types, PortsTypes, RunsFit, [Next]_vars PROVE Types'
  OBVIOUS
<1> USE DEF Types, Phases, SlotStates, SocketStates, RecvStates, slotVars, connVars, workerVars
<1>s. NoSlot \notin Slots
  BY SlotsFact
<1>1. CASE Startup
  <2>1. PICK given \in [Slots -> Fresh \cup {NoSocket}] :
          /\ slotSocket' = given
          /\ slot' = [a \in Slots |-> IF given[a] = NoSocket THEN "idle" ELSE "posted"]
          /\ socket' = [s \in Sockets |-> IF \E a \in Slots : given[a] = s
                                          THEN "prepared" ELSE socket[s]]
    BY <1>1 DEF Startup
  <2>2. /\ allocated' = Slots /\ phase' = "up" /\ runs' = runs + 1 /\ runs < MaxRuns
        /\ pc' = [w \in Workers |-> "idle"]
        /\ UNCHANGED <<recv, at, on, undefined>> /\ \A w \in Workers : pc[w] = "exited"
    BY <1>1 DEF Startup, RunsFit, AllExited
  <2>3. slotSocket' \in [Slots -> Sockets \cup {NoSocket}]
    BY <2>1 DEF Fresh
  <2>4. runs' \in 0..MaxRuns
    BY <2>2, LifecycleAssumption
  <2>5. slot' \in [Slots -> SlotStates] /\ socket' \in [Sockets -> SocketStates]
    BY <2>1
  <2>6. \A w \in Workers : at'[w] # NoSlot <=> pc'[w] = "accept"
    BY <2>2
  <2> QED  BY <2>2, <2>3, <2>4, <2>5, <2>6
<1>2. CASE RaiseShutdown
  BY <1>2, <1>s DEF RaiseShutdown
<1>3. CASE CloseListen
  BY <1>3, <1>s DEF CloseListen
<1>4. ASSUME NEW a \in Slots, slot[a] # "posted" /\ Free(a) PROVE Types'
  BY <1>4, <1>s DEF Free
<1>5. CASE CloseAll
  BY <1>5, <1>s DEF CloseAll
<1>6. CASE PostPill
  BY <1>6, <1>s DEF PostPill
<1>7. CASE EndShutdown
  BY <1>7, <1>s DEF EndShutdown
<1>8. ASSUME NEW a \in Slots, CompleteAccept(a) PROVE Types'
  BY <1>8, <1>s DEF CompleteAccept
<1>9. ASSUME NEW s \in Sockets, CompleteRead(s) PROVE Types'
  BY <1>9, <1>s DEF CompleteRead
<1>10. ASSUME NEW w \in Workers, TakePill(w) PROVE Types'
  BY <1>10, <1>s DEF TakePill, Waits, Dequeue, Handle
<1>11. ASSUME NEW w \in Workers, DropAccept(w) PROVE Types'
  <2>1. /\ First(w).kind = "accept" => First(w).slot \in Slots
        /\ First(w).kind = "read" => First(w).socket \in Sockets
    BY <1>11, FirstFacts DEF DropAccept
  <2> QED  BY <1>11, <2>1, <1>s DEF DropAccept, Dequeue
<1>12. ASSUME NEW w \in Workers, TakeAccept(w) PROVE Types'
  <2>1. /\ First(w).kind = "accept" => First(w).slot \in Slots
        /\ First(w).kind = "read" => First(w).socket \in Sockets
    BY <1>12, FirstFacts DEF TakeAccept
  <2> QED  BY <1>12, <2>1, <1>s DEF TakeAccept, Dequeue, Handle
<1>13. ASSUME NEW w \in Workers, TakeRead(w) PROVE Types'
  <2>1. /\ First(w).kind = "accept" => First(w).slot \in Slots
        /\ First(w).kind = "read" => First(w).socket \in Sockets
    BY <1>13, FirstFacts DEF TakeRead
  <2> QED  BY <1>13, <2>1, <1>s DEF TakeRead, Dequeue, Handle
<1>14. ASSUME NEW w \in Workers, TakeFailedRead(w) PROVE Types'
  <2>1. /\ First(w).kind = "accept" => First(w).slot \in Slots
        /\ First(w).kind = "read" => First(w).socket \in Sockets
    BY <1>14, FirstFacts DEF TakeFailedRead
  <2> QED  BY <1>14, <2>1, <1>s DEF TakeFailedRead, Dequeue
<1>15. ASSUME NEW w \in Workers, RejectAccept(w) PROVE Types'
  BY <1>15, <1>s DEF RejectAccept, CreateAcceptSocket, Handle, Fresh
<1>16. ASSUME NEW w \in Workers, RepostAccept(w) PROVE Types'
  BY <1>16, <1>s DEF RepostAccept, CreateAcceptSocket, Handle, Fresh
<1>17. ASSUME NEW w \in Workers, UseFreedSlot(w) PROVE Types'
  BY <1>17, <1>s DEF UseFreedSlot
<1>18. ASSUME NEW w \in Workers, AdmitAccept(w) PROVE Types'
  BY <1>18, <1>s DEF AdmitAccept, Handle
<1>19. ASSUME NEW w \in Workers, UpdateCompletionPort(w) PROVE Types'
  BY <1>19, <1>s DEF UpdateCompletionPort, Handle
<1>20. ASSUME NEW w \in Workers, StorePort(w) PROVE Types'
  BY <1>20, <1>s DEF StorePort, Handle
<1>21. ASSUME NEW w \in Workers, PostRead(w) PROVE Types'
  BY <1>21, <1>s DEF PostRead, Handle
<1>22. ASSUME NEW w \in Workers, PostReadInvalid(w) PROVE Types'
  BY <1>22, <1>s DEF PostReadInvalid, Handle
<1>23. ASSUME NEW w \in Workers, ReleaseAgain(w) PROVE Types'
  BY <1>23, <1>s DEF ReleaseAgain, WaitFails
<1>24. ASSUME NEW w \in Workers, ExitUninitialised(w) PROVE Types'
  BY <1>24, <1>s DEF ExitUninitialised, WaitFails, Handle
<1>25. ASSUME NEW w \in Workers, UseFreedContext(w) PROVE Types'
  BY <1>25, <1>s DEF UseFreedContext
<1>26. CASE UNCHANGED vars
  BY <1>26, <1>s DEF vars
<1> QED  BY <1>1, <1>2, <1>3, <1>4, <1>5, <1>6, <1>7, <1>8, <1>9, <1>10, <1>11,
            <1>12, <1>13, <1>14, <1>15, <1>16, <1>17, <1>18, <1>19, <1>20, <1>21,
            <1>22, <1>23, <1>24, <1>25, <1>26, NextCases

\* The ports keep their types.
LEMMA PortsTypesStep ==
    Types /\ PortsTypes /\ RunsFit /\ [Next]_vars
        => PortsTypes'
<1> SUFFICES ASSUME Types, PortsTypes, RunsFit, [Next]_vars PROVE PortsTypes'
  OBVIOUS
<1> USE DEF PortsTypes, portVars, waitVars
<1>1. CASE Startup
  <2>1. /\ ports' = ports /\ m_hIOCP' = 1 /\ UNCHANGED <<home, key, inside>> /\ lost' = FALSE
        /\ Len(ports) \in Nat /\ 1 \in 0..Len(ports)
    BY <1>1 DEF Startup
  <2> QED  BY <2>1
<1>2. CASE RaiseShutdown
  BY <1>2 DEF RaiseShutdown
<1>3. CASE CloseListen
  BY <1>3 DEF CloseListen
<1>4. ASSUME NEW a \in Slots, slot[a] # "posted" /\ Free(a) PROVE PortsTypes'
  BY <1>4 DEF Free
<1>5. CASE CloseAll
  BY <1>5 DEF CloseAll
<1>6. CASE PostPill
  <2>1. Pill \in Packet /\ UNCHANGED <<m_hIOCP, home, key, inside, lost>>
    BY <1>6 DEF PostPill, Packet
  <2>2. CASE m_hIOCP = NULL
    BY <1>6, <2>1, <2>2 DEF PostPill
  <2>3. CASE m_hIOCP # NULL
    <3>1. ports' = [ports EXCEPT ![m_hIOCP] = Append(@, Pill)]
      BY <1>6, <2>3 DEF PostPill
    <3> QED  BY <2>1, <3>1, PortAppended
  <2> QED  BY <2>2, <2>3
<1>7. CASE EndShutdown
  <2>1. /\ ports' = << <<>> >> /\ m_hIOCP' = 0 /\ home' = [s \in Sockets |-> 0]
        /\ UNCHANGED <<key, inside, lost>> /\ inside = [w \in Workers |-> 0]
    BY <1>7 DEF EndShutdown, AllExited, RunsFit, NULL
  <2>2. <<>> \in Seq(Packet)
    OBVIOUS
  <2> HIDE DEF Packet
  <2> QED  BY <2>1, <2>2
<1>8. ASSUME NEW a \in Slots, CompleteAccept(a) PROVE PortsTypes'
  <2>1. /\ Accepted(a) \in Packet /\ ports' = [ports EXCEPT ![1] = Append(@, Accepted(a))]
        /\ UNCHANGED <<m_hIOCP, home, key, inside, lost>>
    BY <1>8 DEF CompleteAccept, Packet
  <2> QED  BY <2>1, PortAppended
<1>9. ASSUME NEW s \in Sockets, CompleteRead(s) PROVE PortsTypes'
  <2>1. /\ Received(s) \in Packet /\ UNCHANGED <<m_hIOCP, home, key, inside, lost>>
        /\ ports' = [ports EXCEPT ![home[s]] = Append(@, Received(s))]
    BY <1>9 DEF CompleteRead, Packet
  <2> QED  BY <2>1, PortAppended
<1>10. ASSUME NEW w \in Workers, TakePill(w) PROVE PortsTypes'
  <2>1. Waits(w) /\ Dequeue(w, NoSocket) /\ UNCHANGED <<m_hIOCP, home, lost>>
    BY <1>10 DEF TakePill
  <2>2. ports' \in Seq(Seq(Packet)) /\ Len(ports') = Len(ports)
    BY <2>1, PortDequeued
  <2>3. key' = [key EXCEPT ![w] = NoSocket] /\ inside' = [inside EXCEPT ![w] = 0]
    BY <2>1 DEF Dequeue, NULL
  <2> QED  BY <2>1, <2>2, <2>3
<1>11. ASSUME NEW w \in Workers, DropAccept(w) PROVE PortsTypes'
  <2>1. Waits(w) /\ Dequeue(w, Server) /\ UNCHANGED <<m_hIOCP, home, lost>>
    BY <1>11 DEF DropAccept
  <2>2. ports' \in Seq(Seq(Packet)) /\ Len(ports') = Len(ports)
    BY <2>1, PortDequeued
  <2>3. key' = [key EXCEPT ![w] = Server] /\ inside' = [inside EXCEPT ![w] = 0]
    BY <2>1 DEF Dequeue, NULL
  <2> QED  BY <2>1, <2>2, <2>3
<1>12. ASSUME NEW w \in Workers, TakeAccept(w) PROVE PortsTypes'
  <2>1. Waits(w) /\ Dequeue(w, Server) /\ UNCHANGED <<m_hIOCP, home, lost>>
    BY <1>12 DEF TakeAccept
  <2>2. ports' \in Seq(Seq(Packet)) /\ Len(ports') = Len(ports)
    BY <2>1, PortDequeued
  <2>3. key' = [key EXCEPT ![w] = Server] /\ inside' = [inside EXCEPT ![w] = 0]
    BY <2>1 DEF Dequeue, NULL
  <2> QED  BY <2>1, <2>2, <2>3
<1>13. ASSUME NEW w \in Workers, TakeRead(w) PROVE PortsTypes'
  <2>1. Waits(w) /\ Dequeue(w, First(w).socket) /\ UNCHANGED <<m_hIOCP, home, lost>>
    BY <1>13 DEF TakeRead
  <2>2. ports' \in Seq(Seq(Packet)) /\ Len(ports') = Len(ports)
    BY <2>1, PortDequeued
  <2>3. key' = [key EXCEPT ![w] = First(w).socket] /\ inside' = [inside EXCEPT ![w] = 0]
    BY <2>1 DEF Dequeue, NULL
  <2>4. First(w).socket \in Sockets
    BY <1>13, FirstFacts DEF TakeRead
  <2> QED  BY <2>1, <2>2, <2>3, <2>4
<1>14. ASSUME NEW w \in Workers, TakeFailedRead(w) PROVE PortsTypes'
  <2>1. Waits(w) /\ Dequeue(w, First(w).socket) /\ UNCHANGED <<m_hIOCP, home, lost>>
    BY <1>14 DEF TakeFailedRead
  <2>2. ports' \in Seq(Seq(Packet)) /\ Len(ports') = Len(ports)
    BY <2>1, PortDequeued
  <2>3. key' = [key EXCEPT ![w] = First(w).socket] /\ inside' = [inside EXCEPT ![w] = 0]
    BY <2>1 DEF Dequeue, NULL
  <2>4. First(w).socket \in Sockets
    BY <1>14, FirstFacts DEF TakeFailedRead
  <2> QED  BY <2>1, <2>2, <2>3, <2>4
<1>15. ASSUME NEW w \in Workers, RejectAccept(w) PROVE PortsTypes'
  BY <1>15 DEF RejectAccept, CreateAcceptSocket, Handle, Fresh
<1>16. ASSUME NEW w \in Workers, RepostAccept(w) PROVE PortsTypes'
  BY <1>16 DEF RepostAccept, CreateAcceptSocket, Handle, Fresh
<1>17. ASSUME NEW w \in Workers, UseFreedSlot(w) PROVE PortsTypes'
  BY <1>17 DEF UseFreedSlot
<1>18. ASSUME NEW w \in Workers, AdmitAccept(w) PROVE PortsTypes'
  BY <1>18 DEF AdmitAccept, Handle
<1>19. ASSUME NEW w \in Workers, UpdateCompletionPort(w) PROVE PortsTypes'
  <2>1. /\ UNCHANGED <<m_hIOCP, key, inside, lost>> /\ on[w] \in Sockets
    BY <1>19 DEF UpdateCompletionPort, RunsFit
  <2>2. CASE UNCHANGED ports
    <3>1. home' = [home EXCEPT ![on[w]] = home'[on[w]]] /\ home'[on[w]] \in 0..Len(ports)
      <4>1. \/ home' = [home EXCEPT ![on[w]] = m_hIOCP] \/ home' = [home EXCEPT ![on[w]] = 0]
        <5>1. CASE m_hIOCP # NULL /\ home' = [home EXCEPT ![on[w]] =
                       IF socket[on[w]] = "open" THEN m_hIOCP ELSE NULL]
          BY <5>1 DEF NULL
        <5>2. CASE home' = [home EXCEPT ![on[w]] = NULL]
          BY <5>2 DEF NULL
        <5>3. ports' # Append(ports, <<>>)
          <6>1. Len(Append(ports, <<>>)) = Len(ports) + 1 /\ Len(ports) \in Nat
            OBVIOUS
          <6> QED  BY <2>2, <6>1
        <5> QED  BY <1>19, <5>1, <5>2, <5>3 DEF UpdateCompletionPort
      <4> QED  BY <2>1, <4>1
    <3> QED  BY <2>1, <2>2, <3>1
  <2>3. CASE ports' = Append(ports, <<>>) /\ home' = [home EXCEPT ![on[w]] = Len(ports) + 1]
    <3>1. <<>> \in Seq(Packet)
      OBVIOUS
    <3>2. ports' \in Seq(Seq(Packet)) /\ Len(ports') = Len(ports) + 1 /\ Len(ports) \in Nat
      BY <2>3, <3>1
    <3> QED  BY <2>1, <2>3, <3>2
  <2> QED  BY <1>19, <2>2, <2>3 DEF UpdateCompletionPort
<1>20. ASSUME NEW w \in Workers, StorePort(w) PROVE PortsTypes'
  <2>1. on[w] \in Sockets /\ m_hIOCP' = home[on[w]] /\ UNCHANGED <<ports, home, key>>
    BY <1>20 DEF StorePort, RunsFit
  <2>2. lost' \in BOOLEAN
    BY <1>20 DEF StorePort
  <2>3. inside' \in [Workers -> 0..Len(ports)]
    BY <1>20 DEF StorePort
  <2> QED  BY <2>1, <2>2, <2>3
<1>21. ASSUME NEW w \in Workers, PostRead(w) PROVE PortsTypes'
  BY <1>21 DEF PostRead, Handle
<1>22. ASSUME NEW w \in Workers, PostReadInvalid(w) PROVE PortsTypes'
  BY <1>22 DEF PostReadInvalid, Handle
<1>23. ASSUME NEW w \in Workers, ReleaseAgain(w) PROVE PortsTypes'
  BY <1>23 DEF ReleaseAgain, WaitFails
<1>24. ASSUME NEW w \in Workers, ExitUninitialised(w) PROVE PortsTypes'
  BY <1>24 DEF ExitUninitialised, WaitFails, Handle
<1>25. ASSUME NEW w \in Workers, UseFreedContext(w) PROVE PortsTypes'
  BY <1>25 DEF UseFreedContext
<1>26. CASE UNCHANGED vars
  BY <1>26 DEF vars
<1> QED  BY <1>1, <1>2, <1>3, <1>4, <1>5, <1>6, <1>7, <1>8, <1>9, <1>10, <1>11,
            <1>12, <1>13, <1>14, <1>15, <1>16, <1>17, <1>18, <1>19, <1>20, <1>21,
            <1>22, <1>23, <1>24, <1>25, <1>26, NextCases

\* Shutdown posts as many NULL packets as there are threads.
LEMMA PillBoundsStep ==
    PillBounds /\ [Next]_vars
        => PillBounds'
<1> SUFFICES ASSUME PillBounds, [Next]_vars PROVE PillBounds'
  OBVIOUS
<1> USE DEF PillBounds
<1>1. CASE Startup
  BY <1>1, SlotsFact DEF Startup, Fresh
<1>2. CASE RaiseShutdown
  BY <1>2, SlotsFact DEF RaiseShutdown
<1>3. CASE CloseListen
  BY <1>3, SlotsFact DEF CloseListen
<1>4. ASSUME NEW a \in Slots, slot[a] # "posted" /\ Free(a) PROVE PillBounds'
  BY <1>4, SlotsFact DEF Free
<1>5. CASE CloseAll
  BY <1>5, SlotsFact DEF CloseAll
<1>6. CASE PostPill
  <2>1. /\ phase = "closing" /\ pills' = pills + 1 /\ pills < Cardinality(Workers)
        /\ phase' = IF pills + 1 = Cardinality(Workers) THEN "waiting" ELSE "closing"
    BY <1>6 DEF PostPill
  <2> QED  BY <2>1, SlotsFact
<1>7. CASE EndShutdown
  BY <1>7, SlotsFact DEF EndShutdown, AllExited
<1>8. ASSUME NEW a \in Slots, CompleteAccept(a) PROVE PillBounds'
  BY <1>8, SlotsFact DEF CompleteAccept
<1>9. ASSUME NEW s \in Sockets, CompleteRead(s) PROVE PillBounds'
  BY <1>9, SlotsFact DEF CompleteRead
<1>10. ASSUME NEW w \in Workers, TakePill(w) PROVE PillBounds'
  BY <1>10, SlotsFact DEF TakePill, Waits, Dequeue, Handle
<1>11. ASSUME NEW w \in Workers, DropAccept(w) PROVE PillBounds'
  BY <1>11, SlotsFact DEF DropAccept, Waits, Dequeue
<1>12. ASSUME NEW w \in Workers, TakeAccept(w) PROVE PillBounds'
  BY <1>12, SlotsFact DEF TakeAccept, Waits, Dequeue, Handle
<1>13. ASSUME NEW w \in Workers, TakeRead(w) PROVE PillBounds'
  BY <1>13, SlotsFact DEF TakeRead, Waits, Dequeue, Handle
<1>14. ASSUME NEW w \in Workers, TakeFailedRead(w) PROVE PillBounds'
  BY <1>14, SlotsFact DEF TakeFailedRead, Waits, Dequeue
<1>15. ASSUME NEW w \in Workers, RejectAccept(w) PROVE PillBounds'
  BY <1>15, SlotsFact DEF RejectAccept, CreateAcceptSocket, Handle, Fresh
<1>16. ASSUME NEW w \in Workers, RepostAccept(w) PROVE PillBounds'
  BY <1>16, SlotsFact DEF RepostAccept, CreateAcceptSocket, Handle, Fresh
<1>17. ASSUME NEW w \in Workers, UseFreedSlot(w) PROVE PillBounds'
  BY <1>17, SlotsFact DEF UseFreedSlot
<1>18. ASSUME NEW w \in Workers, AdmitAccept(w) PROVE PillBounds'
  BY <1>18, SlotsFact DEF AdmitAccept, Handle
<1>19. ASSUME NEW w \in Workers, UpdateCompletionPort(w) PROVE PillBounds'
  BY <1>19, SlotsFact DEF UpdateCompletionPort, Handle
<1>20. ASSUME NEW w \in Workers, StorePort(w) PROVE PillBounds'
  BY <1>20, SlotsFact DEF StorePort, Handle
<1>21. ASSUME NEW w \in Workers, PostRead(w) PROVE PillBounds'
  BY <1>21, SlotsFact DEF PostRead, Handle
<1>22. ASSUME NEW w \in Workers, PostReadInvalid(w) PROVE PillBounds'
  BY <1>22, SlotsFact DEF PostReadInvalid, Handle
<1>23. ASSUME NEW w \in Workers, ReleaseAgain(w) PROVE PillBounds'
  BY <1>23, SlotsFact DEF ReleaseAgain, WaitFails
<1>24. ASSUME NEW w \in Workers, ExitUninitialised(w) PROVE PillBounds'
  BY <1>24, SlotsFact DEF ExitUninitialised, WaitFails, Handle
<1>25. ASSUME NEW w \in Workers, UseFreedContext(w) PROVE PillBounds'
  BY <1>25, SlotsFact DEF UseFreedContext
<1>26. CASE UNCHANGED vars
  BY <1>26, SlotsFact DEF vars
<1> QED  BY <1>1, <1>2, <1>3, <1>4, <1>5, <1>6, <1>7, <1>8, <1>9, <1>10, <1>11,
            <1>12, <1>13, <1>14, <1>15, <1>16, <1>17, <1>18, <1>19, <1>20, <1>21,
            <1>22, <1>23, <1>24, <1>25, <1>26, NextCases

\* What holds after the port was lost stays true.
LEMMA RunsStep ==
    Inv /\ [Next]_vars
        => RunsFit'
<1> SUFFICES ASSUME Inv, [Next]_vars PROVE RunsFit'
  OBVIOUS
<1> USE DEF Always, Types, PortsTypes, RunsFit, AllExited, slotVars, portVars, connVars, workerVars, waitVars
<1>i. Always
  BY DEF Inv
<1> USE <1>i
<1>s. NoSlot \notin Slots
  BY SlotsFact
<1>1. CASE Startup
  <2>1. \A v \in Workers : pc[v] # "idle" /\ pc'[v] = "idle"
    BY <1>1 DEF Startup
  <2>2. phase' = "up" /\ lost' = FALSE /\ UNCHANGED inside /\ allocated' = Slots
    BY <1>1 DEF Startup
  <2> QED  BY <2>1, <2>2
<1>2. CASE RaiseShutdown
  BY <1>2 DEF RaiseShutdown
<1>3. CASE CloseListen
  BY <1>3 DEF CloseListen
<1>4. ASSUME NEW a \in Slots, slot[a] # "posted" /\ Free(a) PROVE RunsFit'
  BY <1>4 DEF Free
<1>5. CASE CloseAll
  BY <1>5 DEF CloseAll
<1>6. CASE PostPill
  BY <1>6 DEF PostPill
<1>7. CASE EndShutdown
  BY <1>7 DEF EndShutdown
<1>8. ASSUME NEW a \in Slots, CompleteAccept(a) PROVE RunsFit'
  <2>1. phase # "down"
    BY <1>8 DEF CompleteAccept
  <2> QED  BY <1>8, <2>1 DEF CompleteAccept
<1>9. ASSUME NEW s \in Sockets, CompleteRead(s) PROVE RunsFit'
  <2>1. phase # "down"
    BY <1>9 DEF CompleteRead
  <2> QED  BY <1>9, <2>1 DEF CompleteRead
<1>10. ASSUME NEW w \in Workers, TakePill(w) PROVE RunsFit'
  <2>1. phase # "down"
    BY <1>10 DEF TakePill, Waits
  <2> QED  BY <1>10, <2>1 DEF TakePill, Waits, Dequeue, Handle
<1>11. ASSUME NEW w \in Workers, DropAccept(w) PROVE RunsFit'
  <2>1. phase # "down"
    BY <1>11 DEF DropAccept, Waits
  <2> QED  BY <1>11, <2>1 DEF DropAccept, Waits, Dequeue
<1>12. ASSUME NEW w \in Workers, TakeAccept(w) PROVE RunsFit'
  <2>1. phase # "down"
    BY <1>12 DEF TakeAccept, Waits
  <2> QED  BY <1>12, <2>1 DEF TakeAccept, Waits, Dequeue, Handle
<1>13. ASSUME NEW w \in Workers, TakeRead(w) PROVE RunsFit'
  <2>1. phase # "down"
    BY <1>13 DEF TakeRead, Waits
  <2>2. First(w).socket \in Sockets
    BY <1>13, FirstFacts DEF TakeRead
  <2> QED  BY <1>13, <2>1, <2>2 DEF TakeRead, Waits, Dequeue, Handle
<1>14. ASSUME NEW w \in Workers, TakeFailedRead(w) PROVE RunsFit'
  <2>1. phase # "down"
    BY <1>14 DEF TakeFailedRead, Waits
  <2>2. First(w).socket \in Sockets
    BY <1>14, FirstFacts DEF TakeFailedRead
  <2> QED  BY <1>14, <2>1, <2>2 DEF TakeFailedRead, Waits, Dequeue
<1>15. ASSUME NEW w \in Workers, RejectAccept(w) PROVE RunsFit'
  BY <1>15 DEF RejectAccept, CreateAcceptSocket, Handle, Fresh
<1>16. ASSUME NEW w \in Workers, RepostAccept(w) PROVE RunsFit'
  <2>1. at[w] \in allocated /\ at[w] \in Slots /\ at[w] # NoSlot
    BY <1>16 DEF RepostAccept, Types
  <2>2. ~lost
    BY <2>1
  <2>3. slotSocket[at[w]] \in Sockets
    BY <2>1, <2>2 DEF Inv, Fits, SlotsFit, SocketsFit, Types
  <2>4. /\ UNCHANGED <<phase, ports, m_hIOCP, recv, allocated, lost, inside>>
        /\ pc' = [pc EXCEPT ![w] = "admit"] /\ on' = [on EXCEPT ![w] = slotSocket[at[w]]]
    BY <1>16 DEF RepostAccept, Handle
  <2>5. phase # "down" /\ pc[w] = "accept"
    BY <1>16, <2>1 DEF RepostAccept
  <2>6. \A a \in Slots : slot'[a] = "posted" => a \in allocated
    BY <1>16, <2>1 DEF RepostAccept, CreateAcceptSocket
  <2> HIDE DEF Inv
  <2> QED  BY <2>3, <2>4, <2>5, <2>6
<1>17. ASSUME NEW w \in Workers, UseFreedSlot(w) PROVE RunsFit'
  BY <1>17 DEF UseFreedSlot
<1>18. ASSUME NEW w \in Workers, AdmitAccept(w) PROVE RunsFit'
  BY <1>18 DEF AdmitAccept, Handle
<1>19. ASSUME NEW w \in Workers, UpdateCompletionPort(w) PROVE RunsFit'
  BY <1>19 DEF UpdateCompletionPort, Handle
<1>20. ASSUME NEW w \in Workers, StorePort(w) PROVE RunsFit'
  <2>1. lost' => phase \in {"closing", "waiting", "down"}
    <3>1. CASE phase \in {"up", "flagged", "draining"}
      <4>1. ~lost /\ home[on[w]] = 1
        BY <1>20, <3>1 DEF StorePort, Inv, Kept
      <4> QED  BY <1>20, <4>1 DEF StorePort
    <3> QED  BY <3>1 DEF Types, Phases
  <2>2. phase # "down"
    BY <1>20 DEF StorePort
  <2> QED  BY <1>20, <2>1, <2>2 DEF StorePort, Handle
<1>21. ASSUME NEW w \in Workers, PostRead(w) PROVE RunsFit'
  BY <1>21 DEF PostRead, Handle
<1>22. ASSUME NEW w \in Workers, PostReadInvalid(w) PROVE RunsFit'
  BY <1>22 DEF PostReadInvalid, Handle
<1>23. ASSUME NEW w \in Workers, ReleaseAgain(w) PROVE RunsFit'
  BY <1>23 DEF ReleaseAgain, WaitFails
<1>24. ASSUME NEW w \in Workers, ExitUninitialised(w) PROVE RunsFit'
  BY <1>24 DEF ExitUninitialised, WaitFails, Handle, Sees
<1>25. ASSUME NEW w \in Workers, UseFreedContext(w) PROVE RunsFit'
  BY <1>25 DEF UseFreedContext
<1>26. CASE UNCHANGED vars
  BY <1>26 DEF vars
<1> QED  BY <1>1, <1>2, <1>3, <1>4, <1>5, <1>6, <1>7, <1>8, <1>9, <1>10, <1>11,
            <1>12, <1>13, <1>14, <1>15, <1>16, <1>17, <1>18, <1>19, <1>20, <1>21,
            <1>22, <1>23, <1>24, <1>25, <1>26, NextCases

-----------------------------------------------------------------------------
(* Until the port is lost, the steps are those of a server that keeps it.  *)

\* A worker that waits does so on the port of Startup.
LEMMA SeesPort ==
    ASSUME Inv, ~lost, NEW w \in Workers, pc[w] = "idle"
    PROVE  Sees(w) = 1 /\ m_hIOCP = 1 /\ phase # "down" /\ First(w) = Head(port)
<1>1. phase # "down"
  BY DEF Inv, Always, RunsFit, AllExited
<1>2. m_hIOCP = 1 /\ inside[w] = NULL
  BY <1>1 DEF Inv, Kept
<1> QED  BY <1>1, <1>2 DEF Sees, First, port, NULL

\* Every other step than Startup is one of Step.
LEMMA OnPort ==
    Inv /\ ~lost /\ [Next]_vars
        => Startup \/ Step
<1> SUFFICES ASSUME Inv, ~lost, [Next]_vars PROVE Startup \/ Step
  OBVIOUS
<1> USE DEF connVars, workerVars, slotVars
<1>i. Always /\ Kept
  BY DEF Inv
<1> USE <1>i DEF Always
<1>1. CASE Startup
  BY <1>1
<1>2. CASE RaiseShutdown
  <2>1. UNCHANGED port
    BY <1>2 DEF RaiseShutdown, port
  <2> QED  BY <1>2, <2>1 DEF Step
<1>3. CASE CloseListen
  <2>1. UNCHANGED port
    BY <1>3 DEF CloseListen, port
  <2> QED  BY <1>3, <2>1 DEF Step
<1>4. ASSUME NEW a \in Slots, slot[a] # "posted" /\ Free(a) PROVE Startup \/ Step
  <2>1. UNCHANGED port
    BY <1>4 DEF Free, port
  <2> QED  BY <1>4, <2>1 DEF Step
<1>5. CASE CloseAll
  <2>1. UNCHANGED port
    BY <1>5 DEF CloseAll, port
  <2> QED  BY <1>5, <2>1 DEF Step
<1>6. CASE PostPill
  <2>1. m_hIOCP = 1 /\ 1 \in DOMAIN ports
    BY <1>6 DEF PostPill, Kept
  <2>2. ports' = [ports EXCEPT ![1] = Append(@, Pill)]
    BY <1>6, <2>1 DEF PostPill, NULL
  <2>3. port' = Append(port, Pill)
    BY <2>1, <2>2 DEF port
  <2> QED  BY <1>6, <2>3 DEF PostPill, PostPillOnPort, Step
<1>7. CASE EndShutdown
  <2>1. port' = <<>>
    BY <1>7 DEF EndShutdown, port
  <2> QED  BY <1>7, <2>1 DEF EndShutdown, EndOnPort, Step
<1>8. ASSUME NEW a \in Slots, CompleteAccept(a) PROVE Startup \/ Step
  <2>1. 1 \in DOMAIN ports /\ ports' = [ports EXCEPT ![1] = Append(@, Accepted(a))]
    BY <1>8 DEF CompleteAccept, Kept
  <2>2. port' = Append(port, Accepted(a))
    BY <2>1 DEF port
  <2> QED  BY <1>8, <2>2 DEF CompleteAccept, CompleteAcceptOnPort, Step
<1>9. ASSUME NEW s \in Sockets, CompleteRead(s) PROVE Startup \/ Step
  <2>1. /\ 1 \in DOMAIN ports /\ home[s] = 1
        /\ ports' = [ports EXCEPT ![home[s]] = Append(@, Received(s))]
    BY <1>9 DEF CompleteRead, Kept
  <2>2. port' = Append(port, Received(s))
    BY <2>1 DEF port
  <2> QED  BY <1>9, <2>2 DEF CompleteRead, CompleteReadOnPort, Step
<1>10. ASSUME NEW w \in Workers, TakePill(w) PROVE Startup \/ Step
  <2>1. pc[w] = "idle" /\ ports[Sees(w)] # <<>>
    BY <1>10 DEF TakePill, Waits
  <2>2. Sees(w) = 1 /\ 1 \in DOMAIN ports /\ First(w) = Head(port)
    BY <2>1, SeesPort DEF Kept
  <2>3. ports' = [ports EXCEPT ![Sees(w)] = Tail(@)]
    BY <1>10 DEF TakePill, Dequeue
  <2>4. port' = Tail(port) /\ WaitsOnPort(w)
    BY <2>1, <2>2, <2>3 DEF port, WaitsOnPort
  <2>5. TakePillOnPort(w)
    BY <1>10, <2>2, <2>4 DEF TakePill, TakePillOnPort, Handle
  <2> QED  BY <2>5 DEF Step
<1>11. ASSUME NEW w \in Workers, DropAccept(w) PROVE Startup \/ Step
  <2>1. pc[w] = "idle" /\ ports[Sees(w)] # <<>>
    BY <1>11 DEF DropAccept, Waits
  <2>2. Sees(w) = 1 /\ 1 \in DOMAIN ports /\ First(w) = Head(port)
    BY <2>1, SeesPort DEF Kept
  <2>3. ports' = [ports EXCEPT ![Sees(w)] = Tail(@)]
    BY <1>11 DEF DropAccept, Dequeue
  <2>4. port' = Tail(port) /\ WaitsOnPort(w)
    BY <2>1, <2>2, <2>3 DEF port, WaitsOnPort
  <2>5. DropAcceptOnPort(w)
    BY <1>11, <2>2, <2>4 DEF DropAccept, DropAcceptOnPort
  <2> QED  BY <2>5 DEF Step
<1>12. ASSUME NEW w \in Workers, TakeAccept(w) PROVE Startup \/ Step
  <2>1. pc[w] = "idle" /\ ports[Sees(w)] # <<>>
    BY <1>12 DEF TakeAccept, Waits
  <2>2. Sees(w) = 1 /\ 1 \in DOMAIN ports /\ First(w) = Head(port)
    BY <2>1, SeesPort DEF Kept
  <2>3. ports' = [ports EXCEPT ![Sees(w)] = Tail(@)]
    BY <1>12 DEF TakeAccept, Dequeue
  <2>4. port' = Tail(port) /\ WaitsOnPort(w)
    BY <2>1, <2>2, <2>3 DEF port, WaitsOnPort
  <2>5. TakeAcceptOnPort(w)
    BY <1>12, <2>2, <2>4 DEF TakeAccept, TakeAcceptOnPort, Handle
  <2> QED  BY <2>5 DEF Step
<1>13. ASSUME NEW w \in Workers, TakeRead(w) PROVE Startup \/ Step
  <2>1. pc[w] = "idle" /\ ports[Sees(w)] # <<>>
    BY <1>13 DEF TakeRead, Waits
  <2>2. Sees(w) = 1 /\ 1 \in DOMAIN ports /\ First(w) = Head(port)
    BY <2>1, SeesPort DEF Kept
  <2>3. ports' = [ports EXCEPT ![Sees(w)] = Tail(@)]
    BY <1>13 DEF TakeRead, Dequeue
  <2>4. port' = Tail(port) /\ WaitsOnPort(w)
    BY <2>1, <2>2, <2>3 DEF port, WaitsOnPort
  <2>5. TakeReadOnPort(w)
    BY <1>13, <2>2, <2>4 DEF TakeRead, TakeReadOnPort, Handle
  <2> QED  BY <2>5 DEF Step
<1>14. ASSUME NEW w \in Workers, TakeFailedRead(w) PROVE Startup \/ Step
  <2>1. pc[w] = "idle" /\ ports[Sees(w)] # <<>>
    BY <1>14 DEF TakeFailedRead, Waits
  <2>2. Sees(w) = 1 /\ 1 \in DOMAIN ports /\ First(w) = Head(port)
    BY <2>1, SeesPort DEF Kept
  <2>3. ports' = [ports EXCEPT ![Sees(w)] = Tail(@)]
    BY <1>14 DEF TakeFailedRead, Dequeue
  <2>4. port' = Tail(port) /\ WaitsOnPort(w)
    BY <2>1, <2>2, <2>3 DEF port, WaitsOnPort
  <2>5. TakeFailedReadOnPort(w)
    BY <1>14, <2>2, <2>4 DEF TakeFailedRead, TakeFailedReadOnPort
  <2> QED  BY <2>5 DEF Step
<1>15. ASSUME NEW w \in Workers, RejectAccept(w) PROVE Startup \/ Step
  <2>1. UNCHANGED port
    BY <1>15 DEF RejectAccept, port
  <2> QED  BY <1>15, <2>1 DEF Step
<1>16. ASSUME NEW w \in Workers, RepostAccept(w) PROVE Startup \/ Step
  <2>1. UNCHANGED port
    BY <1>16 DEF RepostAccept, port
  <2> QED  BY <1>16, <2>1 DEF Step
<1>17. ASSUME NEW w \in Workers, UseFreedSlot(w) PROVE Startup \/ Step
  <2>1. UNCHANGED view
    BY <1>17 DEF UseFreedSlot, view, port
  <2> QED  BY <2>1 DEF Step
<1>18. ASSUME NEW w \in Workers, AdmitAccept(w) PROVE Startup \/ Step
  <2>1. UNCHANGED port
    BY <1>18 DEF AdmitAccept, port
  <2> QED  BY <1>18, <2>1 DEF Step
<1>19. ASSUME NEW w \in Workers, UpdateCompletionPort(w) PROVE Startup \/ Step
  <2>1. pc[w] = "update" /\ phase # "down"
    BY <1>19 DEF UpdateCompletionPort, RunsFit, AllExited
  <2>2. m_hIOCP # NULL
    BY <2>1 DEF Kept, NULL
  <2>3. UNCHANGED port /\ Handle(w, "store", NoSlot, on[w])
    BY <1>19, <2>2 DEF UpdateCompletionPort, port
  <2> QED  BY <1>19, <2>1, <2>3 DEF UpdateCompletionPort, PassOn, Step
<1>20. ASSUME NEW w \in Workers, StorePort(w) PROVE Startup \/ Step
  <2>1. pc[w] = "store" /\ UNCHANGED port /\ Handle(w, "post", NoSlot, on[w])
    BY <1>20 DEF StorePort, port
  <2> QED  BY <1>20, <2>1 DEF StorePort, PassOn, Step
<1>21. ASSUME NEW w \in Workers, PostRead(w) PROVE Startup \/ Step
  <2>1. UNCHANGED port
    BY <1>21 DEF PostRead, port
  <2> QED  BY <1>21, <2>1 DEF Step
<1>22. ASSUME NEW w \in Workers, PostReadInvalid(w) PROVE Startup \/ Step
  <2>1. UNCHANGED port
    BY <1>22 DEF PostReadInvalid, port
  <2> QED  BY <1>22, <2>1 DEF Step
<1>23. ASSUME NEW w \in Workers, ReleaseAgain(w) PROVE Startup \/ Step
  <2>1. pc[w] = "idle" /\ Sees(w) = NULL
    BY <1>23 DEF ReleaseAgain, WaitFails
  <2> QED  BY <2>1, SeesPort DEF NULL
<1>24. ASSUME NEW w \in Workers, ExitUninitialised(w) PROVE Startup \/ Step
  <2>1. pc[w] = "idle" /\ Sees(w) = NULL
    BY <1>24 DEF ExitUninitialised, WaitFails
  <2> QED  BY <2>1, SeesPort DEF NULL
<1>25. ASSUME NEW w \in Workers, UseFreedContext(w) PROVE Startup \/ Step
  <2>1. UNCHANGED view
    BY <1>25 DEF UseFreedContext, view, port
  <2> QED  BY <2>1 DEF Step
<1>26. CASE UNCHANGED vars
  <2>1. UNCHANGED view
    BY <1>26 DEF vars, view, port
  <2> QED  BY <2>1 DEF Step
<1> QED  BY <1>1, <1>2, <1>3, <1>4, <1>5, <1>6, <1>7, <1>8, <1>9, <1>10, <1>11,
            <1>12, <1>13, <1>14, <1>15, <1>16, <1>17, <1>18, <1>19, <1>20, <1>21,
            <1>22, <1>23, <1>24, <1>25, <1>26, NextCases

\* The port of Startup stays the only one.
LEMMA KeptStep ==
    Inv /\ ~lost /\ ~lost' /\ ~Startup /\ [Next]_vars
        => Kept'
<1> SUFFICES ASSUME Inv, ~lost, ~lost', ~Startup, [Next]_vars PROVE Kept'
  OBVIOUS
<1> USE DEF Types, PortsTypes, RunsFit, Kept, Arriving, slotVars, portVars, connVars, workerVars, waitVars
<1>i. Always /\ Kept /\ ReadsFit /\ SocketsFit /\ SlotsFit
  BY DEF Inv, Fits
<1> USE <1>i DEF Always
<1>1. CASE Startup
  BY <1>1 DEF Startup, Fresh
<1>2. CASE RaiseShutdown
  BY <1>2 DEF RaiseShutdown
<1>3. CASE CloseListen
  BY <1>3 DEF CloseListen
<1>4. ASSUME NEW a \in Slots, slot[a] # "posted" /\ Free(a) PROVE Kept'
  BY <1>4 DEF Free
<1>5. CASE CloseAll
  BY <1>5 DEF CloseAll
<1>6. CASE PostPill
  BY <1>6 DEF PostPill
<1>7. CASE EndShutdown
  BY <1>7 DEF EndShutdown, AllExited
<1>8. ASSUME NEW a \in Slots, CompleteAccept(a) PROVE Kept'
  BY <1>8 DEF CompleteAccept
<1>9. ASSUME NEW s \in Sockets, CompleteRead(s) PROVE Kept'
  BY <1>9 DEF CompleteRead
<1>10. ASSUME NEW w \in Workers, TakePill(w) PROVE Kept'
  BY <1>10 DEF TakePill, Waits, Dequeue, Handle
<1>11. ASSUME NEW w \in Workers, DropAccept(w) PROVE Kept'
  BY <1>11 DEF DropAccept, Waits, Dequeue
<1>12. ASSUME NEW w \in Workers, TakeAccept(w) PROVE Kept'
  BY <1>12 DEF TakeAccept, Waits, Dequeue, Handle
<1>13. ASSUME NEW w \in Workers, TakeRead(w) PROVE Kept'
  <2> DEFINE s == Head(port).socket
  <2>1. /\ pc[w] = "idle" /\ ports[Sees(w)] # <<>> /\ First(w).kind = "read"
        /\ ports' = [ports EXCEPT ![Sees(w)] = Tail(@)] /\ inside' = [inside EXCEPT ![w] = NULL]
    BY <1>13 DEF TakeRead, Waits, Dequeue
  <2>2. Sees(w) = 1 /\ 1 \in DOMAIN ports /\ First(w) = Head(port) /\ port # <<>>
    BY <2>1, SeesPort DEF port
  <2>3. PortType /\ port' = Tail(port)
    BY <2>1, <2>2 DEF port, Inv, Fits
  <2>4. s \in Sockets /\ recv[s] = "queued"
    BY <2>1, <2>2, <2>3, ReadTaken
  <2>5. \A v \in Workers : Arriving(v) => on[v] # s
    BY <2>4 DEF ReadsFit
  <2>6. Len(ports') = 1 /\ UNCHANGED <<phase, m_hIOCP, home>>
    BY <1>13, <2>1, <2>2 DEF TakeRead
  <2>7. /\ recv' = [recv EXCEPT ![s] = "held"] /\ pc' = [pc EXCEPT ![w] = "read"]
        /\ on' = [on EXCEPT ![w] = s] /\ socket' = socket
    BY <1>13, <2>2 DEF TakeRead, Handle
  <2> HIDE DEF s
  <2> QED  BY <2>1, <2>4, <2>5, <2>6, <2>7
<1>14. ASSUME NEW w \in Workers, TakeFailedRead(w) PROVE Kept'
  <2> DEFINE s == Head(port).socket
  <2>1. /\ pc[w] = "idle" /\ ports[Sees(w)] # <<>> /\ First(w).kind = "read"
        /\ ports' = [ports EXCEPT ![Sees(w)] = Tail(@)] /\ inside' = [inside EXCEPT ![w] = NULL]
    BY <1>14 DEF TakeFailedRead, Waits, Dequeue
  <2>2. Sees(w) = 1 /\ 1 \in DOMAIN ports /\ First(w) = Head(port) /\ port # <<>>
    BY <2>1, SeesPort DEF port
  <2>3. PortType /\ port' = Tail(port)
    BY <2>1, <2>2 DEF port, Inv, Fits
  <2>4. s \in Sockets /\ recv[s] = "queued"
    BY <2>1, <2>2, <2>3, ReadTaken
  <2>5. \A v \in Workers : Arriving(v) => on[v] # s
    BY <2>4 DEF ReadsFit
  <2>6. Len(ports') = 1 /\ UNCHANGED <<phase, m_hIOCP, home>>
    BY <1>14, <2>1, <2>2 DEF TakeFailedRead
  <2>7. /\ recv' = [recv EXCEPT ![s] = "none"] /\ pc' = pc /\ on' = on
        /\ socket' = [socket EXCEPT ![s] = "deleted"]
    BY <1>14, <2>2 DEF TakeFailedRead
  <2> HIDE DEF s
  <2> QED  BY <2>1, <2>4, <2>5, <2>6, <2>7
<1>15. ASSUME NEW w \in Workers, RejectAccept(w) PROVE Kept'
  <2>1. /\ slotSocket[at[w]] \in Sockets /\ socket[slotSocket[at[w]]] = "prepared"
        /\ pc[w] = "accept"
    BY <1>15, SlotsFact DEF RejectAccept, SlotsFit, SocketsFit
  <2>2. \A r \in Sockets : socket[r] = "open" => socket'[r] = "open"
    BY <1>15, <2>1 DEF RejectAccept, CreateAcceptSocket, Fresh
  <2>3. /\ UNCHANGED <<phase, ports, m_hIOCP, home, inside, recv>>
        /\ pc' = [pc EXCEPT ![w] = "idle"] /\ on' = [on EXCEPT ![w] = NoSocket]
    BY <1>15 DEF RejectAccept, Handle
  <2> QED  BY <2>1, <2>2, <2>3
<1>16. ASSUME NEW w \in Workers, RepostAccept(w) PROVE Kept'
  BY <1>16 DEF RepostAccept, CreateAcceptSocket, Handle, Fresh
<1>17. ASSUME NEW w \in Workers, UseFreedSlot(w) PROVE Kept'
  BY <1>17 DEF UseFreedSlot
<1>18. ASSUME NEW w \in Workers, AdmitAccept(w) PROVE Kept'
  BY <1>18 DEF AdmitAccept, Handle, ReadsFit, SocketsFit
<1>19. ASSUME NEW w \in Workers, UpdateCompletionPort(w) PROVE Kept'
  <2> DEFINE s == on[w]
  <2>1. pc[w] = "update" /\ phase # "down" /\ s \in Sockets /\ recv[s] = "none"
    BY <1>19 DEF UpdateCompletionPort, AllExited, ReadsFit
  <2>2. m_hIOCP = 1 /\ m_hIOCP # NULL
    BY <2>1 DEF NULL
  <2>3. /\ home' = [home EXCEPT ![s] = IF socket[s] = "open" THEN 1 ELSE NULL]
        /\ UNCHANGED <<phase, ports, m_hIOCP, inside, recv, socket>>
        /\ pc' = [pc EXCEPT ![w] = "store"] /\ on' = [on EXCEPT ![w] = s]
    BY <1>19, <2>2 DEF UpdateCompletionPort, Handle
  <2>4. \A v \in Workers : v # w /\ (Arriving(v) \/ pc[v] = "read") => on[v] # s
    BY <2>1 DEF ReadsFit
  <2>5. s = on[w]
    OBVIOUS
  <2> HIDE DEF s
  <2> QED  BY <2>1, <2>3, <2>4, <2>5
<1>20. ASSUME NEW w \in Workers, StorePort(w) PROVE Kept'
  <2> DEFINE s == on[w]
  <2>1. pc[w] = "store" /\ home[s] = 1 /\ phase # "down"
    BY <1>20 DEF StorePort, AllExited
  <2>2. m_hIOCP = 1
    BY <2>1
  <2>3. PICK W \in SUBSET {v \in Workers : pc[v] = "idle" /\ inside[v] = NULL} :
          /\ home[s] = m_hIOCP => W = {}
          /\ inside' = [v \in Workers |-> IF v \in W THEN m_hIOCP ELSE inside[v]]
    BY <1>20 DEF StorePort
  <2>4. inside' = inside
    BY <2>1, <2>2, <2>3
  <2>5. /\ m_hIOCP' = 1 /\ UNCHANGED <<phase, ports, home, recv, socket>>
        /\ pc' = [pc EXCEPT ![w] = "post"] /\ on' = [on EXCEPT ![w] = s]
    BY <1>20, <2>1 DEF StorePort, Handle
  <2>6. s = on[w]
    OBVIOUS
  <2> HIDE DEF s
  <2> QED  BY <2>1, <2>4, <2>5, <2>6
<1>21. ASSUME NEW w \in Workers, PostRead(w) PROVE Kept'
  BY <1>21 DEF PostRead, Handle, ReadsFit, NULL
<1>22. ASSUME NEW w \in Workers, PostReadInvalid(w) PROVE Kept'
  BY <1>22 DEF PostReadInvalid, Handle, ReadsFit, NULL
<1>23. ASSUME NEW w \in Workers, ReleaseAgain(w) PROVE Kept'
  <2>1. pc[w] = "idle" /\ Sees(w) = NULL
    BY <1>23 DEF ReleaseAgain, WaitFails
  <2> QED  BY <2>1, SeesPort DEF NULL
<1>24. ASSUME NEW w \in Workers, ExitUninitialised(w) PROVE Kept'
  <2>1. pc[w] = "idle" /\ Sees(w) = NULL
    BY <1>24 DEF ExitUninitialised, WaitFails
  <2> QED  BY <2>1, SeesPort DEF NULL
<1>25. ASSUME NEW w \in Workers, UseFreedContext(w) PROVE Kept'
  BY <1>25 DEF UseFreedContext
<1>26. CASE UNCHANGED vars
  BY <1>26 DEF vars
<1> QED  BY <1>1, <1>2, <1>3, <1>4, <1>5, <1>6, <1>7, <1>8, <1>9, <1>10, <1>11,
            <1>12, <1>13, <1>14, <1>15, <1>16, <1>17, <1>18, <1>19, <1>20, <1>21,
            <1>22, <1>23, <1>24, <1>25, <1>26, NextCases

\* Only StorePort can lose the port, and only Startup makes another.
LEMMA LostByStore ==
    ~Startup /\ [Next]_vars
        => UNCHANGED lost \/ \E v \in Workers : StorePort(v)
<1> SUFFICES ASSUME ~Startup, [Next]_vars PROVE UNCHANGED lost \/ \E v \in Workers : StorePort(v)
  OBVIOUS
<1> USE DEF portVars
<1>1. CASE Startup
  BY <1>1
<1>2. CASE RaiseShutdown
  BY <1>2 DEF RaiseShutdown
<1>3. CASE CloseListen
  BY <1>3 DEF CloseListen
<1>4. ASSUME NEW a \in Slots, slot[a] # "posted" /\ Free(a) PROVE UNCHANGED lost \/ \E v \in Workers : StorePort(v)
  BY <1>4 DEF Free
<1>5. CASE CloseAll
  BY <1>5 DEF CloseAll
<1>6. CASE PostPill
  BY <1>6 DEF PostPill
<1>7. CASE EndShutdown
  BY <1>7 DEF EndShutdown, AllExited
<1>8. ASSUME NEW a \in Slots, CompleteAccept(a) PROVE UNCHANGED lost \/ \E v \in Workers : StorePort(v)
  BY <1>8 DEF CompleteAccept
<1>9. ASSUME NEW s \in Sockets, CompleteRead(s) PROVE UNCHANGED lost \/ \E v \in Workers : StorePort(v)
  BY <1>9 DEF CompleteRead
<1>10. ASSUME NEW w \in Workers, TakePill(w) PROVE UNCHANGED lost \/ \E v \in Workers : StorePort(v)
  BY <1>10 DEF TakePill, Waits, Dequeue, Handle
<1>11. ASSUME NEW w \in Workers, DropAccept(w) PROVE UNCHANGED lost \/ \E v \in Workers : StorePort(v)
  BY <1>11 DEF DropAccept, Waits, Dequeue
<1>12. ASSUME NEW w \in Workers, TakeAccept(w) PROVE UNCHANGED lost \/ \E v \in Workers : StorePort(v)
  BY <1>12 DEF TakeAccept, Waits, Dequeue, Handle
<1>13. ASSUME NEW w \in Workers, TakeRead(w) PROVE UNCHANGED lost \/ \E v \in Workers : StorePort(v)
  BY <1>13 DEF TakeRead, Waits, Dequeue, Handle
<1>14. ASSUME NEW w \in Workers, TakeFailedRead(w) PROVE UNCHANGED lost \/ \E v \in Workers : StorePort(v)
  BY <1>14 DEF TakeFailedRead, Waits, Dequeue
<1>15. ASSUME NEW w \in Workers, RejectAccept(w) PROVE UNCHANGED lost \/ \E v \in Workers : StorePort(v)
  BY <1>15 DEF RejectAccept, CreateAcceptSocket, Handle, Fresh
<1>16. ASSUME NEW w \in Workers, RepostAccept(w) PROVE UNCHANGED lost \/ \E v \in Workers : StorePort(v)
  BY <1>16 DEF RepostAccept, CreateAcceptSocket, Handle, Fresh
<1>17. ASSUME NEW w \in Workers, UseFreedSlot(w) PROVE UNCHANGED lost \/ \E v \in Workers : StorePort(v)
  BY <1>17 DEF UseFreedSlot
<1>18. ASSUME NEW w \in Workers, AdmitAccept(w) PROVE UNCHANGED lost \/ \E v \in Workers : StorePort(v)
  BY <1>18 DEF AdmitAccept, Handle
<1>19. ASSUME NEW w \in Workers, UpdateCompletionPort(w) PROVE UNCHANGED lost \/ \E v \in Workers : StorePort(v)
  BY <1>19 DEF UpdateCompletionPort, Handle
<1>20. ASSUME NEW w \in Workers, StorePort(w) PROVE UNCHANGED lost \/ \E v \in Workers : StorePort(v)
  BY <1>20
<1>21. ASSUME NEW w \in Workers, PostRead(w) PROVE UNCHANGED lost \/ \E v \in Workers : StorePort(v)
  BY <1>21 DEF PostRead, Handle
<1>22. ASSUME NEW w \in Workers, PostReadInvalid(w) PROVE UNCHANGED lost \/ \E v \in Workers : StorePort(v)
  BY <1>22 DEF PostReadInvalid, Handle
<1>23. ASSUME NEW w \in Workers, ReleaseAgain(w) PROVE UNCHANGED lost \/ \E v \in Workers : StorePort(v)
  BY <1>23 DEF ReleaseAgain, WaitFails
<1>24. ASSUME NEW w \in Workers, ExitUninitialised(w) PROVE UNCHANGED lost \/ \E v \in Workers : StorePort(v)
  BY <1>24 DEF ExitUninitialised, WaitFails, Handle
<1>25. ASSUME NEW w \in Workers, UseFreedContext(w) PROVE UNCHANGED lost \/ \E v \in Workers : StorePort(v)
  BY <1>25 DEF UseFreedContext
<1>26. CASE UNCHANGED vars
  BY <1>26 DEF vars
<1> QED  BY <1>1, <1>2, <1>3, <1>4, <1>5, <1>6, <1>7, <1>8, <1>9, <1>10, <1>11,
            <1>12, <1>13, <1>14, <1>15, <1>16, <1>17, <1>18, <1>19, <1>20, <1>21,
            <1>22, <1>23, <1>24, <1>25, <1>26, NextCases

\* Startup begins with a new port, new accept contexts and new threads, whatever
\* the last Shutdown left.
LEMMA StartupFits == Always /\ Startup => Kept' /\ Fits'
<1> SUFFICES ASSUME Always, Startup PROVE Kept' /\ Fits'
  OBVIOUS
<1> USE DEF Always, RunsFit, AllExited
<1>h. NoSocket \notin Sockets /\ NoSlot \notin Slots
  BY LifecycleAssumption, SlotsFact
<1>1. PICK given \in [Slots -> Fresh \cup {NoSocket}] :
          /\ \A a, b \in Slots : given[a] = given[b] => a = b \/ given[a] = NoSocket
          /\ slotSocket' = given
          /\ slot' = [a \in Slots |-> IF given[a] = NoSocket THEN "idle" ELSE "posted"]
          /\ socket' = [s \in Sockets |-> IF \E a \in Slots : given[a] = s
                                          THEN "prepared" ELSE socket[s]]
  BY DEF Startup
<1>2. /\ ports = << <<>> >> /\ ports' = ports /\ m_hIOCP' = 1 /\ phase' = "up" /\ phase = "down"
      /\ allocated' = Slots /\ \A w \in Workers : pc'[w] = "idle" /\ pc[w] = "exited"
      /\ \A s \in Sockets : recv'[s] = "none"
      /\ UNCHANGED <<at, on, home, inside, pills>>
  <2>1. /\ phase = "down" /\ ports' = ports /\ m_hIOCP' = 1 /\ phase' = "up"
        /\ allocated' = Slots /\ pc' = [w \in Workers |-> "idle"]
        /\ UNCHANGED <<at, on, home, pills, recv, waitVars>>
    BY DEF Startup
  <2> QED  BY <2>1 DEF waitVars
<1>3. \A w \in Workers : inside'[w] = NULL /\ at'[w] = NoSlot
  BY <1>2 DEF Types
<1>4. Kept'
  BY <1>2, <1>3 DEF Kept, Arriving
<1>5. port' = <<>>
  BY <1>2 DEF port
<1>6. \A p : Number(p)' = 0
  BY <1>5, FS_EmptySet DEF Number, PacketsOf
<1>7. PortType'
  BY <1>5 DEF PortType
<1>8. PhasesFit'
  BY <1>2 DEF PhasesFit
<1>9. SlotsFit'
  BY <1>h, <1>1, <1>2, <1>3, <1>6 DEF SlotsFit
<1>10. SocketsFit'
  <2>1. \A a \in Slots : slotSocket'[a] # NoSocket => socket'[slotSocket'[a]] = "prepared"
    BY <1>h, <1>1 DEF Fresh
  <2>2. \A a \in Slots : slot'[a] = "idle" <=> slotSocket'[a] = NoSocket
    BY <1>1
  <2> QED  BY <1>1, <1>2, <2>1, <2>2 DEF SocketsFit
<1>11. ReadsFit'
  BY <1>2, <1>6 DEF ReadsFit, Arriving
<1>12. PillsFit'
  BY <1>2, <1>6 DEF PillsFit, PillCount, Fifo
<1>13. LateFit'
  BY <1>2 DEF LateFit
<1> QED  BY <1>4, <1>7, <1>8, <1>9, <1>10, <1>11, <1>12, <1>13 DEF Fits

-----------------------------------------------------------------------------
(* The invariant holds and implies ServerIsSound.                          *)

\* The constructor establishes the invariant.
LEMMA InitInv == Init => Inv
<1> SUFFICES ASSUME Init PROVE Inv
  OBVIOUS
<1>1. port = <<>> /\ \A p : PacketsOf(p) = {} /\ Number(p) = 0
  BY EmptyPort DEF Init, port
<1>2. Types
  <2>1. runs \in 0..MaxRuns /\ phase \in Phases
    BY LifecycleAssumption DEF Init, Phases
  <2>4. undefined \in BOOLEAN
    BY DEF Init
  <2>2. /\ slot \in [Slots -> SlotStates] /\ slotSocket \in [Slots -> Sockets \cup {NoSocket}]
        /\ allocated \in SUBSET Slots
    BY DEF Init, SlotStates
  <2>3. /\ socket \in [Sockets -> SocketStates] /\ recv \in [Sockets -> RecvStates]
        /\ at \in [Workers -> Slots \cup {NoSlot}] /\ on \in [Workers -> Sockets \cup {NoSocket}]
    BY DEF Init, SocketStates, RecvStates
  <2> QED  BY <2>1, <2>2, <2>3, <2>4, SlotsFact DEF Init, Types
<1>3. PortType
  BY <1>1 DEF PortType
<1>4. PhasesFit
  BY <1>1 DEF Init, PhasesFit, AllExited
<1>5. SlotsFit
  BY <1>1 DEF Init, SlotsFit
<1>6. SocketsFit
  BY DEF Init, SocketsFit
<1>7. ReadsFit
  BY <1>1 DEF Init, ReadsFit, Arriving
<1>8. PillsFit
  BY <1>1 DEF Init, PillsFit, PillCount, Fifo
<1>9. LateFit
  <2>1. Open = {}
    BY DEF Init, Open
  <2> QED  BY <2>1, FS_EmptySet, AdmittingFew, SlotsFact DEF LateFit
<1>10. PortsTypes
  <2>1. /\ ports = << <<>> >> /\ m_hIOCP = 0 /\ home = [s \in Sockets |-> 0]
        /\ key = [w \in Workers |-> NoSocket] /\ inside = [w \in Workers |-> 0] /\ lost = FALSE
    BY DEF Init, NULL
  <2>2. <<>> \in Seq(Packet) /\ \A S : \A q \in S : << q >> \in Seq(S) /\ Len(<< q >>) = 1
    OBVIOUS
  <2>3. ports \in Seq(Seq(Packet)) /\ Len(ports) = 1
    BY <2>1, <2>2
  <2>4. Len(ports) > 0 /\ m_hIOCP \in 0..Len(ports) /\ home \in [Sockets -> 0..Len(ports)]
        /\ inside \in [Workers -> 0..Len(ports)]
    BY <2>1, <2>3
  <2>5. key \in [Workers -> Sockets \cup {Server, NoSocket}] /\ lost \in BOOLEAN
    BY <2>1
  <2> QED  BY <2>3, <2>4, <2>5 DEF PortsTypes
<1>11. PillBounds
  BY SlotsFact DEF Init, PillBounds
<1>12. RunsFit /\ Kept
  BY DEF Init, RunsFit, Kept, AllExited, Arriving
<1> QED  BY <1>2, <1>3, <1>4, <1>5, <1>6, <1>7, <1>8, <1>9, <1>10, <1>11, <1>12
         DEF Inv, Always, Fits

\* Every step keeps it.
LEMMA StepInv == Inv /\ [Next]_vars => Inv'
<1> SUFFICES ASSUME Inv, [Next]_vars PROVE Inv'
  OBVIOUS
<1>1. Always'
  <2>1. Types' /\ PortsTypes' /\ PillBounds'
    BY TypesStep, PortsTypesStep, PillBoundsStep DEF Inv, Always
  <2>2. RunsFit'
    BY RunsStep
  <2> QED  BY <2>1, <2>2 DEF Always
<1>2. CASE Startup
  BY <1>1, <1>2, StartupFits DEF Inv
<1>3. CASE ~Startup /\ ~lost'
  <2>1. ~lost
    <3>1. CASE UNCHANGED lost
      BY <1>3, <3>1
    <3>2. CASE \E w \in Workers : StorePort(w)
      BY <1>3, <3>2 DEF StorePort
    <3>3. UNCHANGED lost \/ \E w \in Workers : StorePort(w)
      BY <1>3, LostByStore
    <3> QED  BY <3>1, <3>2, <3>3
  <2>2. Step /\ Kept'
    BY <1>3, <2>1, OnPort, KeptStep
  <2>3. Types /\ PillBounds /\ Fits
    BY <2>1 DEF Inv, Always
  <2>4. PortType' /\ PhasesFit' /\ SlotsFit'
    BY <2>2, <2>3, PortStep, PhasesStep, SlotsStep DEF Fits
  <2>5. SocketsFit' /\ ReadsFit'
    BY <2>2, <2>3, SocketsStep, ReadsStep DEF Fits
  <2>6. PillCount' /\ Fifo' /\ LateFit'
    BY <2>2, <2>3, PillCountStep, FifoStep, LateStep DEF Fits, PillsFit
  <2> QED  BY <1>1, <2>2, <2>4, <2>5, <2>6 DEF Inv, Fits, PillsFit
<1> QED  BY <1>1, <1>2, <1>3 DEF Inv

\* What ServerIsSound says of a server that has its port.
Held ==
    /\ SocketsAreNotShared /\ SlotsAreExclusive /\ PillsMatchThreads
    /\ NothingRunsAfterShutdown /\ LostOnlyByFailure /\ LateAdmissionsAreBounded

\* The invariant implies the property.
LEMMA InvSound == Inv => ServerIsSound
<1> SUFFICES ASSUME Inv PROVE ServerIsSound
  OBVIOUS
<1>1. TypeOK
  <2>1. pills \in 0..Cardinality(Workers)
    BY DEF Inv, Always, PillBounds
  <2> QED  BY <2>1 DEF TypeOK, Types, PortsTypes, Packet, Inv, Always
<1>2. PortLostInShutdown
  BY DEF PortLostInShutdown, Inv, Always, RunsFit, Kept
<1>3. ASSUME ~lost PROVE Held
  <2> USE <1>3 DEF Inv, Always, Fits, PillsFit
  <2>1. SocketsAreNotShared
    <3>1. NoSocket \notin Admitting /\ Admitting \cap InSlots = {}
      BY LifecycleAssumption DEF SocketsFit, Admitting, InSlots
    <3>2. \A s \in InSlots \cup Admitting : socket[s] = "prepared"
      BY DEF SocketsFit, Admitting, InSlots
    <3> QED  BY <3>1, <3>2 DEF SocketsAreNotShared, SocketsFit
  <2>2. SlotsAreExclusive
    <3> SUFFICES ASSUME NEW a \in Slots
                 PROVE  /\ Cardinality({w \in Workers : at[w] = a}) + Number(Accepted(a))
                               = IF slot[a] \in {"queued", "held"} THEN 1 ELSE 0
                        /\ slot[a] = "posted" => a \in allocated
      BY DEF SlotsAreExclusive, Number
    <3> DEFINE H == {w \in Workers : at[w] = a}
    <3>1. CASE slot[a] = "held"
      <4>1. PICK w \in Workers : at[w] = a
        BY <3>1 DEF SlotsFit
      <4>2. H = {w}
        BY <4>1, SlotsFact DEF SlotsFit
      <4>3. Cardinality(H) = 1
        BY <4>2, FS_Singleton
      <4> QED  BY <3>1, <4>3 DEF SlotsFit
    <3>2. CASE slot[a] # "held"
      <4>1. H = {}
        BY <3>2, SlotsFact DEF SlotsFit
      <4>2. Cardinality(H) = 0
        BY <4>1, FS_EmptySet
      <4> QED  BY <3>2, <4>2 DEF SlotsFit
    <3> QED  BY <3>1, <3>2
  <2>3. PillsMatchThreads
    BY DEF PillsMatchThreads, PillCount, Number, Exited
  <2>4. NothingRunsAfterShutdown
    <3> SUFFICES ASSUME phase = "down", NEW a \in Slots PROVE slot[a] = "idle"
      BY DEF NothingRunsAfterShutdown, PhasesFit
    <3>1. AllExited /\ port = <<>> /\ allocated = {}
      BY DEF PhasesFit
    <3>2. Number(Accepted(a)) = 0
      BY <3>1, EmptyPort
    <3>3. \A w \in Workers : at[w] # a
      BY <3>1, SlotsFact DEF AllExited, Types
    <3>4. slot[a] \notin {"queued", "posted", "held"}
      BY <3>1, <3>2, <3>3 DEF SlotsFit
    <3> QED  BY <3>4 DEF Types, SlotStates
  <2>5. LostOnlyByFailure
    BY DEF LostOnlyByFailure, SocketsFit, PhasesFit
  <2>6. LateAdmissionsAreBounded
    BY DEF LateAdmissionsAreBounded, LateFit, Open
  <2> QED  BY <2>1, <2>2, <2>3, <2>4, <2>5, <2>6 DEF Held
<1> QED  BY <1>1, <1>2, <1>3 DEF ServerIsSound, Held

\* Whatever the number of workers, sockets and starts: only a Shutdown that has
\* closed the connections it found can lose the port; and unless one does, an
\* accept context and a socket have one owner, Shutdown stops every thread and
\* leaves nothing that the kernel could complete, and each worker can slip at most
\* one connection past it.
THEOREM ServerHolds == Spec => []ServerIsSound
<1>1. Init => Inv
  BY InitInv
<1>2. Inv /\ [Next]_vars => Inv'
  BY StepInv
<1>3. Inv => ServerIsSound
  BY InvSound
<1> QED  BY <1>1, <1>2, <1>3, PTL DEF Spec

================================================================================
