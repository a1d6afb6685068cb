------------------------- MODULE MCSendPipeline_proofs -------------------------
(*****************************************************************************)
(* Proofs about the two other instances of MCSendPipeline: the send path     *)
(* with several workers and sending threads, whose theorem is that of        *)
(* SendPipeline_proofs with the constants and variables of the race, and     *)
(* SharedBuffer. With what SendPipeline_proofs says of one worker they give  *)
(* the theorem about the specification of the run.                           *)
(*****************************************************************************)
EXTENDS MCSendPipeline, SendPipeline_proofs, Integers, FiniteSetTheorems,
        SequenceTheorems, TLAPS

RaceProofs == INSTANCE SendPipeline_proofs WITH
    Workers <- RaceWorkers, Senders <- RaceSenders, Lengths <- ThreeBuffers,
    reader <- raceReader, queue <- raceQueue, socketOpen <- raceSocketOpen,
    posted <- racePosted, port <- racePort, wire <- raceWire,
    used <- raceUsed, accepted <- raceAccepted, completed <- raceCompleted,
    undefined <- raceUndefined, receiver <- raceReceiver, pc <- racePc,
    size <- raceSize

-----------------------------------------------------------------------------
(* The race. RaceProofs has the definitions of Race under other names.      *)

\* The same initial states.
LEMMA SameInit == Race!Init <=> RaceProofs!Init
  BY DEF Race!Init, RaceProofs!Init, Race!NoReader, RaceProofs!NoReader

\* The same variables.
LEMMA SameVars == UNCHANGED Race!vars <=> UNCHANGED RaceProofs!vars
  BY DEF Race!vars, RaceProofs!vars, Race!lists, RaceProofs!lists,
         Race!history, RaceProofs!history, Race!control, RaceProofs!control

\* The same steps.
LEMMA SameNext == Race!Next <=> RaceProofs!Next
  BY
     DEF Race!Next, RaceProofs!Next, Race!NoReader, RaceProofs!NoReader,
         Race!Empty, RaceProofs!Empty, Race!Pop, RaceProofs!Pop, Race!Push,
         RaceProofs!Push, Race!BytesOf, RaceProofs!BytesOf, Race!At,
         RaceProofs!At, Race!Goto, RaceProofs!Goto, Race!SendRefused,
         RaceProofs!SendRefused, Race!SendQueued, RaceProofs!SendQueued,
         Race!SendPosted, RaceProofs!SendPosted, Race!Send, RaceProofs!Send,
         Race!SendFromThread, RaceProofs!SendFromThread, Race!BeginReceive,
         RaceProofs!BeginReceive, Race!SendFromCallback,
         RaceProofs!SendFromCallback, Race!EndReceive, RaceProofs!EndReceive,
         Race!Transmit, RaceProofs!Transmit, Race!Disconnect,
         RaceProofs!Disconnect, Race!Dequeue, RaceProofs!Dequeue,
         Race!AdvancePosition, RaceProofs!AdvancePosition,
         Race!MeasurePosition, RaceProofs!MeasurePosition, Race!SwapReader,
         RaceProofs!SwapReader, Race!CheckReader, RaceProofs!CheckReader,
         Race!PostRest, RaceProofs!PostRest, Race!PostRestFailed,
         RaceProofs!PostRestFailed, Race!UseLostReader,
         RaceProofs!UseLostReader, Race!Write, RaceProofs!Write, Race!Kernel,
         RaceProofs!Kernel, Race!AtRest, RaceProofs!AtRest, Race!Buffers,
         RaceProofs!Buffers, Race!Threads, RaceProofs!Threads, Race!lists,
         RaceProofs!lists, Race!history, RaceProofs!history, Race!control,
         RaceProofs!control, Race!vars, RaceProofs!vars

\* The same property.
LEMMA SameProperty == Race!NothingForgotten <=> RaceProofs!NothingForgotten
  BY DEF Race!NothingForgotten, RaceProofs!NothingForgotten,
         Race!InFlight, RaceProofs!InFlight, Race!Writers, RaceProofs!Writers,
         Race!NoReader, RaceProofs!NoReader, Race!Cardinality, RaceProofs!Cardinality

\* The constants of the race satisfy PipelineAssumption.
LEMMA RaceConstants ==
    /\ ThreeBuffers \in Seq(Nat \ {0}) /\ RaceProofs!IsFiniteSet(RaceWorkers)
    /\ RaceWorkers \cap RaceSenders = {} /\ Nobody \notin RaceProofs!Threads
  BY RaceAssumption DEF ThreeBuffers, RaceProofs!Threads, RaceProofs!IsFiniteSet, IsFiniteSet

\* However many workers and sending threads there are, an open connection with
\* a reader has a send posted, a packet in the port or a worker about to post.
THEOREM RaceIsNotForgotten == Race!Spec => []RaceNothingForgotten
<1>1. RaceProofs!Spec => []RaceProofs!NothingForgotten
  BY RaceConstants, RaceProofs!NothingIsForgotten
<1>2. Race!Spec => RaceProofs!Spec
  <2>1. [Race!Next]_Race!vars => [RaceProofs!Next]_RaceProofs!vars
    BY SameVars, SameNext
  <2> QED
    BY <2>1, SameInit, PTL DEF Race!Spec, RaceProofs!Spec
<1>3. RaceNothingForgotten <=> RaceProofs!NothingForgotten
  BY SameProperty DEF RaceNothingForgotten
<1> QED
  BY <1>1, <1>2, <1>3, PTL

-----------------------------------------------------------------------------
(* Numbers with the width of a DWORD.                                       *)

\* A number is a multiple of the modulus plus its remainder.
LEMMA Division ==
    ASSUME NEW M \in Nat \ {0}, NEW x \in Int
    PROVE  x % M \in 0..M - 1 /\ \E q \in Int : x = (q * M) + (x % M)
<1>1. x = (M * (x \div M)) + (x % M)
  OBVIOUS
<1>2. x \div M \in Int /\ x % M \in 0..M - 1
  OBVIOUS
<1>3. M * (x \div M) = (x \div M) * M
  BY <1>2
<1> QED
  BY <1>1, <1>2, <1>3

\* The remainder is the only one.
LEMMA Remainder ==
    ASSUME NEW M \in Nat \ {0}, NEW x \in Int, NEW r \in 0..M - 1,
           NEW q \in Int, x = (q * M) + r
    PROVE  x % M = r
  OBVIOUS

\* Small numbers are their own remainder.
LEMMA Small ==
    ASSUME NEW M \in Nat \ {0}, NEW x \in 0..M - 1
    PROVE  x % M = x
  OBVIOUS

\* A sum may be reduced before it is added to.
LEMMA ReducedSum ==
    ASSUME NEW M \in Nat \ {0}, NEW x \in Int, NEW k \in Int
    PROVE  ((x % M) + k) % M = (x + k) % M
<1> DEFINE r == x % M
           y == r + k
           s == y % M
<1>1. PICK q \in Int : x = (q * M) + r
  BY Division
<1>2. r \in 0..M - 1 /\ y \in Int
  BY Division
<1>3. s \in 0..M - 1 /\ \E p \in Int : y = (p * M) + s
  BY <1>2, Division
<1>4. PICK p \in Int : y = (p * M) + s
  BY <1>3
<1>5. x + k = ((q + p) * M) + s
  <2> HIDE DEF s, r
  <2>1. x + k = ((q * M) + r) + k
    BY <1>1
  <2>2. (q + p) * M = (q * M) + (p * M)
    OBVIOUS
  <2>3. q * M \in Int /\ p * M \in Int /\ r \in Int /\ s \in Int
    BY <1>2, <1>3
  <2>4. (q + p) * M \in Int
    BY <2>2, <2>3
  <2> QED
    BY <2>1, <2>2, <2>3, <2>4, <1>4
<1>6. q + p \in Int /\ x + k \in Int
  OBVIOUS
<1>7. (x + k) % M = s
  <2> HIDE DEF s
  <2> QED
    BY <1>3, <1>5, <1>6, Remainder
<1> QED
  BY <1>7

-----------------------------------------------------------------------------
(* The inductive invariant of SharedBuffer.                                 *)

Word == 0..Modulus - 1
Block == [refs : Word, dirt : Word, length : Word, capacity : Word]

\* The handles of block b, when d gives the block of a handle.
Users(d, b) == {h \in Handles : d[h] = b}

\* Block b is in the pool p once, or not at all.
Once(p, b) == \E i \in DOMAIN p : p[i] = b /\ \A j \in DOMAIN p : p[j] = b => j = i
Absent(p, b) == \A i \in DOMAIN p : p[i] # b

\* A block is in the pool exactly when it has no handle.
Exact(d, p, b) == IF Users(d, b) = {} THEN Once(p, b) ELSE Absent(p, b)

\* The count of a block is what it started with plus its handles, and a block
\* that started with zero is where it belongs.
Shape(d, bs, p) ==
    /\ bs \in Seq(Block) /\ d \in [Handles -> 0..Len(bs)] /\ p \in Seq(1..Len(bs))
    /\ \A b \in 1..Len(bs) : bs[b].refs = (bs[b].dirt + Cardinality(Users(d, b))) % Modulus
    /\ \A b \in 1..Len(bs) : bs[b].dirt = 0 => Exact(d, p, b)

\* The data of every block lies inside its memory.
Fit(bs) == \A b \in 1..Len(bs) : bs[b].length <= bs[b].capacity

Sound ==
    /\ Shape(data, blocks, pool)
    /\ position \in [Handles -> Word]
    /\ wrapped \in BOOLEAN /\ outside \in BOOLEAN
    /\ ~wrapped => Fit(blocks)
    /\ outside => wrapped

\* Block b of bs has k more references in cs.
Bumped(bs, cs, b, k) ==
    /\ cs \in Seq(Block) /\ Len(cs) = Len(bs)
    /\ \A c \in 1..Len(bs) :
        /\ cs[c].dirt = bs[c].dirt
        /\ cs[c].refs = IF c = b THEN (bs[c].refs + k) % Modulus ELSE bs[c].refs

\* The instance has the operators of FiniteSets under its own name.
LEMMA SameCardinality == \A S : Buffer!Cardinality(S) = Cardinality(S)
  BY DEF Buffer!Cardinality, Cardinality

-----------------------------------------------------------------------------
(* The handles of a block.                                                  *)

\* There are fewer handles than a count can hold.
LEMMA UsersBound ==
    ASSUME NEW d, NEW b
    PROVE  /\ IsFiniteSet(Users(d, b)) /\ Cardinality(Users(d, b)) \in Word
           /\ Cardinality(Users(d, b)) = 0 <=> Users(d, b) = {}
<1>1. Users(d, b) \in SUBSET Handles
  BY DEF Users
<1>2. IsFiniteSet(Users(d, b)) /\ Cardinality(Users(d, b)) <= Cardinality(Handles)
  BY <1>1, BufferAssumption, FS_Subset
<1>3. Cardinality(Users(d, b)) \in Nat /\ Cardinality(Handles) \in Nat
  BY <1>2, BufferAssumption, FS_CardinalityType
<1> QED
  BY <1>2, <1>3, BufferAssumption, FS_EmptySet DEF Word

\* A count that is reduced goes up and down like one that is not.
LEMMA CountMoved ==
    ASSUME NEW x \in Int
    PROVE  /\ ((x % Modulus) + 1) % Modulus = (x + 1) % Modulus
           /\ ((x % Modulus) + (-1)) % Modulus = (x + (-1)) % Modulus
  BY BufferAssumption, ReducedSum

\* A handle that gets a block, or gives it back, changes the number by one.
LEMMA UsersCounted ==
    ASSUME NEW d, NEW e, NEW b, NEW h
    PROVE  /\ Users(e, b) = Users(d, b) \cup {h} /\ h \notin Users(d, b) =>
                Cardinality(Users(e, b)) = Cardinality(Users(d, b)) + 1
           /\ Users(e, b) = Users(d, b) \ {h} /\ h \in Users(d, b) =>
                Cardinality(Users(e, b)) = Cardinality(Users(d, b)) - 1
           /\ Cardinality(Users(e, b)) \in Int /\ Cardinality(Users(d, b)) \in Int
<1>1. IsFiniteSet(Users(d, b))
  BY UsersBound
<1>2. Cardinality(Users(e, b)) \in Int /\ Cardinality(Users(d, b)) \in Int
  BY UsersBound, BufferAssumption DEF Word
<1> QED
  BY <1>1, <1>2, FS_AddElement, FS_RemoveElement

-----------------------------------------------------------------------------
(* The pool.                                                                *)

\* Free puts a block in the pool, at the end.
LEMMA PoolAppended ==
    ASSUME NEW n \in Nat, NEW p \in Seq(1..n), NEW b \in 1..n
    PROVE  /\ Append(p, b) \in Seq(1..n)
           /\ Absent(p, b) => Once(Append(p, b), b)
           /\ \A c : c # b => (Once(p, c) => Once(Append(p, b), c))
                              /\ (Absent(p, c) => Absent(Append(p, b), c))
<1> DEFINE q == Append(p, b)
<1>1. /\ q \in Seq(1..n) /\ Len(q) = Len(p) + 1 /\ Len(p) \in Nat
      /\ DOMAIN q = 1..Len(p) + 1 /\ DOMAIN p = 1..Len(p)
      /\ \A i \in 1..Len(p) : q[i] = p[i]
      /\ q[Len(p) + 1] = b
  OBVIOUS
<1> HIDE DEF q
<1>2. ASSUME Absent(p, b)
      PROVE  Once(q, b)
  <2>1. Len(p) + 1 \in DOMAIN q /\ q[Len(p) + 1] = b
    BY <1>1
  <2>2. ASSUME NEW j \in DOMAIN q, q[j] = b
        PROVE  j = Len(p) + 1
    <3> SUFFICES ASSUME j # Len(p) + 1 PROVE FALSE
      OBVIOUS
    <3>1. j \in 1..Len(p) /\ p[j] = b
      BY <1>1, <2>2
    <3> QED
      BY <1>1, <1>2, <3>1 DEF Absent
  <2> QED
    BY <2>1, <2>2 DEF Once
<1>3. ASSUME NEW c, c # b
      PROVE  (Once(p, c) => Once(q, c)) /\ (Absent(p, c) => Absent(q, c))
  <2>1. \A j \in DOMAIN q : q[j] = c => j \in DOMAIN p /\ p[j] = c
    BY <1>1, <1>3
  <2>2. \A j \in DOMAIN p : j \in DOMAIN q /\ q[j] = p[j]
    BY <1>1
  <2> QED
    BY <2>1, <2>2 DEF Absent, Once
<1> QED
  BY <1>1, <1>2, <1>3 DEF q

\* Alloc takes the first block out of the pool.
LEMMA PoolTaken ==
    ASSUME NEW n \in Nat, NEW p \in Seq(1..n), p # <<>>
    PROVE  /\ Tail(p) \in Seq(1..n) /\ Head(p) \in 1..n
           /\ Once(p, Head(p)) => Absent(Tail(p), Head(p))
           /\ \A c : c # Head(p) => (Once(p, c) => Once(Tail(p), c))
                                    /\ (Absent(p, c) => Absent(Tail(p), c))
<1> DEFINE q == Tail(p)
           b == Head(p)
<1>1. /\ q \in Seq(1..n) /\ b \in 1..n /\ b = p[1]
      /\ Len(p) \in Nat \ {0} /\ Len(q) = Len(p) - 1
      /\ DOMAIN q = 1..Len(p) - 1 /\ DOMAIN p = 1..Len(p)
      /\ \A i \in 1..Len(p) - 1 : q[i] = p[i + 1]
  OBVIOUS
<1> HIDE DEF q, b
<1>0. \A j \in DOMAIN q : j + 1 \in DOMAIN p /\ j + 1 # 1 /\ q[j] = p[j + 1]
  BY <1>1
<1>2. Once(p, b) => Absent(q, b)
  <2>1. 1 \in DOMAIN p /\ p[1] = b
    BY <1>1
  <2> QED
    BY <1>0, <2>1 DEF Absent, Once
<1>3. ASSUME NEW c, c # b, Once(p, c)
      PROVE  Once(q, c)
  <2>1. PICK i \in 1..Len(p) : p[i] = c /\ \A j \in 1..Len(p) : p[j] = c => j = i
    BY <1>1, <1>3 DEF Once
  <2>2. i - 1 \in 1..Len(p) - 1 /\ q[i - 1] = c
    BY <1>1, <1>3, <2>1
  <2>3. ASSUME NEW j \in 1..Len(p) - 1, q[j] = c
        PROVE  j = i - 1
    BY <1>1, <2>1, <2>3
  <2> QED
    BY <1>1, <2>2, <2>3 DEF Once
<1>4. ASSUME NEW c, Absent(p, c)
      PROVE  Absent(q, c)
  BY <1>0, <1>4 DEF Absent
<1> QED
  BY <1>1, <1>2, <1>3, <1>4 DEF q, b

-----------------------------------------------------------------------------
(* A handle gets a block, and gives it back.                                *)

\* Handle h gets block b, or none when b is 0.
Given(d, h, b) == [d EXCEPT ![h] = b]

\* A handle without a block gets block b, which is not in the pool any more.
LEMMA Joins ==
    ASSUME NEW d, NEW bs, NEW p, NEW q, Shape(d, bs, p),
           NEW h \in Handles, d[h] = 0, NEW b \in 1..Len(bs),
           NEW cs, Bumped(bs, cs, b, 1), q \in Seq(1..Len(bs)),
           bs[b].dirt = 0 => Absent(q, b),
           \A c \in 1..Len(bs) : c # b => (Once(p, c) => Once(q, c))
                                          /\ (Absent(p, c) => Absent(q, c))
    PROVE  Shape(Given(d, h, b), cs, q)
<1> DEFINE e == [d EXCEPT ![h] = b]
<1>0. d \in [Handles -> 0..Len(bs)] /\ b # 0 /\ Len(bs) \in Nat
  BY DEF Shape
<1>1. cs \in Seq(Block) /\ Len(cs) = Len(bs) /\ e \in [Handles -> 0..Len(cs)]
      /\ q \in Seq(1..Len(cs))
  BY <1>0 DEF Bumped
<1>2. /\ Cardinality(Users(e, b)) = Cardinality(Users(d, b)) + 1
      /\ h \in Users(e, b)
      /\ \A c \in 1..Len(bs) : c # b => Users(e, c) = Users(d, c)
  <2>2. Users(e, b) = Users(d, b) \cup {h} /\ h \notin Users(d, b)
    BY <1>0 DEF Users
  <2>3. \A c \in 1..Len(bs) : c # b => Users(e, c) = Users(d, c)
    BY <1>0 DEF Users
  <2> HIDE DEF e
  <2> QED
    BY <2>2, <2>3, UsersCounted
<1> HIDE DEF e
<1>3. ASSUME NEW c \in 1..Len(cs)
      PROVE  cs[c].refs = (cs[c].dirt + Cardinality(Users(e, c))) % Modulus
  <2>1. bs[c].refs = (bs[c].dirt + Cardinality(Users(d, c))) % Modulus
    BY <1>1 DEF Shape
  <2>2. CASE c # b
    BY <1>1, <1>2, <2>1, <2>2 DEF Bumped
  <2>3. CASE c = b
    <3> DEFINE x == bs[c].dirt + Cardinality(Users(d, c))
    <3>0. bs[c] \in Block
      BY <1>1, ElementOfSeq DEF Shape
    <3>1. bs[c].dirt \in Int
      BY <3>0, BufferAssumption DEF Block, Word
    <3>2. x \in Int /\ Modulus \in Nat \ {0} /\ Cardinality(Users(d, c)) \in Int
      BY <3>1, UsersBound, BufferAssumption DEF Word
    <3>3. ((x % Modulus) + 1) % Modulus = (x + 1) % Modulus
      <4> HIDE DEF x
      <4> QED
        BY <3>2, CountMoved
    <3>4. cs[c].refs = ((x % Modulus) + 1) % Modulus
      BY <1>1, <2>1, <2>3 DEF Bumped
    <3>6. cs[c].dirt = bs[c].dirt
      BY <1>1 DEF Bumped
    <3>5. x + 1 = cs[c].dirt + Cardinality(Users(e, c))
      <4>1. Cardinality(Users(e, c)) = Cardinality(Users(d, c)) + 1
        BY <1>2, <2>3
      <4> QED
        BY <3>1, UsersBound, UsersCounted, <3>6, <4>1
    <3> QED
      BY <3>3, <3>4, <3>5
  <2> QED
    BY <2>2, <2>3
<1>4. ASSUME NEW c \in 1..Len(cs), cs[c].dirt = 0
      PROVE  Exact(e, q, c)
  <2>1. bs[c].dirt = 0 /\ Exact(d, p, c)
    BY <1>1, <1>4 DEF Shape, Bumped
  <2>2. CASE c # b
    BY <1>1, <1>2, <2>1, <2>2 DEF Exact
  <2>3. CASE c = b
    BY <1>2, <2>1, <2>3 DEF Exact
  <2> QED
    BY <2>2, <2>3
<1> QED
  BY <1>1, <1>3, <1>4 DEF Shape, Given, e

\* A handle gives up its block, which is freed when the count was one.
LEMMA Leaves ==
    ASSUME NEW d, NEW bs, NEW p, Shape(d, bs, p), NEW h \in Handles, d[h] # 0,
           NEW cs, Bumped(bs, cs, d[h], -1)
    PROVE  Shape(Given(d, h, 0), cs,
                 IF bs[d[h]].refs = 1 THEN Append(p, d[h]) ELSE p)
<1> DEFINE e == [d EXCEPT ![h] = 0]
           b == d[h]
           q == IF bs[b].refs = 1 THEN Append(p, b) ELSE p
<1>0. /\ d \in [Handles -> 0..Len(bs)] /\ Len(bs) \in Nat /\ b \in 1..Len(bs)
      /\ p \in Seq(1..Len(bs))
  BY DEF Shape
<1>1. /\ cs \in Seq(Block) /\ Len(cs) = Len(bs) /\ e \in [Handles -> 0..Len(cs)]
      /\ q \in Seq(1..Len(cs))
  <2>1. Append(p, b) \in Seq(1..Len(bs)) /\ q \in {p, Append(p, b)}
    BY <1>0
  <2>2. cs \in Seq(Block) /\ Len(cs) = Len(bs)
    BY DEF Bumped
  <2>3. e \in [Handles -> 0..Len(cs)]
    BY <1>0, <2>2
  <2> QED
    BY <1>0, <2>1, <2>2, <2>3
<1>2. /\ Cardinality(Users(e, b)) = Cardinality(Users(d, b)) - 1
      /\ \A c \in 1..Len(bs) : c # b => Users(e, c) = Users(d, c)
      /\ h \in Users(d, b)
  <2>2. Users(e, b) = Users(d, b) \ {h} /\ h \in Users(d, b)
    BY <1>0 DEF Users
  <2>3. \A c \in 1..Len(bs) : c # b => Users(e, c) = Users(d, c)
    BY <1>0 DEF Users
  <2> HIDE DEF e, b
  <2>4. Cardinality(Users(e, b)) = Cardinality(Users(d, b)) - 1
    BY <2>2, UsersCounted
  <2> QED
    BY <2>2, <2>3, <2>4
<1> HIDE DEF e
<1>3. ASSUME NEW c \in 1..Len(cs)
      PROVE  cs[c].refs = (cs[c].dirt + Cardinality(Users(e, c))) % Modulus
  <2>1. bs[c].refs = (bs[c].dirt + Cardinality(Users(d, c))) % Modulus
    BY <1>1 DEF Shape
  <2>2. CASE c # b
    BY <1>1, <1>2, <2>1, <2>2 DEF Bumped
  <2>3. CASE c = b
    <3> DEFINE x == bs[c].dirt + Cardinality(Users(d, c))
    <3>0. bs[c] \in Block
      BY <1>1, ElementOfSeq DEF Shape
    <3>1. bs[c].dirt \in Int
      BY <3>0, BufferAssumption DEF Block, Word
    <3>2. x \in Int /\ Modulus \in Nat \ {0} /\ Cardinality(Users(d, c)) \in Int
      BY <3>1, UsersBound, BufferAssumption DEF Word
    <3>3. ((x % Modulus) + (-1)) % Modulus = (x + (-1)) % Modulus
      <4> HIDE DEF x
      <4> QED
        BY <3>2, CountMoved
    <3>4. cs[c].refs = ((x % Modulus) + (-1)) % Modulus /\ cs[c].dirt = bs[c].dirt
      BY <1>1, <2>1, <2>3 DEF Bumped
    <3>5. x + (-1) = cs[c].dirt + Cardinality(Users(e, c))
      BY <1>2, <2>3, <3>1, <3>2, <3>4
    <3> QED
      BY <3>3, <3>4, <3>5
  <2> QED
    BY <2>2, <2>3
<1>4. ASSUME NEW c \in 1..Len(cs), cs[c].dirt = 0
      PROVE  Exact(e, q, c)
  <2>1. bs[c].dirt = 0 /\ Exact(d, p, c)
    BY <1>1, <1>4 DEF Shape, Bumped
  <2>2. CASE c # b
    <3>1. (Once(p, c) => Once(q, c)) /\ (Absent(p, c) => Absent(q, c))
      BY <1>0, <2>2, PoolAppended
    <3> QED
      BY <3>1, <1>1, <1>2, <2>1, <2>2 DEF Exact
  <2>3. CASE c = b
    <3>1. bs[c].refs = Cardinality(Users(d, c)) % Modulus
      BY <1>1, <2>1, UsersBound DEF Shape, Word
    <3>2. bs[c].refs = Cardinality(Users(d, c))
      BY <3>1, UsersBound, BufferAssumption, Small DEF Word
    <3>3. Absent(p, c)
      BY <1>2, <2>1, <2>3 DEF Exact
    <3>4. Cardinality(Users(e, c)) = 0 <=> bs[c].refs = 1
      BY <1>2, <2>3, <3>2, UsersBound DEF Word
    <3>5. Users(e, c) = {} <=> bs[c].refs = 1
      BY <3>4, UsersBound
    <3>6. bs[c].refs = 1 => Once(q, c)
      BY <1>0, <2>3, <3>3, PoolAppended
    <3> QED
      BY <2>3, <3>3, <3>5, <3>6 DEF Exact
  <2> QED
    BY <2>2, <2>3
<1> QED
  BY <1>1, <1>3, <1>4 DEF Shape, Given, e

-----------------------------------------------------------------------------
(* The data and the memory of a block.                                      *)

\* Rounded up, a size is at least what it was, and a DWORD.
LEMMA AlignBound ==
    ASSUME NEW n \in Nat
    PROVE  /\ Buffer!Align(n) \in Word
           /\ n <= Modulus - AllocSize => n <= Buffer!Align(n)
<1> DEFINE r == n % AllocSize
           m == n + (AllocSize - IF r # 0 THEN r ELSE AllocSize)
<1>1. AllocSize \in Nat \ {0} /\ Modulus \in Nat \ {0} /\ r \in 0..AllocSize - 1
  <2>1. AllocSize \in Nat \ {0} /\ Modulus \in Nat \ {0} /\ n \in Int
    BY BufferAssumption
  <2> QED
    BY <2>1, Division
<1> HIDE DEF r
<1>2. m \in Int /\ n <= m /\ m >= 0
  BY <1>1
<1>3. n <= Modulus - AllocSize => m \in 0..Modulus - 1
  BY <1>1
<1>4. m % Modulus \in 0..Modulus - 1 /\ (m \in 0..Modulus - 1 => m % Modulus = m)
  <2> HIDE DEF m
  <2> QED
    BY <1>1, <1>2, Division, Small
<1>5. Buffer!Align(n) = m % Modulus
  BY DEF Buffer!Align, r
<1> QED
  <2> HIDE DEF m
  <2> QED
    BY <1>2, <1>3, <1>4, <1>5 DEF Word

\* Reallocate only changes the memory, which is large enough afterwards.
LEMMA GrownBlock ==
    ASSUME NEW x \in Block, NEW n \in Nat
    PROVE  LET g == Buffer!Grown(x, n)
           IN  /\ g \in Block /\ g.refs = x.refs /\ g.dirt = x.dirt /\ g.length = x.length
               /\ n <= Modulus - AllocSize => n <= g.capacity
<1> DEFINE g == Buffer!Grown(x, n)
           a == Buffer!Align(n)
<1>1. a \in Word /\ (n <= Modulus - AllocSize => n <= a)
  BY AlignBound
<1>2. g = [x EXCEPT !.capacity = IF x.capacity < n THEN a ELSE x.capacity]
  BY DEF Buffer!Grown
<1>3. x.capacity \in Word /\ x = [refs |-> x.refs, dirt |-> x.dirt, length |-> x.length,
                                  capacity |-> x.capacity]
  BY DEF Block
<1>4. g = [refs |-> x.refs, dirt |-> x.dirt, length |-> x.length,
           capacity |-> IF x.capacity < n THEN a ELSE x.capacity]
  BY <1>2, <1>3
<1> HIDE DEF a, g
<1> QED
  <2>1. g \in Block /\ g.refs = x.refs /\ g.dirt = x.dirt /\ g.length = x.length
    BY <1>1, <1>4 DEF Block
  <2>2. n <= Modulus - AllocSize => n <= g.capacity
    BY <1>1, <1>3, <1>4, BufferAssumption DEF Word
  <2> QED
    BY <2>1, <2>2 DEF g

\* AddBytesAndReallocate: unless the sum exceeds a DWORD, the new data fits.
LEMMA AddedBlock ==
    ASSUME NEW x \in Block, NEW n \in Nat
    PROVE  LET g == Buffer!Added(x, n)
           IN  /\ g \in Block /\ g.refs = x.refs /\ g.dirt = x.dirt
               /\ ~Buffer!Wraps(x, n) => g.length <= g.capacity
<1> DEFINE s == (x.length + n) % Modulus
           y == Buffer!Grown(x, s)
           g == Buffer!Added(x, n)
<1>1. x.length \in Word
  BY DEF Block
<1>2. s \in Word
  <2>1. x.length + n \in Int /\ Modulus \in Nat \ {0}
    BY <1>1, BufferAssumption DEF Word
  <2> QED
    BY <2>1, Division DEF Word
<1>3. ~Buffer!Wraps(x, n) => s = x.length + n /\ s <= Modulus - AllocSize
  <2>1. ~Buffer!Wraps(x, n) => x.length + n \in 0..Modulus - 1 /\ x.length + n <= Modulus - AllocSize
    BY <1>1, BufferAssumption DEF Buffer!Wraps, Word
  <2> QED
    BY <2>1, BufferAssumption, Small
<1>4. g = [y EXCEPT !.length = s]
  BY DEF Buffer!Added
<1> HIDE DEF s
<1>5. /\ y \in Block /\ y.refs = x.refs /\ y.dirt = x.dirt
      /\ s <= Modulus - AllocSize => s <= y.capacity
  BY <1>2, BufferAssumption, GrownBlock DEF Word
<1> HIDE DEF y, g
<1>6. /\ g \in Block /\ g.refs = y.refs /\ g.dirt = y.dirt
      /\ g.length = s /\ g.capacity = y.capacity
  BY <1>2, <1>4, <1>5 DEF Block
<1> QED
  <2>1. ~Buffer!Wraps(x, n) => g.length <= g.capacity
    BY <1>3, <1>5, <1>6
  <2> QED
    BY <1>5, <1>6, <2>1 DEF g

-----------------------------------------------------------------------------
(* Changes of one block.                                                    *)

\* Block b of bs becomes x.
Replaced(bs, b, x) == [bs EXCEPT ![b] = x]
Recounted(x, n) == [x EXCEPT !.refs = n]

\* The other blocks stay what they are.
LEMMA Changed ==
    ASSUME NEW bs \in Seq(Block), NEW b \in 1..Len(bs), NEW x \in Block
    PROVE  /\ Replaced(bs, b, x) \in Seq(Block) /\ Len(Replaced(bs, b, x)) = Len(bs)
           /\ Replaced(bs, b, x)[b] = x
           /\ \A c \in 1..Len(bs) : c # b => Replaced(bs, b, x)[c] = bs[c]
           /\ Fit(bs) /\ x.length <= x.capacity => Fit(Replaced(bs, b, x))
<1> DEFINE cs == Replaced(bs, b, x)
<1>1. /\ cs \in Seq(Block) /\ Len(cs) = Len(bs)
      /\ cs[b] = x /\ \A c \in 1..Len(bs) : c # b => cs[c] = bs[c]
  BY ExceptSeq DEF Replaced
<1> HIDE DEF cs
<1>2. ASSUME Fit(bs), x.length <= x.capacity
      PROVE  Fit(cs)
  BY <1>1, <1>2 DEF Fit
<1> QED
  BY <1>1, <1>2 DEF cs

SameCount(x, y) == x.refs = y.refs /\ x.dirt = y.dirt

\* A change of its data and memory does not matter to its handles.
LEMMA SameShape ==
    ASSUME NEW d, NEW bs \in Seq(Block), NEW p, NEW b \in 1..Len(bs), NEW x \in Block
    PROVE  Shape(d, bs, p) /\ SameCount(x, bs[b]) => Shape(d, Replaced(bs, b, x), p)
<1> DEFINE cs == Replaced(bs, b, x)
<1>1. /\ cs \in Seq(Block) /\ Len(cs) = Len(bs)
      /\ cs[b] = x /\ \A c \in 1..Len(bs) : c # b => cs[c] = bs[c]
  BY Changed
<1> HIDE DEF cs
<1>2. SameCount(x, bs[b]) =>
        \A c \in 1..Len(bs) : cs[c].refs = bs[c].refs /\ cs[c].dirt = bs[c].dirt
  BY <1>1 DEF SameCount
<1> QED
  BY <1>1, <1>2 DEF Shape, cs

\* AddRef and Release change the count and nothing else.
LEMMA CountChanged ==
    ASSUME NEW bs \in Seq(Block), NEW b \in 1..Len(bs), NEW n \in Word, NEW cs,
           cs = Replaced(bs, b, Recounted(bs[b], n))
    PROVE  /\ cs \in Seq(Block) /\ Len(cs) = Len(bs) /\ (Fit(bs) => Fit(cs))
           /\ \A c \in 1..Len(bs) : cs[c].dirt = bs[c].dirt
           /\ \A c \in 1..Len(bs) : c # b => cs[c].refs = bs[c].refs
           /\ cs[b].refs = n
<1> DEFINE x == Recounted(bs[b], n)
<1>1. bs[b] \in Block
  BY ElementOfSeq
<1>3. /\ x \in Block /\ x.refs = n /\ x.dirt = bs[b].dirt
      /\ x.length = bs[b].length /\ x.capacity = bs[b].capacity
  BY <1>1 DEF Block, Recounted
<1>4. cs = Replaced(bs, b, x)
  OBVIOUS
<1> HIDE DEF x
<1>5. /\ cs \in Seq(Block) /\ Len(cs) = Len(bs)
      /\ cs[b] = x /\ \A c \in 1..Len(bs) : c # b => cs[c] = bs[c]
      /\ Fit(bs) /\ x.length <= x.capacity => Fit(cs)
  <2> DEFINE ds == Replaced(bs, b, x)
  <2>1. /\ ds \in Seq(Block) /\ Len(ds) = Len(bs)
        /\ ds[b] = x /\ \A c \in 1..Len(bs) : c # b => ds[c] = bs[c]
        /\ Fit(bs) /\ x.length <= x.capacity => Fit(ds)
    BY <1>3, Changed
  <2> HIDE DEF ds
  <2>2. cs = ds
    BY <1>4 DEF ds
  <2> QED
    BY <2>1, <2>2
<1>6. Fit(bs) => x.length <= x.capacity
  BY <1>3 DEF Fit
<1>7. \A c \in 1..Len(bs) : cs[c].dirt = bs[c].dirt
  BY <1>3, <1>5
<1>8. \A c \in 1..Len(bs) : c # b => cs[c].refs = bs[c].refs
  BY <1>5
<1>9. cs[b] = x
  BY <1>5
<1> QED
  BY <1>3, <1>5, <1>6, <1>7, <1>8, <1>9

\* IOCPBufferData::AddRef.
LEMMA ReferencedBlock ==
    ASSUME NEW bs \in Seq(Block), NEW b \in 1..Len(bs)
    PROVE  /\ Bumped(bs, Buffer!Referenced(bs, b), b, 1)
           /\ Fit(bs) => Fit(Buffer!Referenced(bs, b))
<1> DEFINE cs == Buffer!Referenced(bs, b)
           n == (bs[b].refs + 1) % Modulus
<1>1. bs[b] \in Block
  BY ElementOfSeq
<1>2. bs[b].refs + 1 \in Int /\ Modulus \in Nat \ {0}
  BY <1>1, BufferAssumption DEF Block, Word
<1>3. n \in Word
  BY <1>2, Division DEF Word
<1>4. cs = Replaced(bs, b, Recounted(bs[b], n))
  BY DEF Buffer!Referenced, Replaced, Recounted
<1> HIDE DEF cs, n
<1>5. /\ cs \in Seq(Block) /\ Len(cs) = Len(bs) /\ (Fit(bs) => Fit(cs))
      /\ \A c \in 1..Len(bs) : cs[c].dirt = bs[c].dirt
      /\ \A c \in 1..Len(bs) : c # b => cs[c].refs = bs[c].refs
      /\ cs[b].refs = n
  BY <1>3, <1>4, CountChanged
<1>6. Bumped(bs, cs, b, 1)
  BY <1>5 DEF Bumped, n
<1> QED
  BY <1>5, <1>6 DEF cs

\* IOCPBufferData::Release.
LEMMA ReleasedBlock ==
    ASSUME NEW bs \in Seq(Block), NEW b \in 1..Len(bs), Buffer!Released(bs, b)
    PROVE  /\ Bumped(bs, blocks', b, -1) /\ (Fit(bs) => Fit(blocks'))
           /\ pool' = IF bs[b].refs = 1 THEN Append(pool, b) ELSE pool
<1> DEFINE cs == blocks'
           n == (bs[b].refs + (-1)) % Modulus
<1>1. bs[b] \in Block
  BY ElementOfSeq
<1>2. /\ bs[b].refs + (-1) \in Int /\ Modulus \in Nat \ {0}
      /\ bs[b].refs - 1 = bs[b].refs + (-1)
  BY <1>1, BufferAssumption DEF Block, Word
<1>3. n \in Word
  BY <1>2, Division DEF Word
<1>4. cs = [bs EXCEPT ![b] = [bs[b] EXCEPT !.refs = (bs[b].refs - 1) % Modulus]]
  BY DEF Buffer!Released
<1>5. cs = Replaced(bs, b, Recounted(bs[b], n))
  BY <1>2, <1>4 DEF Replaced, Recounted
<1>6. pool' = IF bs[b].refs = 1 THEN Append(pool, b) ELSE pool
  BY DEF Buffer!Released, Buffer!Free
<1> HIDE DEF cs, n
<1>7. /\ cs \in Seq(Block) /\ Len(cs) = Len(bs) /\ (Fit(bs) => Fit(cs))
      /\ \A c \in 1..Len(bs) : cs[c].dirt = bs[c].dirt
      /\ \A c \in 1..Len(bs) : c # b => cs[c].refs = bs[c].refs
      /\ cs[b].refs = n
  BY <1>3, <1>5, CountChanged
<1>8. Bumped(bs, cs, b, -1)
  BY <1>7 DEF Bumped, n
<1> QED
  BY <1>6, <1>7, <1>8 DEF cs

-----------------------------------------------------------------------------
(* Allocate.                                                                *)

\* The new blocks of a pool that is filled are in it once, and have no handle.
LEMMA FilledShape ==
    ASSUME Shape(data, blocks, pool), NEW more \in Buffer!Filling
    PROVE  /\ Shape(data, blocks \o more, Buffer!Filled) /\ Buffer!Filled # <<>>
           /\ Fit(blocks) => Fit(blocks \o more)
<1> DEFINE bs == blocks \o more
           p == Buffer!Filled
           n == Len(blocks)
<1>0. /\ blocks \in Seq(Block) /\ n \in Nat /\ data \in [Handles -> 0..n]
      /\ pool \in Seq(1..n) /\ PoolCount \in Nat \ {0}
  BY BufferAssumption DEF Shape
<1>1. CASE pool # <<>>
  <2>1. more = <<>> /\ p = pool
    BY <1>1 DEF Buffer!Filling, Buffer!Filled
  <2>2. bs = blocks
    BY <1>0, <2>1, ConcatEmptySeq
  <2> QED
    BY <1>1, <2>1, <2>2
<1>2. CASE pool = <<>>
  <2>1. PICK g \in [1..PoolCount -> Garbage] :
           more = [i \in 1..PoolCount |-> Buffer!NewBlock(g[i])]
    BY <1>2 DEF Buffer!Filling, Buffer!NewBlocks
  <2>2. p = [i \in 1..PoolCount |-> n + i]
    BY <1>2 DEF Buffer!Filled, Buffer!NewNumbers
  <2>3. ASSUME NEW i \in 1..PoolCount
        PROVE  more[i] \in Block /\ more[i].refs = more[i].dirt
               /\ more[i].length <= more[i].capacity
    <3>1. more[i] = Buffer!NewBlock(g[i]) /\ g[i] \in Word
      BY <2>1, BufferAssumption DEF Word
    <3>2. AllocSize \in Word /\ 0 \in Word /\ 0 <= AllocSize
      BY BufferAssumption DEF Word
    <3> QED
      BY <3>1, <3>2 DEF Buffer!NewBlock, Block
  <2>4. more \in Seq(Block) /\ Len(more) = PoolCount
    <3>1. DOMAIN more = 1..PoolCount
      BY <2>1
    <3>2. more \in [1..PoolCount -> Block]
      BY <2>1, <2>3
    <3> QED
      BY <1>0, <3>2
  <2>5. /\ bs \in Seq(Block) /\ Len(bs) = n + PoolCount
        /\ \A i \in 1..n : bs[i] = blocks[i]
        /\ \A i \in 1..PoolCount : bs[n + i] = more[i]
    <3>1. /\ bs \in Seq(Block) /\ Len(bs) = n + PoolCount
          /\ \A i \in 1..n + PoolCount : bs[i] = IF i <= n THEN blocks[i] ELSE more[i - n]
      BY <1>0, <2>4, ConcatProperties
    <3> HIDE DEF bs
    <3>2. \A i \in 1..n : bs[i] = blocks[i]
      BY <1>0, <3>1
    <3>3. ASSUME NEW i \in 1..PoolCount
          PROVE  bs[n + i] = more[i]
      <4>1. n + i \in 1..n + PoolCount /\ ~(n + i <= n) /\ (n + i) - n = i
        BY <1>0
      <4> QED
        BY <3>1, <4>1
    <3> QED
      BY <3>1, <3>2, <3>3
  <2>6. p \in Seq(1..Len(bs)) /\ p # <<>>
    <3>1. p \in [1..PoolCount -> 1..n + PoolCount]
      BY <1>0, <2>2
    <3>2. p \in Seq(1..n + PoolCount) /\ Len(p) = PoolCount
      BY <1>0, <3>1
    <3> HIDE DEF p, bs
    <3>3. p # <<>>
      BY <1>0, <3>2
    <3> QED
      BY <2>5, <3>2, <3>3
  <2> HIDE DEF bs, p
  <2>7. data \in [Handles -> 0..Len(bs)]
    BY <1>0, <2>5
  <2>8. ASSUME NEW b \in 1..Len(bs)
        PROVE  \/ b \in 1..n /\ bs[b] = blocks[b]
               \/ \E i \in 1..PoolCount : b = n + i /\ bs[b] = more[i] /\ Users(data, b) = {}
    <3>1. CASE b <= n
      BY <1>0, <2>5, <3>1
    <3>2. CASE ~(b <= n)
      <4>1. b - n \in 1..PoolCount /\ b = n + (b - n)
        BY <1>0, <2>5, <3>2
      <4>2. bs[b] = more[b - n]
        BY <2>5, <4>1
      <4>3. Users(data, b) = {}
        BY <1>0, <3>2 DEF Users
      <4> QED
        BY <4>1, <4>2, <4>3
    <3> QED
      BY <3>1, <3>2
  <2>9. ASSUME NEW b \in 1..Len(bs)
        PROVE  bs[b].refs = (bs[b].dirt + Cardinality(Users(data, b))) % Modulus
    <3>1. CASE b \in 1..n /\ bs[b] = blocks[b]
      BY <3>1 DEF Shape
    <3>2. ASSUME NEW i \in 1..PoolCount, bs[b] = more[i], Users(data, b) = {}
          PROVE  bs[b].refs = (bs[b].dirt + Cardinality(Users(data, b))) % Modulus
      <4>1. more[i].dirt \in Word /\ more[i].refs = more[i].dirt
        BY <2>3 DEF Block
      <4>2. more[i].dirt + 0 = more[i].dirt
        BY <4>1, BufferAssumption DEF Word
      <4>3. more[i].dirt % Modulus = more[i].dirt
        BY <4>1, BufferAssumption, Small DEF Word
      <4>4. Cardinality(Users(data, b)) = 0
        BY <3>2, FS_EmptySet
      <4> QED
        BY <3>2, <4>1, <4>2, <4>3, <4>4
    <3> QED
      BY <2>8, <3>1, <3>2
  <2>10. ASSUME NEW b \in 1..Len(bs), bs[b].dirt = 0
         PROVE  Exact(data, p, b)
    <3>0. DOMAIN p = 1..PoolCount /\ \A i \in DOMAIN p : p[i] = n + i
      BY <2>2
    <3>1. CASE b \in 1..n /\ bs[b] = blocks[b]
      <4>1. Exact(data, pool, b)
        BY <2>10, <3>1 DEF Shape
      <4>2. ~Once(pool, b)
        BY <1>2 DEF Once
      <4>3. Users(data, b) # {}
        BY <4>1, <4>2 DEF Exact
      <4>4. Absent(p, b)
        BY <1>0, <3>0, <3>1 DEF Absent
      <4> QED
        BY <4>3, <4>4 DEF Exact
    <3>2. ASSUME NEW i \in 1..PoolCount, b = n + i, Users(data, b) = {}
          PROVE  Exact(data, p, b)
      <4>1. i \in DOMAIN p /\ p[i] = b
        BY <3>0, <3>2
      <4>2. ASSUME NEW j \in DOMAIN p, p[j] = b
            PROVE  j = i
        <5>1. p[j] = n + j /\ j \in Nat /\ i \in Nat
          BY <3>0
        <5> QED
          BY <1>0, <3>2, <4>2, <5>1
      <4> QED
        BY <3>2, <4>1, <4>2 DEF Exact, Once
    <3> QED
      BY <2>8, <3>1, <3>2
  <2>11. ASSUME Fit(blocks)
         PROVE  Fit(bs)
    <3>1. \A b \in 1..Len(bs) : bs[b].length <= bs[b].capacity
      BY <2>3, <2>8, <2>11 DEF Fit
    <3> QED
      BY <3>1 DEF Fit
  <2>12. Shape(data, bs, p)
    BY <2>5, <2>6, <2>7, <2>9, <2>10 DEF Shape
  <2> QED
    BY <2>6, <2>11, <2>12 DEF bs, p
<1> QED
  BY <1>1, <1>2

\* Allocate: the handle gets the first block of the pool, whose data fits when
\* a size that can be rounded up was asked for.
LEMMA AllocatedBlock ==
    ASSUME Shape(data, blocks, pool), NEW more \in Buffer!Filling,
           NEW h \in Handles, data[h] = 0, NEW n \in Nat, NEW len \in Word
    PROVE  LET b == Head(Buffer!Filled)
               cs == Buffer!Allocated(blocks \o more, n, len)
           IN  /\ Shape(Given(data, h, b), cs, Tail(Buffer!Filled))
               /\ cs \in Seq(Block) /\ b \in 1..Len(cs)
               /\ Fit(blocks) /\ (len = 0 \/ (len = n /\ n <= Modulus - AllocSize)) => Fit(cs)
<1> DEFINE bs == blocks \o more
           p == Buffer!Filled
           b == Head(p)
           cs == Buffer!Allocated(bs, n, len)
           y == [bs[b] EXCEPT !.length = len]
           x == Buffer!Grown(y, n)
           mid == Replaced(bs, b, x)
<1>1. Shape(data, bs, p) /\ p # <<>> /\ (Fit(blocks) => Fit(bs))
  BY FilledShape
<1>2. cs = Buffer!Referenced(mid, b)
  BY DEF Buffer!Allocated, Replaced
<1> HIDE DEF bs, p, cs, mid
<1>3. bs \in Seq(Block) /\ Len(bs) \in Nat /\ p \in Seq(1..Len(bs))
  BY <1>1 DEF Shape
<1>4. /\ b \in 1..Len(bs) /\ Tail(p) \in Seq(1..Len(bs))
      /\ Once(p, b) => Absent(Tail(p), b)
      /\ \A c : c # b => (Once(p, c) => Once(Tail(p), c))
                         /\ (Absent(p, c) => Absent(Tail(p), c))
  BY <1>1, <1>3, PoolTaken
<1> HIDE DEF b
<1>5. bs[b] \in Block
  BY <1>3, <1>4, ElementOfSeq
<1>6. y \in Block /\ y.refs = bs[b].refs /\ y.dirt = bs[b].dirt /\ y.length = len
  BY <1>5 DEF Block
<1> HIDE DEF y
<1>7. /\ x \in Block /\ x.refs = y.refs /\ x.dirt = y.dirt /\ x.length = len
      /\ n <= Modulus - AllocSize => n <= x.capacity
  BY <1>6, GrownBlock
<1> HIDE DEF x
<1>8. SameCount(x, bs[b]) /\ x.capacity \in Nat
  BY <1>6, <1>7, BufferAssumption DEF SameCount, Block, Word
<1>9. /\ mid \in Seq(Block) /\ Len(mid) = Len(bs) /\ Shape(data, mid, p)
      /\ mid[b] = x
      /\ Fit(bs) /\ x.length <= x.capacity => Fit(mid)
  BY <1>1, <1>3, <1>4, <1>7, <1>8, Changed, SameShape DEF mid
<1>10. Bumped(mid, cs, b, 1) /\ (Fit(mid) => Fit(cs))
  BY <1>2, <1>4, <1>9, ReferencedBlock
<1>11. x.dirt = 0 => Absent(Tail(p), b)
  <2> SUFFICES ASSUME x.dirt = 0 PROVE Absent(Tail(p), b)
    OBVIOUS
  <2>1. Exact(data, p, b)
    BY <1>4, <1>9 DEF Shape
  <2>2. CASE Users(data, b) = {}
    BY <1>4, <2>1, <2>2 DEF Exact
  <2>3. CASE Users(data, b) # {}
    <3>1. Absent(p, b)
      BY <2>1, <2>3 DEF Exact
    <3>2. p[1] = b /\ 1 \in DOMAIN p
      BY <1>1, <1>3 DEF b
    <3> QED
      BY <3>1, <3>2 DEF Absent
  <2> QED
    BY <2>2, <2>3
<1>12. Shape(Given(data, h, b), cs, Tail(p))
  BY <1>4, <1>9, <1>10, <1>11, Joins
<1>13. cs \in Seq(Block) /\ Len(cs) = Len(bs)
  BY <1>9, <1>10 DEF Bumped
<1>14. ASSUME Fit(blocks), len = 0 \/ (len = n /\ n <= Modulus - AllocSize)
       PROVE  Fit(cs)
  <2>1. x.length <= x.capacity
    BY <1>7, <1>8, <1>14
  <2> QED
    BY <1>1, <1>9, <1>10, <1>14, <2>1
<1> QED
  BY <1>4, <1>12, <1>13, <1>14 DEF bs, p, b, cs

-----------------------------------------------------------------------------
(* Every operation keeps the invariant.                                     *)

\* The initial pool: blocks no handle has yet.
LEMMA SoundInit == Buffer!Init => Sound
<1> SUFFICES ASSUME Buffer!Init PROVE Sound
  OBVIOUS
<1>1. /\ data = [h \in Handles |-> 0] /\ position = [h \in Handles |-> 0]
      /\ wrapped = FALSE /\ outside = FALSE
      /\ blocks \in Buffer!NewBlocks /\ pool = [i \in 1..PoolCount |-> i]
  <2>1. \A i \in 1..PoolCount : 0 + i = i
    BY BufferAssumption
  <2>2. Buffer!NewNumbers(0) = [i \in 1..PoolCount |-> i]
    BY <2>1 DEF Buffer!NewNumbers
  <2> QED
    BY <2>2 DEF Buffer!Init
<1>2. PICK g \in [1..PoolCount -> Garbage] :
        blocks = [i \in 1..PoolCount |-> Buffer!NewBlock(g[i])]
  BY <1>1 DEF Buffer!NewBlocks
<1>3. ASSUME NEW i \in 1..PoolCount
      PROVE  blocks[i] \in Block /\ blocks[i].refs = blocks[i].dirt
             /\ blocks[i].length <= blocks[i].capacity
  <2>1. blocks[i] = Buffer!NewBlock(g[i]) /\ g[i] \in Word
    BY <1>2, BufferAssumption DEF Word
  <2>2. AllocSize \in Word /\ 0 \in Word /\ 0 <= AllocSize
    BY BufferAssumption DEF Word
  <2> QED
    BY <2>1, <2>2 DEF Buffer!NewBlock, Block
<1>4. blocks \in Seq(Block) /\ Len(blocks) = PoolCount
  <2>1. PoolCount \in Nat /\ DOMAIN blocks = 1..PoolCount
    BY <1>2, BufferAssumption
  <2>2. blocks \in [1..PoolCount -> Block]
    BY <1>2, <1>3
  <2> QED
    BY <2>1, <2>2
<1>5. data \in [Handles -> 0..Len(blocks)] /\ position \in [Handles -> Word]
  BY <1>1, <1>4, BufferAssumption DEF Word
<1>6. pool \in Seq(1..Len(blocks)) /\ DOMAIN pool = 1..Len(blocks)
  <2>1. PoolCount \in Nat /\ pool \in [1..PoolCount -> 1..PoolCount]
    BY <1>1, BufferAssumption
  <2> QED
    BY <1>4, <2>1
<1>7. \A b \in 1..Len(blocks) : Users(data, b) = {}
  BY <1>1 DEF Users
<1>8. ASSUME NEW b \in 1..Len(blocks)
      PROVE  blocks[b].refs = (blocks[b].dirt + Cardinality(Users(data, b))) % Modulus
  <2>1. blocks[b].dirt \in Word /\ blocks[b].refs = blocks[b].dirt
    BY <1>3, <1>4 DEF Block
  <2>2. blocks[b].dirt + 0 = blocks[b].dirt
    BY <2>1, BufferAssumption DEF Word
  <2>3. blocks[b].dirt % Modulus = blocks[b].dirt
    BY <2>1, BufferAssumption, Small DEF Word
  <2>4. Cardinality(Users(data, b)) = 0
    BY <1>7, FS_EmptySet
  <2> QED
    BY <2>1, <2>2, <2>3, <2>4
<1>9. \A b \in 1..Len(blocks) : Exact(data, pool, b)
  BY <1>1, <1>4, <1>6, <1>7 DEF Exact, Once
<1>10. Fit(blocks)
  BY <1>3, <1>4 DEF Fit
<1>11. Shape(data, blocks, pool)
  BY <1>4, <1>5, <1>6, <1>8, <1>9 DEF Shape
<1> QED
  BY <1>1, <1>5, <1>10, <1>11 DEF Sound

\* The constructors without another buffer.
LEMMA ConstructStep ==
    ASSUME Sound, NEW h \in Handles, Buffer!Construct(h)
    PROVE  Sound'
<1>1. PICK n \in Nat, len \in Word :
        /\ Buffer!Allocate(h, n, len)
        /\ len = 0 \/ (len = n /\ n <= Modulus - AllocSize)
  <2>1. CASE Buffer!Allocate(h, AllocSize, 0)
    <3>1. AllocSize \in Nat /\ 0 \in Word
      BY BufferAssumption DEF Word
    <3> QED
      BY <2>1, <3>1
  <2>2. ASSUME NEW n \in Sizes, Buffer!Allocate(h, n, n)
        PROVE  \E m \in Nat, len \in Word :
                 /\ Buffer!Allocate(h, m, len)
                 /\ len = 0 \/ (len = m /\ m <= Modulus - AllocSize)
    <3>1. n \in Nat /\ n \in Word /\ n <= Modulus - AllocSize
      BY BufferAssumption DEF Word
    <3> QED
      BY <2>2, <3>1
  <2> QED
    BY <2>1, <2>2 DEF Buffer!Construct
<1>2. PICK more \in Buffer!Filling :
        /\ blocks' = Buffer!Allocated(blocks \o more, n, len)
        /\ data' = [data EXCEPT ![h] = Head(Buffer!Filled)]
        /\ pool' = Tail(Buffer!Filled)
  BY <1>1 DEF Buffer!Allocate
<1>3. data[h] = 0 /\ Shape(data, blocks, pool)
  BY DEF Buffer!Construct, Buffer!Live, Sound
<1>4. data' = Given(data, h, Head(Buffer!Filled))
  BY <1>2 DEF Given
<1>5. Shape(data', blocks', pool') /\ (Fit(blocks) => Fit(blocks'))
  <2> DEFINE b == Head(Buffer!Filled)
             cs == Buffer!Allocated(blocks \o more, n, len)
  <2>1. Shape(Given(data, h, b), cs, Tail(Buffer!Filled)) /\ (Fit(blocks) => Fit(cs))
    BY <1>1, <1>3, AllocatedBlock
  <2> HIDE DEF b, cs
  <2>2. data' = Given(data, h, b) /\ blocks' = cs
    BY <1>2, <1>4 DEF b, cs
  <2> QED
    BY <1>2, <2>1, <2>2
<1>6. position' \in [Handles -> Word] /\ UNCHANGED <<wrapped, outside>>
  BY BufferAssumption DEF Buffer!Construct, Sound, Word
<1> QED
  BY <1>5, <1>6 DEF Sound

\* The copy constructors.
LEMMA CopyStep ==
    ASSUME Sound, NEW h \in Handles, NEW g \in Handles, Buffer!Copy(h, g)
    PROVE  Sound'
<1> DEFINE b == data[g]
<1>1. /\ Shape(data, blocks, pool) /\ data[h] = 0 /\ b # 0
      /\ blocks' = Buffer!Referenced(blocks, b) /\ data' = Given(data, h, b)
      /\ UNCHANGED <<pool, wrapped, outside>>
  BY DEF Buffer!Copy, Buffer!Live, Sound, Given
<1>2. /\ blocks \in Seq(Block) /\ Len(blocks) \in Nat /\ pool \in Seq(1..Len(blocks))
      /\ b \in 1..Len(blocks) /\ g \in Users(data, b)
  BY <1>1 DEF Shape, Users
<1> HIDE DEF b
<1>3. Bumped(blocks, blocks', b, 1) /\ (Fit(blocks) => Fit(blocks'))
  BY <1>1, <1>2, ReferencedBlock
<1>4. blocks[b].dirt = 0 => Absent(pool, b)
  BY <1>1, <1>2 DEF Shape, Exact
<1>5. Shape(data', blocks', pool)
  BY <1>1, <1>2, <1>3, <1>4, Joins
<1>6. position' \in [Handles -> Word]
  BY BufferAssumption DEF Buffer!Copy, Sound, Word
<1> QED
  BY <1>1, <1>3, <1>5, <1>6 DEF Sound

\* The destructor.
LEMMA DestroyStep ==
    ASSUME Sound, NEW h \in Handles, Buffer!Destroy(h)
    PROVE  Sound'
<1> DEFINE b == data[h]
<1>1. /\ Shape(data, blocks, pool) /\ b # 0
      /\ Buffer!Released(blocks, b) /\ data' = Given(data, h, 0)
      /\ UNCHANGED <<position, wrapped, outside>>
  BY DEF Buffer!Destroy, Buffer!Live, Sound, Given
<1>2. blocks \in Seq(Block) /\ b \in 1..Len(blocks)
  BY <1>1 DEF Shape
<1>3. /\ Bumped(blocks, blocks', b, -1) /\ (Fit(blocks) => Fit(blocks'))
      /\ pool' = IF blocks[b].refs = 1 THEN Append(pool, b) ELSE pool
  BY <1>1, <1>2, ReleasedBlock
<1>4. Shape(data', blocks', pool')
  BY <1>1, <1>3, Leaves
<1> QED
  BY <1>1, <1>3, <1>4 DEF Sound

\* operator = with a handle of the same block: the count is what it was, and
\* the block is not freed.
LEMMA AssignSame ==
    ASSUME Sound, NEW h \in Handles, NEW g \in Handles, Buffer!Assign(h, g),
           data[g] = data[h]
    PROVE  Shape(data, blocks', pool') /\ (Fit(blocks) => Fit(blocks')) /\ data' = data
<1> DEFINE b == data[h]
           mid == Buffer!Referenced(blocks, b)
<1>1. /\ Shape(data, blocks, pool) /\ b # 0 /\ Buffer!Released(mid, b)
      /\ data' = [data EXCEPT ![h] = b]
  BY DEF Buffer!Assign, Buffer!Live, Sound
<1>2. /\ blocks \in Seq(Block) /\ b \in 1..Len(blocks) /\ data \in [Handles -> 0..Len(blocks)]
      /\ pool \in Seq(1..Len(blocks)) /\ Len(blocks) \in Nat
  BY <1>1 DEF Shape
<1>3. data' = data /\ h \in Users(data, b)
  BY <1>1, <1>2 DEF Users
<1>4. Bumped(blocks, mid, b, 1) /\ (Fit(blocks) => Fit(mid))
  BY <1>2, ReferencedBlock
<1> HIDE DEF mid, b
<1>5. mid \in Seq(Block) /\ Len(mid) = Len(blocks)
  BY <1>4 DEF Bumped
<1>6. /\ Bumped(mid, blocks', b, -1) /\ (Fit(mid) => Fit(blocks'))
      /\ pool' = IF mid[b].refs = 1 THEN Append(pool, b) ELSE pool
  BY <1>1, <1>2, <1>5, ReleasedBlock
<1>7. blocks' \in Seq(Block) /\ Len(blocks') = Len(blocks)
  BY <1>5, <1>6 DEF Bumped
<1>8. ASSUME NEW c \in 1..Len(blocks)
      PROVE  blocks'[c].dirt = blocks[c].dirt /\ blocks'[c].refs = blocks[c].refs
  <2>1. blocks'[c].dirt = blocks[c].dirt
    BY <1>4, <1>5, <1>6 DEF Bumped
  <2>2. CASE c # b
    BY <1>4, <1>5, <1>6, <2>1, <2>2 DEF Bumped
  <2>3. CASE c = b
    <3> DEFINE r == blocks[b].refs
               x == r + 1
    <3>1. mid[b].refs = x % Modulus
      BY <1>2, <1>4 DEF Bumped
    <3>2. blocks'[b].refs = (mid[b].refs + (-1)) % Modulus
      BY <1>2, <1>5, <1>6 DEF Bumped
    <3>3. blocks[b] \in Block
      BY <1>2, ElementOfSeq
    <3>4. r \in Word
      BY <3>3 DEF Block
    <3>5. x \in Int /\ x + (-1) = r /\ r % Modulus = r
      <4> HIDE DEF r
      <4>1. r \in Int /\ r \in 0..Modulus - 1 /\ Modulus \in Nat \ {0}
        BY <3>4, BufferAssumption DEF Word
      <4>2. r % Modulus = r
        BY <4>1, Small
      <4> QED
        BY <4>1, <4>2
    <3> HIDE DEF x, r
    <3>6. ((x % Modulus) + (-1)) % Modulus = (x + (-1)) % Modulus
      BY <3>5, CountMoved
    <3>7. blocks'[b].refs = r
      BY <3>1, <3>2, <3>5, <3>6
    <3> QED
      BY <2>1, <2>3, <3>7 DEF r
  <2> QED
    BY <2>2, <2>3
<1>9. blocks[b].dirt = 0 => pool' = pool
  <2> SUFFICES ASSUME blocks[b].dirt = 0 PROVE mid[b].refs # 1
    BY <1>6
  <2> DEFINE u == Cardinality(Users(data, b))
  <2>1. u \in Word /\ u # 0
    BY <1>3, UsersBound
  <2>2. blocks[b].refs = (0 + u) % Modulus
    BY <1>1, <1>2 DEF Shape
  <2>3. mid[b].refs = (blocks[b].refs + 1) % Modulus
    BY <1>2, <1>4 DEF Bumped
  <2> HIDE DEF u
  <2>4. 0 + u = u /\ u % Modulus = u
    BY <2>1, BufferAssumption, Small DEF Word
  <2>5. mid[b].refs = (u + 1) % Modulus
    BY <2>2, <2>3, <2>4
  <2>6. CASE u + 1 \in 0..Modulus - 1
    <3>1. (u + 1) % Modulus = u + 1
      BY <2>6, BufferAssumption, Small
    <3> QED
      BY <2>1, <2>5, <3>1, BufferAssumption DEF Word
  <2>7. CASE u + 1 = Modulus
    <3>1. (1 * Modulus) + 0 = Modulus /\ 0 \in 0..Modulus - 1 /\ Modulus \in Int
      BY BufferAssumption
    <3>2. Modulus % Modulus = 0
      BY <3>1, BufferAssumption, Remainder
    <3> QED
      BY <2>5, <2>7, <3>2
  <2> QED
    BY <2>1, <2>6, <2>7, BufferAssumption DEF Word
<1>10. pool' \in Seq(1..Len(blocks'))
  <2>1. Append(pool, b) \in Seq(1..Len(blocks))
    BY <1>2
  <2> QED
    BY <1>2, <1>6, <1>7, <2>1
<1>11. ASSUME NEW c \in 1..Len(blocks), blocks[c].dirt = 0
       PROVE  Exact(data, pool', c)
  <2>1. Exact(data, pool, c)
    BY <1>1, <1>11 DEF Shape
  <2>2. CASE pool' = pool
    BY <2>1, <2>2
  <2>3. CASE pool' = Append(pool, b) /\ c # b
    <3>1. (Once(pool, c) => Once(pool', c)) /\ (Absent(pool, c) => Absent(pool', c))
      BY <1>2, <2>3, PoolAppended
    <3> QED
      BY <2>1, <3>1 DEF Exact
  <2> QED
    BY <1>6, <1>9, <1>11, <2>2, <2>3
<1>12. Shape(data, blocks', pool')
  BY <1>1, <1>2, <1>7, <1>8, <1>10, <1>11 DEF Shape
<1> QED
  BY <1>3, <1>4, <1>6, <1>12

\* operator = with a handle of another block, which has a user besides.
LEMMA AssignOther ==
    ASSUME Sound, NEW h \in Handles, NEW g \in Handles, Buffer!Assign(h, g),
           data[g] # data[h]
    PROVE  Shape(data', blocks', pool') /\ (Fit(blocks) => Fit(blocks'))
<1> DEFINE b == data[h]
           c == data[g]
           mid == Buffer!Referenced(blocks, c)
           n == (blocks[b].refs + (-1)) % Modulus
           ns == Replaced(blocks, b, Recounted(blocks[b], n))
           d == Given(data, h, 0)
<1>1. /\ Shape(data, blocks, pool) /\ b # 0 /\ c # 0 /\ Buffer!Released(mid, b)
      /\ data' = [data EXCEPT ![h] = c]
  BY DEF Buffer!Assign, Buffer!Live, Sound
<1>2. /\ blocks \in Seq(Block) /\ b \in 1..Len(blocks) /\ c \in 1..Len(blocks)
      /\ data \in [Handles -> 0..Len(blocks)] /\ Len(blocks) \in Nat
      /\ pool \in Seq(1..Len(blocks))
  BY <1>1 DEF Shape
<1>3. data' = Given(d, h, c) /\ d[h] = 0 /\ g \in Users(d, c)
  BY <1>1, <1>2 DEF Given, Users
<1>4. Bumped(blocks, mid, c, 1) /\ (Fit(blocks) => Fit(mid))
  BY <1>2, ReferencedBlock
<1> HIDE DEF mid
<1>5. mid \in Seq(Block) /\ Len(mid) = Len(blocks)
  BY <1>4 DEF Bumped
<1>6. /\ Bumped(mid, blocks', b, -1) /\ (Fit(mid) => Fit(blocks'))
      /\ pool' = IF mid[b].refs = 1 THEN Append(pool, b) ELSE pool
  BY <1>1, <1>2, <1>5, ReleasedBlock
<1>7. n \in Word
  <2>1. blocks[b] \in Block
    BY <1>2, ElementOfSeq
  <2>2. blocks[b].refs + (-1) \in Int /\ Modulus \in Nat \ {0}
    BY <2>1, BufferAssumption DEF Block, Word
  <2> QED
    BY <2>2, Division DEF Word
<1>8. /\ ns \in Seq(Block) /\ Len(ns) = Len(blocks)
      /\ \A i \in 1..Len(blocks) : ns[i].dirt = blocks[i].dirt
      /\ \A i \in 1..Len(blocks) : i # b => ns[i].refs = blocks[i].refs
      /\ ns[b].refs = n
  <2> HIDE DEF n, b
  <2> QED
    BY <1>2, <1>7, CountChanged
<1> HIDE DEF ns
<1>9. Bumped(blocks, ns, b, -1)
  <2> HIDE DEF b
  <2> QED
    BY <1>8 DEF Bumped
<1>10. mid[b].refs = blocks[b].refs
  BY <1>2, <1>4 DEF Bumped
<1>11. Shape(d, ns, pool')
  <2>1. Shape(d, ns, IF blocks[b].refs = 1 THEN Append(pool, b) ELSE pool)
    BY <1>1, <1>9, Leaves
  <2> HIDE DEF b, d
  <2> QED
    BY <2>1, <1>6, <1>10
<1> HIDE DEF d, c
<1>12. Bumped(ns, blocks', c, 1)
  <2>1. blocks' \in Seq(Block) /\ Len(blocks') = Len(ns)
    BY <1>5, <1>6, <1>8 DEF Bumped
  <2>2. ASSUME NEW i \in 1..Len(ns)
        PROVE  blocks'[i].dirt = ns[i].dirt
    BY <1>4, <1>5, <1>6, <1>8 DEF Bumped
  <2>3. b # c
    BY DEF c
  <2> HIDE DEF b, n
  <2>4. ASSUME NEW i \in 1..Len(ns)
        PROVE  blocks'[i].refs = IF i = c THEN (ns[i].refs + 1) % Modulus ELSE ns[i].refs
    <3>1. i \in 1..Len(blocks) /\ i \in 1..Len(mid)
      BY <1>5, <1>8
    <3>2. CASE i = b
      <4>1. blocks'[b].refs = (mid[b].refs + (-1)) % Modulus
        BY <1>6, <3>1, <3>2 DEF Bumped
      <4>2. blocks'[b].refs = n
        BY <1>10, <4>1 DEF n
      <4> QED
        BY <1>8, <2>3, <3>2, <4>2
    <3>3. CASE i = c
      <4>1. blocks'[c].refs = mid[c].refs
        BY <1>6, <2>3, <3>1, <3>3 DEF Bumped
      <4>2. mid[c].refs = (blocks[c].refs + 1) % Modulus
        BY <1>4, <3>1, <3>3 DEF Bumped
      <4>3. ns[c].refs = blocks[c].refs
        BY <1>8, <2>3, <3>1, <3>3
      <4> QED
        BY <3>3, <4>1, <4>2, <4>3
    <3>4. CASE i # b /\ i # c
      <4>1. blocks'[i].refs = mid[i].refs
        BY <1>6, <3>1, <3>4 DEF Bumped
      <4>2. mid[i].refs = blocks[i].refs
        BY <1>4, <3>1, <3>4 DEF Bumped
      <4>3. ns[i].refs = blocks[i].refs
        BY <1>8, <3>1, <3>4
      <4> QED
        BY <3>4, <4>1, <4>2, <4>3
    <3> QED
      BY <3>2, <3>3, <3>4
  <2> QED
    BY <2>1, <2>2, <2>4 DEF Bumped
<1>13. pool' \in Seq(1..Len(ns))
  BY <1>11 DEF Shape
<1>14. ns[c].dirt = 0 => Absent(pool', c)
  BY <1>2, <1>3, <1>8, <1>11 DEF Shape, Exact
<1>15. Shape(data', blocks', pool')
  BY <1>2, <1>3, <1>8, <1>11, <1>12, <1>13, <1>14, Joins
<1> QED
  BY <1>4, <1>6, <1>15

\* operator =.
LEMMA AssignStep ==
    ASSUME Sound, NEW h \in Handles, NEW g \in Handles, Buffer!Assign(h, g)
    PROVE  Sound'
<1>1. Shape(data', blocks', pool') /\ (Fit(blocks) => Fit(blocks'))
  <2>1. CASE data[g] = data[h]
    BY <2>1, AssignSame
  <2>2. CASE data[g] # data[h]
    BY <2>2, AssignOther
  <2> QED
    BY <2>1, <2>2
<1>2. UNCHANGED <<position, wrapped, outside>>
  BY DEF Buffer!Assign
<1> QED
  BY <1>1, <1>2 DEF Sound

\* A step that changes the data and memory of block b, and nothing of its count.
LEMMA DataChanged ==
    ASSUME Sound, NEW b \in 1..Len(blocks), NEW x \in Block, SameCount(x, blocks[b]),
           blocks' = Replaced(blocks, b, x), UNCHANGED <<data, pool>>,
           ~wrapped' => ~wrapped /\ x.length <= x.capacity
    PROVE  Shape(data', blocks', pool') /\ (~wrapped' => Fit(blocks'))
<1>1. Shape(data, blocks, pool) /\ (~wrapped => Fit(blocks)) /\ blocks \in Seq(Block)
  BY DEF Sound, Shape
<1>2. Shape(data, Replaced(blocks, b, x), pool)
  BY <1>1, SameShape
<1>3. Fit(blocks) /\ x.length <= x.capacity => Fit(Replaced(blocks, b, x))
  BY <1>1, Changed
<1> QED
  BY <1>1, <1>2, <1>3

\* A handle that has a block has one of the blocks.
LEMMA BlockOf ==
    ASSUME Sound, NEW h \in Handles, data[h] # 0
    PROVE  data[h] \in 1..Len(blocks) /\ blocks[data[h]] \in Block
<1>1. blocks \in Seq(Block) /\ data[h] \in 1..Len(blocks)
  BY DEF Sound, Shape
<1> QED
  BY <1>1, ElementOfSeq

\* Append and operator +=.
LEMMA AppendStep ==
    ASSUME Sound, NEW h \in Handles, Buffer!AppendBytes(h)
    PROVE  Sound'
<1>1. PICK n \in Sizes \cup {blocks[data[g]].length : g \in {g \in Handles : Buffer!Live(g)}} :
        Buffer!AddBytes(h, n)
  BY DEF Buffer!AppendBytes
<1>2. n \in Nat
  <2>1. CASE n \in Sizes
    BY <2>1, BufferAssumption
  <2>2. ASSUME NEW g \in Handles, data[g] # 0, n = blocks[data[g]].length
        PROVE  n \in Nat
    <3>1. blocks[data[g]] \in Block
      BY <2>2, BlockOf
    <3> QED
      BY <2>2, <3>1, BufferAssumption DEF Block, Word
  <2> QED
    BY <1>1, <2>1, <2>2 DEF Buffer!Live
<1> DEFINE b == data[h]
           x == Buffer!Added(blocks[b], n)
<1>3. b \in 1..Len(blocks) /\ blocks[b] \in Block
  BY BlockOf DEF Buffer!AppendBytes, Buffer!Live
<1>4. /\ blocks' = Replaced(blocks, b, x)
      /\ wrapped' = (wrapped \/ Buffer!Wraps(blocks[b], n))
      /\ UNCHANGED <<data, pool, position, outside>>
  BY <1>1 DEF Buffer!AddBytes, Buffer!AppendBytes, Replaced
<1>5. /\ x \in Block /\ x.refs = blocks[b].refs /\ x.dirt = blocks[b].dirt
      /\ ~Buffer!Wraps(blocks[b], n) => x.length <= x.capacity
  BY <1>2, <1>3, AddedBlock
<1> HIDE DEF x, b
<1>6. SameCount(x, blocks[b])
  BY <1>5 DEF SameCount
<1>7. ~wrapped' => ~wrapped /\ x.length <= x.capacity
  BY <1>4, <1>5
<1>8. Shape(data', blocks', pool') /\ (~wrapped' => Fit(blocks'))
  BY <1>3, <1>4, <1>5, <1>6, <1>7, DataChanged
<1>9. wrapped' \in BOOLEAN /\ (outside' => wrapped')
  BY <1>4 DEF Sound
<1> QED
  BY <1>4, <1>8, <1>9 DEF Sound

\* CIOCPBufferWriter::WriteString.
LEMMA WriteStep ==
    ASSUME Sound, NEW h \in Handles, Buffer!WriteString(h)
    PROVE  Sound'
<1> DEFINE b == data[h]
           x == blocks[b]
           y == Buffer!Added(x, Buffer!ShortSize)
<1>1. PICK n \in Strings :
        /\ blocks' = [blocks EXCEPT ![b] = Buffer!Added(y, n % ShortModulus)]
        /\ wrapped' = (wrapped \/ Buffer!Wraps(x, Buffer!ShortSize)
                                \/ Buffer!Wraps(y, n % ShortModulus))
  BY DEF Buffer!WriteString
<1> DEFINE m == n % ShortModulus
           z == Buffer!Added(y, m)
<1>2. m \in Nat /\ Buffer!ShortSize \in Nat
  <2>1. n \in Int /\ ShortModulus \in Nat \ {0}
    BY BufferAssumption
  <2> QED
    BY <2>1, Division DEF Buffer!ShortSize
<1>3. b \in 1..Len(blocks) /\ x \in Block
  BY BlockOf DEF Buffer!WriteString, Buffer!Live
<1>4. blocks' = Replaced(blocks, b, z)
  BY <1>1 DEF Replaced
<1> HIDE DEF m
<1>5. y \in Block /\ y.refs = x.refs /\ y.dirt = x.dirt
  BY <1>2, <1>3, AddedBlock
<1> HIDE DEF y
<1>6. /\ z \in Block /\ z.refs = y.refs /\ z.dirt = y.dirt
      /\ ~Buffer!Wraps(y, m) => z.length <= z.capacity
  BY <1>2, <1>5, AddedBlock
<1> HIDE DEF z
<1>7. SameCount(z, x)
  BY <1>5, <1>6 DEF SameCount
<1>8. wrapped' = (wrapped \/ Buffer!Wraps(x, Buffer!ShortSize) \/ Buffer!Wraps(y, m))
  BY <1>1 DEF m, y
<1>9. UNCHANGED <<data, pool, position, outside>>
  BY DEF Buffer!WriteString
<1>10. ~wrapped' => ~wrapped /\ z.length <= z.capacity
  BY <1>6, <1>8
<1> HIDE DEF b
<1>11. Shape(data', blocks', pool') /\ (~wrapped' => Fit(blocks'))
  BY <1>3, <1>4, <1>6, <1>7, <1>9, <1>10, DataChanged
<1>12. wrapped' \in BOOLEAN /\ (outside' => wrapped')
  BY <1>8, <1>9 DEF Sound
<1> QED
  BY <1>9, <1>11, <1>12 DEF Sound

\* Reallocate.
LEMMA ResizeStep ==
    ASSUME Sound, NEW h \in Handles, Buffer!Resize(h)
    PROVE  Sound'
<1> DEFINE b == data[h]
           x == blocks[b]
<1>1. PICK n \in Sizes : blocks' = [blocks EXCEPT ![b] = [Buffer!Grown(x, n) EXCEPT !.length = n]]
  BY DEF Buffer!Resize
<1> DEFINE y == Buffer!Grown(x, n)
           z == [y EXCEPT !.length = n]
<1>2. n \in Nat /\ n \in Word /\ n <= Modulus - AllocSize
  BY BufferAssumption DEF Word
<1>3. b \in 1..Len(blocks) /\ x \in Block
  BY BlockOf DEF Buffer!Resize, Buffer!Live
<1>4. blocks' = Replaced(blocks, b, z)
  BY <1>1 DEF Replaced
<1>5. y \in Block /\ y.refs = x.refs /\ y.dirt = x.dirt /\ n <= y.capacity
  BY <1>2, <1>3, GrownBlock
<1> HIDE DEF y
<1>6. /\ z \in Block /\ z.refs = y.refs /\ z.dirt = y.dirt
      /\ z.length <= z.capacity
  BY <1>2, <1>5 DEF Block
<1> HIDE DEF z
<1>7. SameCount(z, x)
  BY <1>5, <1>6 DEF SameCount
<1>8. UNCHANGED <<data, pool, position, wrapped, outside>>
  BY DEF Buffer!Resize
<1> HIDE DEF b
<1>9. Shape(data', blocks', pool') /\ (~wrapped' => Fit(blocks'))
  BY <1>3, <1>4, <1>6, <1>7, <1>8, DataChanged
<1> QED
  BY <1>8, <1>9 DEF Sound

\* operator +: a new block, which gets the bytes of two others.
LEMMA PlusStep ==
    ASSUME Sound, NEW h \in Handles, NEW g \in Handles, NEW f \in Handles,
           Buffer!Plus(h, g, f)
    PROVE  Sound'
<1> DEFINE b == Head(Buffer!Filled)
<1>1. PICK more \in Buffer!Filling :
        LET bs == Buffer!Allocated(blocks \o more, AllocSize, 0)
            one == Buffer!Added(bs[b], bs[data[g]].length)
        IN  /\ blocks' = [bs EXCEPT ![b] = Buffer!Added(one, bs[data[f]].length)]
            /\ wrapped' = (wrapped \/ Buffer!Wraps(bs[b], bs[data[g]].length)
                              \/ Buffer!Wraps(one, bs[data[f]].length))
  BY DEF Buffer!Plus
<1> DEFINE bs == Buffer!Allocated(blocks \o more, AllocSize, 0)
           i == bs[data[g]].length
           j == bs[data[f]].length
           x == bs[b]
           y == Buffer!Added(x, i)
           z == Buffer!Added(y, j)
           d == Given(data, h, b)
           p == Tail(Buffer!Filled)
<1>2. blocks' = Replaced(bs, b, z)
      /\ wrapped' = (wrapped \/ Buffer!Wraps(x, i) \/ Buffer!Wraps(y, j))
  BY <1>1 DEF Replaced
<1>3. /\ data' = d /\ pool' = p /\ UNCHANGED outside
      /\ position' = [position EXCEPT ![h] = 0]
      /\ data[h] = 0 /\ data[g] # 0 /\ data[f] # 0
  BY DEF Buffer!Plus, Buffer!Live, Given
<1>4. data \in [Handles -> 0..Len(blocks)] /\ Shape(data, blocks, pool)
  BY DEF Sound, Shape
<1>5. Shape(d, bs, p) /\ bs \in Seq(Block) /\ b \in 1..Len(bs) /\ (Fit(blocks) => Fit(bs))
  <2>1. AllocSize \in Nat /\ 0 \in Word
    BY BufferAssumption DEF Word
  <2> QED
    BY <1>3, <1>4, <2>1, AllocatedBlock
<1>6. i \in Nat /\ j \in Nat
  <2>1. g # h /\ f # h
    BY <1>3
  <2>2. d[g] = data[g] /\ d[f] = data[f]
    BY <1>4, <2>1 DEF Given
  <2> HIDE DEF d, bs, p, b
  <2>3. data[g] \in 1..Len(bs) /\ data[f] \in 1..Len(bs)
    BY <1>3, <1>5, <2>2 DEF Shape
  <2>4. bs[data[g]] \in Block /\ bs[data[f]] \in Block
    BY <1>5, <2>3, ElementOfSeq
  <2> QED
    BY <2>4, BufferAssumption DEF Block, Word
<1> HIDE DEF i, j, d, p, bs, b
<1>7. x \in Block
  BY <1>5, ElementOfSeq
<1>8. y \in Block /\ y.refs = x.refs /\ y.dirt = x.dirt
  BY <1>6, <1>7, AddedBlock
<1> HIDE DEF y
<1>9. /\ z \in Block /\ z.refs = y.refs /\ z.dirt = y.dirt
      /\ ~Buffer!Wraps(y, j) => z.length <= z.capacity
  BY <1>6, <1>8, AddedBlock
<1> HIDE DEF z
<1>10. SameCount(z, x)
  BY <1>8, <1>9 DEF SameCount
<1>11. Shape(d, Replaced(bs, b, z), p)
  BY <1>5, <1>9, <1>10, SameShape
<1>12. Fit(bs) /\ z.length <= z.capacity => Fit(Replaced(bs, b, z))
  BY <1>5, <1>9, Changed
<1>13. ~wrapped' => Fit(blocks')
  BY <1>2, <1>5, <1>9, <1>12 DEF Sound
<1>14. Shape(data', blocks', pool')
  BY <1>2, <1>3, <1>11
<1>15. position' \in [Handles -> Word] /\ wrapped' \in BOOLEAN /\ (outside' => wrapped')
  BY <1>2, <1>3, BufferAssumption DEF Sound, Word
<1> QED
  BY <1>3, <1>13, <1>14, <1>15 DEF Sound

\* The reader: a position that does not wrap stays inside the data it was
\* tested against.
LEMMA InsideOrWrapped ==
    ASSUME NEW a \in Nat, NEW n \in Nat, a % Modulus <= n, a > n
    PROVE  a >= Modulus
<1> SUFFICES ASSUME a < Modulus PROVE FALSE
  BY BufferAssumption
<1>1. a \in 0..Modulus - 1 /\ Modulus \in Nat \ {0}
  BY BufferAssumption
<1>2. a % Modulus = a
  BY <1>1, Small
<1> QED
  BY <1>2

\* The numbers a reader uses.
LEMMA ReaderNumbers ==
    ASSUME Sound, NEW h \in Handles, data[h] # 0
    PROVE  position[h] \in Nat /\ blocks[data[h]].length \in Nat
<1>1. blocks[data[h]] \in Block
  BY BlockOf
<1> QED
  BY <1>1, BufferAssumption DEF Sound, Block, Word

\* A step of a reader changes its position and the two histories.
LEMMA ReaderStep ==
    ASSUME Sound, UNCHANGED <<data, blocks, pool>>, position' \in [Handles -> Word],
           NEW x \in BOOLEAN, NEW y \in BOOLEAN, x => y,
           outside' = (outside \/ x), wrapped' = (wrapped \/ y)
    PROVE  Sound'
<1>1. Shape(data', blocks', pool') /\ (~wrapped => Fit(blocks'))
  BY DEF Sound
<1>2. /\ wrapped' \in BOOLEAN /\ outside' \in BOOLEAN /\ (outside' => wrapped')
      /\ ~wrapped' => ~wrapped
  BY DEF Sound
<1> QED
  BY <1>1, <1>2 DEF Sound

\* Read and IgnoreBytes.
LEMMA ReadStep ==
    ASSUME Sound, NEW h \in Handles, Buffer!Read(h)
    PROVE  Sound'
<1>1. PICK n \in Sizes : Buffer!Skip(h, n)
  BY DEF Buffer!Read
<1> DEFINE a == position[h] + n
           k == blocks[data[h]].length
           x == a > k
           y == a >= Modulus
<1>2. position[h] \in Nat /\ k \in Nat
  BY ReaderNumbers DEF Buffer!Read, Buffer!Live
<1>3. a \in Nat /\ Modulus \in Nat \ {0}
  BY <1>2, BufferAssumption
<1>4. /\ a % Modulus <= k /\ position' = [position EXCEPT ![h] = a % Modulus]
      /\ outside' = (outside \/ x) /\ wrapped' = (wrapped \/ y)
      /\ UNCHANGED <<data, blocks, pool>>
  BY <1>1 DEF Buffer!Skip, Buffer!Fits
<1> HIDE DEF a, k
<1>5. x => y
  BY <1>2, <1>3, <1>4, InsideOrWrapped
<1>6. a % Modulus \in Word
  BY <1>3, Division DEF Word
<1>7. position' \in [Handles -> Word]
  BY <1>4, <1>6 DEF Sound
<1>8. x \in BOOLEAN /\ y \in BOOLEAN
  OBVIOUS
<1> HIDE DEF x, y
<1> QED
  BY <1>4, <1>5, <1>7, <1>8, ReaderStep

\* Peek.
LEMMA PeekStep ==
    ASSUME Sound, NEW h \in Handles, Buffer!Peek(h)
    PROVE  Sound'
<1>1. PICK n \in Sizes :
        /\ (position[h] + n) % Modulus <= blocks[data[h]].length
        /\ outside' = (outside \/ position[h] + n > blocks[data[h]].length)
        /\ wrapped' = (wrapped \/ position[h] + n >= Modulus)
  BY DEF Buffer!Peek, Buffer!Fits
<1> DEFINE a == position[h] + n
           k == blocks[data[h]].length
           x == a > k
           y == a >= Modulus
<1>2. position[h] \in Nat /\ k \in Nat
  BY ReaderNumbers DEF Buffer!Peek, Buffer!Live
<1>3. a \in Nat
  BY <1>2, BufferAssumption
<1>4. /\ a % Modulus <= k
      /\ outside' = (outside \/ x) /\ wrapped' = (wrapped \/ y)
  BY <1>1
<1> HIDE DEF a, k
<1>5. x => y
  BY <1>2, <1>3, <1>4, InsideOrWrapped
<1>6. position' \in [Handles -> Word] /\ UNCHANGED <<data, blocks, pool>>
  BY DEF Sound, Buffer!Peek
<1>7. x \in BOOLEAN /\ y \in BOOLEAN
  OBVIOUS
<1> HIDE DEF x, y
<1> QED
  BY <1>4, <1>5, <1>6, <1>7, ReaderStep

\* ReadString: the length first, and then the bytes it says, or none of them.
LEMMA ReadStringStep ==
    ASSUME Sound, NEW h \in Handles, Buffer!ReadString(h)
    PROVE  Sound'
<1> DEFINE k == blocks[data[h]].length
           a == position[h] + Buffer!ShortSize
           start == a % Modulus
           last(n) == IF (start + n) % Modulus <= k THEN start + n ELSE start
<1>0. PICK n \in {s % ShortModulus : s \in Strings} : \E past \in {start, last(n)} :
        /\ position' = [position EXCEPT ![h] = past % Modulus]
        /\ outside' = (outside \/ past > k \/ a > k)
        /\ wrapped' = (wrapped \/ past >= Modulus \/ a >= Modulus)
  BY DEF Buffer!ReadString
<1>1. PICK past \in {start, last(n)} :
        /\ position' = [position EXCEPT ![h] = past % Modulus]
        /\ outside' = (outside \/ past > k \/ a > k)
        /\ wrapped' = (wrapped \/ past >= Modulus \/ a >= Modulus)
  BY <1>0
<1> DEFINE x == past > k \/ a > k
           y == past >= Modulus \/ a >= Modulus
<1>2. n \in Nat /\ Modulus \in Nat \ {0}
  <2>1. PICK s \in Strings : n = s % ShortModulus
    BY <1>0
  <2>2. s \in Int /\ ShortModulus \in Nat \ {0}
    BY BufferAssumption
  <2> QED
    BY <2>1, <2>2, Division, BufferAssumption
<1>3. position[h] \in Nat /\ k \in Nat
  BY ReaderNumbers DEF Buffer!ReadString, Buffer!Live
<1>4. a \in Nat
  BY <1>3 DEF Buffer!ShortSize
<1>5. start <= k /\ UNCHANGED <<data, blocks, pool>>
  BY DEF Buffer!ReadString, Buffer!Fits
<1>6. past = start \/ (past = start + n /\ (start + n) % Modulus <= k)
  BY <1>1
<1>7. outside' = (outside \/ x) /\ wrapped' = (wrapped \/ y)
  BY <1>1
<1>8. position' = [position EXCEPT ![h] = past % Modulus]
  BY <1>1
<1> HIDE DEF k, a
<1>9. start \in Nat
  BY <1>2, <1>4, Division
<1>10. a > k => a >= Modulus
  BY <1>3, <1>4, <1>5, InsideOrWrapped
<1> HIDE DEF start
<1>11. past \in Nat
  BY <1>2, <1>6, <1>9
<1>12. past > k => past >= Modulus
  <2>1. CASE past = start
    BY <1>3, <1>5, <1>9, <2>1
  <2>2. CASE past = start + n /\ (start + n) % Modulus <= k
    BY <1>3, <1>11, <2>2, InsideOrWrapped
  <2> QED
    BY <1>6, <2>1, <2>2
<1>13. x => y
  BY <1>10, <1>12
<1>14. position' \in [Handles -> Word]
  <2>1. past % Modulus \in Word
    BY <1>2, <1>11, Division DEF Word
  <2> QED
    BY <1>8, <2>1 DEF Sound
<1>15. x \in BOOLEAN /\ y \in BOOLEAN
  OBVIOUS
<1> HIDE DEF x, y
<1> QED
  BY <1>5, <1>7, <1>13, <1>14, <1>15, ReaderStep

\* Every step keeps the invariant.
LEMMA SoundStep == Sound /\ [Buffer!Next]_Buffer!vars => Sound'
<1> SUFFICES ASSUME Sound, [Buffer!Next]_Buffer!vars PROVE Sound'
  OBVIOUS
<1>1. CASE UNCHANGED Buffer!vars
  BY <1>1 DEF Buffer!vars, Sound
<1>2. ASSUME NEW h \in Handles, NEW g \in Handles, NEW f \in Handles, Buffer!Plus(h, g, f)
      PROVE  Sound'
  BY <1>2, PlusStep
<1>3. ASSUME NEW h \in Handles, NEW g \in Handles, Buffer!Copy(h, g) \/ Buffer!Assign(h, g)
      PROVE  Sound'
  BY <1>3, CopyStep, AssignStep
<1>4. ASSUME NEW h \in Handles,
             \/ Buffer!Construct(h) \/ Buffer!Destroy(h) \/ Buffer!AppendBytes(h)
             \/ Buffer!Resize(h) \/ Buffer!Read(h) \/ Buffer!Peek(h)
             \/ Buffer!ReadString(h) \/ Buffer!WriteString(h)
      PROVE  Sound'
  BY <1>4, ConstructStep, DestroyStep, AppendStep, ResizeStep, ReadStep, PeekStep,
     ReadStringStep, WriteStep
<1> QED
  BY <1>1, <1>2, <1>3, <1>4 DEF Buffer!Next

\* The invariant says what BuffersAreSound says.
LEMMA SoundMeans == Sound => BuffersAreSound
<1> SUFFICES ASSUME Sound PROVE Buffer!BuffersAreSound
  BY DEF BuffersAreSound
<1> DEFINE n == Len(blocks)
<1>1. /\ blocks \in Seq(Block) /\ n \in Nat /\ DOMAIN blocks = 1..n
      /\ data \in [Handles -> 0..n] /\ pool \in Seq(1..n)
  BY DEF Sound, Shape
<1>2. \A b : Buffer!UsersOf(b) = Users(data, b)
  BY DEF Buffer!UsersOf, Users
<1>3. ASSUME NEW b \in DOMAIN blocks
      PROVE  /\ blocks[b].refs = (blocks[b].dirt + Buffer!Cardinality(Buffer!UsersOf(b))) % Modulus
             /\ {blocks[b].length, blocks[b].capacity} \subseteq 0..Modulus - 1
  <2>1. blocks[b] \in Block
    BY <1>1, ElementOfSeq
  <2>2. {blocks[b].length, blocks[b].capacity} \subseteq 0..Modulus - 1
    BY <2>1 DEF Block, Word
  <2>3. blocks[b].refs = (blocks[b].dirt + Cardinality(Users(data, b))) % Modulus
    BY <1>1 DEF Sound, Shape
  <2> QED
    BY <1>2, <2>2, <2>3, SameCardinality
<1>4. Buffer!ToSet(pool) \subseteq DOMAIN blocks
  BY <1>1 DEF Buffer!ToSet
<1>5. Buffer!TypeOK
  BY <1>1, <1>3, <1>4 DEF Buffer!TypeOK, Sound, Word
<1>6. ASSUME NEW b \in DOMAIN blocks, blocks[b].dirt = 0
      PROVE  Buffer!Cardinality(Buffer!Entries(b)) = IF Buffer!UsersOf(b) = {} THEN 1 ELSE 0
  <2>1. Exact(data, pool, b)
    BY <1>1, <1>6 DEF Sound, Shape
  <2>2. CASE Users(data, b) = {}
    <3>1. PICK i \in DOMAIN pool : pool[i] = b /\ \A j \in DOMAIN pool : pool[j] = b => j = i
      BY <2>1, <2>2 DEF Exact, Once
    <3>2. Buffer!Entries(b) = {i}
      BY <3>1 DEF Buffer!Entries
    <3> QED
      BY <1>2, <2>2, <3>2, FS_Singleton, SameCardinality
  <2>3. CASE Users(data, b) # {}
    <3>1. Buffer!Entries(b) = {}
      BY <2>1, <2>3 DEF Exact, Absent, Buffer!Entries
    <3> QED
      BY <1>2, <2>3, <3>1, FS_EmptySet, SameCardinality
  <2> QED
    BY <2>2, <2>3
<1>7. Buffer!CleanBlocksAreExact
  BY <1>6 DEF Buffer!CleanBlocksAreExact
<1>8. Buffer!DataFits /\ Buffer!ReadsStayInside
  BY <1>1 DEF Buffer!DataFits, Buffer!ReadsStayInside, Sound, Fit
<1> QED
  BY <1>5, <1>7, <1>8 DEF Buffer!BuffersAreSound

\* The count of a block is what it started with plus its handles; a block whose
\* count started at zero is in the pool once while it has no handle, and not
\* while it has one; data lies inside its memory, and a read inside the data,
\* until a sum of lengths or positions exceeds a DWORD.
THEOREM BuffersHold == Buffer!Spec => []BuffersAreSound
<1>1. Buffer!Init => Sound
  BY SoundInit
<1>2. Sound /\ [Buffer!Next]_Buffer!vars => Sound'
  BY SoundStep
<1>3. Sound => BuffersAreSound
  BY SoundMeans
<1> QED
  BY <1>1, <1>2, <1>3, PTL DEF Buffer!Spec

-----------------------------------------------------------------------------
(* The specification of the run.                                            *)

\* A step of it is a step of each instance, or leaves that instance alone.
LEMMA PipelineSteps ==
    ASSUME [MCNext]_MCVars
    PROVE  [Next]_vars /\ [Race!Next]_(Race!vars) /\ [Buffer!Next]_(Buffer!vars)
<1>1. UNCHANGED raceVars => UNCHANGED Race!vars
  BY DEF raceVars, Race!vars, Race!lists, Race!history, Race!control
<1>2. UNCHANGED bufferVars => UNCHANGED Buffer!vars
  BY DEF bufferVars, Buffer!vars
<1>3. Race!Next \/ UNCHANGED raceVars
  BY DEF MCNext, MCVars
<1>4. Buffer!Next \/ UNCHANGED bufferVars
  BY DEF MCNext, MCVars
<1>5. Next \/ UNCHANGED vars
  BY DEF MCNext, MCVars
<1> QED BY <1>1, <1>2, <1>3, <1>4, <1>5

\* What the run checks of the send path with one worker, of the race and of the shared
\* buffers, for every value of the constants and whichever a behaviour is about.
THEOREM PipelineHolds ==
    ASSUME Lonely, Workers # {}
    PROVE  MCSpec => /\ [](SendsAreOrderly /\ RaceNothingForgotten /\ BuffersAreSound)
                     /\ ImplementsPipe
<1>1. MCInit => Init /\ Race!Init /\ Buffer!Init
  BY DEF MCInit
<1>2. [MCNext]_MCVars => [Next]_vars /\ [Race!Next]_(Race!vars) /\ [Buffer!Next]_(Buffer!vars)
  BY PipelineSteps
<1>3. MCSpec => Spec /\ Race!Spec /\ Buffer!Spec
  BY <1>1, <1>2, PTL DEF MCSpec, Spec, Race!Spec, Buffer!Spec
<1>4. (Spec => []SendsAreOrderly) /\ (Spec => ImplementsPipe)
  BY SendsStayOrderly, PipeIsImplemented
<1> QED BY <1>3, <1>4, RaceIsNotForgotten, BuffersHold, PTL

=============================================================================
